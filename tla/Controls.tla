------------------------------ MODULE Controls ------------------------------
(***************************************************************************)
(* The switches and numbers beside water heating (switch.py, number.py),   *)
(* in three groups that share nothing but the client:                      *)
(*   wellness  the switches of the shower programs, of which each shows    *)
(*             what two values of the device say together                  *)
(*   timer     a timer of the app: its switch, its duration and the        *)
(*             button that resets it                                       *)
(*   bath      the volume to fill, the switch that starts filling, and     *)
(*             what the client reckons is left                             *)
(* `group' chooses one.  Each control shows what the client reports and    *)
(* what its own command had confirmed; some commands and some reports also *)
(* make the client assume what the device has not said.                    *)
(*                                                                         *)
(* What interleaves: commands of several users, each write under its own   *)
(* hold of the command lock, reports, changes at the device, losses of the *)
(* session and the end of the grace period.  Booleans are 0 and 1, minutes *)
(* and litres small numbers.  The write future, its readback and the retry *)
(* are the subject of DHECommands.                                         *)
(***************************************************************************)
EXTENDS DeviceLink

CONSTANTS
  Groups,         \* the groups to look at
  Amounts,        \* minutes a timer, litres a bath can be set to
  DefaultMinutes  \* TIMER_DEFAULT_DURATIONS

Programs == {1, 2}
Bits == {0, 1}

ASSUME ControlsAssumption ==
  /\ Groups \subseteq {"wellness", "timer", "bath"}
  /\ Amounts \subseteq Nat \ {0} /\ DefaultMinutes \in Nat
  /\ Nil \notin {"running", "duration", "target", "filling"}

VARIABLES
  group,
  unit,      \* the values in the device
  known,     \* _last_measurements of the group, Nil before the first value
  shown,     \* the controls: value and availability
  said       \* history: what the device has last said of each field

controlVars == <<group, unit, known, shown, said, linkVars>>

\* What the device knows of a group, and the values a field can have.  "reset"
\* is no field: its report is the echo of the command that resets a timer.
Fields ==
  CASE group = "wellness" -> {"program", "active"}
    [] group = "timer"    -> {"running", "duration", "remaining"}
    [] group = "bath"     -> {"target", "filled", "filling"}

FieldValues(i) ==
  CASE i = "program" -> Programs \cup {0}
    [] i \in {"active", "running", "filling"} -> Bits
    [] i \in {"duration", "target"} -> Amounts
    [] i \in {"remaining", "filled"} -> Amounts \cup {0}

Controls ==
  CASE group = "wellness" -> Programs
    [] group = "timer"    -> {"running", "duration"}
    [] group = "bath"     -> {"target", "filling"}

\* A job has the control that shows its result, if any, and that result; the
\* writes that are left; and what the device has confirmed.
Write(i, v) == [field |-> i, value |-> v]
Writing(u) == Head(job[u].todo)

-----------------------------------------------------------------------------
\* What the values of the group say of a control.

\* wellness_program_switch_state: without a known activity, the program counts.
ProgramOn(p, k) ==
  IF k["program"] # Nil /\ k["active"] # 0 /\ k["program"] = p THEN 1 ELSE 0

\* The value of a control, Nil when the client has none.
Implied(c, k) == IF group = "wellness" THEN ProgramOn(c, k) ELSE k[c]

FieldsOf(c) == IF group = "wellness" THEN {"program", "active"} ELSE {c}

\* _configured_timer_duration_minutes, _app_timer_duration_minutes
Configured(k) == IF k["duration"] = Nil THEN DefaultMinutes ELSE k["duration"]

\* _refresh_bath_fill_remaining
Left(k) ==
  IF k["target"] # Nil /\ k["filled"] # Nil
  THEN IF k["target"] > k["filled"] THEN k["target"] - k["filled"] ELSE 0
  ELSE k["left"]

\* Everything a report makes the client know: a duration counts as the time
\* that remains, and a reset as the whole duration (_handle_app_timer_value,
\* _handle_app_timer_reset, _handle_odb_value).
Meaning(r) ==
  IF "reset" \in DOMAIN r
  THEN [i \in {"remaining", "running"} |-> IF i = "running" THEN 0 ELSE Configured(known)]
  ELSE [i \in DOMAIN r \cup (IF "duration" \in DOMAIN r THEN {"remaining"} ELSE {}) |->
           IF i \in DOMAIN r THEN r[i] ELSE r["duration"]]

Updated(k, m) == [i \in DOMAIN k |-> IF i \in DOMAIN m THEN m[i] ELSE k[i]]

\* The controls hear of what is new, and of what was asked for in any case.
News(k, m, asked) == {i \in DOMAIN m : k[i] # m[i] \/ asked}

\* With what is left of a bath.
Learned(k, r) ==
  LET new == Updated(k, Meaning(r))
  IN IF group = "bath" THEN [new EXCEPT !["left"] = Left(new)] ELSE new

-----------------------------------------------------------------------------
\* What the controls make of values and of availability.

\* Mutant: a program switch looks at the activity only when the program is told.
ProgramHear(told, k) ==
  [c \in Controls |->
     IF FieldsOf(c) \cap (told \ {"active"}) = {} THEN shown[c]
     ELSE [value |-> Implied(c, k), available |-> live /\ Implied(c, k) # Nil]]
\* _handle_measurement_update of the switches and numbers: a program switch
\* looks at both values when either is reported.
Hear(told, k) ==
  [c \in Controls |->
     IF FieldsOf(c) \cap told = {} THEN shown[c]
     ELSE [value |-> Implied(c, k), available |-> live /\ Implied(c, k) # Nil]]

\* _handle_availability_update
HearLive(now) ==
  shown' = [c \in Controls |-> [shown[c] EXCEPT !.available = now /\ shown[c].value # Nil]]

\* async_added_to_hass: a control is restored or has no value yet.
ControlsInit ==
  /\ LinkInit
  /\ group \in Groups
  /\ unit \in [Fields -> Amounts \cup {0, 1}] /\ \A i \in Fields : unit[i] \in FieldValues(i)
  /\ known = [i \in Fields \cup (IF group = "bath" THEN {"left"} ELSE {}) |-> Nil]
  /\ \E restored \in {1, Nil} :
        shown = [c \in Controls |-> [value |-> restored, available |-> FALSE]]
  /\ said = [i \in Fields |-> Nil]

-----------------------------------------------------------------------------
\* The session and the device.

Open == Opens(<<unit>>) /\ UNCHANGED <<group, unit, known, shown, said>>

\* All the answers have come.
Proved ==
  /\ Proves /\ \A k \in DOMAIN reports : DOMAIN reports[k] # Fields
  /\ IF live THEN UNCHANGED shown ELSE HearLive(TRUE)
  /\ UNCHANGED <<group, unit, known, said>>

Drop == Drops /\ UNCHANGED <<group, unit, known, shown, said>>

GraceOver == Expires /\ HearLive(FALSE) /\ UNCHANGED <<group, unit, known, said>>

\* Somebody sets a value at the device, water runs, or a timer goes on.
Touch(i) ==
  /\ Twists
  /\ \E v \in FieldValues(i) \ {unit[i]} : unit' = [unit EXCEPT ![i] = v]
  /\ UNCHANGED <<group, known, shown, said>>

\* The device reports a value that the client does not know, or one that a
\* command is waiting for.
Speak(i) ==
  /\ \/ known[i] # unit[i]
     \/ \E u \in Users : job[u].pc = "wait" /\ Writing(u).field = i
  /\ Announces([k \in {i} |-> unit[k]])
  /\ UNCHANGED <<group, unit, known, shown, said>>

-----------------------------------------------------------------------------
\* Reports.

\* _maybe_complete_write_future
Confirms(u, m) ==
  /\ job[u].pc = "wait" /\ Writing(u).field \in DOMAIN m
  /\ m[Writing(u).field] = Writing(u).value

\* What a confirmed write has of the device: with an echo, also that the timer
\* has stopped.
Confirmation(u, r, m) ==
  [i \in {Writing(u).field} \cup (IF "reset" \in DOMAIN r THEN {"running"} ELSE {}) |-> m[i]]

\* _handle_ste_message for these values.  Only a timer is never asked for.
Heard ==
  /\ reports # <<>>
  /\ reports' = Tail(reports)
  /\ LET r == Head(reports)
         m == Meaning(r)
     IN /\ known' = Learned(known, r)
        /\ said' = Updated(said, m)
        /\ job' = [u \in Users |->
                      IF Confirms(u, m)
                      THEN [job[u] EXCEPT !.pc = "confirmed", !.got = Over(Confirmation(u, r, m), @)]
                      ELSE job[u]]
        /\ \E asked \in IF group = "timer" THEN {FALSE} ELSE BOOLEAN :
              shown' = Hear(News(known, m, asked), known')
  /\ UNCHANGED <<group, unit, link, live, line, twists>>

-----------------------------------------------------------------------------
\* Commands.

Begin(u, op, c, v, writes) ==
  Orders(u, [op |-> op, control |-> c, value |-> v, todo |-> writes, got |-> <<>>])

\* async_turn_on, async_turn_off, async_set_native_value, and the button that
\* resets the timer, whose duration is read before the lock is taken.
Command(u) ==
  \/ /\ group = "wellness"
     /\ \E p \in Programs :
           \/ Begin(u, "start", p, 1, <<Write("program", p), Write("active", 1)>>)
           \/ Begin(u, "stop", p, 0, <<Write("active", 0)>>)
  \/ /\ group = "timer"
     /\ Begin(u, "reset", Nil, Nil, <<Write("remaining", Configured(known))>>)
  \/ /\ group # "wellness"
     /\ \E c \in Controls : \E v \in FieldValues(c) : Begin(u, "set", c, v, <<Write(c, v)>>)

\* raise_if_dhe_unavailable: without the client, the control gets unavailable.
Order(u) ==
  /\ \/ live /\ Command(u) /\ UNCHANGED shown
     \/ /\ ~live /\ job[u].pc = "idle" /\ UNCHANGED linkVars
        /\ \E c \in Controls : shown' = [shown EXCEPT ![c].available = FALSE]
  /\ UNCHANGED <<group, unit, known, said>>

\* What a write does to the device: a reset starts the timer anew.
Effect(u) ==
  IF job[u].op = "reset" THEN [unit EXCEPT !["remaining"] = unit["duration"], !["running"] = 0]
  ELSE [unit EXCEPT ![Writing(u).field] = Writing(u).value]

\* The holder of the lock has a usable session and sends.  The device takes
\* the value or ignores it, and echoes a reset or does not.
Push(u) ==
  /\ job[u].pc = "ready" /\ Usable /\ Goes(u, "wait")
  /\ \/ unit' = Effect(u) /\ UNCHANGED reports
     \/ UNCHANGED <<unit, reports>>
     \/ /\ job[u].op = "reset" /\ Len(reports) < MaxUnheard
        /\ unit' = Effect(u) /\ reports' = Append(reports, [i \in {"reset"} |-> 1])
  /\ UNCHANGED <<group, link, live, line, twists, known, shown, said>>

\* Where an attempt may fail.
Failing == {"ready", "wait", "lost"}

Retry(u) == Repeats(u, Failing) /\ UNCHANGED <<group, unit, known, shown, said>>

Abandon(u) ==
  /\ Fails(u, Failing) /\ Ends(u)
  /\ shown' = [c \in Controls |->
                  IF c = job[u].control
                  THEN [shown[c] EXCEPT !.available = live /\ shown[c].value # Nil]
                  ELSE shown[c]]
  /\ UNCHANGED <<group, unit, known, said>>

\* What the client makes of a confirmed command without having been told:
\* stop_wellness_shower_program, _reset_app_timer.
Assumed(u) ==
  IF job[u].op = "stop" THEN [i \in {"active", "program"} |-> 0]
  ELSE IF job[u].op = "reset"
  THEN [i \in {"remaining", "running"} |-> IF i = "running" THEN 0 ELSE Writing(u).value]
  ELSE <<>>

\* A write is confirmed and the lock released, which the next one asks for.
GoOn(u) ==
  /\ HasLock(u) /\ job[u].pc = "confirmed" /\ Len(job[u].todo) > 1
  /\ job' = [job EXCEPT ![u].todo = Tail(@), ![u].pc = "ready", ![u].attempt = 1]
  /\ line' = Append(Tail(line), u)
  /\ UNCHANGED <<group, unit, link, live, reports, twists, known, shown, said>>

\* After the last one the control takes over the result.
Finish(u) ==
  /\ job[u].pc = "confirmed" /\ Len(job[u].todo) = 1 /\ Ends(u)
  /\ known' = Updated(known, Assumed(u))
  /\ shown' = [c \in Controls |->
                  IF c = job[u].control THEN [value |-> job[u].value, available |-> TRUE]
                  ELSE Hear(DOMAIN Assumed(u), known')[c]]
  /\ UNCHANGED <<group, unit, said>>

ControlsNext ==
  \/ Open \/ Proved \/ Drop \/ GraceOver \/ Heard
  \/ \E i \in Fields : Touch(i) \/ Speak(i)
  \/ \E u \in Users : Order(u) \/ Push(u) \/ Retry(u) \/ Abandon(u) \/ GoOn(u) \/ Finish(u)

ControlsSpec == ControlsInit /\ [][ControlsNext]_controlVars

-----------------------------------------------------------------------------
\* Properties.

\* A control shows another value than the device's own reports imply.
Astray(c) ==
  /\ \E i \in FieldsOf(c) : said[i] # Nil
  /\ shown[c].value # Implied(c, said)

\* A command ends, and not everything that it takes for granted is still what
\* the device has last said, or ever was.
EndsBehind(u) ==
  /\ job[u].pc = "confirmed" /\ job'[u] = Ended
  /\ \/ \E i \in DOMAIN job[u].got : said[i] # job[u].got[i]
     \/ job[u].op = "reset" /\ "running" \notin DOMAIN job[u].got

\* A control goes astray only by a command that a report has overtaken between
\* its confirmation and its end, by a reset that the device did not echo, or by
\* news of one value of a program while the client still holds of the other what
\* a stop made it assume (client_wellness_timer_commands.py:38, 112,
\* switch.py:532).
ControlsFollow ==
  [][\A c \in Controls :
       Astray(c)' /\ ~Astray(c) =>
         \/ \E u \in Users :
               EndsBehind(u) /\ (job[u].control = c \/ DOMAIN Assumed(u) # {})
         \/ group = "wellness" /\ \E i \in Fields : known[i] # said[i]]_controlVars

=============================================================================
