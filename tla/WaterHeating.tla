---------------------------- MODULE WaterHeating ----------------------------
(***************************************************************************)
(* The entities that control water heating: the climate entity             *)
(* (climate.py), which switches heating and sets the target, the child     *)
(* safety switch (switch.py) and the child safety limit (number.py).  Each *)
(* shows what the client reports and what its own commands had confirmed,  *)
(* and a command of the climate entity is up to three writes, each under   *)
(* its own hold of the command lock (client_commands.py).                  *)
(*                                                                         *)
(* What interleaves: several commands, the reports of the device, changes  *)
(* made at the device itself, losses of the session and the end of the     *)
(* grace period.  A report completes the future of a write at once, but    *)
(* the command goes on only later, and other reports may come in between.  *)
(*                                                                         *)
(* The device takes or ignores a write when it is sent: a packet on its    *)
(* way and a device that is slow differ only in when the answer comes.     *)
(* Temperatures are steps of half a degree.  How the write future, the     *)
(* readback and the retry work in detail is the subject of DHECommands.    *)
(***************************************************************************)
EXTENDS Integers, Sequences, FiniteSetsExt

CONSTANTS
    Callers,
    MinTemp, MaxTemp,   \* 20 and 60 degrees
    Jumper,             \* the limit of the internal scald protection jumper
    Initial,            \* what the device may be set to at first
    MaxReports,         \* reports on their way to the client
    MaxMoves,           \* changes at the device and losses of the session
    None

Temps == MinTemp .. MaxTemp
Ids == {"setpoint", "heating", "safety", "limit"}
Values == [setpoint : Temps, heating : {"on", "off"}, safety : {"on", "off"}, limit : Temps]

ASSUME HeatingAssumption ==
    /\ MinTemp \in Int /\ MaxTemp \in Int /\ Jumper \in Temps /\ Initial \subseteq Values
    /\ MaxReports \in Nat \ {0} /\ MaxMoves \in Nat
    /\ None \notin Callers \cup Temps /\ None \notin {"on", "off"}

VARIABLES
    device,     \* the values in the device
    session,    \* "down", "opening" (not ready yet) or "up"
    available,  \* client.available, which outlives the session by the grace period
    cache,      \* last_setpoint and last_measurements, None before the first report
    inbox,      \* reports on their way: functions from some ids to values
    queue,      \* _command_lock: its holder first, then who waits for it
    task,       \* what each caller does
    climate,    \* the climate entity
    switch,     \* the child safety switch
    number,     \* the child safety limit
    moves,      \* changes at the device and losses of the session so far
    overtaken   \* history: values reported anew while an older one was not yet shown

client == <<session, available, cache, inbox>>
commands == <<queue, task>>
entities == <<climate, switch, number>>
vars == <<device, client, commands, entities, moves, overtaken>>

Write(i, v) == [id |-> i, value |-> v]

\* What a caller does: its operation, the writes that are left, and where it
\* is.  The id "sync" is the packet that follows a write of heating; it keeps
\* the confirmed value, which is used only after it.
Idle == [op |-> None, todo |-> <<>>, pc |-> "idle", attempt |-> 1]
Done == [Idle EXCEPT !.pc = "done"]
Current(c) == Head(task[c].todo)
Holds(c) == queue # <<>> /\ Head(queue) = c

HeatingInit ==
    /\ device \in Initial
    /\ session = "down" /\ available = FALSE
    /\ cache = [i \in Ids |-> None] /\ inbox = <<>>
    /\ queue = <<>> /\ task = [c \in Callers |-> Idle]
    /\ climate = [target |-> None, heating |-> None, safety |-> None, limit |-> None,
                  memory |-> None, available |-> FALSE]
    /\ switch = [value |-> None, available |-> FALSE]
    /\ number = [value |-> None, available |-> FALSE]
    /\ moves = 0 /\ overtaken = {}

-----------------------------------------------------------------------------
\* The limits (entity_state_helpers.py).

Lower(x, y) == IF x < y THEN x ELSE y
Higher(x, y) == IF x > y THEN x ELSE y

\* bounded_child_safety_temperature_limit
Bounded(limit) == IF limit = None THEN None ELSE Higher(MinTemp, Lower(Jumper, limit))

\* climate_max_temperature
MaxTarget(safety, limit) ==
    IF safety = "on" /\ limit # None THEN Lower(Jumper, limit) ELSE Jumper

\* clamp_temperature
Clamp(t, max) == Higher(MinTemp, Lower(max, t))

-----------------------------------------------------------------------------
\* What the entities make of reports and of availability.

\* StiebelDHEClimate._handle_setpoint_update and _handle_measurement_update;
\* hvac_mode is OFF exactly when heating is known to be off.  A target that is
\* read with the other values is read before them.
ClimateHears(told, r) ==
    [climate EXCEPT
        !.target    = IF "setpoint" \in told THEN r["setpoint"] ELSE @,
        !.memory    = IF "setpoint" \in told /\ climate.heating # "off" THEN r["setpoint"] ELSE @,
        !.available = @ \/ "setpoint" \in told,
        !.heating   = IF "heating" \in told THEN r["heating"] ELSE @,
        !.safety    = IF "safety" \in told THEN r["safety"] ELSE @,
        !.limit     = IF "limit" \in told THEN Bounded(r["limit"]) ELSE @]

\* StiebelDHEODBSwitch._handle_measurement_update
SwitchHears(told, r) ==
    IF "safety" \in told THEN [value |-> r["safety"], available |-> available] ELSE switch

\* Mutant: a reported value is taken for a live connection.
HastyNumberHears(told, r) ==
    IF "limit" \in told THEN [value |-> Bounded(r["limit"]), available |-> TRUE] ELSE number
\* StiebelDHENumber._handle_measurement_update
NumberHears(told, r) ==
    IF "limit" \in told THEN [value |-> Bounded(r["limit"]), available |-> available] ELSE number

\* _handle_availability_update of the three.
ClimateAvailable(now) == climate' = [climate EXCEPT !.available = now]
SwitchAvailable(now) ==
    switch' = [switch EXCEPT !.available = now /\ switch.value # None]
NumberAvailable(now) ==
    number' = [number EXCEPT !.available = now /\ number.value # None]

\* _set_available, _emit_availability
SetAvailable(now) ==
    /\ available' = now
    /\ IF available = now THEN UNCHANGED entities
       ELSE ClimateAvailable(now) /\ SwitchAvailable(now) /\ NumberAvailable(now)

-----------------------------------------------------------------------------
\* The session and the device.

\* A new session asks for every value; the answers are handled together.
Connect ==
    /\ session = "down"
    /\ session' = "opening" /\ inbox' = <<device>>
    /\ UNCHANGED <<device, available, cache, commands, entities, moves, overtaken>>

Answered == \A k \in DOMAIN inbox : DOMAIN inbox[k] # Ids

\* The values have shown the session to work: _record_session_connected.
Prove ==
    /\ session = "opening" /\ Answered
    /\ session' = "up"
    /\ SetAvailable(TRUE)
    /\ UNCHANGED <<device, cache, inbox, commands, moves, overtaken>>

\* The session is dropped; a pending future fails with it.
Fail(t) == [t EXCEPT !.pc = IF @ = "wait" THEN "lost" ELSE @]
EndSession ==
    /\ session # "down" /\ moves < MaxMoves
    /\ session' = "down" /\ inbox' = <<>> /\ moves' = moves + 1
    /\ task' = [c \in Callers |-> Fail(task[c])]
    /\ UNCHANGED <<device, available, cache, queue, entities, overtaken>>

GraceExpires ==
    /\ session # "up" /\ available
    /\ SetAvailable(FALSE)
    /\ UNCHANGED <<device, session, cache, inbox, commands, moves, overtaken>>

\* Somebody changes a value at the device.
DeviceChanges(i) ==
    /\ \E v \in {w[i] : w \in Values} : device' = [device EXCEPT ![i] = v]
    /\ device' # device
    /\ moves < MaxMoves /\ moves' = moves + 1
    /\ UNCHANGED <<client, commands, entities, overtaken>>

\* The device reports a value that the client does not know, or one that a
\* command reads back (_request_setpoint, _request_odb_value).
Awaited(i) == \E c \in Callers : task[c].pc = "wait" /\ Current(c).id = i
DeviceReports(i) ==
    /\ session # "down" /\ Len(inbox) < MaxReports
    /\ cache[i] # device[i] \/ Awaited(i)
    /\ inbox' = Append(inbox, [k \in {i} |-> device[k]])
    /\ UNCHANGED <<device, session, available, cache, commands, entities, moves, overtaken>>

-----------------------------------------------------------------------------
\* Reports.

\* Commands that have a value confirmed which they have not shown yet.
Unshown(i) ==
    \E c \in Callers :
        \/ task[c].pc = "confirmed" /\ Current(c).id = i
        \/ i = "heating" /\ task[c].todo # <<>> /\ Current(c).id = "sync"

\* Mutant: any report of the value that was written confirms the write.
WrongConfirms(r, c) == task[c].pc = "wait" /\ Current(c).id \in DOMAIN r
\* _handle_setpoint, _maybe_complete_write_future
Confirms(r, c) ==
    /\ task[c].pc = "wait" /\ Current(c).id \in DOMAIN r
    /\ r[Current(c).id] = Current(c).value

\* The entities are told what is new, and what was asked for in any case; a
\* target only if it is new.
Told(r, asked) ==
    {i \in DOMAIN r : cache[i] # r[i] \/ (asked /\ i # "setpoint")}

\* _handle_odb_value for the four values.
Receive ==
    /\ inbox # <<>>
    /\ inbox' = Tail(inbox)
    /\ LET r == Head(inbox)
       IN /\ cache' = [i \in Ids |-> IF i \in DOMAIN r THEN r[i] ELSE cache[i]]
          /\ task' = [c \in Callers |->
                          IF Confirms(r, c) THEN [task[c] EXCEPT !.pc = "confirmed"] ELSE task[c]]
          /\ \E asked \in BOOLEAN :
                LET told == Told(r, asked)
                IN /\ climate' = ClimateHears(told, r)
                   /\ switch' = SwitchHears(told, r)
                   /\ number' = NumberHears(told, r)
                   /\ overtaken' = {i \in overtaken \cup told : i \notin told \/ Unshown(i)}
    /\ UNCHANGED <<device, session, available, queue, moves>>

-----------------------------------------------------------------------------
\* Commands.

Begin(c, op, writes) ==
    /\ task' = [task EXCEPT ![c] = [op |-> op, todo |-> writes, pc |-> "ready", attempt |-> 1]]
    /\ queue' = Append(queue, c)

\* set_water_heating_enabled
SetHeating(v) == <<Write("heating", v), Write("sync", v)>>

ClimateMax == MaxTarget(climate.safety, climate.limit)

\* async_set_temperature: the target is limited when the command begins.
SetTemperature(c, t) ==
    /\ LET target == Write("setpoint", Clamp(t, ClimateMax))
       IN Begin(c, "target", IF climate.heating = "off" THEN Append(SetHeating("on"), target)
                             ELSE <<target>>)
    /\ UNCHANGED entities

\* async_set_hvac_mode(OFF) remembers the target, even if it then refuses.
Remembered == IF climate.target # None THEN climate.target ELSE climate.memory
HeatingOff(c) ==
    /\ climate' = [climate EXCEPT !.memory = Remembered]
    /\ IF available THEN Begin(c, "off", SetHeating("off")) ELSE UNCHANGED commands
    /\ UNCHANGED <<switch, number>>

\* async_set_hvac_mode(HEAT)
HeatingOn(c) == Begin(c, "heat", SetHeating("on")) /\ UNCHANGED entities

\* async_set_native_value, async_turn_on, async_turn_off
SetLimit(c, t) == Begin(c, "limit", <<Write("limit", Bounded(t))>>) /\ UNCHANGED entities
SetSafety(c, v) == Begin(c, "safety", <<Write("safety", v)>>) /\ UNCHANGED entities

Call(c) ==
    /\ task[c].pc = "idle"
    /\ \/ HeatingOff(c)
       \/ /\ available
          /\ \/ \E t \in Temps : SetTemperature(c, t) \/ SetLimit(c, t)
             \/ \E v \in {"on", "off"} : SetSafety(c, v)
             \/ HeatingOn(c)
    /\ UNCHANGED <<device, client, moves, overtaken>>

\* The holder of the lock has a usable session and sends; the device may take
\* the value or ignore it.
Send(c) ==
    /\ Holds(c) /\ task[c].pc = "ready"
    /\ session # "down" /\ available
    /\ LET w == Current(c)
       IN IF w.id = "sync"
          THEN /\ task' = [task EXCEPT ![c].pc = "confirmed"]
               /\ UNCHANGED device
          ELSE /\ task' = [task EXCEPT ![c].pc = "wait"]
               /\ device' \in {device, [device EXCEPT ![w.id] = w.value]}
    /\ UNCHANGED <<client, queue, entities, moves, overtaken>>

\* The first attempt fails: _force_reconnect.
AttemptFails(c) ==
    /\ Holds(c) /\ task[c].pc \in {"ready", "wait", "lost"} /\ task[c].attempt = 1
    /\ task' = [task EXCEPT ![c].pc = "ready", ![c].attempt = 2]
    /\ session' = "down" /\ inbox' = <<>>
    /\ UNCHANGED <<device, available, cache, queue, entities, moves, overtaken>>

\* The second one fails too.  A target that cannot be restored is only logged.
GiveUp(c) ==
    /\ Holds(c) /\ task[c].pc \in {"ready", "wait", "lost"} /\ task[c].attempt = 2
    /\ task' = [task EXCEPT ![c] = Done]
    /\ queue' = Tail(queue)
    /\ climate' = [climate EXCEPT
          !.available = @ \/ (task[c].op = "heat" /\ Current(c).id = "setpoint")]
    /\ switch' = [switch EXCEPT
          !.available = IF task[c].op = "safety" THEN available /\ switch.value # None ELSE @]
    /\ number' = [number EXCEPT
          !.available = IF task[c].op = "limit" THEN available /\ number.value # None ELSE @]
    /\ UNCHANGED <<device, client, moves, overtaken>>

-----------------------------------------------------------------------------
\* What a command makes of a confirmed write.

\* The target of the time before heating was switched off, as far as known.
Before ==
    IF climate.memory # None THEN climate.memory
    ELSE IF climate.target # None THEN climate.target ELSE cache["setpoint"]

\* Mutant: it is restored without a limit.
FreeRestored == Before
Restored == IF Before = None THEN None ELSE Clamp(Before, ClimateMax)

\* The writes that follow the current one: heating that was switched on is
\* followed by the target, limited by what the maximum is then.
Following(c) ==
    IF task[c].op = "heat" /\ Current(c).id = "sync" /\ Restored # None
    THEN <<Write("setpoint", Restored)>>
    ELSE Tail(task[c].todo)

\* The climate entity takes over a result.  While a command has more to do, it
\* is available as it was.
ClimateTakes(w, ends) ==
    climate' = [climate EXCEPT
        !.heating   = IF w.id = "sync" THEN w.value ELSE @,
        !.target    = IF w.id = "setpoint" THEN w.value ELSE @,
        !.memory    = IF w.id = "setpoint" THEN w.value ELSE @,
        !.available = @ \/ (ends /\ w.id \in {"sync", "setpoint"})]

Resume(c) ==
    /\ Holds(c) /\ task[c].pc = "confirmed"
    /\ LET w == Current(c)
           rest == Following(c)
       IN /\ ClimateTakes(w, rest = <<>>)
          /\ switch' = IF w.id = "safety" THEN [value |-> w.value, available |-> TRUE] ELSE switch
          /\ number' = IF w.id = "limit" THEN [value |-> Bounded(w.value), available |-> TRUE]
                       ELSE number
          /\ IF rest = <<>>
             THEN task' = [task EXCEPT ![c] = Done] /\ queue' = Tail(queue)
             ELSE /\ task' = [task EXCEPT ![c].todo = rest, ![c].pc = "ready", ![c].attempt = 1]
                  /\ queue' = Append(Tail(queue), c)
    /\ UNCHANGED <<device, client, moves, overtaken>>

HeatingNext ==
    \/ Connect \/ Prove \/ EndSession \/ GraceExpires \/ Receive
    \/ \E i \in Ids : DeviceChanges(i) \/ DeviceReports(i)
    \/ \E c \in Callers : Call(c) \/ Send(c) \/ AttemptFails(c) \/ GiveUp(c) \/ Resume(c)

HeatingSpec == HeatingInit /\ [][HeatingNext]_vars

-----------------------------------------------------------------------------
\* Types.

Domain(i) == IF i \in {"setpoint", "limit"} THEN Temps ELSE {"on", "off"}
Reports == Values \cup (UNION {[{i} -> Domain(i)] : i \in Ids})
Writes ==
    (UNION {[id : {i}, value : Domain(i)] : i \in Ids}) \cup [id : {"sync"}, value : {"on", "off"}]
Tasks ==
    [op : {"target", "off", "heat", "limit", "safety", None}, todo : Seq(Writes),
     pc : {"idle", "ready", "wait", "lost", "confirmed", "done"}, attempt : {1, 2}]

HeatingTypeOK ==
    /\ device \in Values
    /\ session \in {"down", "opening", "up"} /\ available \in BOOLEAN
    /\ cache = [i \in Ids |-> cache[i]]
    /\ \A i \in Ids : cache[i] \in Domain(i) \cup {None}
    /\ inbox \in Seq(Reports)
    /\ queue \in Seq(Callers) /\ task \in [Callers -> Tasks]
    /\ climate \in [target : Temps \cup {None}, heating : {"on", "off", None},
                    safety : {"on", "off", None}, limit : Temps \cup {None},
                    memory : Temps \cup {None}, available : BOOLEAN]
    /\ switch \in [value : {"on", "off", None}, available : BOOLEAN]
    /\ number \in [value : Temps \cup {None}, available : BOOLEAN]
    /\ moves \in 0 .. MaxMoves /\ overtaken \subseteq Ids

-----------------------------------------------------------------------------
\* Properties.

\* Target that a caller has still to write, None without one.
Pending(c) ==
    LET targets == {task[c].todo[k].value :
                        k \in {n \in DOMAIN task[c].todo : task[c].todo[n].id = "setpoint"}}
    IN IF targets = {} THEN None ELSE CHOOSE t \in targets : TRUE
Exceeds(c) == Pending(c) # None /\ Pending(c) > ClimateMax

\* No command has a target to write above the jumper, and none above the
\* maximum that the child safety gives, unless that maximum was lowered after
\* the command was limited (climate.py:353, 422).
SafeSetpoint ==
    [][\A c \in Callers :
        /\ Pending(c)' # None => Pending(c)' <= Jumper
        /\ Exceeds(c)' /\ ~Exceeds(c) => ClimateMax' < ClimateMax]_vars

\* Each entity shows the last value that was reported, unless a report came
\* between the confirmation of a command and its result being shown.
ShownIsReported ==
    /\ climate.safety = cache["safety"] /\ climate.limit = Bounded(cache["limit"])
    /\ "setpoint" \in overtaken \/ climate.target = cache["setpoint"]
    /\ "heating" \in overtaken \/ climate.heating = cache["heating"]
    /\ "safety" \in overtaken \/ switch.value = cache["safety"]
    /\ "limit" \in overtaken \/ number.value = Bounded(cache["limit"])

\* An entity that is not available without the client becomes so only when a
\* target is reported to a session that is not ready yet, or when a command
\* ends after the client has become unavailable.
Stale == (climate.available \/ switch.available \/ number.available) /\ ~available
EntitiesAreLive ==
    [][Stale' /\ ~Stale =>
          \/ session = "opening" /\ cache'["setpoint"] # cache["setpoint"]
          \/ \E c \in Callers : task[c] # task'[c] /\ task'[c] = Done]_vars

=============================================================================
