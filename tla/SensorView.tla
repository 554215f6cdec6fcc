----------------------------- MODULE SensorView -----------------------------
(***************************************************************************)
(* One sensor of the integration as Home Assistant shows it: the reading   *)
(* that the client caches for it, the entity that turns readings into      *)
(* written states (sensor.py), and the session whose start, proof, loss    *)
(* and grace period the entity hears of (client.py,                        *)
(* client_connection_state.py, client_runtime.py).                         *)
(*                                                                         *)
(* The client calls its callbacks synchronously, so that a step of the     *)
(* client and what the entity does in it are one action.  What interleaves *)
(* is: answers to reads, reports the device makes on its own, the loss of  *)
(* the session, the end of the grace period, the delayed write that a      *)
(* filtered value waits for, and the read of a missing value.              *)
(*                                                                         *)
(* `kind' stands for the entity's description and never changes:           *)
(*   keep     an old value stays available (keep_last_value_when_...)      *)
(*   bare     available without a value while the client is online         *)
(*   default  bare, and 0 until a value is known (online_default_value)    *)
(*   guarded  a 0 that answers a read is no value                          *)
(*            (ODB_ZERO_REQUEST_READBACK_IGNORE_IDS)                       *)
(*   filtered small changes are written late (SENSOR_WRITE_FILTERS)        *)
(*   initial  asked for at start-up, and proof that the device answers     *)
(*            (INITIAL_VALUE_IDS)                                          *)
(*   app      asked for at start-up by an app command, whose answer is not *)
(*            told from a report                                           *)
(***************************************************************************)
EXTENDS Integers, FiniteSets

CONSTANTS
  Kinds,      \* the descriptions: sets of the words above
  MaxReading, \* readings are 0..MaxReading
  MinDelta,   \* a filtered change that is written at once
  Interval,   \* ticks after which a filtered change is written (45 to 120 s)
  Window,     \* ticks for which an answer counts as one (30 s)
  MaxAsked    \* bound: reads that the device has not answered yet

Flags == {"keep", "bare", "default", "guarded", "filtered", "initial", "app"}

ASSUME SensorAssumption ==
  /\ Kinds \subseteq SUBSET Flags
  /\ \A k \in Kinds : "bare" \in k => "filtered" \notin k
  /\ MaxReading \in Nat
  /\ MinDelta \in Nat \ {0}
  /\ Interval \in Nat
  /\ Window \in Nat
  /\ MaxAsked \in Nat \ {0}

Readings == 0 .. MaxReading

Unknown == -1    \* no reading (None)
Off     == -1    \* no timer, no read expected

VARIABLES
  kind,       \* the entity's description
  session,    \* what the client's session has come to
  online,     \* _online
  available,  \* _available, which outlives the session by the grace period
  cache,      \* _last_measurements[odb_id]
  expected,   \* _pending_odb_read_deadlines[odb_id], as ticks left
  asked,      \* reads on their way to the device or back
  entity      \* the sensor, and the state Home Assistant holds of it

vars == <<kind, session, online, available, cache, expected, asked, entity>>

Is(flag) == flag \in kind

(***************************************************************************)
(* The entity: its value (_attr_native_value), whether it calls itself     *)
(* available (_attr_available), the value and the age of its last write    *)
(* (_last_written_...), the delayed write (_pending_write_cancel), the     *)
(* running read of a missing value, and the state Home Assistant shows.    *)
(***************************************************************************)
NewEntity ==
  [native |-> Unknown, available |-> FALSE,
   written |-> Unknown, age |-> Interval, timer |-> Off, fetching |-> FALSE,
   shownAvailable |-> FALSE, shownValue |-> Unknown]

EntityStates ==
  [native : Readings \cup {Unknown}, available : BOOLEAN,
   written : Readings \cup {Unknown}, age : 0 .. Interval,
   timer : (0 .. Interval) \cup {Off}, fetching : BOOLEAN,
   shownAvailable : BOOLEAN, shownValue : Readings \cup {Unknown}]

\* _available_from_value
AvailableWith(e, connected) ==
  \/ Is("keep") /\ e.native # Unknown
  \/ connected /\ (Is("bare") \/ e.native # Unknown)

\* _mark_state_written
Marked(e) == [e EXCEPT !.timer = Off, !.written = e.native, !.age = 0]

\* async_write_ha_state
Shown(e) == [e EXCEPT !.shownAvailable = e.available, !.shownValue = e.native]

Distance(a, b) == IF a > b THEN a - b ELSE b - a

\* Two readings that a filtered sensor need not tell apart at once.
Close(a, b) == (a = 0) = (b = 0) /\ Distance(a, b) < MinDelta

\* Mutant: a change to or from zero is filtered as any other.
CoarseWorthWriting(e) ==
  IF e.written = Unknown \/ e.native = Unknown
  THEN e.written # e.native
  ELSE \/ e.written # e.native /\ ~Is("filtered")
       \/ Distance(e.written, e.native) >= MinDelta
       \/ e.age >= Interval

\* _should_write_measurement_state
WorthWriting(e) ==
  IF e.written = Unknown \/ e.native = Unknown
  THEN e.written # e.native
  ELSE /\ e.written # e.native
       /\ ~Is("filtered") \/ ~Close(e.written, e.native) \/ e.age >= Interval

\* Mutant: the delay starts anew with the value that waits.
WrongWriteLater(e) ==
  IF e.native = e.written
  THEN [e EXCEPT !.timer = Off]
  ELSE IF e.timer = Off /\ e.available /\ Is("filtered")
       THEN [e EXCEPT !.timer = Interval]
       ELSE e

\* _schedule_pending_write
WriteLater(e) ==
  IF e.native = e.written
  THEN [e EXCEPT !.timer = Off]
  ELSE IF e.timer = Off /\ e.available /\ Is("filtered")
       THEN [e EXCEPT !.timer = Interval - e.age]
       ELSE e

\* _handle_measurement_update; `other' when another recorded attribute changed
OnMeasurement(e, value, other) ==
  LET taken == [e EXCEPT !.native = value]
      seen  == [taken EXCEPT !.available = AvailableWith(taken, online)]
  IN  IF WorthWriting(seen) \/ other THEN Shown(Marked(seen)) ELSE WriteLater(seen)

\* _handle_online_update
OnOnline(e, up) ==
  IF ~Is("bare") THEN e
  ELSE LET known == IF up /\ e.native = Unknown /\ Is("default")
                    THEN Marked([e EXCEPT !.native = 0]) ELSE e
       IN  IF known.available = up THEN known
           ELSE Shown([known EXCEPT !.available = up])

\* _schedule_missing_measurement_refresh
Fetching(e) == IF e.native = Unknown THEN [e EXCEPT !.fetching = TRUE] ELSE e

\* _handle_availability_update
OnAvailability(e, up) ==
  LET ready == IF up THEN Fetching(e) ELSE [e EXCEPT !.timer = Off]
      next  == AvailableWith(ready, up)
  IN  IF ready.available = next THEN ready
      ELSE Shown(Marked([ready EXCEPT !.available = next]))

-----------------------------------------------------------------------------
TypeOK ==
  /\ kind \in Kinds
  /\ session \in {"down", "starting", "proven", "ready"}
  /\ online \in BOOLEAN
  /\ available \in BOOLEAN
  /\ cache \in Readings \cup {Unknown}
  /\ expected \in (0 .. Window) \cup {Off}
  /\ asked \in 0 .. MaxAsked
  /\ entity \in EntityStates

(***************************************************************************)
(* async_setup_entry forwards the platforms before it starts the client,   *)
(* and enabling an entity later reloads the entry: async_added_to_hass     *)
(* always meets a client that is not connected and has no reading.         *)
(***************************************************************************)
Init ==
  /\ kind \in Kinds
  /\ session = "down" /\ online = FALSE /\ available = FALSE
  /\ cache = Unknown /\ expected = Off /\ asked = 0
  /\ entity = NewEntity

-----------------------------------------------------------------------------
(***************************************************************************)
(* The session.  An authenticated session makes the client online and asks *)
(* for the initial values; the first initial value that arrives proves it, *)
(* and only then the client is ready and available.                        *)
(***************************************************************************)
Connect ==
  /\ session = "down"
  /\ session' = "starting"
  /\ online' = TRUE
  /\ entity' = OnOnline(entity, TRUE)
  /\ expected' = IF Is("initial") THEN Window ELSE expected
  /\ asked' = IF Is("initial") \/ Is("app") THEN 1 ELSE 0
  /\ UNCHANGED <<kind, available, cache>>

\* This or another initial value has arrived: _set_available(True).
Ready ==
  /\ session \in {"starting", "proven"}
  /\ session' = "ready"
  /\ available' = TRUE
  /\ entity' = IF available THEN entity
               ELSE OnAvailability(entity, TRUE)
  /\ UNCHANGED <<kind, online, cache, expected, asked>>

\* The session is lost; `at once' when the grace period is over already,
\* or when the device refused the authentication.
Disconnect ==
  /\ session # "down"
  /\ session' = "down"
  /\ online' = FALSE
  /\ asked' = 0
  /\ \E atOnce \in BOOLEAN :
       LET offline == OnOnline(entity, FALSE) IN
       /\ available' = (available /\ ~atOnce)
       /\ entity' = IF available /\ atOnce
                    THEN OnAvailability(offline, FALSE)
                    ELSE offline
  /\ UNCHANGED <<kind, cache, expected>>

\* _expire_reconnect_grace_after
GraceExpires ==
  /\ session \in {"down", "starting"}
  /\ available
  /\ available' = FALSE
  /\ entity' = OnAvailability(entity, FALSE)
  /\ UNCHANGED <<kind, session, online, cache, expected, asked>>

-----------------------------------------------------------------------------
(***************************************************************************)
(* Readings.  _handle_measurement caches every value and tells the entity  *)
(* of one that is forced, the first, or another than before.               *)
(***************************************************************************)
Measure(value, forced, other) ==
  /\ cache' = value
  /\ session' = IF Is("initial") /\ session = "starting" THEN "proven" ELSE session
  /\ entity' = IF forced \/ other \/ cache = Unknown \/ cache # value
               THEN OnMeasurement(entity, value, other)
               ELSE entity

\* The consumption values carry a chart and a cost that change on their own.
Others == IF Is("app") THEN BOOLEAN ELSE {FALSE}

\* _should_publish_odb_readback
Publishable(value, requested) == ~(requested /\ Is("guarded") /\ value = 0)

\* A read is answered: it takes the mark of the latest read, if one is left.
Answer ==
  /\ asked > 0
  /\ asked' = asked - 1
  /\ expected' = Off
  /\ \E value \in Readings :
       LET requested == expected # Off IN
       IF Publishable(value, requested)
       THEN \E other \in Others : Measure(value, requested, other)
       ELSE UNCHANGED <<cache, session, entity>>
  /\ UNCHANGED <<kind, online, available>>

\* The device reports a value on its own; unless the id is guarded, the
\* report takes the mark of a read as well.
Report ==
  /\ session # "down"
  /\ expected' = IF Is("guarded") THEN expected ELSE Off
  /\ \E value \in Readings :
       \E other \in Others : Measure(value, expected # expected', other)
  /\ UNCHANGED <<kind, online, available, asked>>

\* An answer or a report that the device calls invalid takes the mark as a
\* valid one does, and its value only goes to the diagnostics.
Invalid ==
  /\ session # "down"
  /\ expected' = Off
  /\ asked' \in {asked} \cup ({asked - 1} \cap Nat)
  /\ Is("guarded") => asked' # asked
  /\ UNCHANGED <<kind, session, online, available, cache, entity>>

-----------------------------------------------------------------------------
\* The entity's read of a missing value is sent over the ready session ...
Fetch ==
  /\ entity.fetching
  /\ session = "ready"
  /\ asked < MaxAsked
  /\ asked' = asked + 1
  /\ expected' = IF Is("app") THEN expected ELSE Window
  /\ entity' = [entity EXCEPT !.fetching = FALSE]
  /\ UNCHANGED <<kind, session, online, available, cache>>

\* ... or it fails, which is not told to anyone.
FetchFails ==
  /\ entity.fetching
  /\ entity' = [entity EXCEPT !.fetching = FALSE]
  /\ UNCHANGED <<kind, session, online, available, cache, expected, asked>>

\* _flush_pending_write
Flush ==
  /\ entity.timer = 0
  /\ entity' = LET fired == [entity EXCEPT !.timer = Off] IN
               IF fired.available /\ fired.native # fired.written
               THEN Shown(Marked(fired)) ELSE fired
  /\ UNCHANGED <<kind, session, online, available, cache, expected, asked>>

(***************************************************************************)
(* Time passes, but not while a delayed write is due, nor between the      *)
(* proof of a session and its becoming ready, which nothing interrupts.    *)
(***************************************************************************)
Older(n) == IF n > 0 THEN n - 1 ELSE Off

Tick ==
  /\ session # "proven"
  /\ entity.timer # 0
  /\ expected' = Older(expected)
  /\ entity' = [entity EXCEPT
                  !.age = IF entity.age < Interval THEN entity.age + 1 ELSE Interval,
                  !.timer = Older(entity.timer)]
  /\ UNCHANGED <<kind, session, online, available, cache, asked>>

Next ==
  \/ Connect \/ Ready \/ Disconnect \/ GraceExpires
  \/ Answer \/ Report \/ Invalid
  \/ Fetch \/ FetchFails \/ Flush \/ Tick

Spec == Init /\ [][Next]_vars

-----------------------------------------------------------------------------
(***************************************************************************)
(* A filtered sensor never shows a value for longer than its interval: as  *)
(* long as the value it holds differs from the one it wrote, a delayed     *)
(* write is armed, and it fires before the written value is older than the *)
(* interval -- whatever reports, losses of the session and readbacks come  *)
(* in between (_schedule_pending_write: "Publish a filtered value by its   *)
(* deadline even if the device goes quiet").  An unfiltered sensor is      *)
(* never behind.  The kept consumption values, whose delayed write an      *)
(* outage cancels for good, are left out.                                  *)
(***************************************************************************)
LagIsBounded ==
  (entity.available /\ entity.native # entity.written /\ ~Is("keep")) =>
    /\ Is("filtered")
    /\ entity.timer # Off
    /\ entity.timer + entity.age <= Interval

(***************************************************************************)
(* Whatever Home Assistant shows as the value of an available sensor is    *)
(* what the client last read: the same for an unfiltered sensor, and for a *)
(* filtered one off by less than the threshold and on the same side of     *)
(* zero, so that a tap that runs is never shown as closed.  It relates the *)
(* last written state to the client's cache across forced readbacks,       *)
(* ignored zeros, outages and reconnects.                                  *)
(***************************************************************************)
ShownIsRead ==
  (entity.shownAvailable /\ cache # Unknown) =>
    IF Is("filtered") THEN Close(entity.shownValue, cache)
    ELSE entity.shownValue = cache

(***************************************************************************)
(* A session that becomes ready after the grace period had ended brings    *)
(* every sensor back whose value is known (docs/troubleshooting.md:        *)
(* entities "become unavailable after the reconnect grace window and       *)
(* recover when the device responds again").                               *)
(***************************************************************************)
RecoversWhenBack ==
  [][ (/\ session # "ready" /\ session' = "ready"
       /\ ~available /\ cache # Unknown)
      => entity'.shownAvailable ]_vars

=============================================================================
