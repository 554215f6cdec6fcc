---------------------------- MODULE EntityProofs ----------------------------
(***************************************************************************)
(* Proofs about the entities: SensorView, RadioPlayer, WeatherViews,       *)
(* Controls and MemorySlots, for any users, readings, thresholds, places,  *)
(* temperatures and bounds.                                                *)
(***************************************************************************)
EXTENDS SensorView, Controls, RadioPlayer, WeatherViews, MemorySlots,
        FiniteSetTheorems, TLAPS

-----------------------------------------------------------------------------
(***************************************************************************)
(* SensorView.                                                             *)
(***************************************************************************)
USE SensorAssumption DEF Unknown, Off, Readings

(***************************************************************************)
(* What the entity keeps of itself: it has written something as soon as it *)
(* has a value; what it wrote last is close to what it holds, and is what  *)
(* Home Assistant shows while the sensor is available; a delayed write is  *)
(* due before the last write is older than the interval.                   *)
(***************************************************************************)
SameView(a, b) == IF Is("filtered") THEN Close(a, b) ELSE a = b

EntityInv(e) ==
    /\ e.written = Unknown <=> e.native = Unknown
    /\ e.native # Unknown => SameView(e.written, e.native)
    /\ e.shownAvailable => e.shownValue = e.written
    /\ e.timer # Off => e.timer + e.age <= Interval
    /\ (e.available /\ e.native # e.written /\ ~Is("keep")) => e.timer # Off

\* What ties the entity to the client.
ClientInv ==
    /\ online <=> session # "down"
    /\ session = "down" => asked = 0
    /\ cache # Unknown => entity.native = cache
    /\ (Is("bare") /\ entity.native = Unknown /\ entity.available) => online

SensorInv == TypeOK /\ EntityInv(entity) /\ ClientInv

\* What the proofs need of the constants.
LEMMA Numbers ==
    /\ Interval \in Nat /\ 0 \in 0 .. Interval /\ Interval \in 0 .. Interval
    /\ MaxAsked \in Nat /\ 0 \in 0 .. MaxAsked /\ 1 \in 0 .. MaxAsked
    /\ MinDelta \in Nat \ {0} /\ MaxReading \in Nat /\ 0 \in Readings
    /\ Unknown \notin Readings
    /\ Readings \subseteq Int
OBVIOUS

LEMMA BareIsPlain ==
    ASSUME kind \in Kinds, Is("bare")
    PROVE  ~Is("filtered")
BY DEF Is

LEMMA SameAsItself == \A a \in Readings : SameView(a, a)
BY DEF SameView, Close, Distance

USE DEF EntityStates
HIDE SensorAssumption DEF Readings

LEMMA MarkedFields ==
    ASSUME NEW e \in EntityStates
    PROVE  /\ Marked(e) \in EntityStates
           /\ Marked(e).native = e.native /\ Marked(e).available = e.available
           /\ Marked(e).written = e.native /\ Marked(e).age = 0
           /\ Marked(e).timer = Off /\ Marked(e).shownValue = e.shownValue
           /\ Marked(e).shownAvailable = e.shownAvailable
BY Numbers DEF Marked

LEMMA ShownFields ==
    ASSUME NEW e \in EntityStates
    PROVE  /\ Shown(e) \in EntityStates
           /\ Shown(e).native = e.native /\ Shown(e).available = e.available
           /\ Shown(e).written = e.written /\ Shown(e).age = e.age
           /\ Shown(e).timer = e.timer /\ Shown(e).shownValue = e.native
           /\ Shown(e).shownAvailable = e.available
BY DEF Shown

\* A state that is marked and shown is as the invariant wants it.
LEMMA PublishedInv ==
    ASSUME NEW e \in EntityStates
    PROVE  /\ Shown(Marked(e)) \in EntityStates
           /\ EntityInv(Shown(Marked(e)))
           /\ Shown(Marked(e)).native = e.native
           /\ Shown(Marked(e)).available = e.available
<1> DEFINE m == Marked(e)
           r == Shown(m)
<1>1. /\ m \in EntityStates /\ m.native = e.native /\ m.available = e.available
      /\ m.written = e.native /\ m.timer = Off
  BY MarkedFields
<1> HIDE DEF m
<1>2. /\ r \in EntityStates /\ r.native = m.native /\ r.available = m.available
      /\ r.written = m.written /\ r.timer = m.timer /\ r.shownValue = m.native
  BY <1>1, ShownFields
<1> HIDE DEF r
<1>3. r.native # Unknown => SameView(r.written, r.native)
  BY <1>1, <1>2, SameAsItself
<1>4. EntityInv(r)
  BY <1>1, <1>2, <1>3 DEF EntityInv
<1> QED
  BY <1>1, <1>2, <1>4 DEF r, m

\* What becomes of a filtered change that is not worth a write of its own.
LEMMA WriteLaterFields ==
    ASSUME NEW e \in EntityStates
    PROVE  /\ WriteLater(e) \in EntityStates
           /\ WriteLater(e).native = e.native /\ WriteLater(e).available = e.available
           /\ WriteLater(e).written = e.written /\ WriteLater(e).age = e.age
           /\ WriteLater(e).shownValue = e.shownValue
           /\ WriteLater(e).shownAvailable = e.shownAvailable
           /\ WriteLater(e).timer \in {Off, e.timer, Interval - e.age}
           /\ (e.native # e.written /\ e.available /\ Is("filtered"))
                 => WriteLater(e).timer # Off
<1>1. Interval - e.age \in 0 .. Interval
  BY Numbers
<1>2. CASE e.native = e.written
  BY <1>2 DEF WriteLater
<1>3. CASE e.native # e.written /\ e.timer = Off /\ e.available /\ Is("filtered")
  <2> DEFINE d == Interval - e.age
  <2>1. d \in 0 .. Interval /\ d # Off
    BY <1>1, Numbers
  <2>2. WriteLater(e) = [e EXCEPT !.timer = d]
    BY <1>3 DEF WriteLater
  <2> HIDE DEF d
  <2>3. WriteLater(e) \in EntityStates /\ WriteLater(e).timer = d
    BY <2>1, <2>2
  <2> QED
    BY <2>1, <2>2, <2>3 DEF d
<1>4. CASE e.native # e.written /\ ~(e.timer = Off /\ e.available /\ Is("filtered"))
  BY <1>4 DEF WriteLater
<1> QED
  BY <1>2, <1>3, <1>4

LEMMA MeasurementInv ==
    ASSUME NEW e \in EntityStates, EntityInv(e),
           NEW value \in Readings, NEW other \in BOOLEAN, online \in BOOLEAN
    PROVE  /\ OnMeasurement(e, value, other) \in EntityStates
           /\ EntityInv(OnMeasurement(e, value, other))
           /\ OnMeasurement(e, value, other).native = value
<1> DEFINE taken == [e EXCEPT !.native = value]
           reading  == [taken EXCEPT !.available = AvailableWith(taken, online)]
<1>1. taken \in EntityStates
  OBVIOUS
<1>2. AvailableWith(taken, online) \in BOOLEAN
  BY DEF AvailableWith, Is
<1>3. /\ reading \in EntityStates /\ reading.native = value
      /\ reading.written = e.written /\ reading.timer = e.timer /\ reading.age = e.age
      /\ reading.shownValue = e.shownValue /\ reading.shownAvailable = e.shownAvailable
  <2> HIDE DEF AvailableWith
  <2> QED
    BY <1>1, <1>2
<1>4. OnMeasurement(e, value, other) =
        IF WorthWriting(reading) \/ other THEN Shown(Marked(reading)) ELSE WriteLater(reading)
  BY DEF OnMeasurement
<1> HIDE DEF reading, taken
<1>5. CASE WorthWriting(reading) \/ other
  BY <1>3, <1>4, <1>5, PublishedInv
<1>6. CASE ~WorthWriting(reading) /\ ~other
  <2> DEFINE r == WriteLater(reading)
  <2>1. value # Unknown
    BY Numbers
  <2>2. reading.written # Unknown
    BY <1>3, <1>6, <2>1 DEF WorthWriting
  <2>3. reading.written = value \/ (Is("filtered") /\ Close(reading.written, value))
    BY <1>3, <1>6, <2>1, <2>2 DEF WorthWriting
  <2>4. SameView(reading.written, value)
    BY <2>3, SameAsItself DEF SameView
  <2>5. /\ r \in EntityStates /\ r.native = value /\ r.written = e.written
        /\ r.age = e.age /\ r.shownValue = e.shownValue
        /\ r.shownAvailable = e.shownAvailable /\ r.available = reading.available
        /\ r.timer \in {Off, e.timer, Interval - e.age}
        /\ (value # e.written /\ reading.available /\ Is("filtered")) => r.timer # Off
    BY <1>3, WriteLaterFields
  <2> HIDE DEF r
  <2>6. r.timer # Off => r.timer + r.age <= Interval
    BY <2>5, Numbers DEF EntityInv
  <2>7. (r.available /\ r.native # r.written /\ ~Is("keep")) => r.timer # Off
    BY <1>3, <2>3, <2>5
  <2>8. EntityInv(r)
    BY <1>3, <2>1, <2>2, <2>4, <2>5, <2>6, <2>7 DEF EntityInv
  <2> QED
    BY <1>4, <1>6, <2>5, <2>8 DEF r
<1> QED
  BY <1>5, <1>6

LEMMA OnlineInv ==
    ASSUME kind \in Kinds, NEW e \in EntityStates, EntityInv(e), NEW up \in BOOLEAN,
           (up /\ Is("bare") /\ e.native = Unknown) => ~e.available
    PROVE  /\ OnOnline(e, up) \in EntityStates
           /\ EntityInv(OnOnline(e, up))
           /\ e.native # Unknown => OnOnline(e, up).native = e.native
           /\ (Is("bare") /\ OnOnline(e, up).native = Unknown
                 /\ OnOnline(e, up).available) => up
<1>1. CASE ~Is("bare")
  BY <1>1 DEF OnOnline
<1>2. CASE Is("bare")
  <2> DEFINE zero    == [e EXCEPT !.native = 0]
             fresh   == up /\ e.native = Unknown /\ Is("default")
             restarted   == IF fresh THEN Marked(zero) ELSE e
             changed == [restarted EXCEPT !.available = up]
  <2>1. zero \in EntityStates /\ zero.native = 0 /\ zero.available = e.available
    BY Numbers
  <2>2. ~Is("filtered")
    BY <1>2, BareIsPlain
  <2>3. /\ restarted \in EntityStates /\ restarted.available = e.available
        /\ restarted.written = restarted.native
        /\ e.native # Unknown => restarted.native = e.native
        /\ ~fresh => restarted = e
    <3> HIDE DEF zero
    <3>1. CASE fresh
      BY <2>1, <3>1, MarkedFields
    <3>2. CASE ~fresh
      BY <2>2, <3>2 DEF EntityInv, SameView
    <3> QED
      BY <3>1, <3>2
  <2>4. OnOnline(e, up) = IF restarted.available = up THEN restarted ELSE Shown(changed)
    BY <1>2 DEF OnOnline
  <2>5. fresh => ~e.available /\ up
    BY <1>2
  <2> HIDE DEF restarted, fresh
  <2>6. /\ changed \in EntityStates /\ changed.native = restarted.native
        /\ changed.available = up /\ changed.written = restarted.written
    BY <2>3
  <2> HIDE DEF changed
  <2>7. CASE restarted.available = up
    BY <2>3, <2>4, <2>5, <2>7
  <2>8. CASE restarted.available # up
    <3> DEFINE r == Shown(changed)
    <3>1. /\ r \in EntityStates /\ r.native = restarted.native /\ r.available = up
          /\ r.written = r.native /\ r.shownValue = r.native
          /\ r.timer = changed.timer /\ r.age = changed.age
      BY <2>3, <2>6, ShownFields
    <3>2. changed.timer = restarted.timer /\ changed.age = restarted.age
      BY <2>3 DEF changed
    <3>3. r.timer # Off => r.timer + r.age <= Interval
      BY <2>1, <2>3, <3>1, <3>2, MarkedFields DEF restarted, EntityInv
    <3> HIDE DEF r
    <3>4. EntityInv(r)
      BY <2>2, <3>1, <3>3 DEF EntityInv, SameView
    <3> QED
      BY <2>3, <2>4, <2>8, <3>1, <3>4 DEF r
  <2> QED
    BY <2>7, <2>8
<1> QED
  BY <1>1, <1>2

LEMMA AvailabilityInv ==
    ASSUME NEW e \in EntityStates, EntityInv(e), NEW up \in BOOLEAN
    PROVE  /\ OnAvailability(e, up) \in EntityStates
           /\ EntityInv(OnAvailability(e, up))
           /\ OnAvailability(e, up).native = e.native
           /\ (e.native = Unknown /\ OnAvailability(e, up).available) => up
<1> DEFINE ready   == IF up THEN Fetching(e) ELSE [e EXCEPT !.timer = Off]
           next    == AvailableWith(ready, up)
           changed == [ready EXCEPT !.available = next]
<1>1. /\ ready \in EntityStates /\ ready.native = e.native
      /\ ready.available = e.available /\ ready.written = e.written
      /\ ready.age = e.age /\ ready.shownValue = e.shownValue
      /\ ready.shownAvailable = e.shownAvailable
      /\ ready.timer = IF up THEN e.timer ELSE Off
  BY DEF Fetching
<1>2. OnAvailability(e, up) = IF ready.available = next THEN ready
                              ELSE Shown(Marked(changed))
  BY DEF OnAvailability
<1> HIDE DEF ready
<1>3. /\ next \in BOOLEAN
      /\ e.native = Unknown /\ next => up
      /\ ~up /\ next => Is("keep")
  BY <1>1 DEF AvailableWith, Is
<1> HIDE DEF next
<1>4. changed \in EntityStates /\ changed.native = e.native /\ changed.available = next
  BY <1>1, <1>3
<1> HIDE DEF changed
<1>5. CASE ready.available = next
  BY <1>1, <1>2, <1>3, <1>5 DEF EntityInv
<1>6. CASE ready.available # next
  BY <1>1, <1>2, <1>3, <1>4, <1>6, PublishedInv
<1> QED
  BY <1>5, <1>6

LEMMA SensorInit == Init => SensorInv
<1> SUFFICES ASSUME Init PROVE SensorInv
  OBVIOUS
<1> USE DEF Init
<1>1. entity \in EntityStates
  BY Numbers DEF NewEntity
<1>2. TypeOK
  BY <1>1, Numbers DEF TypeOK
<1>3. EntityInv(entity) /\ ClientInv
  BY DEF EntityInv, ClientInv, NewEntity
<1> QED
  BY <1>2, <1>3 DEF SensorInv

\* A reading that is cached and, if it matters, told to the entity.
LEMMA MeasureInv ==
    ASSUME SensorInv, NEW value \in Readings, NEW forced \in BOOLEAN,
           NEW other \in BOOLEAN, Measure(value, forced, other), session # "down"
    PROVE  /\ entity' \in EntityStates /\ EntityInv(entity')
           /\ entity'.native = value /\ cache' = value
           /\ session' \in {"starting", "proven", "ready"}
<1>1. /\ entity \in EntityStates /\ EntityInv(entity) /\ online \in BOOLEAN
      /\ cache # Unknown => entity.native = cache
      /\ session \in {"starting", "proven", "ready"}
  BY DEF SensorInv, TypeOK, ClientInv
<1>2. cache' = value /\ session' \in {"starting", "proven", "ready"}
  BY <1>1 DEF Measure
<1>3. CASE forced \/ other \/ cache = Unknown \/ cache # value
  BY <1>1, <1>2, <1>3, MeasurementInv DEF Measure
<1>4. CASE ~(forced \/ other \/ cache = Unknown \/ cache # value)
  BY <1>1, <1>2, <1>4 DEF Measure
<1> QED
  BY <1>2, <1>3, <1>4

\* The description never changes, and neither does what the entity owes to it.
LEMMA KindStays ==
    ASSUME kind' = kind
    PROVE  /\ EntityInv(entity') => EntityInv(entity)'
           /\ Is("bare")' = Is("bare")
BY DEF EntityInv, SameView, Close, Distance, Is

\* What has to be shown of a step.
LEMMA StepInv ==
    ASSUME kind \in Kinds, kind' = kind,
           session' \in {"down", "starting", "proven", "ready"},
           online' \in BOOLEAN, available' \in BOOLEAN,
           cache' \in Readings \cup {Unknown},
           expected' \in (0 .. Window) \cup {Off}, asked' \in 0 .. MaxAsked,
           entity' \in EntityStates, EntityInv(entity'),
           online' <=> session' # "down", session' = "down" => asked' = 0,
           cache' # Unknown => entity'.native = cache',
           (Is("bare") /\ entity'.native = Unknown /\ entity'.available) => online'
    PROVE  SensorInv'
<1>1. TypeOK'
  BY DEF TypeOK
<1>2. EntityInv(entity)' /\ ClientInv'
  BY KindStays DEF ClientInv
<1> QED
  BY <1>1, <1>2 DEF SensorInv

LEMMA SensorStep == SensorInv /\ [Next]_vars => SensorInv'
<1> SUFFICES ASSUME SensorInv, [Next]_vars PROVE SensorInv'
  OBVIOUS
<1>0. /\ kind \in Kinds /\ session \in {"down", "starting", "proven", "ready"}
      /\ online \in BOOLEAN /\ available \in BOOLEAN
      /\ cache \in Readings \cup {Unknown}
      /\ expected \in (0 .. Window) \cup {Off} /\ asked \in 0 .. MaxAsked
      /\ entity \in EntityStates /\ EntityInv(entity)
      /\ (online <=> session # "down") /\ (session = "down" => asked = 0)
      /\ cache # Unknown => entity.native = cache
      /\ (Is("bare") /\ entity.native = Unknown /\ entity.available) => online
  BY DEF SensorInv, TypeOK, ClientInv
<1>w. Window \in Nat /\ Window \in 0 .. Window
  BY SensorAssumption
<1>1. CASE Connect
  <2> USE <1>1 DEF Connect
  <2>1. (TRUE /\ Is("bare") /\ entity.native = Unknown) => ~entity.available
    BY <1>0
  <2>2. /\ entity' \in EntityStates /\ EntityInv(entity')
        /\ entity.native # Unknown => entity'.native = entity.native
    BY <1>0, <2>1, OnlineInv
  <2>3. asked' \in 0 .. MaxAsked /\ expected' \in (0 .. Window) \cup {Off}
    BY <1>0, <1>w, Numbers
  <2> QED
    BY <1>0, <2>2, <2>3, Numbers, StepInv
<1>2. CASE Ready
  <2> USE <1>2 DEF Ready
  <2>1. /\ entity' \in EntityStates /\ EntityInv(entity')
        /\ entity'.native = entity.native
    BY <1>0, AvailabilityInv
  <2> QED
    BY <1>0, <2>1, StepInv
<1>3. CASE Disconnect
  <2> DEFINE offline == OnOnline(entity, FALSE)
  <2>1. PICK atOnce \in BOOLEAN :
          /\ available' = (available /\ ~atOnce)
          /\ entity' = IF available /\ atOnce THEN OnAvailability(offline, FALSE)
                       ELSE offline
    BY <1>3 DEF Disconnect
  <2>2. /\ offline \in EntityStates /\ EntityInv(offline)
        /\ entity.native # Unknown => offline.native = entity.native
        /\ ~(Is("bare") /\ offline.native = Unknown /\ offline.available)
    BY <1>0, OnlineInv
  <2> HIDE DEF offline
  <2>3. /\ entity' \in EntityStates /\ EntityInv(entity')
        /\ entity.native # Unknown => entity'.native = entity.native
        /\ ~(Is("bare") /\ entity'.native = Unknown /\ entity'.available)
    BY <2>1, <2>2, AvailabilityInv
  <2>4. /\ kind' = kind /\ session' = "down" /\ online' = FALSE /\ asked' = 0
        /\ cache' = cache /\ expected' = expected /\ asked' \in 0 .. MaxAsked
    BY <1>0, <1>3, Numbers DEF Disconnect
  <2>5. available' \in BOOLEAN
    BY <1>0, <2>1
  <2> QED
    BY <1>0, <2>3, <2>4, <2>5, Numbers, StepInv
<1>4. CASE GraceExpires
  <2> USE <1>4 DEF GraceExpires
  <2>1. /\ entity' \in EntityStates /\ EntityInv(entity')
        /\ entity'.native = entity.native
        /\ (entity.native = Unknown /\ entity'.available) => FALSE
    BY <1>0, AvailabilityInv
  <2> QED
    BY <1>0, <2>1, StepInv
<1>5. CASE Answer
  <2>1. /\ kind' = kind /\ online' = online /\ available' = available
        /\ expected' = Off /\ asked' \in 0 .. MaxAsked /\ session # "down"
    BY <1>0, <1>5, Numbers DEF Answer
  <2>2. PICK value \in Readings :
          IF Publishable(value, expected # Off)
          THEN \E other \in Others : Measure(value, expected # Off, other)
          ELSE UNCHANGED <<cache, session, entity>>
    BY <1>5 DEF Answer
  <2>3. CASE ~Publishable(value, expected # Off)
    BY <1>0, <2>1, <2>2, <2>3, StepInv
  <2>4. CASE Publishable(value, expected # Off)
    <3>1. PICK other \in BOOLEAN : Measure(value, expected # Off, other)
      BY <2>2, <2>4 DEF Others
    <3> QED
      BY <1>0, <2>1, <3>1, MeasureInv, StepInv, Numbers, ZenonT(60)
  <2> QED
    BY <2>3, <2>4
<1>6. CASE Report
  <2>1. /\ kind' = kind /\ online' = online /\ available' = available
        /\ expected' \in {expected, Off} /\ asked' = asked /\ session # "down"
    BY <1>6 DEF Report
  <2>2. PICK value \in Readings, other \in BOOLEAN :
          Measure(value, expected # expected', other)
    BY <1>6 DEF Report, Others
  <2> QED
    BY <1>0, <2>1, <2>2, MeasureInv, StepInv, Numbers, ZenonT(60)
<1>7. CASE Invalid
  <2>1. asked' \in 0 .. MaxAsked
    BY <1>0, <1>7, SensorAssumption DEF Invalid
  <2> QED
    BY <1>0, <1>7, <2>1, StepInv DEF Invalid
<1>8. CASE Fetch
  <2>1. asked' \in 0 .. MaxAsked /\ expected' \in (0 .. Window) \cup {Off}
    BY <1>0, <1>8, <1>w, SensorAssumption DEF Fetch
  <2>2. /\ entity' \in EntityStates /\ EntityInv(entity')
        /\ entity'.native = entity.native /\ entity'.available = entity.available
    BY <1>0, <1>8 DEF Fetch, EntityInv
  <2> QED
    BY <1>0, <1>8, <2>1, <2>2, StepInv DEF Fetch
<1>9. CASE FetchFails
  <2>1. /\ entity' \in EntityStates /\ EntityInv(entity')
        /\ entity'.native = entity.native /\ entity'.available = entity.available
    BY <1>0, <1>9 DEF FetchFails, EntityInv
  <2> QED
    BY <1>0, <1>9, <2>1, StepInv DEF FetchFails
<1>10. CASE Flush
  <2> DEFINE fired == [entity EXCEPT !.timer = Off]
  <2>1. /\ fired \in EntityStates /\ fired.native = entity.native
        /\ fired.available = entity.available /\ fired.written = entity.written
        /\ fired.timer = Off /\ fired.shownValue = entity.shownValue
        /\ fired.shownAvailable = entity.shownAvailable
    BY <1>0
  <2>2. entity' = IF fired.available /\ fired.native # fired.written
                  THEN Shown(Marked(fired)) ELSE fired
    BY <1>10 DEF Flush
  <2> HIDE DEF fired
  <2>3. /\ entity' \in EntityStates /\ entity'.native = entity.native
        /\ entity'.available = entity.available
    BY <2>1, <2>2, PublishedInv
  <2>4. EntityInv(entity')
    BY <1>0, <2>1, <2>2, PublishedInv DEF EntityInv
  <2> QED
    BY <1>0, <1>10, <2>3, <2>4, StepInv DEF Flush
<1>11. CASE Tick
  <2>1. /\ kind' = kind /\ session' = session /\ online' = online
        /\ available' = available /\ cache' = cache /\ asked' = asked
    BY <1>11 DEF Tick
  <2>2. expected' \in (0 .. Window) \cup {Off}
    BY <1>0, <1>11, <1>w DEF Tick, Older
  <2> DEFINE older == IF entity.age < Interval THEN entity.age + 1 ELSE Interval
             left  == Older(entity.timer)
  <2>3. /\ older \in 0 .. Interval /\ left \in (0 .. Interval) \cup {Off}
        /\ left # Off => left + older <= Interval
        /\ left # Off <=> entity.timer # Off
    BY <1>0, <1>11, Numbers DEF Tick, Older, EntityInv
  <2>4. entity' = [entity EXCEPT !.age = older, !.timer = left]
    BY <1>11 DEF Tick
  <2> HIDE DEF older, left
  <2>5. /\ entity' \in EntityStates /\ entity'.native = entity.native
        /\ entity'.available = entity.available /\ entity'.written = entity.written
        /\ entity'.shownValue = entity.shownValue /\ entity'.timer = left
        /\ entity'.shownAvailable = entity.shownAvailable /\ entity'.age = older
    BY <1>0, <2>3, <2>4
  <2>6. EntityInv(entity')
    BY <1>0, <2>3, <2>5 DEF EntityInv
  <2> QED
    BY <1>0, <2>1, <2>2, <2>5, <2>6, StepInv
<1>12. CASE UNCHANGED vars
  BY <1>0, <1>12, StepInv DEF vars
<1> QED
  BY <1>1, <1>2, <1>3, <1>4, <1>5, <1>6, <1>7, <1>8, <1>9, <1>10, <1>11, <1>12 DEF Next

(***************************************************************************)
(* What the sensor, the client and Home Assistant hold of each other stays *)
(* well formed.                                                            *)
(***************************************************************************)
THEOREM SensorIsConsistent == Spec => []SensorInv
BY SensorInit, SensorStep, PTL DEF Spec

(***************************************************************************)
(* A filtered sensor is never behind for longer than its interval: either  *)
(* a delayed write is armed in time, or there is nothing to write.         *)
(***************************************************************************)
THEOREM LagNeverExceedsInterval == Spec => []LagIsBounded
<1>1. SensorInv => LagIsBounded
  <2> SUFFICES ASSUME SensorInv, entity.available, entity.native # entity.written,
                      ~Is("keep")
               PROVE  /\ Is("filtered") /\ entity.timer # Off
                      /\ entity.timer + entity.age <= Interval
    BY DEF LagIsBounded
  <2>1. EntityInv(entity)
    BY DEF SensorInv
  <2>2. Is("filtered")
    BY <2>1 DEF EntityInv, SameView
  <2> QED
    BY <2>1, <2>2 DEF EntityInv
<1> QED
  BY <1>1, SensorIsConsistent, PTL

(***************************************************************************)
(* Home Assistant shows of an available sensor what the client last read,  *)
(* up to the threshold of a filtered one and never on the other side of    *)
(* zero.                                                                   *)
(***************************************************************************)
THEOREM ShownValuesAreRead == Spec => []ShownIsRead
<1>1. SensorInv => ShownIsRead
  <2> SUFFICES ASSUME SensorInv, entity.shownAvailable, cache # Unknown
               PROVE  SameView(entity.shownValue, cache)
    BY DEF ShownIsRead, SameView
  <2> QED
    BY DEF SensorInv, ClientInv, EntityInv
<1> QED
  BY <1>1, SensorIsConsistent, PTL

HIDE SensorAssumption DEF Unknown, Off, Readings

-----------------------------------------------------------------------------
(***************************************************************************)
(* WeatherViews.                                                           *)
(***************************************************************************)
(***************************************************************************)
(* What commands, reports and the client's forecast are.                   *)
(***************************************************************************)
WeatherJobs ==
    {Unbegun, Ended}
        \cup [pc : {"ready", "wait", "lost", "confirmed"}, attempt : {1, 2}, to : Locations]

WeatherReports ==
    [location : Locations, forecast : Forecasts] \cup [favorites : Favored] \cup [none : {TRUE}]

ViewsTypeOK ==
    /\ station \in Fetched /\ live \in BOOLEAN
    /\ weather \in [location : Locations \cup {Nil}, forecast : Nat, favorites : Favored \cup {Nil}]
    /\ choice \in [options : SUBSET Locations, current : Locations \cup {Nil},
                   have : BOOLEAN, available : BOOLEAN]
    /\ outlook \in [forecast : Nat, have : BOOLEAN, available : BOOLEAN]
    /\ update \in [task : {"none", "new", "reading", "done"}, got : Nat,
                   pending : BOOLEAN, late : BOOLEAN]
    /\ seen \in [Subscribers -> Nat] /\ excused \in BOOLEAN

WeatherTypeOK ==
    /\ reports \in Seq(WeatherReports) /\ job \in [Users -> WeatherJobs]
    /\ ViewsTypeOK

(***************************************************************************)
(* Whoever lacks the forecast has an update coming that will deliver it,   *)
(* and an update that has taken an older one is followed by another.       *)
(***************************************************************************)
Delivering ==
    /\ weather.location = Nil => weather.forecast = 0
    /\ outlook.forecast = weather.forecast
    /\ subscribed \subseteq Subscribers
    /\ IsFiniteSet(subscribed) /\ count = Cardinality(subscribed)
    /\ count = 0 => subscribed = {} /\ ~update.pending
    /\ ~excused =>
          /\ update.task = "reading" /\ update.got # weather.forecast => update.pending
          /\ \A s \in subscribed :
                \/ seen[s] = weather.forecast
                \/ update.pending \/ update.task \in {"new", "reading"}

ForecastInv == WeatherTypeOK /\ Delivering

USE LinkAssumption, WeatherAssumption


LEMMA Ordered ==
    ASSUME NEW l \in Locations
    PROVE  Over([pc |-> "ready", attempt |-> 1], [to |-> l])
              = [pc |-> "ready", attempt |-> 1, to |-> l]
BY DEF Over

\* Commands take only the places that the select entity offers.
LEMMA JobStep == WeatherTypeOK /\ [WeatherNext]_weatherVars => job' \in [Users -> WeatherJobs]
<1> SUFFICES ASSUME WeatherTypeOK, [WeatherNext]_weatherVars PROVE job' \in [Users -> WeatherJobs]
  OBVIOUS
<1>0. job \in [Users -> WeatherJobs] /\ choice.options \subseteq Locations
  BY DEF WeatherTypeOK, ViewsTypeOK
<1>1. ASSUME NEW u \in Users, Chooses(u) PROVE job' \in [Users -> WeatherJobs]
  <2>1. PICK l \in choice.options : Orders(u, [to |-> l])
    BY <1>1 DEF Chooses
  <2>2. job' = [job EXCEPT ![u] = [pc |-> "ready", attempt |-> 1, to |-> l]]
    BY <1>0, <2>1, Ordered DEF Orders
  <2>3. [pc |-> "ready", attempt |-> 1, to |-> l] \in WeatherJobs
    BY <1>0, <2>1 DEF WeatherJobs
  <2> QED
    BY <1>0, <2>2, <2>3
<1>2. ASSUME NEW j \in WeatherJobs, NEW p \in {"ready", "wait", "lost", "confirmed"},
             j.pc \notin {"idle", "done"}
      PROVE  [j EXCEPT !.pc = p] \in WeatherJobs /\ [j EXCEPT !.pc = p, !.attempt = 2] \in WeatherJobs
  <2>1. j \in [pc : {"ready", "wait", "lost", "confirmed"}, attempt : {1, 2}, to : Locations]
    BY <1>2 DEF WeatherJobs, Unbegun, Ended
  <2> QED
    BY <2>1 DEF WeatherJobs
<1>3. ASSUME NEW u \in Users, Asks(u) PROVE job' \in [Users -> WeatherJobs]
  BY <1>0, <1>2, <1>3 DEF Asks, Goes
<1>4. ASSUME NEW u \in Users, AsksAgain(u) PROVE job' \in [Users -> WeatherJobs]
  BY <1>0, <1>2, <1>4 DEF AsksAgain, Repeats, Unanswered
<1>5. ASSUME NEW u \in Users, ChoiceFails(u) \/ ChoiceEnds(u) PROVE job' \in [Users -> WeatherJobs]
  BY <1>0, <1>5 DEF ChoiceFails, ChoiceEnds, Ends, WeatherJobs
<1>6. ASSUME WeatherDrop PROVE job' \in [Users -> WeatherJobs]
  <2>1. \A u \in Users : [job[u] EXCEPT !.pc = IF @ = "wait" THEN "lost" ELSE @] \in WeatherJobs
    BY <1>0 DEF WeatherJobs, Unbegun, Ended
  <2> QED
    BY <1>6, <2>1 DEF WeatherDrop, Drops
<1>7. ASSUME WeatherHeard PROVE job' \in [Users -> WeatherJobs]
  <2>1. \A u \in Users : job[u].pc = "wait" => [job[u] EXCEPT !.pc = "confirmed"] \in WeatherJobs
    BY <1>0, <1>2
  <2> QED
    BY <1>0, <1>7, <2>1 DEF WeatherHeard
<1>8. CASE UNCHANGED job
  BY <1>0, <1>8
<1> QED
  BY <1>1, <1>3, <1>4, <1>5, <1>6, <1>7, <1>8
     DEF WeatherNext, FetchWeather, WeatherProved, WeatherGraceOver, WeatherTurns, WeatherSays,
         Opens, Proves, Expires, Twists, Announces, Subscribe, Unsubscribe, UpdateReads, UpdateEnds,
         UpdateDone, clientOnly, weatherVars, linkVars

\* Reports are of what the device has, or of where a command has it go.
LEMMA ReportStep == WeatherTypeOK /\ [WeatherNext]_weatherVars => reports' \in Seq(WeatherReports)
<1> SUFFICES ASSUME WeatherTypeOK, [WeatherNext]_weatherVars PROVE reports' \in Seq(WeatherReports)
  OBVIOUS
<1>0. reports \in Seq(WeatherReports) /\ station \in Fetched
  BY DEF WeatherTypeOK, ViewsTypeOK
<1>1. /\ Here \in WeatherReports /\ [favorites |-> station.favorites] \in WeatherReports
      /\ [none |-> TRUE] \in WeatherReports
      /\ \A l \in Locations : [Here EXCEPT !.location = l] \in WeatherReports
  BY <1>0 DEF Here, Fetched, WeatherReports
<1>2. \A r \in WeatherReports : Append(reports, r) \in Seq(WeatherReports)
  BY <1>0
<1>3. CASE FetchWeather
  BY <1>1, <1>3 DEF FetchWeather, Opens
<1>4. CASE WeatherSays
  <2>1. \E r \in WeatherReports : reports' = Append(reports, r)
    BY <1>1, <1>4, Zenon DEF WeatherSays, Announces
  <2> QED
    BY <1>2, <2>1
<1>5. CASE WeatherHeard
  BY <1>0, <1>5 DEF WeatherHeard
<1>6. ASSUME NEW u \in Users, Asks(u) PROVE reports' \in Seq(WeatherReports)
  <2>1. job[u].pc = "ready" /\ job[u] \in WeatherJobs
    BY <1>6 DEF Asks, WeatherTypeOK
  <2>2. job[u].to \in Locations
    BY <2>1 DEF WeatherJobs, Unbegun, Ended
  <2> QED
    BY <1>0, <1>1, <1>2, <1>6, <2>2 DEF Asks
<1>7. CASE WeatherDrop \/ \E u \in Users : AsksAgain(u)
  <2>1. reports' = <<>>
    BY <1>7, Zenon DEF WeatherDrop, Drops, AsksAgain, Repeats
  <2> QED
    BY <2>1
<1>8. CASE UNCHANGED reports
  BY <1>0, <1>8
<1> QED
  BY <1>3, <1>4, <1>5, <1>6, <1>7, <1>8
     DEF WeatherNext, WeatherProved, WeatherGraceOver, WeatherTurns, Proves, Expires, Twists,
         Chooses, Orders, ChoiceFails, ChoiceEnds, Ends,
         Subscribe, Unsubscribe, UpdateReads, UpdateEnds, UpdateDone, clientOnly, weatherVars, linkVars

\* What a report makes the client know.
LEMMA WeatherKnown ==
    ASSUME WeatherTypeOK, weather.location = Nil => weather.forecast = 0, NEW r \in WeatherReports
    PROVE  /\ Weather(r) \in [location : Locations \cup {Nil}, forecast : Nat,
                              favorites : Favored \cup {Nil}]
           /\ Weather(r).location = Nil => Weather(r).forecast = 0
<1>0. weather \in [location : Locations \cup {Nil}, forecast : Nat, favorites : Favored \cup {Nil}]
  BY DEF WeatherTypeOK, ViewsTypeOK
<1>1. DOMAIN Nowhere = {"location", "forecast", "favorites"}
  BY DEF Nowhere
<1>2. CASE r \in [location : Locations, forecast : Forecasts]
  <2>1. DOMAIN r = {"location", "forecast"} /\ r.location \in Locations /\ r.forecast \in Nat
    BY <1>2
  <2>2. Weather(r) = [location |-> r.location, forecast |-> r.forecast, favorites |-> weather.favorites]
    BY <1>1, <2>1 DEF Weather
  <2> QED
    BY <1>0, <2>1, <2>2
<1>3. CASE r \in [favorites : Favored]
  <2>1. DOMAIN r = {"favorites"} /\ r.favorites \in Favored
    BY <1>3
  <2>2. Weather(r) = [location |-> weather.location, forecast |-> weather.forecast,
                      favorites |-> r.favorites]
    BY <1>1, <2>1 DEF Weather
  <2> QED
    BY <1>0, <2>1, <2>2
<1>4. CASE r \in [none : {TRUE}]
  <2>1. Weather(r) = Nowhere
    BY <1>4 DEF Weather
  <2> QED
    BY <2>1 DEF Nowhere
<1> QED
  BY <1>2, <1>3, <1>4 DEF WeatherReports

\* The entities show what the client knows.
LEMMA OutlookShows ==
    ASSUME NEW w \in [location : Locations \cup {Nil}, forecast : Nat, favorites : Favored \cup {Nil}]
    PROVE  /\ live \in BOOLEAN => Chosen(w) \in [options : SUBSET Locations, current : Locations \cup {Nil},
                                                 have : BOOLEAN, available : BOOLEAN]
           /\ live \in BOOLEAN => Forecasting(w) \in [forecast : Nat, have : BOOLEAN, available : BOOLEAN]
           /\ (w.location = Nil => w.forecast = 0) => Forecasting(w).forecast = w.forecast
BY DEF Chosen, Forecasting

\* The actions that have to do with neither the forecast nor who is subscribed.
LEMMA OutlookKept ==
    ASSUME ForecastInv,
           UNCHANGED <<weather, update, subscribed, count, seen, excused>>,
           station' \in Fetched, live' \in BOOLEAN,
           choice' \in [options : SUBSET Locations, current : Locations \cup {Nil},
                        have : BOOLEAN, available : BOOLEAN],
           \/ outlook' = outlook
           \/ \E b \in BOOLEAN : outlook' = [outlook EXCEPT !.available = b]
    PROVE  ViewsTypeOK' /\ Delivering'
<1>1. outlook' \in [forecast : Nat, have : BOOLEAN, available : BOOLEAN]
      /\ outlook'.forecast = outlook.forecast
  BY DEF ForecastInv, WeatherTypeOK, ViewsTypeOK
<1>2. ViewsTypeOK'
  BY <1>1 DEF ForecastInv, WeatherTypeOK, ViewsTypeOK
<1>3. Delivering'
  BY <1>1 DEF ForecastInv, Delivering
<1> QED
  BY <1>2, <1>3

LEMMA QuietStep ==
    ASSUME ForecastInv,
           \/ FetchWeather \/ WeatherProved \/ WeatherDrop \/ WeatherGraceOver
           \/ WeatherTurns \/ WeatherSays
           \/ \E u \in Users : Chooses(u) \/ Asks(u) \/ AsksAgain(u) \/ ChoiceFails(u) \/ ChoiceEnds(u)
    PROVE  ViewsTypeOK' /\ Delivering'
<1>0. ViewsTypeOK
  BY DEF ForecastInv, WeatherTypeOK
<1>1. choice.have \in BOOLEAN /\ outlook.have \in BOOLEAN /\ station \in Fetched /\ live \in BOOLEAN
  BY <1>0 DEF ViewsTypeOK
<1>2. \A b \in BOOLEAN : [choice EXCEPT !.available = b]
        \in [options : SUBSET Locations, current : Locations \cup {Nil},
             have : BOOLEAN, available : BOOLEAN]
  BY <1>0 DEF ViewsTypeOK
<1>3. CASE FetchWeather \/ WeatherDrop \/ WeatherTurns \/ WeatherSays
  <2>1. UNCHANGED <<weather, forecastVars, choice, outlook>>
    BY <1>3, Zenon DEF FetchWeather, WeatherDrop, WeatherTurns, WeatherSays
  <2>2. live' = live /\ station' \in Fetched
    BY <1>1, <1>3
       DEF FetchWeather, WeatherDrop, WeatherTurns, WeatherSays, Opens, Drops, Twists, Announces
  <2> QED
    BY <1>0, <1>1, <2>1, <2>2, OutlookKept DEF ViewsTypeOK, forecastVars
<1>4. CASE WeatherProved \/ WeatherGraceOver
  <2>1. UNCHANGED <<weather, forecastVars, station>>
    BY <1>4, Zenon DEF WeatherProved, WeatherGraceOver
  <2>2. live' \in BOOLEAN
    BY <1>4 DEF WeatherProved, WeatherGraceOver, Proves, Expires
  <2>3. UNCHANGED <<choice, outlook>> \/ \E now \in BOOLEAN : WeatherLive(now)
    BY <1>4, Zenon DEF WeatherProved, WeatherGraceOver
  <2>4. CASE UNCHANGED <<choice, outlook>>
    BY <1>0, <1>1, <2>1, <2>2, <2>4, OutlookKept DEF ViewsTypeOK, forecastVars
  <2>5. ASSUME NEW now \in BOOLEAN, WeatherLive(now) PROVE ViewsTypeOK' /\ Delivering'
    <3>1. (now /\ choice.have) \in BOOLEAN /\ (now /\ outlook.have) \in BOOLEAN
      OBVIOUS
    <3>2. \E b \in BOOLEAN : choice' = [choice EXCEPT !.available = b]
      BY <2>5, <3>1, Zenon DEF WeatherLive
    <3>3. \E b \in BOOLEAN : outlook' = [outlook EXCEPT !.available = b]
      BY <2>5, <3>1, Zenon DEF WeatherLive
    <3> QED
      BY <1>1, <1>2, <2>1, <2>2, <3>2, <3>3, OutlookKept DEF forecastVars
  <2> QED
    BY <2>3, <2>4, <2>5
<1>5. ASSUME NEW u \in Users,
             Chooses(u) \/ Asks(u) \/ AsksAgain(u) \/ ChoiceFails(u) \/ ChoiceEnds(u)
      PROVE  ViewsTypeOK' /\ Delivering'
  <2>1. UNCHANGED <<weather, forecastVars, outlook>> /\ live' = live
    BY <1>5, Zenon
       DEF Chooses, Asks, AsksAgain, ChoiceFails, ChoiceEnds, Orders, Repeats, Ends
  <2>2. station' \in Fetched
    <3>1. CASE Asks(u)
      <4>1. job[u].pc = "ready" /\ job[u] \in WeatherJobs
        BY <3>1 DEF Asks, ForecastInv, WeatherTypeOK
      <4>2. job[u].to \in Locations
        BY <4>1 DEF WeatherJobs, Unbegun, Ended
      <4> QED
        BY <1>1, <3>1, <4>2 DEF Asks, Fetched
    <3>2. CASE ~Asks(u)
      BY <1>1, <1>5, <3>2 DEF Chooses, AsksAgain, ChoiceFails, ChoiceEnds
    <3> QED
      BY <3>1, <3>2
  <2>3. choice' \in [options : SUBSET Locations, current : Locations \cup {Nil},
                     have : BOOLEAN, available : BOOLEAN]
    <3>1. UNCHANGED choice \/ choice' = Chosen(weather)
             \/ choice' = [choice EXCEPT !.available = live /\ choice.have]
      BY <1>5, Zenon DEF Chooses, Asks, AsksAgain, ChoiceFails, ChoiceEnds
    <3>2. (live /\ choice.have) \in BOOLEAN
      OBVIOUS
    <3> QED
      BY <1>0, <1>2, <3>1, <3>2, OutlookShows DEF ViewsTypeOK
  <2> QED
    BY <1>1, <2>1, <2>2, <2>3, OutlookKept DEF forecastVars
<1> QED
  BY <1>3, <1>4, <1>5

\* A change of the forecast has an update under way for whoever is subscribed.
LEMMA Scheduled ==
    ASSUME NEW up \in [task : {"none", "new", "reading", "done"}, got : Nat,
                       pending : BOOLEAN, late : BOOLEAN]
    PROVE  /\ Schedule(up) \in [task : {"none", "new", "reading", "done"}, got : Nat,
                                pending : BOOLEAN, late : BOOLEAN]
           /\ Schedule(up).got = up.got
           /\ count # 0 => \/ Schedule(up).pending /\ Schedule(up).task = up.task
                           \/ Schedule(up).task = "new"
           /\ count = 0 => Schedule(up).task = up.task
BY DEF Schedule

LEMMA HeardStep ==
    ASSUME ForecastInv, WeatherHeard PROVE ViewsTypeOK' /\ Delivering'
<1> DEFINE up == [task : {"none", "new", "reading", "done"}, got : Nat, pending : BOOLEAN, late : BOOLEAN]
           held == [location : Locations \cup {Nil}, forecast : Nat, favorites : Favored \cup {Nil}]
           chosen == [options : SUBSET Locations, current : Locations \cup {Nil},
                      have : BOOLEAN, available : BOOLEAN]
           forecasts == [forecast : Nat, have : BOOLEAN, available : BOOLEAN]
<1>0. ViewsTypeOK /\ Delivering /\ Head(reports) \in WeatherReports
  BY DEF ForecastInv, WeatherTypeOK, WeatherHeard
<1>1. weather' \in held /\ (weather'.location = Nil => weather'.forecast = 0)
  BY <1>0, WeatherKnown DEF ForecastInv, Delivering, WeatherHeard
<1>2. UNCHANGED <<station, live, subscribed, count, seen>>
  BY DEF WeatherHeard
<1>3. CASE UNCHANGED <<choice, outlook, update, excused>> /\ weather' = weather
  BY <1>0, <1>2, <1>3 DEF ViewsTypeOK, Delivering
<1>4. CASE Shows(weather')
  <2>1. choice' \in chosen /\ outlook' \in forecasts /\ outlook'.forecast = weather'.forecast
    BY <1>0, <1>1, <1>4, OutlookShows DEF Shows, ViewsTypeOK
  <2>2. CASE outlook'.forecast # outlook.forecast
    <3>1. update' = Schedule(update) /\ excused' = (count = 0 /\ update.task = "reading")
      BY <1>4, <2>2, Zenon DEF Shows
    <3>2. update' \in up /\ (count # 0 => \/ update'.pending
                                          \/ update'.task = "new")
          /\ (count = 0 => update'.task = update.task /\ ~update'.pending)
      BY <1>0, <3>1, Scheduled DEF ViewsTypeOK, Schedule
    <3>3. ViewsTypeOK'
      BY <1>0, <1>1, <1>2, <2>1, <3>1, <3>2 DEF ViewsTypeOK
    <3>4. ~excused' => /\ update'.task = "reading" /\ update'.got # weather'.forecast => update'.pending
                       /\ count # 0 => update'.pending \/ update'.task \in {"new", "reading"}
      BY <3>1, <3>2
    <3> QED
      BY <1>0, <1>1, <1>2, <2>1, <3>2, <3>3, <3>4 DEF Delivering
  <2>3. CASE outlook'.forecast = outlook.forecast
    <3>1. UNCHANGED <<update, excused>>
      BY <1>4, <2>3, Zenon DEF Shows
    <3>2. ViewsTypeOK'
      BY <1>0, <1>1, <1>2, <2>1, <3>1 DEF ViewsTypeOK
    <3> QED
      BY <1>0, <1>1, <1>2, <2>1, <2>3, <3>1, <3>2 DEF Delivering
  <2> QED
    BY <2>2, <2>3
<1> QED
  BY <1>3, <1>4, Zenon DEF WeatherHeard

\* Subscriptions: who joins has the forecast at once, and the last one to leave
\* ends what is pending.
LEMMA SubscribersStep ==
    ASSUME ForecastInv, NEW s \in Subscribers, Subscribe(s) \/ Unsubscribe(s)
    PROVE  ViewsTypeOK' /\ Delivering'
<1>0. ViewsTypeOK /\ Delivering
  BY DEF ForecastInv, WeatherTypeOK
<1>1. outlook.forecast \in Nat /\ outlook.forecast = weather.forecast
  BY <1>0 DEF ViewsTypeOK, Delivering
<1>2. UNCHANGED <<station, live, weather, choice, outlook>>
  BY DEF Subscribe, Unsubscribe, clientOnly, linkVars
<1>3. CASE Subscribe(s)
  <2>1. UNCHANGED <<update, excused>> /\ subscribed' = subscribed \cup {s} /\ count' = count + 1
        /\ s \notin subscribed
    BY <1>3 DEF Subscribe
  <2>2. seen' \in [Subscribers -> Nat] /\ seen'[s] = weather.forecast
        /\ \A t \in Subscribers \ {s} : seen'[t] = seen[t]
    BY <1>0, <1>1, <1>3 DEF Subscribe, ViewsTypeOK
  <2>3. IsFiniteSet(subscribed') /\ count' = Cardinality(subscribed') /\ count' # 0
    BY <1>0, <2>1, FS_AddElement, FS_CardinalityType DEF Delivering
  <2>4. ViewsTypeOK'
    BY <1>0, <1>2, <2>1, <2>2 DEF ViewsTypeOK
  <2> QED
    BY <1>0, <1>2, <2>1, <2>2, <2>3, <2>4 DEF Delivering
<1>4. CASE Unsubscribe(s)
  <2>1. subscribed' = subscribed \ {s} /\ s \in subscribed
    BY <1>4 DEF Unsubscribe
  <2>2. seen' \in [Subscribers -> Nat] /\ \A t \in Subscribers \ {s} : seen'[t] = seen[t]
    BY <1>0, <1>4 DEF Unsubscribe, ViewsTypeOK
  <2>3. IsFiniteSet(subscribed') /\ Cardinality(subscribed') = count - 1 /\ count \in Nat
    BY <1>0, <2>1, FS_RemoveElement, FS_CardinalityType DEF Delivering
  <2>4. CASE count > 1
    <3>1. count' = count - 1 /\ UNCHANGED <<update, excused>>
      BY <1>4, <2>4, Zenon DEF Unsubscribe
    <3>2. ViewsTypeOK'
      BY <1>0, <1>2, <2>2, <3>1 DEF ViewsTypeOK
    <3>3. count' = Cardinality(subscribed') /\ count' # 0
      BY <2>3, <2>4, <3>1
    <3> QED
      BY <1>0, <1>2, <2>1, <2>2, <2>3, <3>1, <3>2, <3>3 DEF Delivering
  <2>5. CASE ~(count > 1)
    <3>1. count' = 0 /\ update' = [update EXCEPT !.pending = FALSE]
          /\ excused' = (excused \/ update.task = "reading")
      BY <1>4, <2>5, Zenon DEF Unsubscribe
    <3>2. Cardinality(subscribed') = 0
      BY <2>1, <2>3, <2>5, FS_CardinalityType
    <3>3. subscribed' = {}
      BY <2>3, <3>2, FS_EmptySet
    <3>4. /\ update' \in [task : {"none", "new", "reading", "done"}, got : Nat,
                          pending : BOOLEAN, late : BOOLEAN]
          /\ update'.task = update.task /\ update'.pending = FALSE
      BY <1>0, <3>1 DEF ViewsTypeOK
    <3>5. excused' \in BOOLEAN /\ (~excused' => update.task # "reading")
      BY <3>1
    <3>6. ViewsTypeOK'
      BY <1>0, <1>2, <2>2, <3>4, <3>5 DEF ViewsTypeOK
    <3> QED
      BY <1>0, <1>2, <2>3, <3>1, <3>2, <3>3, <3>4, <3>5, <3>6 DEF Delivering
  <2> QED
    BY <2>4, <2>5
<1> QED
  BY <1>3, <1>4

\* The update itself.
LEMMA UpdateStep ==
    ASSUME ForecastInv, UpdateReads \/ UpdateEnds \/ UpdateDone
    PROVE  ViewsTypeOK' /\ Delivering'
<1> DEFINE up == [task : {"none", "new", "reading", "done"}, got : Nat, pending : BOOLEAN, late : BOOLEAN]
<1>0. ViewsTypeOK /\ Delivering
  BY DEF ForecastInv, WeatherTypeOK
<1>1. outlook.forecast \in Nat /\ outlook.forecast = weather.forecast /\ update \in up
  BY <1>0 DEF ViewsTypeOK, Delivering
<1>2. UNCHANGED <<station, live, weather, choice, outlook, subscribed, count>>
  BY DEF UpdateReads, UpdateEnds, UpdateDone, clientOnly, linkVars
<1>3. CASE UpdateReads
  <2>1. update' \in up /\ update'.task = "reading" /\ update'.got = weather.forecast
        /\ update'.pending = update.pending
    BY <1>1, <1>3 DEF UpdateReads
  <2>2. UNCHANGED <<seen, excused>>
    BY <1>3 DEF UpdateReads
  <2>3. ViewsTypeOK'
    BY <1>0, <1>2, <2>1, <2>2 DEF ViewsTypeOK
  <2> QED
    BY <1>0, <1>2, <2>1, <2>2, <2>3 DEF Delivering
<1>4. CASE UpdateEnds
  <2>1. update' \in up /\ update'.task = "done" /\ update'.pending = update.pending
        /\ update.task = "reading"
    BY <1>1, <1>4 DEF UpdateEnds
  <2>2. \/ /\ seen' = [s \in Subscribers |-> IF s \in subscribed THEN update.got ELSE seen[s]]
           /\ excused' = excused
        \/ seen' = seen /\ excused' = TRUE
    BY <1>4, Zenon DEF UpdateEnds
  <2>3. seen' \in [Subscribers -> Nat] /\ excused' \in BOOLEAN
    BY <1>0, <1>1, <2>2 DEF ViewsTypeOK
  <2>4. ViewsTypeOK'
    BY <1>0, <1>2, <2>1, <2>3 DEF ViewsTypeOK
  <2>5. ~excused' => ~excused /\ \A s \in subscribed : seen'[s] = update.got
    BY <1>0, <2>2 DEF Delivering
  <2> QED
    BY <1>0, <1>2, <2>1, <2>4, <2>5 DEF Delivering
<1>5. CASE UpdateDone
  <2> DEFINE cleared == [update EXCEPT !.late = FALSE, !.task = IF @ = "done" THEN "none" ELSE @]
  <2>1. cleared \in up /\ cleared.pending = update.pending /\ cleared.got = update.got
        /\ cleared.task = IF update.task = "done" THEN "none" ELSE update.task
    BY <1>1
  <2>2. UNCHANGED <<seen, excused>>
    BY <1>5 DEF UpdateDone
  <2>3. CASE update.pending
    <3>1. update' = Schedule([cleared EXCEPT !.pending = FALSE])
      BY <1>5, <2>3 DEF UpdateDone
    <3>2. [cleared EXCEPT !.pending = FALSE] \in up
      BY <2>1
    <3>3. count # 0
      BY <1>0, <2>3 DEF Delivering
    <3>4. update' \in up /\ (update'.pending \/ update'.task = "new")
      <4>1. Schedule([cleared EXCEPT !.pending = FALSE]) \in up
            /\ \/ Schedule([cleared EXCEPT !.pending = FALSE]).pending
               \/ Schedule([cleared EXCEPT !.pending = FALSE]).task = "new"
        BY <3>2, <3>3, Scheduled
      <4> QED
        BY <3>1, <4>1
    <3>5. ViewsTypeOK'
      BY <1>0, <1>2, <2>2, <3>4 DEF ViewsTypeOK
    <3> QED
      BY <1>0, <1>2, <2>2, <3>3, <3>4, <3>5 DEF Delivering
  <2>4. CASE ~update.pending
    <3>1. update' = cleared
      BY <1>5, <2>4 DEF UpdateDone
    <3>2. /\ update' \in up /\ update'.got = update.got /\ update'.pending = update.pending
          /\ update'.task = IF update.task = "done" THEN "none" ELSE update.task
      BY <2>1, <3>1
    <3>3. ViewsTypeOK'
      BY <1>0, <1>2, <2>2, <3>2 DEF ViewsTypeOK
    <3> QED
      BY <1>0, <1>2, <2>2, <2>4, <3>2, <3>3 DEF Delivering
  <2> QED
    BY <2>3, <2>4
<1> QED
  BY <1>3, <1>4, <1>5

LEMMA ForecastStep == ForecastInv /\ [WeatherNext]_weatherVars => ForecastInv'
<1> SUFFICES ASSUME ForecastInv, [WeatherNext]_weatherVars PROVE ForecastInv'
  OBVIOUS
<1>1. job' \in [Users -> WeatherJobs] /\ reports' \in Seq(WeatherReports)
  BY JobStep, ReportStep DEF ForecastInv
<1>2. CASE UNCHANGED weatherVars
  <2>1. UNCHANGED <<station, weather, choice, outlook, update, subscribed, count, seen, excused, live>>
    BY <1>2, Zenon DEF weatherVars, linkVars
  <2> QED
    BY <1>1, <2>1 DEF ForecastInv, WeatherTypeOK, ViewsTypeOK, Delivering
<1>3. CASE WeatherNext
  <2>1. ViewsTypeOK' /\ Delivering'
    BY <1>3, QuietStep, HeardStep, SubscribersStep, UpdateStep, Zenon DEF WeatherNext
  <2> QED
    BY <1>1, <2>1 DEF ForecastInv, WeatherTypeOK
<1> QED
  BY <1>2, <1>3

LEMMA ForecastStart == WeatherInit => ForecastInv
<1> SUFFICES ASSUME WeatherInit PROVE ForecastInv
  OBVIOUS
<1>1. reports \in Seq(WeatherReports) /\ job \in [Users -> WeatherJobs] /\ live = FALSE
  BY DEF WeatherInit, LinkInit, WeatherJobs
<1>2. weather \in [location : Locations \cup {Nil}, forecast : Nat, favorites : Favored \cup {Nil}]
      /\ weather.location = Nil /\ weather.forecast = 0 /\ weather = Nowhere
  BY DEF WeatherInit, Nowhere
<1>3. /\ choice \in [options : SUBSET Locations, current : Locations \cup {Nil},
                     have : BOOLEAN, available : BOOLEAN]
      /\ outlook \in [forecast : Nat, have : BOOLEAN, available : BOOLEAN]
      /\ outlook.forecast = weather.forecast
  BY <1>1, <1>2, OutlookShows DEF WeatherInit
<1>4. ViewsTypeOK
  BY <1>1, <1>2, <1>3 DEF WeatherInit, ViewsTypeOK
<1>5. Delivering
  BY <1>2, <1>3, FS_EmptySet DEF WeatherInit, Delivering
<1> QED
  BY <1>1, <1>4, <1>5 DEF ForecastInv, WeatherTypeOK

\* The weather entities keep to their form, and whoever lacks the forecast has an
\* update coming that will deliver it.
THEOREM ForecastType == WeatherSpec => []ForecastInv
BY ForecastStart, ForecastStep, PTL DEF WeatherSpec

\* Once no update is under way or pending, every subscriber has the forecast that
\* the client knows; unless, since it changed, an update has failed or has for a
\* while been running with nobody subscribed (weather.py:111, 161, 184).
THEOREM ForecastReachesSubscribers == WeatherSpec => []ForecastIsDelivered
<1>1. ForecastInv => ForecastIsDelivered
  BY DEF ForecastInv, WeatherTypeOK, ViewsTypeOK, Delivering, ForecastIsDelivered
<1> QED
  BY <1>1, ForecastType, PTL

-----------------------------------------------------------------------------
(***************************************************************************)
(* RadioPlayer.                                                            *)
(***************************************************************************)
USE LinkAssumption, RadioAssumption

(***************************************************************************)
(* A command to play, pause or turn off shows what it makes the client     *)
(* assume; a report of "play" is a truth value.                            *)
(***************************************************************************)
PlayJobs ==
    {j \in [pc : {"ready", "wait", "lost", "sent"}, attempt : {1, 2}, op : {"play"}, play : BOOLEAN,
            station : {Nil}, shows : {<<"playing">>, <<"paused">>, <<"off">>}] :
        j.play = (j.shows = <<"playing">>)}

SelectJobs(s, option) ==
    [pc : {"ready", "wait", "lost", "sent"}, attempt : {1, 2}, op : {"select"}, play : {Nil},
     station : {s}, shows : {option}]

RadioJob(j) == j \in {Unbegun, Ended} \cup PlayJobs \/ \E s, option : j \in SelectJobs(s, option)

RadioReport(r) == "play" \in DOMAIN r => r.play \in BOOLEAN

RadioReportsOK == \E R : reports \in Seq(R) /\ \A r \in R : RadioReport(r)

RadioJobsOK == job = [u \in Users |-> job[u]] /\ \A u \in Users : RadioJob(job[u])

RadioTypeOK ==
    /\ RadioJobsOK
    /\ tuner = [play |-> tuner.play, station |-> tuner.station, favorites |-> tuner.favorites]
    /\ tuner.play \in BOOLEAN
    /\ RadioReportsOK

(***************************************************************************)
(* The player follows what the client knows, which is what the device said *)
(* last but for an assumed playback state, and "off" survives only as long *)
(* as nothing plays and nobody asks for anything else.                     *)
(***************************************************************************)
IsPlayer(p) ==
    p \in [state : {p.state}, off : BOOLEAN, sources : {p.sources}, source : {p.source},
           content : {p.content}, have : {p.have}, available : {p.available}]

Following ==
    /\ radio = [i \in RadioFields |-> radio[i]] /\ radio.play \in BOOLEAN \cup {Nil}
    /\ told = [i \in {"station", "play"} |-> told[i]]
    /\ assumed \in BOOLEAN /\ picked \in BOOLEAN
    /\ told.station = radio.station /\ (~assumed => told.play = radio.play)
    /\ IsPlayer(player)
    /\ radio.play # Nil /\ ~picked => (player.state = "playing") = radio.play
    /\ radio.play = TRUE => player.state = "playing" /\ ~player.off
    /\ radio.station # Nil /\ ~picked =>
          player.source = Source(radio.station, player.sources, Nil)
    /\ player.off \/ player.state \in {Nil, "off"} => wish = "off"

RadioInv == RadioTypeOK /\ Following

\* The jobs that a command becomes.
LEMMA RadioOrdered ==
    ASSUME NEW op, NEW play, NEW sta, NEW shows
    PROVE  Over([pc |-> "ready", attempt |-> 1],
                [op |-> op, play |-> play, station |-> sta, shows |-> shows])
              = [pc |-> "ready", attempt |-> 1, op |-> op, play |-> play, station |-> sta,
                 shows |-> shows]
BY DEF Over

LEMMA RadioJobStep == RadioTypeOK /\ [RadioNext]_radioVars => RadioJobsOK'
<1> SUFFICES ASSUME RadioTypeOK, [RadioNext]_radioVars PROVE RadioJobsOK'
  OBVIOUS
<1>0. RadioJobsOK
  BY DEF RadioTypeOK
<1>1. ASSUME NEW j, RadioJob(j), NEW p \in {"ready", "wait", "lost", "sent"},
             j.pc \notin {"idle", "done"}
      PROVE  RadioJob([j EXCEPT !.pc = p]) /\ RadioJob([j EXCEPT !.pc = p, !.attempt = 2])
  <2>1. j # Unbegun /\ j # Ended
    BY <1>1 DEF Unbegun, Ended
  <2>2. CASE j \in PlayJobs
    <3>1. [j EXCEPT !.pc = p] \in PlayJobs /\ [j EXCEPT !.pc = p, !.attempt = 2] \in PlayJobs
      BY <2>2 DEF PlayJobs
    <3> QED
      BY <3>1 DEF RadioJob
  <2>3. CASE \E s, option : j \in SelectJobs(s, option)
    <3>1. PICK s, option : j \in SelectJobs(s, option)
      BY <2>3
    <3>2. /\ [j EXCEPT !.pc = p] \in SelectJobs(s, option)
          /\ [j EXCEPT !.pc = p, !.attempt = 2] \in SelectJobs(s, option)
      BY <3>1 DEF SelectJobs
    <3> QED
      BY <3>2 DEF RadioJob
  <2> QED
    BY <1>1, <2>1, <2>2, <2>3 DEF RadioJob
<1>2. ASSUME NEW u \in Users, Listen(u) PROVE RadioJobsOK'
  <2>1. ASSUME NEW k, Selects(u, k) PROVE RadioJobsOK'
    <3>1. PICK s, option : Orders(u, [op |-> "select", play |-> Nil, station |-> s, shows |-> option])
      BY <2>1 DEF Selects
    <3> DEFINE j == [pc |-> "ready", attempt |-> 1, op |-> "select", play |-> Nil, station |-> s,
                     shows |-> option]
    <3>2. j = Over([pc |-> "ready", attempt |-> 1],
                   [op |-> "select", play |-> Nil, station |-> s, shows |-> option])
      BY RadioOrdered
    <3>3. job' = [job EXCEPT ![u] = j]
      BY <3>1, <3>2, Zenon DEF Orders
    <3>4. RadioJob(j)
      BY DEF RadioJob, SelectJobs
    <3> QED
      BY <1>0, <3>3, <3>4 DEF RadioJobsOK
  <2>2. ASSUME NEW s \in {"playing", "paused", "off"}, NEW play, play = (s = "playing"),
               Orders(u, [op |-> "play", play |-> play, station |-> Nil, shows |-> <<s>>])
        PROVE  RadioJobsOK'
    <3> DEFINE j == [pc |-> "ready", attempt |-> 1, op |-> "play", play |-> play, station |-> Nil,
                     shows |-> <<s>>]
    <3>1. j = Over([pc |-> "ready", attempt |-> 1],
                   [op |-> "play", play |-> play, station |-> Nil, shows |-> <<s>>])
      BY RadioOrdered
    <3>2. job' = [job EXCEPT ![u] = j]
      BY <2>2, <3>1, Zenon DEF Orders
    <3>3. RadioJob(j)
      <4>1. (<<s>> = <<"playing">>) = (s = "playing")
        OBVIOUS
      <4> QED
        BY <2>2, <4>1 DEF RadioJob, PlayJobs
    <3> QED
      BY <1>0, <3>2, <3>3 DEF RadioJobsOK
  <2> QED
    BY <1>2, <2>1, <2>2, Zenon DEF Listen
<1>3. ASSUME NEW u \in Users, Sends(u) PROVE RadioJobsOK'
  <2>1. PICK p \in {"wait", "sent"} : job' = [job EXCEPT ![u].pc = p]
    BY <1>3 DEF Sends, Goes
  <2> QED
    BY <1>0, <1>1, <1>3, <2>1 DEF RadioJobsOK, Sends
<1>4. ASSUME NEW u \in Users, SendAgain(u) PROVE RadioJobsOK'
  <2>1. job' = [job EXCEPT ![u].pc = "ready", ![u].attempt = 2] /\ job[u].pc \in Sending
    BY <1>4 DEF SendAgain, Repeats
  <2> QED
    BY <1>0, <1>1, <2>1 DEF RadioJobsOK, Sending
<1>5. ASSUME NEW u \in Users, GivesUp(u) \/ Played(u) \/ Selected(u) PROVE RadioJobsOK'
  <2>1. job' = [job EXCEPT ![u] = Ended]
    BY <1>5, Zenon DEF GivesUp, Played, Selected, Ends
  <2> QED
    BY <1>0, <2>1 DEF RadioJobsOK, RadioJob
<1>6. CASE RadioDrop
  <2>1. \A u \in Users : job[u].pc = "wait" => RadioJob([job[u] EXCEPT !.pc = "lost"])
    BY <1>0, <1>1 DEF RadioJobsOK
  <2>2. \A u \in Users : job[u].pc # "wait" => [job[u] EXCEPT !.pc = @] = job[u]
    BY <1>0 DEF RadioJobsOK, RadioJob, PlayJobs, SelectJobs, Unbegun, Ended
  <2>3. \A u \in Users : RadioJob([job[u] EXCEPT !.pc = IF @ = "wait" THEN "lost" ELSE @])
    BY <1>0, <2>1, <2>2 DEF RadioJobsOK
  <2> QED
    BY <1>6, <2>3 DEF RadioDrop, Drops, RadioJobsOK
<1>7. CASE RadioHeard
  <2>1. \A u \in Users : job[u].pc = "wait" => RadioJob([job[u] EXCEPT !.pc = "sent"])
    BY <1>0, <1>1 DEF RadioJobsOK
  <2> QED
    BY <1>0, <1>7, <2>1 DEF RadioHeard, RadioJobsOK
<1>8. CASE UNCHANGED job
  BY <1>0, <1>8 DEF RadioJobsOK
<1> QED
  BY <1>2, <1>3, <1>4, <1>5, <1>6, <1>7, <1>8
     DEF RadioNext, TuneIn, RadioProved, RadioGraceOver, Tune, TellsMore, Tells, Opens, Proves,
         Expires, Twists, Announces, radioVars, linkVars

\* What the device has and what it reports of it.
LEMMA RadioReportStep ==
    RadioTypeOK /\ [RadioNext]_radioVars =>
        /\ RadioReportsOK'
        /\ tuner' = [play |-> tuner'.play, station |-> tuner'.station, favorites |-> tuner'.favorites]
        /\ tuner'.play \in BOOLEAN
<1> SUFFICES ASSUME RadioTypeOK, [RadioNext]_radioVars
             PROVE  /\ RadioReportsOK'
                    /\ tuner' = [play |-> tuner'.play, station |-> tuner'.station,
                                 favorites |-> tuner'.favorites]
                    /\ tuner'.play \in BOOLEAN
  OBVIOUS
<1>0. /\ RadioJobsOK /\ RadioReportsOK /\ tuner.play \in BOOLEAN
      /\ tuner = [play |-> tuner.play, station |-> tuner.station, favorites |-> tuner.favorites]
  BY DEF RadioTypeOK
<1>1. ASSUME NEW r, RadioReport(r), reports' = Append(reports, r) PROVE RadioReportsOK'
  <2>1. PICK R : reports \in Seq(R) /\ \A x \in R : RadioReport(x)
    BY <1>0 DEF RadioReportsOK
  <2>2. reports \in Seq(R \cup {r})
    BY <2>1
  <2>3. reports' \in Seq(R \cup {r})
    BY <1>1, <2>2
  <2> QED
    BY <1>1, <2>1, <2>3 DEF RadioReportsOK
<1>2. CASE TuneIn
  <2> DEFINE answers == <<[station |-> tuner.station], [play |-> tuner.play],
                          [favorites |-> tuner.favorites]>>
  <2>1. answers \in Seq({answers[1], answers[2], answers[3]})
    OBVIOUS
  <2>2. RadioReport(answers[1]) /\ RadioReport(answers[2]) /\ RadioReport(answers[3])
    BY <1>0 DEF RadioReport
  <2>3. reports' = answers /\ tuner' = tuner
    BY <1>2 DEF TuneIn, Opens
  <2>4. RadioReportsOK'
    <3> HIDE DEF answers
    <3> QED
      BY <2>1, <2>2, <2>3 DEF RadioReportsOK
  <2> QED
    BY <1>0, <2>3, <2>4, Zenon
<1>3. CASE RadioHeard
  <2>1. PICK R : reports \in Seq(R) /\ \A x \in R : RadioReport(x)
    BY <1>0 DEF RadioReportsOK
  <2>2. reports' \in Seq(R) /\ tuner' = tuner
    BY <1>3, <2>1 DEF RadioHeard
  <2> QED
    BY <1>0, <2>1, <2>2 DEF RadioReportsOK
<1>4. CASE TellsMore
  BY <1>0, <1>1, <1>4 DEF TellsMore, Announces, RadioReport
<1>5. ASSUME NEW i \in RadioFields, Tells(i) PROVE RadioReportsOK' /\ tuner' = tuner
  <2>1. RadioReport([k \in {i} |-> tuner[k]])
    BY <1>0 DEF RadioReport
  <2> QED
    BY <1>1, <1>5, <2>1 DEF Tells, Announces
<1>6. CASE RadioDrop \/ \E u \in Users : SendAgain(u)
  <2>1. reports' = <<>> /\ tuner' = tuner
    BY <1>6, Zenon DEF RadioDrop, Drops, SendAgain, Repeats
  <2>2. reports' \in Seq({})
    BY <2>1
  <2> QED
    BY <1>0, <2>1, <2>2 DEF RadioReportsOK
<1>7. CASE Tune
  BY <1>0, <1>7 DEF Tune, Twists, RadioReportsOK
<1>8. ASSUME NEW u \in Users, Sends(u)
      PROVE  /\ RadioReportsOK'
             /\ tuner' = [play |-> tuner'.play, station |-> tuner'.station,
                          favorites |-> tuner'.favorites]
             /\ tuner'.play \in BOOLEAN
  <2>1. job[u].pc = "ready" /\ RadioJob(job[u]) /\ reports' = reports
    BY <1>0, <1>8 DEF Sends, RadioJobsOK
  <2>2. job[u].op = "play" => job[u].play \in BOOLEAN
    BY <2>1 DEF RadioJob, PlayJobs, SelectJobs, Unbegun, Ended
  <2> QED
    BY <1>0, <1>8, <2>1, <2>2 DEF Sends, RadioReportsOK
<1>9. CASE UNCHANGED <<reports, tuner>>
  BY <1>0, <1>9 DEF RadioReportsOK
<1> QED
  BY <1>0, <1>2, <1>3, <1>4, <1>5, <1>6, <1>7, <1>8, <1>9
     DEF RadioNext, RadioProved, RadioGraceOver, Proves, Expires, Listen, Selects, Orders,
         GivesUp, Played, Selected, Ends, radioVars, linkVars

\* What the entity makes of a state that the client knows.
LEMMA AppliedShows ==
    ASSUME NEW state, NEW p, IsPlayer(p), state.play \in BOOLEAN \cup {Nil}
    PROVE  LET q == Applied(state, p)
           IN /\ IsPlayer(q)
              /\ q.sources = Sources(state, p.sources)
              /\ q.source = Source(state.station, q.sources, p.source)
              /\ state.play = TRUE => q.state = "playing" /\ q.off = FALSE
              /\ state.play = FALSE =>
                    /\ q.state \in {"off", "paused"} /\ q.off = p.off
                    /\ q.state = "off" => p.off \/ p.state \in {Nil, "off"}
              /\ state.play = Nil =>
                    q.off = p.off /\ q.state = IF p.state = Nil THEN "off" ELSE p.state
<1> DEFINE b == Playback(state, p)
           q == Applied(state, p)
<1>1. /\ IsPlayer(b) /\ b.sources = p.sources /\ b.source = p.source
      /\ state.play = TRUE => b.state = "playing" /\ b.off = FALSE
      /\ state.play = FALSE =>
            /\ b.state \in {"off", "paused"} /\ b.off = p.off
            /\ b.state = "off" => p.off \/ p.state \in {Nil, "off"}
      /\ state.play = Nil =>
            b.off = p.off /\ b.state = IF p.state = Nil THEN "off" ELSE p.state
  BY DEF Playback, IsPlayer
<1>2. q = [b EXCEPT !.sources = Sources(state, p.sources),
                    !.source = Source(state.station, Sources(state, p.sources), p.source),
                    !.content = state.station, !.have = TRUE, !.available = live]
  BY DEF Applied
<1> HIDE DEF b, q
<1>3. /\ IsPlayer(q) /\ q.state = b.state /\ q.off = b.off
      /\ q.sources = Sources(state, p.sources)
      /\ q.source = Source(state.station, Sources(state, p.sources), p.source)
  BY <1>1, <1>2 DEF IsPlayer
<1>4. q.source = Source(state.station, q.sources, p.source)
  BY <1>3
<1> QED
  BY <1>1, <1>3, <1>4, Zenon DEF q

\* Nothing but whether the player is available changes.
LEMMA PlayerKept ==
    ASSUME RadioInv, UNCHANGED <<radio, historyVars>>,
           UNCHANGED player \/ \E now : PlayerLive(now)
    PROVE  Following'
<1>0. Following
  BY DEF RadioInv
<1>1. UNCHANGED <<told, assumed, picked, wish>>
  BY DEF historyVars
<1>2. /\ IsPlayer(player)' /\ player'.state = player.state /\ player'.off = player.off
      /\ player'.sources = player.sources /\ player'.source = player.source
  BY <1>0 DEF Following, IsPlayer, PlayerLive
<1> QED
  BY <1>0, <1>1, <1>2 DEF Following

LEMMA RadioHeardStep ==
    ASSUME RadioInv, RadioHeard PROVE Following'
<1> DEFINE r == Head(reports)
           new == [i \in RadioFields |-> IF i \in DOMAIN r THEN r[i] ELSE radio[i]]
<1>0. Following /\ RadioTypeOK
  BY DEF RadioInv
<1>1. RadioReport(r)
  <2>1. PICK R : reports \in Seq(R) /\ \A x \in R : RadioReport(x)
    BY <1>0 DEF RadioTypeOK, RadioReportsOK
  <2> QED
    BY <2>1 DEF RadioHeard
<1>2. /\ radio' = new
      /\ player' = IF new # radio \/ "title" \in DOMAIN r THEN Applied(new, player) ELSE player
      /\ told' = [i \in DOMAIN told |-> IF i \in DOMAIN r THEN r[i] ELSE told[i]]
      /\ assumed' = (assumed /\ "play" \notin DOMAIN r)
      /\ picked' = (picked /\ player' = player)
      /\ wish' = IF "play" \in DOMAIN r /\ r.play = TRUE THEN "on" ELSE wish
  BY Zenon DEF RadioHeard, Knows
<1>3. new.play \in BOOLEAN \cup {Nil}
  BY <1>0, <1>1 DEF RadioReport, Following, RadioFields
<1>4. /\ told' = [i \in {"station", "play"} |-> told'[i]] /\ told'.station = new.station
      /\ "play" \in DOMAIN r => told'.play = r.play /\ new.play = r.play
      /\ "play" \notin DOMAIN r => told'.play = told.play /\ new.play = radio.play
  BY <1>0, <1>2 DEF Following, RadioFields
<1>5. ~assumed' => told'.play = new.play
  BY <1>0, <1>2, <1>4 DEF Following
<1>6. new = [i \in RadioFields |-> new[i]]
  OBVIOUS
<1>7. CASE new # radio \/ "title" \in DOMAIN r
  <2>1. player' = Applied(new, player)
    BY <1>2, <1>7
  <2>2. /\ IsPlayer(player')
        /\ player'.source = Source(new.station, player'.sources, player.source)
        /\ new.play = TRUE => player'.state = "playing" /\ player'.off = FALSE
        /\ new.play = FALSE =>
              /\ player'.state \in {"off", "paused"} /\ player'.off = player.off
              /\ player'.state = "off" => player.off \/ player.state \in {Nil, "off"}
        /\ new.play = Nil =>
              player'.off = player.off /\ player'.state = IF player.state = Nil THEN "off" ELSE player.state
    <3>1. IsPlayer(player)
      BY <1>0 DEF Following
    <3> HIDE DEF new
    <3>2. LET q == Applied(new, player)
          IN /\ IsPlayer(q)
             /\ q.source = Source(new.station, q.sources, player.source)
             /\ new.play = TRUE => q.state = "playing" /\ q.off = FALSE
             /\ new.play = FALSE =>
                   /\ q.state \in {"off", "paused"} /\ q.off = player.off
                   /\ q.state = "off" => player.off \/ player.state \in {Nil, "off"}
             /\ new.play = Nil =>
                   q.off = player.off /\ q.state = IF player.state = Nil THEN "off" ELSE player.state
      BY <1>3, <3>1, AppliedShows, Zenon
    <3> QED
      BY <2>1, <3>2, Zenon
  <2> HIDE DEF new, r
  <2>3. new.station # Nil => player'.source = Source(new.station, player'.sources, Nil)
    BY <2>2 DEF Source
  <2>4. player.off \in BOOLEAN /\ player'.off \in BOOLEAN
    BY <1>0, <2>2 DEF Following, IsPlayer
  <2>5. new.play # Nil => (player'.state = "playing") = new.play
    BY <1>3, <2>2
  <2>6. player'.off \/ player'.state \in {Nil, "off"} => wish' = "off"
    <3>1. CASE new.play = TRUE
      BY <2>2, <3>1
    <3>2. CASE new.play = FALSE
      <4>1. wish' = wish
        BY <1>2, <1>4, <3>2
      <4> QED
        BY <1>0, <2>2, <3>2, <4>1 DEF Following
    <3>3. CASE new.play = Nil
      <4>1. wish' = wish
        BY <1>2, <1>4, <3>3
      <4> QED
        BY <1>0, <2>2, <3>3, <4>1 DEF Following
    <3> QED
      BY <1>3, <3>1, <3>2, <3>3
  <2>7. new.play = TRUE => player'.state = "playing" /\ ~player'.off
    BY <2>2
  <2> QED
    BY <1>2, <1>3, <1>4, <1>5, <1>6, <2>2, <2>3, <2>5, <2>6, <2>7, Zenon DEF Following
<1>8. CASE ~(new # radio \/ "title" \in DOMAIN r)
  <2>1. radio' = radio /\ player' = player /\ picked' = picked
    <3>1. radio' = radio /\ player' = player
      BY <1>2, <1>8
    <3>2. picked' = picked
      BY <1>0, <1>2, <3>1, Zenon DEF Following
    <3> QED
      BY <3>1, <3>2
  <2>2. new = radio
    BY <1>8
  <2> HIDE DEF new, r
  <2>3. player.off \/ player.state \in {Nil, "off"} => wish' = "off"
    <3>1. CASE "play" \in DOMAIN r /\ r.play = TRUE
      BY <1>0, <1>4, <2>2, <3>1 DEF Following
    <3>2. CASE ~("play" \in DOMAIN r /\ r.play = TRUE)
      BY <1>0, <1>2, <3>2 DEF Following
    <3> QED
      BY <3>1, <3>2
  <2>4. assumed' \in BOOLEAN /\ picked' \in BOOLEAN
    BY <1>0, <1>2, <2>1, Zenon DEF Following
  <2>5. /\ radio.play # Nil /\ ~picked => (player.state = "playing") = radio.play
        /\ radio.play = TRUE => player.state = "playing" /\ ~player.off
        /\ radio.station # Nil /\ ~picked =>
              player.source = Source(radio.station, player.sources, Nil)
        /\ IsPlayer(player) /\ radio = [i \in RadioFields |-> radio[i]]
        /\ radio.play \in BOOLEAN \cup {Nil}
    BY <1>0, Zenon DEF Following
  <2>6. told' = [i \in {"station", "play"} |-> told'[i]] /\ told'.station = radio.station
        /\ (~assumed' => told'.play = radio.play)
    BY <1>4, <1>5, <2>2, Zenon
  <2> QED
    BY <2>1, <2>3, <2>4, <2>5, <2>6, Zenon DEF Following
<1> QED
  BY <1>7, <1>8

\* What a command makes of it.
LEMMA PlayedStep ==
    ASSUME RadioInv, NEW u \in Users, Played(u) PROVE Following'
<1>0. Following /\ RadioTypeOK
  BY DEF RadioInv
<1> DEFINE p == IF radio' # radio THEN Applied(radio', player) ELSE player
<1>1. /\ radio' = [radio EXCEPT !.play = job[u].play]
      /\ player' = [p EXCEPT !.off = job[u].shows = <<"off">>, !.state = job[u].shows[1],
                             !.available = TRUE]
      /\ assumed' = TRUE /\ wish' = IF job[u].shows = <<"off">> THEN "off" ELSE "on"
      /\ UNCHANGED <<told, picked>>
  BY Zenon DEF Played, Assumption
<1>2. PICK s \in {"playing", "paused", "off"} :
         job[u].shows = <<s>> /\ job[u].play = (s = "playing")
  <2>1. job[u].op = "play" /\ job[u].pc = "sent" /\ RadioJob(job[u])
    BY <1>0 DEF Played, RadioTypeOK, RadioJobsOK
  <2>2. job[u] \in PlayJobs
    BY <2>1 DEF RadioJob, SelectJobs, Unbegun, Ended
  <2> QED
    BY <2>2 DEF PlayJobs
<1>3. /\ job[u].play \in BOOLEAN /\ (job[u].play = TRUE <=> s = "playing")
      /\ job[u].shows[1] = s /\ (job[u].shows = <<"off">> <=> s = "off")
  <2>1. job[u].shows[1] = s /\ (job[u].shows = <<"off">> <=> s = "off")
    BY <1>2
  <2>2. job[u].play \in BOOLEAN /\ (job[u].play = TRUE <=> s = "playing")
    BY <1>2
  <2> QED
    BY <2>1, <2>2
<1>4. /\ radio' = [i \in RadioFields |-> radio'[i]] /\ radio'.play = job[u].play
      /\ radio'.station = radio.station
  BY <1>0, <1>1 DEF Following, RadioFields
<1>5. /\ IsPlayer(p)
      /\ radio.station # Nil /\ ~picked => p.source = Source(radio.station, p.sources, Nil)
  <2>1. CASE radio' # radio
    <3>1. p = Applied(radio', player)
      BY <2>1
    <3>2. IsPlayer(p) /\ p.source = Source(radio'.station, p.sources, player.source)
      <4>1. IsPlayer(player) /\ radio'.play \in BOOLEAN \cup {Nil}
        BY <1>0, <1>3, <1>4 DEF Following
      <4>2. LET q == Applied(radio', player)
            IN IsPlayer(q) /\ q.source = Source(radio'.station, q.sources, player.source)
        BY <4>1, AppliedShows, Zenon
      <4> QED
        BY <3>1, <4>2
    <3> HIDE DEF p
    <3> QED
      BY <1>4, <3>2 DEF Source
  <2>2. CASE radio' = radio
    BY <1>0, <2>2 DEF Following
  <2> QED
    BY <2>1, <2>2
<1> HIDE DEF p
<1>6. /\ IsPlayer(player') /\ player'.off = (s = "off") /\ player'.state = s
      /\ player'.sources = p.sources /\ player'.source = p.source
  <2>1. PICK off : off = (s = "off")
    OBVIOUS
  <2>2. player' = [p EXCEPT !.off = off, !.state = s, !.available = TRUE]
    BY <1>1, <1>3, <2>1, Zenon
  <2>3. off \in BOOLEAN
    BY <2>1
  <2> QED
    BY <1>5, <2>1, <2>2, <2>3 DEF IsPlayer
<1>7. wish' = IF s = "off" THEN "off" ELSE "on"
  BY <1>1, <1>3
<1>8. radio'.play # Nil => (player'.state = "playing") = radio'.play
  BY <1>2, <1>4, <1>6
<1>9. radio'.play = TRUE => player'.state = "playing" /\ ~player'.off
  BY <1>3, <1>4, <1>6
<1>10. player'.off \/ player'.state \in {Nil, "off"} => wish' = "off"
  BY <1>6, <1>7
<1> QED
  BY <1>0, <1>1, <1>3, <1>4, <1>5, <1>6, <1>8, <1>9, <1>10, Zenon DEF Following

LEMMA SelectedStep ==
    ASSUME RadioInv, NEW u \in Users, Selected(u) PROVE Following'
<1>0. Following
  BY DEF RadioInv
<1>1. /\ IsPlayer(player') /\ player'.off = FALSE /\ player'.state = "playing"
      /\ picked' = TRUE /\ wish' = "on" /\ UNCHANGED <<radio, told, assumed>>
  BY <1>0 DEF Following, IsPlayer, Selected
<1> QED
  BY <1>0, <1>1 DEF Following

LEMMA RadioStep == RadioInv /\ [RadioNext]_radioVars => RadioInv'
<1> SUFFICES ASSUME RadioInv, [RadioNext]_radioVars PROVE RadioInv'
  OBVIOUS
<1>1. RadioTypeOK'
  BY RadioJobStep, RadioReportStep DEF RadioInv, RadioTypeOK
<1>2. CASE \/ TuneIn \/ RadioDrop \/ Tune \/ TellsMore \/ \E i \in RadioFields : Tells(i)
           \/ \E u \in Users : Listen(u) \/ Sends(u) \/ SendAgain(u) \/ GivesUp(u)
           \/ UNCHANGED radioVars
  <2>1. UNCHANGED <<radio, player, historyVars>>
    BY <1>2, Zenon
       DEF TuneIn, RadioDrop, Tune, TellsMore, Tells, Listen, Sends, SendAgain, GivesUp,
           radioVars, historyVars
  <2> QED
    BY <1>1, <2>1, PlayerKept DEF RadioInv
<1>3. CASE RadioProved \/ RadioGraceOver
  <2>1. UNCHANGED <<radio, historyVars>> /\ (UNCHANGED player \/ \E now : PlayerLive(now))
    BY <1>3, Zenon DEF RadioProved, RadioGraceOver
  <2> QED
    BY <1>1, <2>1, PlayerKept DEF RadioInv
<1>4. CASE RadioHeard
  BY <1>1, <1>4, RadioHeardStep DEF RadioInv
<1>5. ASSUME NEW u \in Users, Played(u) \/ Selected(u) PROVE RadioInv'
  BY <1>1, <1>5, PlayedStep, SelectedStep DEF RadioInv
<1> QED
  BY <1>2, <1>3, <1>4, <1>5, Zenon DEF RadioNext

LEMMA RadioStart == RadioInit => RadioInv
<1> SUFFICES ASSUME RadioInit PROVE RadioInv
  OBVIOUS
<1>1. RadioTypeOK
  <2>1. RadioJobsOK
    BY DEF RadioInit, LinkInit, RadioJobsOK, RadioJob
  <2>2. RadioReportsOK
    <3>1. reports \in Seq({})
      BY DEF RadioInit, LinkInit
    <3> QED
      BY <3>1 DEF RadioReportsOK
  <2> QED
    BY <2>1, <2>2 DEF RadioInit, RadioTypeOK
<1>2. Following
  <2>1. PICK s \in {Nil, "off", "paused", "playing"} :
           player = PlayerRestored(s) /\ wish = IF s \in {Nil, "off"} THEN "off" ELSE "on"
    BY DEF RadioInit
  <2>2. /\ IsPlayer(player) /\ player.state = s /\ player.off = (s = "off")
    BY <2>1 DEF PlayerRestored, IsPlayer
  <2>3. /\ radio = [i \in RadioFields |-> radio[i]] /\ radio.play = Nil /\ radio.station = Nil
        /\ told = [i \in {"station", "play"} |-> told[i]] /\ told.station = Nil /\ told.play = Nil
        /\ assumed = FALSE /\ picked = FALSE
    BY DEF RadioInit, RadioFields
  <2>4. player.off \/ player.state \in {Nil, "off"} => wish = "off"
    BY <2>1, <2>2
  <2> QED
    BY <2>2, <2>3, <2>4 DEF Following
<1> QED
  BY <1>1, <1>2 DEF RadioInv

\* The commands and reports of the radio keep to their form, and what the player
\* shows goes with what the device has said and what a command assumes.
THEOREM RadioType == RadioSpec => []RadioInv
BY RadioStart, RadioStep, PTL DEF RadioSpec

\* The player shows playing exactly if the device said so last, and the station it
\* named last; only a command has it otherwise, until the device speaks of it
\* again, or after a selection of anything new.  It is off only if that was the
\* last that anybody asked for (client_runtime_media.py:128, media_player.py:311).
THEOREM PlayerFollowsDevice == RadioSpec => []PlayerFollows
<1>1. RadioInv => PlayerFollows
  BY DEF RadioInv, Following, PlayerFollows
<1> QED
  BY <1>1, RadioType, PTL

HIDE RadioAssumption

-----------------------------------------------------------------------------
(***************************************************************************)
(* MemorySlots.                                                            *)
(***************************************************************************)
USE MemoryAssumption

Slots == Memory \cup {Nil}

SlotJobs ==
    {Unbegun, Ended}
        \cup [pc : {"ready", "asked", "wrote", "checks"}, attempt : {1, 2},
              op : {"set", "rename", "delete"}, slot : SlotIds, temp : Heats \cup {Nil},
              name : Names \cup {Nil}, news : BOOLEAN, listed : BOOLEAN, stale : BOOLEAN]

OrdersOK(j) ==
    /\ j \in SlotJobs
    /\ j \notin {Unbegun, Ended} =>
          (j.op = "set" => j.temp \in Heats) /\ (j.op = "rename" => j.name \in Names)

SlotReports == UNION {[D -> Slots] : D \in SUBSET SlotIds}

SlotTypeOK ==
    /\ memory \in [SlotIds -> Slots] /\ cached \in [SlotIds -> Slots]
    /\ reports \in Seq(SlotReports) /\ touched \subseteq SlotIds
    /\ line \in Seq(Users)
    /\ job \in [Users -> SlotJobs] /\ \A u \in Users : OrdersOK(job[u])

(***************************************************************************)
(* Whoever waits for the list holds the lock.  If nothing older was under  *)
(* way when it asked, then all that is reported, and the whole cache once  *)
(* the list has come, is as the device has it, but for what was touched.   *)
(***************************************************************************)
Working == {"asked", "wrote", "checks"}

Fresh(u) ==
    /\ \A k \in DOMAIN reports : \A s \in DOMAIN reports[k] \ touched :
          reports[k][s] = memory[s]
    /\ job[u].listed => \A s \in SlotIds \ touched : cached[s] = memory[s]

Current ==
    \A u \in Users : /\ job[u].pc \in Working => HasLock(u)
                     /\ job[u].pc = "asked" /\ ~job[u].stale => Fresh(u)

SlotInv == SlotTypeOK /\ Current

LEMMA SlotOrdered ==
    ASSUME NEW op \in {"set", "rename", "delete"}, NEW s \in SlotIds, NEW temp \in Heats \cup {Nil},
           NEW name \in Names \cup {Nil}
    PROVE  LET j == Over([pc |-> "ready", attempt |-> 1], SlotOrder(op, s, temp, name))
           IN j \in SlotJobs /\ j.pc = "ready" /\ j.op = op /\ j.temp = temp /\ j.name = name
<1> DEFINE f == [pc |-> "ready", attempt |-> 1]
           g == SlotOrder(op, s, temp, name)
<1>1. /\ DOMAIN f = {"pc", "attempt"} /\ f.pc = "ready" /\ f.attempt = 1
      /\ DOMAIN g = {"op", "slot", "temp", "name", "news", "listed", "stale"}
      /\ g.op = op /\ g.slot = s /\ g.temp = temp /\ g.name = name
      /\ g.news = FALSE /\ g.listed = FALSE /\ g.stale = FALSE
  BY DEF SlotOrder
<1> HIDE DEF f, g
<1>2. Over(f, g) \in [pc : {"ready"}, attempt : {1}, op : {op}, slot : {s}, temp : {temp}, name : {name},
                      news : {FALSE}, listed : {FALSE}, stale : {FALSE}]
  BY <1>1 DEF Over
<1>3. Over(f, g) \in SlotJobs
  BY <1>2 DEF SlotJobs
<1> QED
  BY <1>2, <1>3 DEF f, g

\* A job that goes on is still a job.
LEMMA SlotGoesOn ==
    ASSUME NEW j, OrdersOK(j), j.pc \notin {"idle", "done"}, NEW p \in {"ready", "asked", "wrote", "checks"},
           NEW a \in BOOLEAN, NEW b \in BOOLEAN, NEW c \in BOOLEAN
    PROVE  /\ OrdersOK([j EXCEPT !.pc = p])
           /\ OrdersOK([j EXCEPT !.pc = p, !.attempt = 2])
           /\ OrdersOK([j EXCEPT !.pc = p, !.news = a])
           /\ OrdersOK([j EXCEPT !.news = a, !.listed = b])
           /\ OrdersOK([j EXCEPT !.pc = p, !.news = a, !.listed = b, !.stale = c])
<1>1. j \in [pc : {"ready", "asked", "wrote", "checks"}, attempt : {1, 2},
              op : {"set", "rename", "delete"}, slot : SlotIds, temp : Heats \cup {Nil},
              name : Names \cup {Nil}, news : BOOLEAN, listed : BOOLEAN, stale : BOOLEAN]
      /\ (j.op = "set" => j.temp \in Heats) /\ (j.op = "rename" => j.name \in Names)
  BY DEF OrdersOK, SlotJobs, Unbegun, Ended
<1>2. OrdersOK([j EXCEPT !.pc = p])
  BY <1>1 DEF OrdersOK, SlotJobs
<1>3. OrdersOK([j EXCEPT !.pc = p, !.attempt = 2])
  BY <1>1 DEF OrdersOK, SlotJobs
<1>4. OrdersOK([j EXCEPT !.pc = p, !.news = a])
  BY <1>1 DEF OrdersOK, SlotJobs
<1>5. OrdersOK([j EXCEPT !.news = a, !.listed = b])
  BY <1>1 DEF OrdersOK, SlotJobs
<1>6. OrdersOK([j EXCEPT !.pc = p, !.news = a, !.listed = b, !.stale = c])
  BY <1>1 DEF OrdersOK, SlotJobs
<1> QED
  BY <1>2, <1>3, <1>4, <1>5, <1>6

LEMMA SlotJobStep == SlotTypeOK /\ [MemoryNext]_memoryVars =>
    job' \in [Users -> SlotJobs] /\ \A u \in Users : OrdersOK(job'[u])
<1> SUFFICES ASSUME SlotTypeOK, [MemoryNext]_memoryVars
             PROVE  job' \in [Users -> SlotJobs] /\ \A u \in Users : OrdersOK(job'[u])
  OBVIOUS
<1>0. job \in [Users -> SlotJobs] /\ \A u \in Users : OrdersOK(job[u])
  BY DEF SlotTypeOK
<1>1. ASSUME NEW u \in Users, NEW j, OrdersOK(j), job' = [job EXCEPT ![u] = j]
      PROVE  job' \in [Users -> SlotJobs] /\ \A x \in Users : OrdersOK(job'[x])
  <2>1. j \in SlotJobs
    BY <1>1 DEF OrdersOK
  <2> QED
    BY <1>0, <1>1, <2>1
<1>2. ASSUME NEW u \in Users, OrderSlot(u)
      PROVE  job' \in [Users -> SlotJobs] /\ \A x \in Users : OrdersOK(job'[x])
  <2>1. PICK s \in SlotIds :
           \/ \E t \in Heats : Orders(u, SlotOrder("set", s, t, Nil))
           \/ \E n \in Names : Orders(u, SlotOrder("rename", s, Nil, n))
           \/ Orders(u, SlotOrder("delete", s, Nil, Nil))
    BY <1>2, Zenon DEF OrderSlot
  <2>2. PICK op \in {"set", "rename", "delete"}, t \in Heats \cup {Nil}, n \in Names \cup {Nil} :
           /\ Orders(u, SlotOrder(op, s, t, n))
           /\ (op = "set" => t \in Heats) /\ (op = "rename" => n \in Names)
    BY <2>1
  <2> DEFINE j == Over([pc |-> "ready", attempt |-> 1], SlotOrder(op, s, t, n))
  <2>3. j \in SlotJobs /\ j.op = op /\ j.temp = t /\ j.name = n
    BY SlotOrdered
  <2>4. job' = [job EXCEPT ![u] = j]
    BY <2>2, Zenon DEF Orders
  <2> HIDE DEF j
  <2>5. OrdersOK(j)
    BY <2>2, <2>3 DEF OrdersOK
  <2> QED
    BY <1>1, <2>4, <2>5
<1>3. ASSUME NEW u \in Users, AskList(u) \/ WriteSlot(u) \/ CheckSlot(u) \/ RetrySlot(u)
      PROVE  job' \in [Users -> SlotJobs] /\ \A x \in Users : OrdersOK(job'[x])
  <2>1. OrdersOK(job[u]) /\ job[u].pc \notin {"idle", "done"}
    BY <1>0, <1>3 DEF AskList, WriteSlot, CheckSlot, RetrySlot, Repeats, Troubles, ReadyToWrite
  <2>2. CASE AskList(u)
    <3>1. PICK stale \in BOOLEAN :
             job' = [job EXCEPT ![u] = [job[u] EXCEPT !.pc = "asked", !.news = FALSE, !.listed = FALSE,
                                                      !.stale = stale]]
      BY <1>0, <2>2 DEF AskList
    <3> QED
      BY <1>1, <2>1, <3>1, SlotGoesOn
  <2>3. CASE WriteSlot(u)
    <3>1. job' = [job EXCEPT ![u] = [job[u] EXCEPT !.pc = "wrote", !.news = FALSE]]
      BY <1>0, <2>3 DEF WriteSlot
    <3> QED
      BY <1>1, <2>1, <3>1, SlotGoesOn
  <2>4. CASE CheckSlot(u)
    <3>1. job' = [job EXCEPT ![u] = [job[u] EXCEPT !.pc = "checks"]]
      BY <1>0, <2>4 DEF CheckSlot, Goes
    <3> QED
      BY <1>1, <2>1, <3>1, SlotGoesOn
  <2>5. CASE RetrySlot(u)
    <3>1. job' = [job EXCEPT ![u] = [job[u] EXCEPT !.pc = "ready", !.attempt = 2]]
      BY <1>0, <2>5 DEF RetrySlot, Repeats
    <3> QED
      BY <1>1, <2>1, <3>1, SlotGoesOn
  <2> QED
    BY <1>3, <2>2, <2>3, <2>4, <2>5
<1>4. ASSUME NEW u \in Users, SlotSet(u) \/ SlotFails(u)
      PROVE  job' \in [Users -> SlotJobs] /\ \A x \in Users : OrdersOK(job'[x])
  <2>1. OrdersOK(Ended) /\ job' = [job EXCEPT ![u] = Ended]
    BY <1>4 DEF SlotSet, SlotFails, Ends, OrdersOK, SlotJobs
  <2> QED
    BY <1>1, <2>1
<1>5. CASE DropSlots
  <2>1. \A u \in Users : job[u].pc # "wait" /\ [job[u] EXCEPT !.pc = @] = job[u]
    BY <1>0 DEF SlotJobs, Unbegun, Ended
  <2>2. \A u \in Users : job'[u] = job[u]
    BY <1>5, <2>1 DEF DropSlots, Drops
  <2>3. job' = [u \in Users |-> job'[u]]
    BY <1>5 DEF DropSlots, Drops
  <2> QED
    BY <1>0, <2>2, <2>3
<1>6. CASE SlotHeard
  <2>1. PICK full \in BOOLEAN : full = (DOMAIN Head(reports) = SlotIds)
    OBVIOUS
  <2>2. \A u \in Users : job[u].pc \in Working =>
           OrdersOK([job[u] EXCEPT !.news = TRUE, !.listed = @ \/ full])
    <3> SUFFICES ASSUME NEW u \in Users, job[u].pc \in Working
                 PROVE  OrdersOK([job[u] EXCEPT !.news = TRUE, !.listed = @ \/ full])
      OBVIOUS
    <3>1. OrdersOK(job[u]) /\ job[u].pc \notin {"idle", "done"}
      BY <1>0 DEF Working
    <3>2. (job[u].listed \/ full) \in BOOLEAN
      OBVIOUS
    <3> QED
      BY <3>1, <3>2, SlotGoesOn
  <2>3. job' = [u \in Users |->
                  IF job[u].pc \in Working THEN [job[u] EXCEPT !.news = TRUE, !.listed = @ \/ full]
                  ELSE job[u]]
    BY <1>6, <2>1, Zenon DEF SlotHeard, Working
  <2>4. \A u \in Users : OrdersOK(job'[u])
    BY <1>0, <2>2, <2>3
  <2> QED
    BY <2>3, <2>4 DEF OrdersOK
<1>7. CASE UNCHANGED job
  BY <1>0, <1>7
<1> QED
  BY <1>2, <1>3, <1>4, <1>5, <1>6, <1>7
     DEF MemoryNext, OpenSlots, SlotsProved, SlotsGraceOver, ChangeSlot, ReportSlot, Opens, Proves,
         Expires, Twists, Announces, memoryVars, linkVars

\* What the device stores.
LEMMA StoredType ==
    ASSUME SlotTypeOK, NEW u \in Users, job[u].pc \in Working PROVE
      /\ job[u].slot \in SlotIds /\ job[u].op \in {"set", "rename", "delete"}
      /\ job[u].op # "delete" => Payload(u) \in Memory
      /\ Stored(u, job[u].slot) \in [SlotIds -> Slots]
<1>1. job[u] \in [pc : {"ready", "asked", "wrote", "checks"}, attempt : {1, 2},
              op : {"set", "rename", "delete"}, slot : SlotIds, temp : Heats \cup {Nil},
              name : Names \cup {Nil}, news : BOOLEAN, listed : BOOLEAN, stale : BOOLEAN]
      /\ (job[u].op = "set" => job[u].temp \in Heats) /\ (job[u].op = "rename" => job[u].name \in Names)
  BY DEF SlotTypeOK, OrdersOK, SlotJobs, Unbegun, Ended, Working
<1>2. job[u].slot \in SlotIds /\ job[u].op \in {"set", "rename", "delete"}
  BY <1>1
<1>3. cached[job[u].slot] # Nil => cached[job[u].slot].temp \in Heats /\ cached[job[u].slot].name \in Names
  BY <1>2 DEF SlotTypeOK, Slots, Memory
<1>4. job[u].op # "delete" => Payload(u) \in Memory
  BY <1>1, <1>3 DEF Payload, InCache, Memory
<1>5. Stored(u, job[u].slot) \in [SlotIds -> Slots]
  BY <1>2, <1>4 DEF Stored, SlotTypeOK, Slots
<1> QED
  BY <1>2, <1>4, <1>5

LEMMA SlotReported == SlotTypeOK =>
    /\ memory \in SlotReports
    /\ \A s \in SlotIds : [x \in {s} |-> memory[s]] \in SlotReports
<1> SUFFICES ASSUME SlotTypeOK
             PROVE  /\ memory \in SlotReports
                    /\ \A s \in SlotIds : [x \in {s} |-> memory[s]] \in SlotReports
  OBVIOUS
<1>1. memory \in [SlotIds -> Slots]
  BY DEF SlotTypeOK
<1>2. \A D \in SUBSET SlotIds : [D -> Slots] \subseteq SlotReports
  BY DEF SlotReports
<1>3. memory \in SlotReports
  BY <1>1, <1>2
<1>4. ASSUME NEW s \in SlotIds PROVE [x \in {s} |-> memory[s]] \in SlotReports
  <2>1. {s} \in SUBSET SlotIds /\ [x \in {s} |-> memory[s]] \in [{s} -> Slots]
    BY <1>1
  <2> QED
    BY <1>2, <2>1
<1> QED
  BY <1>3, <1>4

LEMMA SlotTypeStep == SlotTypeOK /\ [MemoryNext]_memoryVars => SlotTypeOK'
<1> SUFFICES ASSUME SlotTypeOK, [MemoryNext]_memoryVars PROVE SlotTypeOK'
  OBVIOUS
<1>0. /\ memory \in [SlotIds -> Slots] /\ cached \in [SlotIds -> Slots]
      /\ reports \in Seq(SlotReports) /\ touched \subseteq SlotIds /\ line \in Seq(Users)
  BY DEF SlotTypeOK
<1>1. CASE OpenSlots
  <2>1. reports' = <<memory>> /\ UNCHANGED <<memory, cached, touched, line>>
    BY <1>1 DEF OpenSlots, Opens
  <2>2. memory \in SlotReports
    BY SlotReported
  <2>3. reports' \in Seq(SlotReports)
    BY <2>1, <2>2
  <2> QED
    BY <1>0, <2>1, <2>3, SlotJobStep DEF SlotTypeOK
<1>2. CASE SlotsProved \/ SlotsGraceOver
  <2>1. UNCHANGED <<memory, cached, touched, line, reports>>
    BY <1>2 DEF SlotsProved, SlotsGraceOver, Proves, Expires
  <2> QED
    BY <1>0, <2>1, SlotJobStep DEF SlotTypeOK
<1>3. CASE DropSlots \/ \E u \in Users : RetrySlot(u)
  <2>1. reports' = <<>> /\ UNCHANGED <<memory, cached, touched, line>>
    BY <1>3, Zenon DEF DropSlots, Drops, RetrySlot, Repeats
  <2> QED
    BY <1>0, <2>1, SlotJobStep DEF SlotTypeOK
<1>4. ASSUME NEW s \in SlotIds, ChangeSlot(s) PROVE SlotTypeOK'
  <2>1. /\ memory' \in [SlotIds -> Slots] /\ touched' \subseteq SlotIds
        /\ UNCHANGED <<cached, reports, line>>
    BY <1>0, <1>4 DEF ChangeSlot, Twists, Slots
  <2> QED
    BY <1>0, <2>1, SlotJobStep DEF SlotTypeOK
<1>5. ASSUME NEW s \in SlotIds, ReportSlot(s) PROVE SlotTypeOK'
  <2>1. /\ reports' = Append(reports, [x \in {s} |-> memory[s]])
        /\ UNCHANGED <<memory, cached, touched, line>>
    BY <1>5 DEF ReportSlot, Announces
  <2>2. [x \in {s} |-> memory[s]] \in SlotReports
    BY SlotReported
  <2>3. reports' \in Seq(SlotReports)
    BY <1>0, <2>1, <2>2
  <2> QED
    BY <1>0, <2>1, <2>3, SlotJobStep DEF SlotTypeOK
<1>6. CASE SlotHeard
  <2>1. /\ cached' = [s \in SlotIds |-> IF s \in DOMAIN Head(reports) THEN Head(reports)[s] ELSE cached[s]]
        /\ reports' = Tail(reports) /\ reports # <<>> /\ UNCHANGED <<memory, touched, line>>
    BY <1>6 DEF SlotHeard
  <2>2. PICK D \in SUBSET SlotIds : Head(reports) \in [D -> Slots]
    <3>1. Head(reports) \in SlotReports
      BY <1>0, <2>1
    <3> QED
      BY <3>1 DEF SlotReports
  <2>3. cached' \in [SlotIds -> Slots]
    BY <1>0, <2>1, <2>2
  <2>4. reports' \in Seq(SlotReports)
    BY <1>0, <2>1
  <2> QED
    BY <1>0, <2>1, <2>3, <2>4, SlotJobStep DEF SlotTypeOK
<1>7. ASSUME NEW u \in Users, OrderSlot(u) \/ SlotSet(u) \/ SlotFails(u) PROVE SlotTypeOK'
  <2>1. UNCHANGED <<memory, cached, touched, reports>>
    BY <1>7, Zenon DEF OrderSlot, SlotSet, SlotFails, Orders, Ends
  <2>2. line' = Append(line, u) \/ (line # <<>> /\ line' = Tail(line))
    BY <1>7, Zenon DEF OrderSlot, SlotSet, SlotFails, Orders, Ends, HasLock
  <2>3. line' \in Seq(Users)
    <3>1. Append(line, u) \in Seq(Users) /\ (line # <<>> => Tail(line) \in Seq(Users))
      BY <1>0
    <3> QED
      BY <2>2, <3>1
  <2> QED
    BY <1>0, <2>1, <2>3, SlotJobStep DEF SlotTypeOK
<1>8. ASSUME NEW u \in Users, AskList(u) \/ CheckSlot(u) PROVE SlotTypeOK'
  <2>1. /\ UNCHANGED <<memory, cached, line>> /\ touched' \in {touched, {}}
        /\ (reports' = reports \/ reports' = Append(reports, memory))
    BY <1>8, Zenon DEF AskList, CheckSlot, Answers
  <2>2. reports' \in Seq(SlotReports)
    BY <1>0, <2>1, SlotReported
  <2> QED
    BY <1>0, <2>1, <2>2, SlotJobStep DEF SlotTypeOK
<1>9. ASSUME NEW u \in Users, WriteSlot(u) PROVE SlotTypeOK'
  <2>1. job[u].pc \in Working
    BY <1>9 DEF WriteSlot, ReadyToWrite, Working
  <2>2. memory' \in [SlotIds -> Slots] /\ UNCHANGED <<cached, touched, reports, line>>
    BY <1>0, <1>9, <2>1, StoredType DEF WriteSlot
  <2> QED
    BY <1>0, <2>2, SlotJobStep DEF SlotTypeOK
<1>10. CASE UNCHANGED memoryVars
  <2>1. UNCHANGED <<memory, cached, touched, reports, line>>
    BY <1>10 DEF memoryVars, linkVars
  <2> QED
    BY <1>0, <2>1, SlotJobStep DEF SlotTypeOK
<1> QED
  BY <1>1, <1>2, <1>3, <1>4, <1>5, <1>6, <1>7, <1>8, <1>9, <1>10 DEF MemoryNext

\* One user's job changes, who has the lock, and the others wait for nothing.
LEMMA OneWorks ==
    ASSUME SlotInv, NEW u \in Users, NEW j, job' = [job EXCEPT ![u] = j],
           HasLock(u), line' = line,
           j.pc = "asked" /\ ~j.stale => Fresh(u)'
    PROVE  Current'
<1>1. ASSUME NEW x \in Users, x # u PROVE job'[x] = job[x] /\ job[x].pc \notin Working
  BY <1>1 DEF SlotInv, SlotTypeOK, Current, HasLock
<1>2. job'[u] = j
  BY DEF SlotInv, SlotTypeOK
<1>3. HasLock(u)'
  BY DEF HasLock
<1>4. \A x \in Users : /\ job'[x].pc \in Working => HasLock(x)'
                       /\ job'[x].pc = "asked" /\ ~job'[x].stale => Fresh(x)'
  BY <1>1, <1>2, <1>3 DEF Working
<1> QED
  BY <1>4 DEF Current

LEMMA CurrentStep == SlotInv /\ [MemoryNext]_memoryVars => Current'
<1> SUFFICES ASSUME SlotInv, [MemoryNext]_memoryVars PROVE Current'
  OBVIOUS
<1>0. /\ memory \in [SlotIds -> Slots] /\ cached \in [SlotIds -> Slots]
      /\ reports \in Seq(SlotReports) /\ touched \subseteq SlotIds /\ line \in Seq(Users)
      /\ job \in [Users -> SlotJobs] /\ Current
  BY DEF SlotInv, SlotTypeOK
<1>1. \A u \in Users : /\ job[u].pc \in Working => HasLock(u)
                       /\ job[u].pc = "asked" /\ ~job[u].stale => Fresh(u)
  BY <1>0 DEF Current
<1>2. ASSUME UNCHANGED <<line, job>>, \A u \in Users : job[u].pc = "asked" /\ Fresh(u) => Fresh(u)'
      PROVE  Current'
  BY <1>1, <1>2 DEF Current, HasLock, Working
<1>3. CASE OpenSlots
  <2>1. reports' = <<memory>> /\ UNCHANGED <<memory, cached, touched, line, job>>
    BY <1>3 DEF OpenSlots, Opens
  <2>2. \A u \in Users : Fresh(u) => Fresh(u)'
    BY <2>1 DEF Fresh
  <2> QED
    BY <1>2, <2>1, <2>2
<1>4. CASE SlotsProved \/ SlotsGraceOver
  <2>1. UNCHANGED <<memory, cached, touched, line, reports, job>>
    BY <1>4 DEF SlotsProved, SlotsGraceOver, Proves, Expires
  <2> QED
    BY <1>2, <2>1 DEF Fresh
<1>5. CASE DropSlots
  <2>1. \A u \in Users : job'[u] = job[u]
    <3>1. \A u \in Users : job[u].pc # "wait" /\ [job[u] EXCEPT !.pc = @] = job[u]
      BY <1>0 DEF SlotJobs, Unbegun, Ended
    <3> QED
      BY <1>5, <3>1 DEF DropSlots, Drops
  <2>2. reports' = <<>> /\ UNCHANGED <<memory, cached, touched, line>>
    BY <1>5 DEF DropSlots, Drops
  <2>3. \A u \in Users : Fresh(u) => Fresh(u)'
    BY <2>1, <2>2 DEF Fresh
  <2> QED
    BY <1>1, <2>1, <2>2, <2>3 DEF Current, HasLock, Working
<1>6. ASSUME NEW s \in SlotIds, ChangeSlot(s) PROVE Current'
  <2>1. /\ touched' = touched \cup {s} /\ UNCHANGED <<cached, reports, line, job>>
        /\ \A x \in SlotIds : x # s => memory'[x] = memory[x]
    BY <1>0, <1>6 DEF ChangeSlot, Twists
  <2>2. \A k \in DOMAIN reports : DOMAIN reports[k] \subseteq SlotIds
    BY <1>0 DEF SlotReports
  <2>3. \A u \in Users : Fresh(u) => Fresh(u)'
    BY <2>1, <2>2 DEF Fresh
  <2> QED
    BY <1>2, <2>1, <2>3
<1>7. ASSUME NEW s \in SlotIds, ReportSlot(s) PROVE Current'
  <2>1. /\ reports' = Append(reports, [x \in {s} |-> memory[s]])
        /\ UNCHANGED <<memory, cached, touched, line, job>>
    BY <1>7 DEF ReportSlot, Announces
  <2>2. \A k \in DOMAIN reports' : IF k \in DOMAIN reports THEN reports'[k] = reports[k]
                                   ELSE reports'[k] = [x \in {s} |-> memory[s]]
    BY <1>0, <2>1
  <2>3. \A u \in Users : Fresh(u) => Fresh(u)'
    BY <2>1, <2>2 DEF Fresh
  <2> QED
    BY <1>2, <2>1, <2>3
<1>8. CASE SlotHeard
  <2> DEFINE r == Head(reports)
  <2>1. /\ cached' = [s \in SlotIds |-> IF s \in DOMAIN r THEN r[s] ELSE cached[s]]
        /\ reports' = Tail(reports) /\ reports # <<>> /\ UNCHANGED <<memory, touched, line>>
    BY <1>8 DEF SlotHeard
  <2>2. PICK full \in BOOLEAN : full = (DOMAIN r = SlotIds)
    OBVIOUS
  <2>3. job' = [u \in Users |->
                  IF job[u].pc \in Working THEN [job[u] EXCEPT !.news = TRUE, !.listed = @ \/ full]
                  ELSE job[u]]
    BY <1>8, <2>2, Zenon DEF SlotHeard, Working
  <2>4. ASSUME NEW u \in Users
        PROVE  /\ job'[u].pc = job[u].pc
               /\ job[u].pc = "asked" =>
                     job'[u].stale = job[u].stale /\ (job'[u].listed => job[u].listed \/ full)
    <3>1. CASE job[u].pc \in Working
      <4>1. job[u] \in SlotJobs \ {Unbegun, Ended}
        BY <1>0, <3>1 DEF Unbegun, Ended, Working
      <4>2. job'[u] = [job[u] EXCEPT !.news = TRUE, !.listed = job[u].listed \/ full]
        BY <2>3, <3>1
      <4>3. \A y \in BOOLEAN : LET j == [job[u] EXCEPT !.news = TRUE, !.listed = y]
                               IN j.pc = job[u].pc /\ j.stale = job[u].stale /\ j.listed = y
        BY <4>1 DEF SlotJobs
      <4>4. (job[u].listed \/ full) \in BOOLEAN
        OBVIOUS
      <4> QED
        BY <4>2, <4>3, <4>4, Zenon
    <3>2. CASE job[u].pc \notin Working
      BY <2>3, <3>2 DEF Working
    <3> QED
      BY <3>1, <3>2
  <2>5. \A k \in DOMAIN reports' : k + 1 \in DOMAIN reports /\ reports'[k] = reports[k + 1]
    BY <1>0, <2>1
  <2>6. 1 \in DOMAIN reports /\ r = reports[1]
    BY <1>0, <2>1
  <2>7. ASSUME NEW u \in Users, Fresh(u), job[u].pc = "asked" PROVE Fresh(u)'
    <3>1. \A k \in DOMAIN reports' : \A s \in DOMAIN reports'[k] \ touched' :
             reports'[k][s] = memory'[s]
      BY <2>1, <2>5, <2>7 DEF Fresh
    <3>2. \A s \in DOMAIN r \ touched : r[s] = memory[s]
      BY <2>6, <2>7 DEF Fresh
    <3>3. CASE job[u].listed
      <4>1. \A s \in SlotIds \ touched : cached[s] = memory[s]
        BY <2>7, <3>3 DEF Fresh
      <4> HIDE DEF r
      <4> QED
        BY <2>1, <3>1, <3>2, <4>1 DEF Fresh
    <3>4. CASE full
      <4>1. DOMAIN r = SlotIds
        BY <2>2, <3>4
      <4> HIDE DEF r
      <4> QED
        BY <2>1, <3>1, <3>2, <4>1 DEF Fresh
    <3>5. CASE ~job'[u].listed
      BY <3>1, <3>5 DEF Fresh
    <3> QED
      BY <2>4, <2>7, <3>3, <3>4, <3>5
  <2> QED
    BY <1>1, <2>1, <2>4, <2>7 DEF Current, HasLock, Working
<1>9. ASSUME NEW u \in Users, OrderSlot(u) PROVE Current'
  <2>1. /\ UNCHANGED <<memory, cached, touched, reports>> /\ line' = Append(line, u)
    BY <1>9, Zenon DEF OrderSlot, Orders
  <2>2. job'[u].pc = "ready" /\ \A x \in Users \ {u} : job'[x] = job[x]
    <3>1. PICK s \in SlotIds :
             \/ \E t \in Heats : Orders(u, SlotOrder("set", s, t, Nil))
             \/ \E n \in Names : Orders(u, SlotOrder("rename", s, Nil, n))
             \/ Orders(u, SlotOrder("delete", s, Nil, Nil))
      BY <1>9, Zenon DEF OrderSlot
    <3>2. PICK op \in {"set", "rename", "delete"}, t \in Heats \cup {Nil}, n \in Names \cup {Nil} :
             Orders(u, SlotOrder(op, s, t, n))
      BY <3>1
    <3>3. job' = [job EXCEPT ![u] = Over([pc |-> "ready", attempt |-> 1], SlotOrder(op, s, t, n))]
      BY <3>2, Zenon DEF Orders
    <3>4. Over([pc |-> "ready", attempt |-> 1], SlotOrder(op, s, t, n)).pc = "ready"
      BY SlotOrdered
    <3> QED
      BY <1>0, <3>3, <3>4
  <2>3. \A x \in Users : HasLock(x) => HasLock(x)'
    BY <1>0, <2>1 DEF HasLock
  <2>4. \A x \in Users \ {u} : Fresh(x) => Fresh(x)'
    BY <2>1, <2>2 DEF Fresh
  <2> QED
    BY <1>1, <2>2, <2>3, <2>4 DEF Current, Working
<1>10. ASSUME NEW u \in Users, SlotSet(u) \/ SlotFails(u) PROVE Current'
  <2>1. UNCHANGED <<memory, cached, touched, reports>> /\ HasLock(u) /\ job' = [job EXCEPT ![u] = Ended]
    BY <1>10, Zenon DEF SlotSet, SlotFails, Ends
  <2>2. \A x \in Users : job'[x].pc \notin Working
    BY <1>0, <1>1, <2>1 DEF HasLock, Working, Ended
  <2> QED
    BY <2>2 DEF Current, Working
<1>11. ASSUME NEW u \in Users, AskList(u) PROVE Current'
  <2> DEFINE j == [job[u] EXCEPT !.pc = "asked", !.news = FALSE, !.listed = FALSE,
                                 !.stale = reports # <<>>]
  <2>1. /\ job' = [job EXCEPT ![u] = j] /\ HasLock(u) /\ touched' = {} /\ Answers
        /\ UNCHANGED <<memory, cached, line>>
    BY <1>0, <1>11 DEF AskList
  <2>2. job[u] \in SlotJobs \ {Unbegun, Ended}
    BY <1>0, <1>11 DEF AskList, Unbegun, Ended
  <2>3. /\ j.listed = FALSE /\ (~j.stale => reports = <<>>)
    BY <2>2 DEF SlotJobs
  <2>4. job'[u] = j
    BY <1>0, <2>1
  <2>5. j.pc = "asked" /\ ~j.stale => Fresh(u)'
    <3> SUFFICES ASSUME reports = <<>> PROVE Fresh(u)'
      BY <2>3
    <3>1. \A k \in DOMAIN reports' : reports'[k] = memory
      BY <1>0, <2>1 DEF Answers
    <3> QED
      BY <2>1, <2>3, <2>4, <3>1 DEF Fresh
  <2> HIDE DEF j
  <2> QED
    BY <2>1, <2>5, OneWorks
<1>12. ASSUME NEW u \in Users, WriteSlot(u) \/ CheckSlot(u) PROVE Current'
  <2>1. PICK j : /\ job' = [job EXCEPT ![u] = j] /\ j.pc \in {"wrote", "checks"}
                 /\ HasLock(u) /\ line' = line
    <3>1. job[u] \in SlotJobs \ {Unbegun, Ended}
      BY <1>0, <1>12 DEF WriteSlot, CheckSlot, ReadyToWrite, Unbegun, Ended
    <3>2. CASE WriteSlot(u)
      <4>1. job' = [job EXCEPT ![u] = [job[u] EXCEPT !.pc = "wrote", !.news = FALSE]]
        BY <1>0, <3>2 DEF WriteSlot
      <4> QED
        BY <3>1, <3>2, <4>1 DEF WriteSlot, SlotJobs
    <3>3. CASE CheckSlot(u)
      <4>1. job' = [job EXCEPT ![u] = [job[u] EXCEPT !.pc = "checks"]]
        BY <1>0, <3>3 DEF CheckSlot, Goes
      <4> QED
        BY <3>1, <3>3, <4>1 DEF CheckSlot, Goes, SlotJobs
    <3> QED
      BY <1>12, <3>2, <3>3
  <2> QED
    BY <2>1, OneWorks
<1>13. ASSUME NEW u \in Users, RetrySlot(u) PROVE Current'
  <2>1. /\ job' = [job EXCEPT ![u] = [job[u] EXCEPT !.pc = "ready", !.attempt = 2]]
        /\ HasLock(u) /\ line' = line /\ job[u].pc \in Troubles
    BY <1>0, <1>13 DEF RetrySlot, Repeats
  <2>2. [job[u] EXCEPT !.pc = "ready", !.attempt = 2].pc = "ready"
    BY <1>0, <2>1 DEF SlotJobs, Unbegun, Ended, Troubles
  <2> QED
    BY <2>1, <2>2, OneWorks
<1>14. CASE UNCHANGED memoryVars
  <2>1. UNCHANGED <<memory, cached, touched, reports, line, job>>
    BY <1>14 DEF memoryVars, linkVars
  <2> QED
    BY <1>2, <2>1 DEF Fresh
<1> QED
  BY <1>3, <1>4, <1>5, <1>6, <1>7, <1>8, <1>9, <1>10, <1>11, <1>12, <1>13, <1>14 DEF MemoryNext

LEMMA SlotStep == SlotInv /\ [MemoryNext]_memoryVars => SlotInv'
BY SlotTypeStep, CurrentStep DEF SlotInv

LEMMA SlotStart == SlotsInit => SlotInv
<1> SUFFICES ASSUME SlotsInit PROVE SlotInv
  OBVIOUS
<1>1. /\ reports = <<>> /\ line = <<>> /\ job \in [Users -> {Unbegun, Ended}] /\ touched = {}
      /\ memory \in [SlotIds -> Slots] /\ cached = [s \in SlotIds |-> Nil]
  BY DEF SlotsInit, LinkInit, Slots
<1>2. job \in [Users -> SlotJobs] /\ \A u \in Users : OrdersOK(job[u])
  BY <1>1 DEF SlotJobs, OrdersOK
<1>3. SlotTypeOK
  BY <1>1, <1>2 DEF SlotTypeOK, Slots
<1>4. \A u \in Users : job[u].pc \notin Working
  BY <1>1 DEF Working, Unbegun, Ended
<1>5. Current
  BY <1>4 DEF Current, Working
<1> QED
  BY <1>3, <1>5 DEF SlotInv

\* Once the list is there, what a command writes has the other half as the device
\* had it.
LEMMA WriteKeeps ==
    ASSUME SlotInv, [MemoryNext]_memoryVars, NEW u \in Users, NEW s \in SlotIds,
           Renames(u, s) \/ Retunes(u, s), job[u].listed, ~job[u].stale, s \notin touched
    PROVE  FALSE
<1>0. /\ memory \in [SlotIds -> Slots] /\ job \in [Users -> SlotJobs] /\ SlotTypeOK /\ Current
  BY DEF SlotInv, SlotTypeOK
<1>1. job[u].pc # "wrote" /\ job'[u].pc = "wrote" /\ memory'[s] # memory[s]
      /\ memory[s] # Nil /\ memory'[s] # Nil
  BY DEF Renames, Retunes
<1>2. WriteSlot(u)
  <2>1. job'[u].pc # job[u].pc
    BY <1>1
  <2>2. \A x \in Users : WriteSlot(x) => x = u
    <3> SUFFICES ASSUME NEW x \in Users, WriteSlot(x), x # u PROVE FALSE
      OBVIOUS
    <3>1. job' = [job EXCEPT ![x].pc = "wrote", ![x].news = FALSE]
      BY DEF WriteSlot
    <3> QED
      BY <1>0, <2>1, <3>1
  <2>3. memory' # memory
    BY <1>1
  <2>4. \A i \in SlotIds : ~ChangeSlot(i)
    <3> SUFFICES ASSUME NEW i \in SlotIds, ChangeSlot(i) PROVE FALSE
      OBVIOUS
    <3> QED
      BY <2>1 DEF ChangeSlot, Twists
  <2>5. \/ \E x \in Users : WriteSlot(x)
        \/ memory' = memory \/ \E i \in SlotIds : ChangeSlot(i)
    BY Zenon DEF MemoryNext, OpenSlots, SlotsProved, DropSlots, SlotsGraceOver, SlotHeard, ReportSlot,
           OrderSlot, AskList, CheckSlot, SlotSet, RetrySlot, SlotFails, memoryVars
  <2> QED
    BY <2>2, <2>3, <2>4, <2>5
<1>3. job[u].pc = "asked" /\ Fresh(u)
  BY <1>0, <1>2 DEF WriteSlot, ReadyToWrite, Current
<1>4. cached[s] = memory[s]
  BY <1>3 DEF Fresh
<1>5. memory' = Stored(u, job[u].slot) /\ job[u].slot \in SlotIds
  BY <1>0, <1>1, <1>2, <1>3, StoredType DEF WriteSlot, Working
<1>6. memory[s] \in Memory /\ memory'[s] \in Memory
  <2>1. Stored(u, job[u].slot) \in [SlotIds -> Slots]
    BY <1>0, <1>3, StoredType DEF Working
  <2> QED
    BY <1>0, <1>1, <1>5, <2>1 DEF Slots
<1>7. job[u].op \in {"set", "rename"}
  BY DEF Renames, Retunes
<1>8. s = job[u].slot /\ InCache(s) /\ memory'[s] = Payload(u)
  <2>1. CASE InCache(job[u].slot)
    <3>1. memory' = [memory EXCEPT ![job[u].slot] = IF @ = Nil THEN Nil ELSE Payload(u)]
      BY <1>5, <1>7, <2>1 DEF Stored
    <3> QED
      BY <1>0, <1>1, <1>5, <2>1, <3>1
  <2>2. CASE ~InCache(job[u].slot)
    <3>1. memory'[s] = IF memory[s] = Nil /\ \A j \in SlotIds : j < s => memory[j] # Nil
                       THEN Payload(u) ELSE memory[s]
      BY <1>5, <1>7, <2>2 DEF Stored
    <3> QED
      BY <1>1, <3>1
  <2> QED
    BY <2>1, <2>2
<1>9. CASE Renames(u, s)
  <2>1. Payload(u).name = cached[s].name
    BY <1>8, <1>9 DEF Renames, Payload
  <2> QED
    BY <1>4, <1>8, <1>9, <2>1 DEF Renames
<1>10. CASE Retunes(u, s)
  <2>1. Payload(u).temp = cached[s].temp
    BY <1>8, <1>10 DEF Retunes, Payload
  <2> QED
    BY <1>4, <1>8, <1>10, <2>1 DEF Retunes
<1> QED
  BY <1>9, <1>10

\* The slots, their cache, the lists on their way and the commands keep to their
\* form.  Whoever waits for the list holds the lock; and once nothing older is on
\* its way, the reports and the cache are as the device has it, but for what was
\* touched there.
THEOREM SlotType == MemorySpec => []SlotInv
BY SlotStart, SlotStep, PTL DEF MemorySpec

\* Once the list it asked for has come, a command that sets a memory's temperature
\* leaves its name alone, and one that renames it its temperature; unless an older
\* report was taken for the answer, or the memory was changed at the device
\* meanwhile (client_temperature_memory_commands.py:87).
THEOREM CommandsKeepTheOtherHalf == MemorySpec => OtherHalfIsKept
<1>1. SlotInv /\ [MemoryNext]_memoryVars =>
          [\A u \in Users, s \in SlotIds :
              Renames(u, s) \/ Retunes(u, s) => ~job[u].listed \/ job[u].stale \/ s \in touched]_memoryVars
  <2> SUFFICES ASSUME SlotInv, [MemoryNext]_memoryVars, NEW u \in Users, NEW s \in SlotIds,
                      Renames(u, s) \/ Retunes(u, s), job[u].listed, ~job[u].stale, s \notin touched
               PROVE  FALSE
    OBVIOUS
  <2> QED
    BY WriteKeeps
<1> QED
  BY <1>1, SlotType, PTL DEF MemorySpec, OtherHalfIsKept

HIDE MemoryAssumption

-----------------------------------------------------------------------------
(***************************************************************************)
(* Controls.                                                               *)
(***************************************************************************)
USE ControlsAssumption

(***************************************************************************)
(* A command's writes, and what the device has confirmed of them.          *)
(***************************************************************************)
Sets(op, c, v, todo, got, confirmed) ==
    /\ op = "set" /\ group # "wellness" /\ c \in Controls /\ todo = <<Write(c, v)>>
    /\ confirmed => c \in DOMAIN got /\ got[c] = v

Starts(op, c, v, todo, got, confirmed) ==
    /\ op = "start" /\ group = "wellness" /\ c \in Programs /\ v = 1
    /\ \/ /\ todo = <<Write("program", c), Write("active", 1)>>
          /\ confirmed => "program" \in DOMAIN got /\ got["program"] = c
       \/ /\ todo = <<Write("active", 1)>> /\ "program" \in DOMAIN got /\ got["program"] = c
          /\ confirmed => "active" \in DOMAIN got /\ got["active"] = 1

Stops(op, c, v, todo, got, confirmed) ==
    /\ op = "stop" /\ group = "wellness" /\ c \in Programs /\ v = 0
    /\ todo = <<Write("active", 0)>>
    /\ confirmed => "active" \in DOMAIN got /\ got["active"] = 0

Resets(op, c, todo, got) ==
    /\ op = "reset" /\ group = "timer" /\ c = Nil /\ Len(todo) = 1
    /\ todo = <<Write("remaining", todo[1].value)>>
    /\ "running" \in DOMAIN got => got["running"] = 0

Fits(op, c, v, todo, got, confirmed) ==
    \/ Sets(op, c, v, todo, got, confirmed) \/ Starts(op, c, v, todo, got, confirmed)
    \/ Stops(op, c, v, todo, got, confirmed) \/ Resets(op, c, todo, got)

Jobs(op, c, v, todo, got, pcs) ==
    [pc : pcs, attempt : {1, 2}, op : {op}, control : {c}, value : {v}, todo : {todo}, got : {got}]

Pending == {"ready", "wait", "lost"}

ControlJob(j) ==
    \/ j \in {Unbegun, Ended}
    \/ /\ j \in Jobs(j.op, j.control, j.value, j.todo, j.got, Pending \cup {"confirmed"})
       /\ Fits(j.op, j.control, j.value, j.todo, j.got, j.pc = "confirmed")

ControlReport(r) == DOMAIN r \subseteq Fields \/ (group = "timer" /\ DOMAIN r = {"reset"})

(***************************************************************************)
(* Only the holder of the lock waits or has an answer; the client holds    *)
(* what the device said of the value that is confirmed; and a control that *)
(* shows something else than the client holds has gone astray.             *)
(***************************************************************************)
Follows ==
    /\ \A u \in Users :
          /\ job[u].pc \in {"wait", "lost", "confirmed"} => HasLock(u)
          /\ job[u].pc = "confirmed" /\ job[u].op = "set" => known[job[u].control] = said[job[u].control]
    /\ group # "wellness" =>
          \A c \in Controls : known[c] # Nil => shown[c].value = known[c] \/ Astray(c)

ControlsJobsOK == job = [u \in Users |-> job[u]] /\ \A u \in Users : ControlJob(job[u])

ControlsReportsOK == \E R : reports \in Seq(R) /\ \A r \in R : ControlReport(r)

ControlsDataOK ==
    /\ DOMAIN unit = Fields
    /\ said = [i \in Fields |-> said[i]]
    /\ known = [i \in Fields \cup (IF group = "bath" THEN {"left"} ELSE {}) |-> known[i]]
    /\ shown = [c \in Controls |-> shown[c]]
    /\ \A c \in Controls : shown[c] \in [value : {shown[c].value}, available : {shown[c].available}]

ControlsTypeOK ==
    /\ group \in {"wellness", "timer", "bath"}
    /\ ControlsJobsOK /\ ControlsReportsOK /\ ControlsDataOK /\ line \in Seq(Users)

ControlsInv == ControlsTypeOK /\ Follows

\* A job goes on, or an attempt of it fails.
LEMMA JobGoesOn ==
    ASSUME NEW j, ControlJob(j), j.pc \notin {"idle", "done"}, NEW p \in Pending
    PROVE  ControlJob([j EXCEPT !.pc = p]) /\ ControlJob([j EXCEPT !.pc = p, !.attempt = 2])
<1> DEFINE k == [j EXCEPT !.pc = p]
           l == [j EXCEPT !.pc = p, !.attempt = 2]
<1>1. /\ j \in Jobs(j.op, j.control, j.value, j.todo, j.got, Pending \cup {"confirmed"})
      /\ Fits(j.op, j.control, j.value, j.todo, j.got, j.pc = "confirmed")
  BY DEF ControlJob, Unbegun, Ended
<1>2. PICK op, c, v, todo, got :
         /\ j \in Jobs(op, c, v, todo, got, Pending \cup {"confirmed"})
         /\ Fits(op, c, v, todo, got, j.pc = "confirmed")
  BY <1>1, Zenon
<1>3. Fits(op, c, v, todo, got, FALSE)
  BY <1>2 DEF Fits, Sets, Starts, Stops
<1>4. /\ k \in Jobs(op, c, v, todo, got, Pending \cup {"confirmed"}) /\ k.pc = p
      /\ l \in Jobs(op, c, v, todo, got, Pending \cup {"confirmed"}) /\ l.pc = p
  BY <1>2 DEF Jobs, Pending
<1>5. \A x \in Jobs(op, c, v, todo, got, Pending \cup {"confirmed"}) :
          x.pc = p => ControlJob(x)
  <2> SUFFICES ASSUME NEW x \in Jobs(op, c, v, todo, got, Pending \cup {"confirmed"}), x.pc = p
               PROVE  ControlJob(x)
    OBVIOUS
  <2>1. x.op = op /\ x.control = c /\ x.value = v /\ x.todo = todo /\ x.got = got
    BY DEF Jobs
  <2>2. x.pc # "confirmed"
    BY DEF Pending
  <2> QED
    BY <1>3, <2>1, <2>2 DEF ControlJob
<1> QED
  BY <1>4, <1>5

\* The device confirms a write.
LEMMA JobConfirmed ==
    ASSUME ControlsTypeOK, NEW u \in Users, job[u].pc = "wait", NEW r, ControlReport(r),
           Confirms(u, Meaning(r))
    PROVE  ControlJob([job[u] EXCEPT !.pc = "confirmed", !.got = Over(Confirmation(u, r, Meaning(r)), @)])
<1> DEFINE j == job[u]
           m == Meaning(r)
           con == Confirmation(u, r, m)
<1>1. ControlJob(j)
  BY DEF ControlsTypeOK, ControlsJobsOK
<1>2. /\ j \in Jobs(j.op, j.control, j.value, j.todo, j.got, Pending \cup {"confirmed"})
      /\ Fits(j.op, j.control, j.value, j.todo, j.got, FALSE)
  <2>1. /\ j \in Jobs(j.op, j.control, j.value, j.todo, j.got, Pending \cup {"confirmed"})
        /\ Fits(j.op, j.control, j.value, j.todo, j.got, j.pc = "confirmed")
    BY <1>1 DEF ControlJob, Unbegun, Ended
  <2> QED
    BY <2>1 DEF Fits, Sets, Starts, Stops
<1>3. PICK op, c, v, todo, got :
         /\ j \in Jobs(op, c, v, todo, got, Pending \cup {"confirmed"})
         /\ Fits(op, c, v, todo, got, FALSE)
         /\ todo = j.todo /\ got = j.got
  BY <1>2, Zenon
<1> DEFINE w == Head(todo)
           now == Over(con, got)
           k == [j EXCEPT !.pc = "confirmed", !.got = Over(con, @)]
<1>4. w.field \in DOMAIN m /\ m[w.field] = w.value
  BY <1>3 DEF Confirms, Writing
<1>5. /\ DOMAIN con = {w.field} \cup (IF "reset" \in DOMAIN r THEN {"running"} ELSE {})
      /\ \A i \in DOMAIN con : con[i] = m[i]
  BY <1>3 DEF Confirmation, Writing
<1>6. "reset" \in DOMAIN r => group = "timer" /\ m["running"] = 0
  <2> SUFFICES ASSUME "reset" \in DOMAIN r PROVE group = "timer" /\ m["running"] = 0
    OBVIOUS
  <2>1. "reset" \notin Fields
    BY DEF ControlsTypeOK, Fields
  <2>2. group = "timer"
    BY <2>1 DEF ControlReport
  <2>3. m = [i \in {"remaining", "running"} |-> IF i = "running" THEN 0 ELSE Configured(known)]
    BY DEF Meaning
  <2> QED
    BY <2>2, <2>3
<1> HIDE DEF con, m
<1>7. /\ DOMAIN now = DOMAIN con \cup DOMAIN got
      /\ \A i \in DOMAIN con : now[i] = con[i]
      /\ \A i \in DOMAIN got \ DOMAIN con : now[i] = got[i]
  BY DEF Over
<1>8. /\ k \in Jobs(op, c, v, todo, now, Pending \cup {"confirmed"}) /\ k.pc = "confirmed"
  BY <1>3 DEF Jobs
<1> HIDE DEF now, k, j
<1>9. Fits(op, c, v, todo, now, TRUE)
  <2>1. CASE Sets(op, c, v, todo, got, FALSE)
    <3>1. w.field = c /\ w.value = v
      BY <2>1 DEF Sets, Write
    <3>2. c \in DOMAIN now /\ now[c] = v
      BY <1>4, <1>5, <1>7, <3>1
    <3> QED
      BY <2>1, <3>2 DEF Fits, Sets
  <2>2. CASE Starts(op, c, v, todo, got, FALSE)
    <3>1. DOMAIN con = {w.field} /\ now[w.field] = w.value
      BY <1>4, <1>5, <1>6, <1>7, <2>2 DEF Starts
    <3>2. CASE todo = <<Write("program", c), Write("active", 1)>>
      <4>1. w.field = "program" /\ w.value = c
        BY <3>2 DEF Write
      <4>2. "program" \in DOMAIN now /\ now["program"] = c
        BY <1>7, <3>1, <4>1
      <4> QED
        BY <2>2, <3>2, <4>2 DEF Starts, Fits
    <3>3. CASE todo = <<Write("active", 1)>> /\ "program" \in DOMAIN got /\ got["program"] = c
      <4>1. w.field = "active" /\ w.value = 1
        BY <3>3 DEF Write
      <4>2. "active" \in DOMAIN now /\ now["active"] = 1 /\ "program" \in DOMAIN now /\ now["program"] = c
        BY <1>7, <3>1, <3>3, <4>1
      <4> QED
        BY <2>2, <3>3, <4>2 DEF Starts, Fits
    <3> QED
      BY <2>2, <3>2, <3>3 DEF Starts
  <2>3. CASE Stops(op, c, v, todo, got, FALSE)
    <3>1. w.field = "active" /\ w.value = 0
      BY <2>3 DEF Stops, Write
    <3>2. "active" \in DOMAIN now /\ now["active"] = 0
      BY <1>4, <1>5, <1>7, <3>1
    <3> QED
      BY <2>3, <3>2 DEF Fits, Stops
  <2>4. CASE Resets(op, c, todo, got)
    <3>1. w.field = "remaining"
      BY <2>4 DEF Resets, Write
    <3>2. "running" \in DOMAIN now => now["running"] = 0
      BY <1>5, <1>6, <1>7, <2>4, <3>1 DEF Resets
    <3> QED
      BY <2>4, <3>2 DEF Fits, Resets
  <2> QED
    BY <1>3, <2>1, <2>2, <2>3, <2>4 DEF Fits
<1>10. ControlJob(k)
  <2>1. k.op = op /\ k.control = c /\ k.value = v /\ k.todo = todo /\ k.got = now
    BY <1>8 DEF Jobs
  <2> QED
    BY <1>8, <1>9, <2>1 DEF ControlJob
<1> QED
  BY <1>10 DEF k, j, con, m

\* A command begins.
LEMMA JobBegins ==
    ASSUME NEW op, NEW c, NEW v, NEW writes, Fits(op, c, v, writes, <<>>, FALSE)
    PROVE  LET j == Over([pc |-> "ready", attempt |-> 1],
                         [op |-> op, control |-> c, value |-> v, todo |-> writes, got |-> <<>>])
           IN ControlJob(j) /\ j.pc = "ready"
<1> DEFINE f == [pc |-> "ready", attempt |-> 1]
           g == [op |-> op, control |-> c, value |-> v, todo |-> writes, got |-> <<>>]
           j == Over(f, g)
<1>1. /\ DOMAIN f = {"pc", "attempt"} /\ f.pc = "ready" /\ f.attempt = 1
      /\ DOMAIN g = {"op", "control", "value", "todo", "got"}
      /\ g.op = op /\ g.control = c /\ g.value = v /\ g.todo = writes /\ g.got = <<>>
  OBVIOUS
<1> HIDE DEF f, g
<1>2. /\ j \in Jobs(op, c, v, writes, <<>>, Pending \cup {"confirmed"}) /\ j.pc = "ready"
  BY <1>1 DEF Over, Jobs, Pending
<1> HIDE DEF j
<1>3. j.op = op /\ j.control = c /\ j.value = v /\ j.todo = writes /\ j.got = <<>>
  BY <1>2 DEF Jobs
<1>4. ControlJob(j)
  BY <1>2, <1>3 DEF ControlJob
<1> QED
  BY <1>2, <1>4 DEF j, f, g

LEMMA CommandBegins ==
    ASSUME ControlsTypeOK, NEW u \in Users, Command(u)
    PROVE  \E j : job' = [job EXCEPT ![u] = j] /\ ControlJob(j) /\ j.pc = "ready"
<1>1. ASSUME NEW op, NEW c, NEW v, NEW writes, Begin(u, op, c, v, writes),
             Fits(op, c, v, writes, <<>>, FALSE)
      PROVE  \E j : job' = [job EXCEPT ![u] = j] /\ ControlJob(j) /\ j.pc = "ready"
  BY <1>1, JobBegins, Zenon DEF Begin, Orders
<1>2. ASSUME group = "wellness", NEW p \in Programs,
             \/ Begin(u, "start", p, 1, <<Write("program", p), Write("active", 1)>>)
             \/ Begin(u, "stop", p, 0, <<Write("active", 0)>>)
      PROVE  \E j : job' = [job EXCEPT ![u] = j] /\ ControlJob(j) /\ j.pc = "ready"
  <2>1. Fits("start", p, 1, <<Write("program", p), Write("active", 1)>>, <<>>, FALSE)
    BY <1>2 DEF Fits, Starts
  <2>2. Fits("stop", p, 0, <<Write("active", 0)>>, <<>>, FALSE)
    BY <1>2 DEF Fits, Stops
  <2> QED
    BY <1>1, <1>2, <2>1, <2>2
<1>3. ASSUME group = "timer", NEW v, Begin(u, "reset", Nil, Nil, <<Write("remaining", v)>>)
      PROVE  \E j : job' = [job EXCEPT ![u] = j] /\ ControlJob(j) /\ j.pc = "ready"
  <2>1. Fits("reset", Nil, Nil, <<Write("remaining", v)>>, <<>>, FALSE)
    <3>1. /\ <<Write("remaining", v)>>[1].value = v /\ Len(<<Write("remaining", v)>>) = 1
          /\ DOMAIN <<>> = {}
      BY DEF Write
    <3> QED
      BY <1>3, <3>1 DEF Fits, Resets
  <2> QED
    BY <1>1, <1>3, <2>1
<1>4. ASSUME group # "wellness", NEW c \in Controls, NEW v, Begin(u, "set", c, v, <<Write(c, v)>>)
      PROVE  \E j : job' = [job EXCEPT ![u] = j] /\ ControlJob(j) /\ j.pc = "ready"
  <2>1. Fits("set", c, v, <<Write(c, v)>>, <<>>, FALSE)
    BY <1>4 DEF Fits, Sets
  <2> QED
    BY <1>1, <1>4, <2>1
<1> QED
  BY <1>2, <1>3, <1>4, Zenon DEF Command

LEMMA GroupKept == [ControlsNext]_controlVars => group' = group
<1>1. \A u \in Users : Order(u) \/ Push(u) \/ Retry(u) \/ Abandon(u) \/ GoOn(u) \/ Finish(u) =>
         group' = group
  BY Zenon DEF Order, Push, Retry, Abandon, GoOn, Finish
<1>2. ControlsNext => group' = group
  BY <1>1, Zenon DEF ControlsNext, Open, Proved, Drop, GraceOver, Heard, Touch, Speak
<1> QED
  BY <1>2 DEF controlVars

LEMMA ControlsJobStep ==
    ControlsTypeOK /\ [ControlsNext]_controlVars => ControlsJobsOK'
<1> SUFFICES ASSUME ControlsTypeOK, [ControlsNext]_controlVars PROVE ControlsJobsOK'
  OBVIOUS
<1>0. ControlsJobsOK /\ \E R : reports \in Seq(R) /\ \A r \in R : ControlReport(r)
  BY DEF ControlsTypeOK, ControlsReportsOK
<1>2. group' = group
  BY GroupKept
<1> DEFINE JobsOK == job' = [u \in Users |-> job'[u]] /\ \A u \in Users : ControlJob(job'[u])
<1>3. SUFFICES JobsOK
  <2>1. Controls' = Controls
    BY <1>2 DEF Controls
  <2>2. ASSUME NEW j, ControlJob(j) PROVE ControlJob(j)'
    BY <1>2, <2>1, <2>2, Zenon DEF ControlJob, Fits, Sets, Starts, Stops, Resets
  <2> QED
    BY <2>2, Zenon DEF ControlsJobsOK
<1>4. ASSUME NEW u \in Users, NEW j, job' = [job EXCEPT ![u] = j], ControlJob(j) PROVE JobsOK
  BY <1>0, <1>4 DEF ControlsJobsOK
<1>5. ASSUME NEW u \in Users, Order(u) PROVE JobsOK
  <2>1. CASE Command(u)
    BY <1>4, <2>1, CommandBegins
  <2>2. CASE UNCHANGED linkVars
    BY <1>0, <2>2 DEF linkVars, ControlsJobsOK
  <2> QED
    BY <1>5, <2>1, <2>2 DEF Order
<1>6. ASSUME NEW u \in Users, Push(u) \/ Retry(u) PROVE JobsOK
  <2>1. ControlJob(job[u]) /\ job[u].pc \notin {"idle", "done"}
    BY <1>0, <1>6 DEF ControlsJobsOK, Push, Retry, Repeats, Failing
  <2>2. \/ job' = [job EXCEPT ![u] = [job[u] EXCEPT !.pc = "wait"]]
        \/ job' = [job EXCEPT ![u] = [job[u] EXCEPT !.pc = "ready", !.attempt = 2]]
    <3>1. CASE Push(u)
      BY <1>0, <3>1 DEF ControlsJobsOK, Push, Goes
    <3>2. CASE Retry(u)
      BY <1>0, <3>2 DEF ControlsJobsOK, Retry, Repeats
    <3> QED
      BY <1>6, <3>1, <3>2
  <2>3. /\ ControlJob([job[u] EXCEPT !.pc = "wait"])
        /\ ControlJob([job[u] EXCEPT !.pc = "ready", !.attempt = 2])
    BY <2>1, JobGoesOn DEF Pending
  <2> QED
    BY <1>4, <2>2, <2>3, Zenon
<1>7. ASSUME NEW u \in Users, Abandon(u) \/ Finish(u) PROVE JobsOK
  <2>1. job' = [job EXCEPT ![u] = Ended] /\ ControlJob(Ended)
    BY <1>7, Zenon DEF Abandon, Finish, Ends, ControlJob
  <2> QED
    BY <1>4, <2>1
<1>8. ASSUME NEW u \in Users, GoOn(u) PROVE JobsOK
  <2> DEFINE j == job[u]
             k == [j EXCEPT !.todo = Tail(@), !.pc = "ready", !.attempt = 1]
  <2>1. /\ job' = [job EXCEPT ![u] = k] /\ j.pc = "confirmed" /\ Len(j.todo) > 1
    BY <1>0, <1>8 DEF GoOn, ControlsJobsOK
  <2>2. /\ j \in Jobs(j.op, j.control, j.value, j.todo, j.got, Pending \cup {"confirmed"})
        /\ Fits(j.op, j.control, j.value, j.todo, j.got, TRUE)
    <3>1. /\ j \in Jobs(j.op, j.control, j.value, j.todo, j.got, Pending \cup {"confirmed"})
          /\ Fits(j.op, j.control, j.value, j.todo, j.got, j.pc = "confirmed")
      <4>1. ControlJob(j) /\ j.pc \notin {"idle", "done"}
        BY <1>0, <2>1 DEF ControlsJobsOK
      <4> HIDE DEF j
      <4> QED
        BY <4>1 DEF ControlJob, Unbegun, Ended
    <3> QED
      BY <2>1, <3>1 DEF Fits, Sets, Starts, Stops
  <2>3. /\ Starts(j.op, j.control, j.value, j.todo, j.got, TRUE)
        /\ j.todo = <<Write("program", j.control), Write("active", 1)>>
    <3> HIDE DEF j
    <3>1. /\ Len(j.todo) > 1
          /\ \/ Sets(j.op, j.control, j.value, j.todo, j.got, TRUE)
             \/ Starts(j.op, j.control, j.value, j.todo, j.got, TRUE)
             \/ Stops(j.op, j.control, j.value, j.todo, j.got, TRUE)
             \/ Resets(j.op, j.control, j.todo, j.got)
      BY <2>1, <2>2 DEF Fits
    <3>6. \A x : Len(<<x>>) = 1
      OBVIOUS
    <3>7. ASSUME NEW x PROVE j.todo # <<x>>
      <4>1. Len(j.todo) > 1 /\ Len(<<x>>) = 1
        BY <2>1, <3>6
      <4>2. CASE j.todo = <<x>>
        <5>1. Len(j.todo) = Len(<<x>>)
          BY <4>2
        <5> QED
          BY <4>1, <5>1
      <4> QED
        BY <4>2
    <3>2. ~Sets(j.op, j.control, j.value, j.todo, j.got, TRUE)
      BY <3>7 DEF Sets
    <3>3. ~Stops(j.op, j.control, j.value, j.todo, j.got, TRUE)
      BY <3>7 DEF Stops
    <3>4. ~Resets(j.op, j.control, j.todo, j.got)
      BY <3>7 DEF Resets
    <3>5. j.todo # <<Write("active", 1)>>
      BY <3>7
    <3> QED
      BY <3>1, <3>2, <3>3, <3>4, <3>5 DEF Starts
  <2>4. Tail(j.todo) = <<Write("active", 1)>> /\ "program" \in DOMAIN j.got /\ j.got["program"] = j.control
    <3> HIDE DEF j
    <3>1. "program" \in DOMAIN j.got /\ j.got["program"] = j.control
      BY <2>3 DEF Starts, Write
    <3>2. Tail(j.todo) = <<Write("active", 1)>>
      BY <2>3
    <3> QED
      BY <3>1, <3>2
  <2>5. PICK op, c, v, todo, got :
           /\ j \in Jobs(op, c, v, todo, got, Pending \cup {"confirmed"})
           /\ op = j.op /\ c = j.control /\ v = j.value /\ todo = j.todo /\ got = j.got
    BY <2>2, Zenon
  <2>6. Fits(op, c, v, <<Write("active", 1)>>, got, FALSE)
    BY <2>3, <2>4, <2>5 DEF Fits, Starts
  <2>7. k \in Jobs(op, c, v, <<Write("active", 1)>>, got, Pending \cup {"confirmed"}) /\ k.pc = "ready"
    BY <2>4, <2>5 DEF Jobs, Pending
  <2> HIDE DEF k, j
  <2>8. ControlJob(k)
    <3>1. k.op = op /\ k.control = c /\ k.value = v /\ k.todo = <<Write("active", 1)>> /\ k.got = got
      BY <2>7 DEF Jobs
    <3> QED
      BY <2>6, <2>7, <3>1 DEF ControlJob
  <2> QED
    BY <1>4, <2>1, <2>8 DEF k, j
<1>9. CASE Drop
  <2>1. \A u \in Users : ControlJob([job[u] EXCEPT !.pc = IF @ = "wait" THEN "lost" ELSE @])
    <3> SUFFICES ASSUME NEW u \in Users
                 PROVE  ControlJob([job[u] EXCEPT !.pc = IF @ = "wait" THEN "lost" ELSE @])
      OBVIOUS
    <3>1. CASE job[u].pc = "wait"
      BY <1>0, <3>1, JobGoesOn DEF ControlsJobsOK, Pending
    <3>2. CASE job[u].pc # "wait"
      <4>1. [job[u] EXCEPT !.pc = @] = job[u]
        BY <1>0 DEF ControlsJobsOK, ControlJob, Jobs, Unbegun, Ended
      <4> QED
        BY <1>0, <3>2, <4>1 DEF ControlsJobsOK
    <3> QED
      BY <3>1, <3>2
  <2> QED
    BY <1>9, <2>1 DEF Drop, Drops
<1>10. CASE Heard
  <2> DEFINE r == Head(reports)
             m == Meaning(r)
  <2>1. ControlReport(r) /\ job' = [u \in Users |->
           IF Confirms(u, m)
           THEN [job[u] EXCEPT !.pc = "confirmed", !.got = Over(Confirmation(u, r, m), @)]
           ELSE job[u]]
    <3>1. ControlReport(r)
      <4>1. PICK R : reports \in Seq(R) /\ \A x \in R : ControlReport(x)
        BY <1>0
      <4> QED
        <5>1. reports # <<>>
          BY <1>10, Zenon DEF Heard
        <5> QED
          BY <4>1, <5>1
    <3> QED
      BY <1>10, <3>1, Zenon DEF Heard
  <2>2. \A u \in Users : Confirms(u, m) =>
           ControlJob([job[u] EXCEPT !.pc = "confirmed", !.got = Over(Confirmation(u, r, m), @)])
    BY <2>1, JobConfirmed DEF Confirms
  <2> HIDE DEF r, m
  <2> QED
    BY <1>0, <2>1, <2>2 DEF ControlsJobsOK
<1>11. CASE UNCHANGED job
  BY <1>0, <1>11 DEF ControlsJobsOK
<1> QED
  BY <1>5, <1>6, <1>7, <1>8, <1>9, <1>10, <1>11
     DEF ControlsNext, Open, Proved, GraceOver, Touch, Speak, Opens, Proves, Expires, Twists,
         Announces, controlVars, linkVars

LEMMA ControlsReportStep ==
    ControlsTypeOK /\ [ControlsNext]_controlVars => ControlsReportsOK' /\ DOMAIN unit' = Fields'
<1> SUFFICES ASSUME ControlsTypeOK, [ControlsNext]_controlVars
             PROVE  ControlsReportsOK' /\ DOMAIN unit' = Fields'
  OBVIOUS
<1>0. ControlsReportsOK /\ DOMAIN unit = Fields /\ ControlsJobsOK
  BY DEF ControlsTypeOK, ControlsDataOK
<1>1. Fields' = Fields /\ group' = group
  BY GroupKept DEF Fields
<1>2. ASSUME NEW R, reports' \in Seq(R), \A r \in R : ControlReport(r) PROVE ControlsReportsOK'
  BY <1>1, <1>2 DEF ControlsReportsOK, ControlReport
<1>3. ASSUME NEW r, ControlReport(r), reports' = Append(reports, r) PROVE ControlsReportsOK'
  <2>1. PICK R : reports \in Seq(R) /\ \A x \in R : ControlReport(x)
    BY <1>0 DEF ControlsReportsOK
  <2>2. reports \in Seq(R \cup {r})
    BY <2>1
  <2>3. reports' \in Seq(R \cup {r})
    BY <1>3, <2>2
  <2> QED
    BY <1>2, <1>3, <2>1, <2>3
<1>4. reports' = reports => ControlsReportsOK'
  BY <1>0, <1>2 DEF ControlsReportsOK
<1>5. CASE Open
  <2>1. reports' = <<unit>> /\ unit' = unit
    BY <1>5 DEF Open, Opens
  <2>2. ControlReport(unit)
    BY <1>0 DEF ControlReport
  <2>3. <<unit>> \in Seq({unit})
    OBVIOUS
  <2> QED
    <3>1. reports' \in Seq({unit}) /\ \A r \in {unit} : ControlReport(r)
      BY <2>1, <2>2, <2>3
    <3>2. ControlsReportsOK'
      BY <1>2, <3>1
    <3> QED
      BY <1>0, <1>1, <2>1, <3>2
<1>6. CASE Drop \/ \E u \in Users : Retry(u)
  <2>1. reports' = <<>> /\ unit' = unit
    BY <1>6, Zenon DEF Drop, Drops, Retry, Repeats
  <2>2. reports' \in Seq({}) /\ \A r \in {} : ControlReport(r)
    BY <2>1
  <2>3. ControlsReportsOK'
    BY <1>2, <2>2
  <2> QED
    BY <1>0, <1>1, <2>1, <2>3
<1>7. CASE Heard
  <2>1. reports # <<>> /\ reports' = Tail(reports) /\ unit' = unit
    BY <1>7, Zenon DEF Heard
  <2>2. PICK R : reports \in Seq(R) /\ \A x \in R : ControlReport(x)
    BY <1>0 DEF ControlsReportsOK
  <2>3. reports' \in Seq(R)
    BY <2>1, <2>2
  <2> QED
    BY <1>0, <1>1, <1>2, <2>1, <2>2, <2>3
<1>8. ASSUME NEW i \in Fields, Touch(i) \/ Speak(i)
      PROVE  ControlsReportsOK' /\ DOMAIN unit' = Fields'
  <2>1. CASE Touch(i)
    <3>1. reports' = reports /\ DOMAIN unit' = DOMAIN unit
      BY <2>1 DEF Touch, Twists
    <3> QED
      BY <1>0, <1>1, <1>4, <3>1
  <2>2. CASE Speak(i)
    <3>1. reports' = Append(reports, [k \in {i} |-> unit[k]]) /\ unit' = unit
      BY <2>2, Zenon DEF Speak, Announces
    <3>2. ControlReport([k \in {i} |-> unit[k]])
      BY DEF ControlReport
    <3> QED
      BY <1>0, <1>1, <1>3, <3>1, <3>2
  <2> QED
    BY <1>8, <2>1, <2>2
<1>9. ASSUME NEW u \in Users, Push(u) PROVE ControlsReportsOK' /\ DOMAIN unit' = Fields'
  <2>1. unit' \in {unit, Effect(u)}
        /\ (reports' = reports \/ (job[u].op = "reset" /\ reports' = Append(reports, [i \in {"reset"} |-> 1])))
    BY <1>9, Zenon DEF Push
  <2>2. DOMAIN Effect(u) = DOMAIN unit
    BY DEF Effect
  <2>3. job[u].op = "reset" => ControlReport([i \in {"reset"} |-> 1])
    <3> SUFFICES ASSUME job[u].op = "reset" PROVE ControlReport([i \in {"reset"} |-> 1])
      OBVIOUS
    <3>1. ControlJob(job[u]) /\ job[u].pc = "ready"
      BY <1>0, <1>9 DEF ControlsJobsOK, Push
    <3>2. Fits(job[u].op, job[u].control, job[u].value, job[u].todo, job[u].got, job[u].pc = "confirmed")
      BY <3>1 DEF ControlJob, Unbegun, Ended
    <3>3. group = "timer"
      BY <3>2 DEF Fits, Sets, Starts, Stops, Resets
    <3> QED
      BY <3>3 DEF ControlReport
  <2>4. ControlsReportsOK'
    BY <1>3, <1>4, <2>1, <2>3
  <2> QED
    BY <1>0, <1>1, <2>1, <2>2, <2>4
<1>10. CASE UNCHANGED <<reports, unit>>
  BY <1>0, <1>1, <1>4, <1>10
<1>11. ASSUME NEW u \in Users, Order(u) \/ Abandon(u) \/ GoOn(u) \/ Finish(u)
       PROVE  UNCHANGED <<reports, unit>>
  <2>1. Command(u) => reports' = reports
    BY Zenon DEF Command, Begin, Orders
  <2> QED
    BY <1>11, <2>1 DEF Order, Abandon, GoOn, Finish, Ends, linkVars
<1> QED
  BY <1>5, <1>6, <1>7, <1>8, <1>9, <1>10, <1>11
     DEF ControlsNext, Proved, GraceOver, Proves, Expires, controlVars, linkVars

(***************************************************************************)
(* What the client holds, what the device said and what the controls show  *)
(* change when a report is heard and when a command has ended well; apart  *)
(* from that only their availability does.                                 *)
(***************************************************************************)
Quiet ==
    /\ UNCHANGED <<group, known, said>>
    /\ shown' = [c \in Controls |-> shown'[c]]
    /\ \A c \in Controls : shown'[c] \in [value : {shown[c].value}, available : {shown'[c].available}]

LEMMA Availability ==
    ASSUME ControlsDataOK, NEW c \in Controls, NEW b
    PROVE  [shown[c] EXCEPT !.available = b] \in [value : {shown[c].value}, available : {b}]
BY DEF ControlsDataOK

LEMMA QuietSteps ==
    ASSUME ControlsTypeOK, [ControlsNext]_controlVars, ~Heard, \A u \in Users : ~Finish(u)
    PROVE  Quiet
<1>0. ControlsDataOK
  BY DEF ControlsTypeOK
<1>1. \A c \in Controls : shown[c] \in [value : {shown[c].value}, available : {shown[c].available}]
  BY <1>0 DEF ControlsDataOK
<1>2. shown = [c \in Controls |-> shown[c]]
  BY <1>0 DEF ControlsDataOK
<1>3. ASSUME shown' = shown PROVE /\ shown' = [c \in Controls |-> shown'[c]]
                                  /\ \A c \in Controls : shown'[c] \in [value : {shown[c].value},
                                                                        available : {shown'[c].available}]
  BY <1>1, <1>2, <1>3
<1>4. ASSUME \A c \in Controls : \E b : shown'[c] = [shown[c] EXCEPT !.available = b]
      PROVE  \A c \in Controls : shown'[c] \in [value : {shown[c].value},
                                                available : {shown'[c].available}]
  <2> SUFFICES ASSUME NEW c \in Controls
               PROVE  shown'[c] \in [value : {shown[c].value}, available : {shown'[c].available}]
    OBVIOUS
  <2>1. PICK b : shown'[c] = [shown[c] EXCEPT !.available = b]
    BY <1>4
  <2>2. shown'[c] \in [value : {shown[c].value}, available : {b}]
    BY <1>0, <2>1, Availability
  <2> QED
    BY <2>2
<1>5. ASSUME NEW now, HearLive(now) PROVE
         /\ shown' = [c \in Controls |-> shown'[c]]
         /\ \A c \in Controls : \E b : shown'[c] = [shown[c] EXCEPT !.available = b]
  BY <1>5 DEF HearLive
<1>6. CASE Open \/ Drop \/ (\E i \in Fields : Touch(i) \/ Speak(i))
           \/ (\E u \in Users : Push(u) \/ Retry(u) \/ GoOn(u)) \/ UNCHANGED controlVars
  <2>1. UNCHANGED <<group, known, said, shown>>
    BY <1>6, Zenon DEF Open, Drop, Touch, Speak, Push, Retry, GoOn, controlVars
  <2> QED
    BY <1>3, <2>1 DEF Quiet
<1>7. CASE Proved \/ GraceOver
  <2>1. UNCHANGED <<group, known, said>> /\ (shown' = shown \/ \E now : HearLive(now))
    BY <1>7, Zenon DEF Proved, GraceOver
  <2> QED
    BY <1>3, <1>4, <1>5, <2>1 DEF Quiet
<1>8. ASSUME NEW u \in Users, Order(u) PROVE Quiet
  <2>1. UNCHANGED <<group, known, said>>
        /\ (shown' = shown \/ \E c \in Controls : shown' = [shown EXCEPT ![c].available = FALSE])
    BY <1>8, Zenon DEF Order
  <2>2. CASE shown' = shown
    BY <1>3, <2>1, <2>2 DEF Quiet
  <2>3. ASSUME NEW c \in Controls, shown' = [shown EXCEPT ![c].available = FALSE] PROVE Quiet
    <3>1. shown' = [shown EXCEPT ![c] = [shown[c] EXCEPT !.available = FALSE]]
      BY <2>3
    <3>2. shown'[c] \in [value : {shown[c].value}, available : {FALSE}]
      BY <1>0, <1>2, <3>1, Availability
    <3>3. \A x \in Controls \ {c} : shown'[x] = shown[x]
      BY <1>2, <3>1
    <3>4. shown' = [x \in Controls |-> shown'[x]]
      BY <1>2, <3>1
    <3>5. \A x \in Controls : shown'[x] \in [value : {shown[x].value}, available : {shown'[x].available}]
      BY <1>1, <3>2, <3>3
    <3> QED
      BY <2>1, <3>4, <3>5 DEF Quiet
  <2> QED
    BY <2>1, <2>2, <2>3
<1>9. ASSUME NEW u \in Users, Abandon(u) PROVE Quiet
  <2>1. UNCHANGED <<group, known, said>>
        /\ shown' = [c \in Controls |->
                       IF c = job[u].control
                       THEN [shown[c] EXCEPT !.available = live /\ shown[c].value # Nil]
                       ELSE shown[c]]
    BY <1>9, Zenon DEF Abandon
  <2>2. ASSUME NEW c \in Controls
        PROVE  shown'[c] \in [value : {shown[c].value}, available : {shown'[c].available}]
    <3>1. CASE c # job[u].control
      BY <1>1, <2>1, <3>1
    <3>2. CASE c = job[u].control
      <4>1. PICK b : b = (live /\ shown[c].value # Nil)
        OBVIOUS
      <4>2. shown'[c] = [shown[c] EXCEPT !.available = b]
        BY <2>1, <3>2, <4>1
      <4>3. shown'[c] \in [value : {shown[c].value}, available : {b}]
        BY <1>0, <4>2, Availability
      <4> QED
        BY <4>3
    <3> QED
      BY <3>1, <3>2
  <2> QED
    BY <2>1, <2>2 DEF Quiet
<1> QED
  BY <1>6, <1>7, <1>8, <1>9, Zenon DEF ControlsNext

LEMMA HeardShows ==
    ASSUME ControlsTypeOK, Heard
    PROVE  LET r == Head(reports)
               m == Meaning(r)
           IN /\ ControlsDataOK'
              /\ ControlReport(r)
              /\ \A i \in Fields : /\ known'[i] = IF i \in DOMAIN m THEN m[i] ELSE known[i]
                                   /\ said'[i] = IF i \in DOMAIN m THEN m[i] ELSE said[i]
              /\ \E wanted \in BOOLEAN : \A c \in Controls :
                    shown'[c].value = IF FieldsOf(c) \cap News(known, m, wanted) = {} THEN shown[c].value
                                      ELSE Implied(c, known')
<1> DEFINE r == Head(reports)
           m == Meaning(r)
           Held == Fields \cup (IF group = "bath" THEN {"left"} ELSE {})
<1>0. ControlsDataOK /\ ControlsReportsOK /\ group \in {"wellness", "timer", "bath"}
  BY DEF ControlsTypeOK
<1>1. /\ known' = Learned(known, r) /\ said' = Updated(said, m) /\ UNCHANGED <<group, unit>>
      /\ \E wanted \in BOOLEAN : shown' = Hear(News(known, m, wanted), known')
  <2>1. \E wanted \in IF group = "timer" THEN {FALSE} ELSE BOOLEAN :
           shown' = Hear(News(known, m, wanted), known')
    BY Zenon DEF Heard
  <2>2. \E wanted \in BOOLEAN : shown' = Hear(News(known, m, wanted), known')
    BY <2>1
  <2> QED
    BY <2>2, Zenon DEF Heard
<1>2. ControlReport(r)
  <2>1. PICK R : reports \in Seq(R) /\ \A x \in R : ControlReport(x)
    BY <1>0 DEF ControlsReportsOK
  <2>2. reports # <<>>
    BY Zenon DEF Heard
  <2> QED
    BY <2>1, <2>2
<1>3. Fields' = Fields /\ Controls' = Controls
  BY <1>1 DEF Fields, Controls
<1>4. "left" \notin Fields
  BY <1>0 DEF Fields
<1> HIDE DEF r
<1>5. /\ said' = [i \in Fields |-> said'[i]]
      /\ \A i \in Fields : said'[i] = IF i \in DOMAIN m THEN m[i] ELSE said[i]
  <2> HIDE DEF m
  <2> QED
    BY <1>0, <1>1 DEF ControlsDataOK, Updated
<1>6. /\ known' = [i \in Held |-> known'[i]]
      /\ \A i \in Fields : known'[i] = IF i \in DOMAIN m THEN m[i] ELSE known[i]
  <2> DEFINE new == Updated(known, m)
  <2>1. known = [i \in Held |-> known[i]]
    BY <1>0 DEF ControlsDataOK
  <2>2. /\ new = [i \in Held |-> new[i]]
        /\ \A i \in Fields : new[i] = IF i \in DOMAIN m THEN m[i] ELSE known[i]
    <3> HIDE DEF m
    <3> QED
      BY <2>1 DEF Updated
  <2>3. known' = IF group = "bath" THEN [new EXCEPT !["left"] = Left(new)] ELSE new
    BY <1>1 DEF Learned
  <2> HIDE DEF new, m
  <2> QED
    BY <1>4, <2>2, <2>3
<1>7. PICK wanted \in BOOLEAN : shown' = Hear(News(known, m, wanted), known')
  BY <1>1
<1> HIDE DEF m
<1>8. ASSUME NEW c \in Controls
      PROVE  /\ shown'[c] \in [value : {shown'[c].value}, available : {shown'[c].available}]
             /\ shown'[c].value = IF FieldsOf(c) \cap News(known, m, wanted) = {} THEN shown[c].value
                                  ELSE Implied(c, known')
  <2>1. PICK b : b = (live /\ Implied(c, known') # Nil)
    OBVIOUS
  <2>2. shown'[c] = IF FieldsOf(c) \cap News(known, m, wanted) = {} THEN shown[c]
                    ELSE [value |-> Implied(c, known'), available |-> b]
    BY <1>7, <2>1 DEF Hear
  <2>3. shown[c] \in [value : {shown[c].value}, available : {shown[c].available}]
    BY <1>0 DEF ControlsDataOK
  <2> QED
    BY <2>2, <2>3
<1>9. shown' = [c \in Controls |-> shown'[c]]
  BY <1>7 DEF Hear
<1>10. DOMAIN unit' = Fields
  BY <1>0, <1>1 DEF ControlsDataOK
<1>11. ControlsDataOK'
  BY <1>1, <1>3, <1>5, <1>6, <1>8, <1>9, <1>10 DEF ControlsDataOK
<1> QED
  BY <1>2, <1>5, <1>6, <1>8, <1>11 DEF r, m

LEMMA FinishShows ==
    ASSUME ControlsTypeOK, NEW u \in Users, Finish(u)
    PROVE  /\ ControlsDataOK' /\ said' = said
           /\ \A i \in Fields : known'[i] = IF i \in DOMAIN Assumed(u) THEN Assumed(u)[i] ELSE known[i]
           /\ \A c \in Controls :
                shown'[c].value = IF c = job[u].control THEN job[u].value
                                  ELSE IF FieldsOf(c) \cap DOMAIN Assumed(u) = {} THEN shown[c].value
                                  ELSE Implied(c, known')
<1> DEFINE a == Assumed(u)
           Held == Fields \cup (IF group = "bath" THEN {"left"} ELSE {})
<1>0. ControlsDataOK
  BY DEF ControlsTypeOK
<1>1. /\ known' = Updated(known, a) /\ UNCHANGED <<group, unit, said>>
      /\ shown' = [c \in Controls |->
                     IF c = job[u].control THEN [value |-> job[u].value, available |-> TRUE]
                     ELSE Hear(DOMAIN a, known')[c]]
  BY Zenon DEF Finish
<1>3. Fields' = Fields /\ Controls' = Controls
  BY <1>1 DEF Fields, Controls
<1> HIDE DEF a
<1>6. /\ known' = [i \in Held |-> known'[i]]
      /\ \A i \in Fields : known'[i] = IF i \in DOMAIN a THEN a[i] ELSE known[i]
  BY <1>0, <1>1 DEF ControlsDataOK, Updated
<1>8. ASSUME NEW c \in Controls
      PROVE  /\ shown'[c] \in [value : {shown'[c].value}, available : {shown'[c].available}]
             /\ shown'[c].value = IF c = job[u].control THEN job[u].value
                                  ELSE IF FieldsOf(c) \cap DOMAIN a = {} THEN shown[c].value
                                  ELSE Implied(c, known')
  <2>1. PICK b : b = (live /\ Implied(c, known') # Nil)
    OBVIOUS
  <2>2. Hear(DOMAIN a, known')[c] = IF FieldsOf(c) \cap DOMAIN a = {} THEN shown[c]
                                    ELSE [value |-> Implied(c, known'), available |-> b]
    BY <2>1 DEF Hear
  <2>3. shown[c] \in [value : {shown[c].value}, available : {shown[c].available}]
    BY <1>0 DEF ControlsDataOK
  <2>4. shown'[c] = IF c = job[u].control THEN [value |-> job[u].value, available |-> TRUE]
                    ELSE Hear(DOMAIN a, known')[c]
    BY <1>1
  <2>5. CASE c = job[u].control
    BY <2>4, <2>5
  <2>6. CASE c # job[u].control
    <3>1. shown'[c] = IF FieldsOf(c) \cap DOMAIN a = {} THEN shown[c]
                      ELSE [value |-> Implied(c, known'), available |-> b]
      BY <2>2, <2>4, <2>6
    <3> QED
      BY <2>3, <2>6, <3>1
  <2> QED
    BY <2>5, <2>6
<1>9. shown' = [c \in Controls |-> shown'[c]]
  BY <1>1
<1>10. said' = [i \in Fields |-> said'[i]] /\ DOMAIN unit' = Fields
  BY <1>0, <1>1 DEF ControlsDataOK
<1>11. ControlsDataOK'
  BY <1>1, <1>3, <1>6, <1>8, <1>9, <1>10 DEF ControlsDataOK
<1> QED
  BY <1>1, <1>6, <1>8, <1>11 DEF a

\* Who waits or has an answer holds the lock, and leaves it only at its end.
LEMMA LineStep ==
    ControlsTypeOK /\ [ControlsNext]_controlVars => line' \in Seq(Users)
<1> SUFFICES ASSUME ControlsTypeOK, [ControlsNext]_controlVars PROVE line' \in Seq(Users)
  OBVIOUS
<1>0. line \in Seq(Users)
  BY DEF ControlsTypeOK
<1>1. \/ line' = line
      \/ \E u \in Users : \/ line' = Append(line, u)
                          \/ HasLock(u) /\ line' = Tail(line)
                          \/ HasLock(u) /\ line' = Append(Tail(line), u)
  <2>1. ASSUME NEW u \in Users, Order(u) PROVE line' = line \/ line' = Append(line, u)
    BY <2>1, Zenon DEF Order, Command, Begin, Orders, linkVars
  <2>2. ASSUME NEW u \in Users, Abandon(u) \/ Finish(u) PROVE HasLock(u) /\ line' = Tail(line)
    BY <2>2, Zenon DEF Abandon, Finish, Ends
  <2>3. ASSUME NEW u \in Users, GoOn(u) PROVE HasLock(u) /\ line' = Append(Tail(line), u)
    BY <2>3, Zenon DEF GoOn
  <2>4. ASSUME NEW u \in Users, Push(u) \/ Retry(u) PROVE line' = line
    BY <2>4, Zenon DEF Push, Retry, Repeats
  <2>5. ASSUME NEW i \in Fields, Touch(i) \/ Speak(i) PROVE line' = line
    BY <2>5, Zenon DEF Touch, Speak, Twists, Announces
  <2>6. CASE Open \/ Proved \/ Drop \/ GraceOver \/ Heard \/ UNCHANGED controlVars
    BY <2>6, Zenon DEF Open, Proved, Drop, GraceOver, Heard, Opens, Proves, Drops, Expires,
           controlVars, linkVars
  <2> QED
    BY <2>1, <2>2, <2>3, <2>4, <2>5, <2>6, Zenon DEF ControlsNext
<1>2. ASSUME NEW u \in Users, line' = Append(line, u) PROVE line' \in Seq(Users)
  BY <1>0, <1>2
<1>3. ASSUME NEW u \in Users, HasLock(u), line' \in {Tail(line), Append(Tail(line), u)}
      PROVE  line' \in Seq(Users)
  <2>1. Tail(line) \in Seq(Users)
    BY <1>0, <1>3 DEF HasLock
  <2> QED
    BY <1>3, <2>1
<1>4. \A u \in Users : /\ line' = Append(line, u) => line' \in Seq(Users)
                       /\ HasLock(u) /\ line' = Tail(line) => line' \in Seq(Users)
                       /\ HasLock(u) /\ line' = Append(Tail(line), u) => line' \in Seq(Users)
  BY <1>2, <1>3
<1> QED
  <2>1. CASE line' = line
    BY <1>0, <2>1
  <2> QED
    BY <1>1, <1>4, <2>1, Zenon

LEMMA ControlsTypeStep == ControlsTypeOK /\ [ControlsNext]_controlVars => ControlsTypeOK'
<1> SUFFICES ASSUME ControlsTypeOK, [ControlsNext]_controlVars PROVE ControlsTypeOK'
  OBVIOUS
<1>1. /\ ControlsJobsOK' /\ ControlsReportsOK' /\ DOMAIN unit' = Fields' /\ group' = group
      /\ line' \in Seq(Users)
  BY ControlsJobStep, ControlsReportStep, GroupKept, LineStep
<1>2. CASE Quiet
  <2>1. Fields' = Fields /\ Controls' = Controls
    BY <1>1 DEF Fields, Controls
  <2>2. \A c \in Controls :
           shown'[c] \in [value : {shown'[c].value}, available : {shown'[c].available}]
    BY <1>2 DEF Quiet
  <2>3. ControlsDataOK'
    BY <1>1, <1>2, <2>1, <2>2 DEF ControlsTypeOK, ControlsDataOK, Quiet
  <2> QED
    BY <1>1, <2>3 DEF ControlsTypeOK
<1>3. CASE Heard
  BY <1>1, <1>3, HeardShows DEF ControlsTypeOK
<1>4. ASSUME NEW u \in Users, Finish(u) PROVE ControlsTypeOK'
  BY <1>1, <1>4, FinishShows DEF ControlsTypeOK
<1> QED
  BY <1>2, <1>3, <1>4, QuietSteps

\* What one job makes of a step of its own.
LEMMA JobMoves ==
    ASSUME ControlsTypeOK, NEW u \in Users,
           Order(u) \/ Push(u) \/ Retry(u) \/ Abandon(u) \/ GoOn(u) \/ Finish(u)
    PROVE  \/ UNCHANGED <<job, line>>
           \/ /\ \A x \in Users \ {u} : job'[x] = job[x]
              /\ \/ job'[u].pc \in {"ready", "done"}
                 \/ job'[u].pc = "wait" /\ HasLock(u) /\ line' = line
<1>0. ControlsJobsOK /\ job = [x \in Users |-> job[x]]
  BY DEF ControlsTypeOK, ControlsJobsOK
<1>1. ASSUME NEW j, job' = [job EXCEPT ![u] = j]
      PROVE  job'[u] = j /\ \A x \in Users \ {u} : job'[x] = job[x]
  BY <1>0, <1>1
<1>2. ASSUME job[u].pc \notin {"idle", "done"}
      PROVE  /\ \A p : [job[u] EXCEPT !.pc = p].pc = p
             /\ \A p, a : [job[u] EXCEPT !.pc = p, !.attempt = a].pc = p
             /\ \A p, a, t : [job[u] EXCEPT !.todo = t, !.pc = p, !.attempt = a].pc = p
  <2> DEFINE j == job[u]
  <2>1. j.pc \notin {"idle", "done"} /\ ControlJob(j)
    BY <1>0, <1>2 DEF ControlsJobsOK
  <2> HIDE DEF j
  <2>2. j \in Jobs(j.op, j.control, j.value, j.todo, j.got, Pending \cup {"confirmed"})
    BY <2>1 DEF ControlJob, Unbegun, Ended
  <2>3. PICK op, c, v, todo, got : j \in Jobs(op, c, v, todo, got, Pending \cup {"confirmed"})
    BY <2>2, Zenon
  <2> QED
    BY <2>3 DEF Jobs, j
<1>3. CASE Order(u)
  <2>1. Command(u) \/ UNCHANGED <<job, line>>
    BY <1>3, Zenon DEF Order, linkVars
  <2>2. ASSUME Command(u) PROVE job'[u].pc = "ready" /\ \A x \in Users \ {u} : job'[x] = job[x]
    <3>1. PICK j : job' = [job EXCEPT ![u] = j] /\ j.pc = "ready"
      BY <2>2, CommandBegins
    <3> QED
      BY <1>1, <3>1
  <2> QED
    BY <2>1, <2>2, Zenon
<1>4. CASE Push(u)
  <2>1. job' = [job EXCEPT ![u] = [job[u] EXCEPT !.pc = "wait"]] /\ job[u].pc = "ready"
        /\ HasLock(u) /\ line' = line
    BY <1>0, <1>4 DEF Push, Goes
  <2>2. [job[u] EXCEPT !.pc = "wait"].pc = "wait"
    BY <1>2, <2>1
  <2>3. job'[u] = [job[u] EXCEPT !.pc = "wait"] /\ \A x \in Users \ {u} : job'[x] = job[x]
    BY <1>1, <2>1
  <2> QED
    BY <2>1, <2>2, <2>3
<1>5. CASE Retry(u)
  <2> DEFINE j == [job[u] EXCEPT !.pc = "ready", !.attempt = 2]
  <2>1. job' = [job EXCEPT ![u] = j] /\ job[u].pc \in Failing
    BY <1>0, <1>5 DEF Retry, Repeats
  <2>2. j.pc = "ready"
    BY <1>2, <2>1 DEF Failing
  <2> HIDE DEF j
  <2> QED
    BY <1>1, <2>1, <2>2
<1>6. CASE Abandon(u) \/ Finish(u)
  <2>1. job' = [job EXCEPT ![u] = Ended] /\ Ended.pc = "done"
    BY <1>6 DEF Abandon, Finish, Ends, Ended
  <2> QED
    BY <1>1, <2>1
<1>7. CASE GoOn(u)
  <2> DEFINE j == [job[u] EXCEPT !.todo = Tail(@), !.pc = "ready", !.attempt = 1]
  <2>1. job' = [job EXCEPT ![u] = j] /\ job[u].pc = "confirmed"
    BY <1>0, <1>7 DEF GoOn
  <2>2. j.pc = "ready"
    BY <1>2, <2>1
  <2> HIDE DEF j
  <2> QED
    BY <1>1, <2>1, <2>2
<1> QED
  BY <1>3, <1>4, <1>5, <1>6, <1>7, Zenon

\* The lock is left only at the end of a write, and then nobody else has it.
LEMMA LockStep ==
    ASSUME ControlsTypeOK, Follows, [ControlsNext]_controlVars,
           NEW x \in Users, job'[x].pc \in {"wait", "lost", "confirmed"}
    PROVE  HasLock(x)' /\ (job'[x].pc = "confirmed" => job[x] = job'[x] \/ Heard)
<1>0. /\ job = [u \in Users |-> job[u]] /\ ControlsJobsOK /\ line \in Seq(Users)
      /\ job[x].pc \in {"wait", "lost", "confirmed"} => HasLock(x)
  BY DEF ControlsTypeOK, ControlsJobsOK, Follows
<1>1. CASE UNCHANGED <<job, line>>
  BY <1>0, <1>1 DEF HasLock
<1>2. CASE Open \/ Proved \/ GraceOver \/ (\E i \in Fields : Touch(i) \/ Speak(i)) \/ UNCHANGED controlVars
  <2>1. UNCHANGED <<job, line>>
    BY <1>2, Zenon DEF Open, Proved, GraceOver, Touch, Speak, Opens, Proves, Expires, Twists, Announces,
         controlVars, linkVars
  <2> QED
    BY <1>1, <2>1
<1>3. CASE Drop
  <2>1. line' = line /\ job'[x] = [job[x] EXCEPT !.pc = IF @ = "wait" THEN "lost" ELSE @]
    BY <1>3 DEF Drop, Drops
  <2>2. \/ job[x].pc \in {"wait", "lost", "confirmed"} /\ job'[x].pc # "confirmed"
        \/ job'[x] = job[x]
    <3> DEFINE j == job[x]
    <3>1. ControlJob(j)
      BY <1>0 DEF ControlsJobsOK
    <3> HIDE DEF j
    <3>2. [j EXCEPT !.pc = j.pc] = j
      <4>1. CASE j \in {Unbegun, Ended}
        BY <4>1 DEF Unbegun, Ended
      <4>2. CASE j \notin {Unbegun, Ended}
        <5>1. j \in Jobs(j.op, j.control, j.value, j.todo, j.got, Pending \cup {"confirmed"})
          BY <3>1, <4>2 DEF ControlJob
        <5>2. PICK op, c, v, todo, got : j \in Jobs(op, c, v, todo, got, Pending \cup {"confirmed"})
          BY <5>1, Zenon
        <5> QED
          BY <5>2 DEF Jobs
      <4> QED
        BY <4>1, <4>2
    <3>3. CASE j.pc # "wait"
      BY <2>1, <3>2, <3>3 DEF j
    <3>4. CASE j.pc = "wait"
      <4>1. j \in Jobs(j.op, j.control, j.value, j.todo, j.got, Pending \cup {"confirmed"})
        BY <3>1, <3>4 DEF ControlJob, Unbegun, Ended
      <4>2. PICK op, c, v, todo, got : j \in Jobs(op, c, v, todo, got, Pending \cup {"confirmed"})
        BY <4>1, Zenon
      <4>3. [j EXCEPT !.pc = "lost"].pc = "lost"
        BY <4>2 DEF Jobs
      <4> QED
        BY <2>1, <3>4, <4>3 DEF j
    <3> QED
      BY <3>3, <3>4
  <2> QED
    BY <1>0, <2>1, <2>2 DEF HasLock
<1>4. CASE Heard
  <2>1. line' = line
    BY <1>4, Zenon DEF Heard
  <2>2. job[x].pc \in {"wait", "lost", "confirmed"}
    <3>1. job'[x] = job[x] \/ \E r, m : Confirms(x, m)
      BY <1>4 DEF Heard
    <3> QED
      BY <3>1 DEF Confirms
  <2> QED
    BY <1>0, <1>4, <2>1, <2>2 DEF HasLock
<1>5. ASSUME NEW u \in Users, Order(u) \/ Push(u) \/ Retry(u) \/ Abandon(u) \/ GoOn(u) \/ Finish(u),
             ~UNCHANGED <<job, line>>
      PROVE  HasLock(x)' /\ (job'[x].pc = "confirmed" => job[x] = job'[x])
  <2>1. /\ \A y \in Users \ {u} : job'[y] = job[y]
        /\ \/ job'[u].pc \in {"ready", "done"}
           \/ job'[u].pc = "wait" /\ HasLock(u) /\ line' = line
    BY <1>5, JobMoves
  <2>2. line' = line \/ line' = Append(line, u) \/ HasLock(u)
    BY <1>5, Zenon DEF Order, Command, Begin, Orders, linkVars, Push, Retry, Repeats, Abandon, Finish,
         Ends, GoOn
  <2>3. Append(line, u)[1] = line[1] \/ line = <<>>
    BY <1>0
  <2>4. CASE x = u
    BY <2>1, <2>4 DEF HasLock
  <2>5. CASE x # u
    <3>1. HasLock(x) /\ job'[x] = job[x]
      BY <1>0, <2>1, <2>5
    <3>2. ~HasLock(u)
      BY <2>5, <3>1 DEF HasLock
    <3>3. CASE line' = line
      BY <3>1, <3>3 DEF HasLock
    <3>4. CASE line' = Append(line, u)
      BY <1>0, <3>1, <3>4 DEF HasLock
    <3> QED
      BY <2>2, <3>1, <3>2, <3>3, <3>4
  <2> QED
    BY <2>4, <2>5
<1> QED
  BY <1>1, <1>2, <1>3, <1>4, <1>5, Zenon DEF ControlsNext

\* What a command that ends has of its operation.
LEMMA EndOfCommand ==
    ASSUME ControlsTypeOK, NEW u \in Users, Finish(u)
    PROVE  /\ HasLock(u) /\ job[u].pc = "confirmed" /\ job' = [job EXCEPT ![u] = Ended]
           /\ \/ Sets(job[u].op, job[u].control, job[u].value, job[u].todo, job[u].got, TRUE)
              \/ /\ Starts(job[u].op, job[u].control, job[u].value, job[u].todo, job[u].got, TRUE)
                 /\ job[u].todo = <<Write("active", 1)>>
              \/ Stops(job[u].op, job[u].control, job[u].value, job[u].todo, job[u].got, TRUE)
              \/ Resets(job[u].op, job[u].control, job[u].todo, job[u].got)
<1>1. /\ HasLock(u) /\ job[u].pc = "confirmed" /\ job' = [job EXCEPT ![u] = Ended]
      /\ Len(job[u].todo) = 1
  BY Zenon DEF Finish, Ends
<1>2. ControlJob(job[u])
  BY DEF ControlsTypeOK, ControlsJobsOK
<1>3. Fits(job[u].op, job[u].control, job[u].value, job[u].todo, job[u].got, TRUE)
  <2>1. Fits(job[u].op, job[u].control, job[u].value, job[u].todo, job[u].got, job[u].pc = "confirmed")
    BY <1>1, <1>2 DEF ControlJob, Unbegun, Ended
  <2> QED
    BY <1>1, <2>1 DEF Fits, Sets, Starts, Stops
<1>4. \A a, b : Len(<<a, b>>) # 1
  OBVIOUS
<1>5. Starts(job[u].op, job[u].control, job[u].value, job[u].todo, job[u].got, TRUE)
        => job[u].todo = <<Write("active", 1)>>
  BY <1>1, <1>4 DEF Starts
<1> QED
  BY <1>1, <1>3, <1>5 DEF Fits

\* The controls of the timer and of the bath show one value each.
LEMMA OneField ==
    ASSUME group \in {"timer", "bath"}, NEW c \in Controls
    PROVE  /\ c \in Fields /\ FieldsOf(c) = {c} /\ c # Nil
           /\ \A k : Implied(c, k) = k[c]
BY DEF Controls, Fields, FieldsOf, Implied

\* While a write is confirmed, only reports change what the client holds of it.
LEMMA HeldStep ==
    ASSUME ControlsTypeOK, Follows, [ControlsNext]_controlVars,
           NEW u \in Users, job'[u].pc = "confirmed", job'[u].op = "set"
    PROVE  known'[job'[u].control] = said'[job'[u].control]
<1>0. /\ job = [x \in Users |-> job[x]] /\ ControlJob(job[u])
      /\ job[u].pc \in {"wait", "lost", "confirmed"} => HasLock(u)
      /\ job[u].pc = "confirmed" /\ job[u].op = "set"
           => known[job[u].control] = said[job[u].control]
  BY DEF ControlsTypeOK, ControlsJobsOK, Follows
<1>1. job'[u] = job[u] \/ Heard
  BY LockStep
<1>2. CASE Heard
  <2> DEFINE m == Meaning(Head(reports))
  <2>1. \A i \in Fields : /\ known'[i] = IF i \in DOMAIN m THEN m[i] ELSE known[i]
                          /\ said'[i] = IF i \in DOMAIN m THEN m[i] ELSE said[i]
    BY <1>2, HeardShows
  <2>2. \/ job'[u] = job[u]
        \/ /\ Confirms(u, m)
           /\ \E g : job'[u] = [job[u] EXCEPT !.pc = "confirmed", !.got = g]
    BY <1>2 DEF Heard
  <2> HIDE DEF m
  <2>3. job[u].pc \in {"wait", "confirmed"}
    BY <1>0, <2>2 DEF Confirms
  <2>4. /\ job[u] \in Jobs(job[u].op, job[u].control, job[u].value, job[u].todo, job[u].got, Pending \cup {"confirmed"})
        /\ Fits(job[u].op, job[u].control, job[u].value, job[u].todo, job[u].got, job[u].pc = "confirmed")
    BY <1>0, <2>3 DEF ControlJob, Unbegun, Ended
  <2>5. job'[u].op = job[u].op /\ job'[u].control = job[u].control
    BY <2>2, <2>4 DEF Jobs
  <2>6. /\ job[u].control \in Controls /\ group # "wellness"
        /\ job[u].todo = <<Write(job[u].control, job[u].value)>>
    BY <2>4, <2>5 DEF Fits, Sets, Starts, Stops, Resets
  <2>7. job[u].control \in Fields
    BY <2>6, OneField DEF ControlsTypeOK
  <2>8. CASE job'[u] = job[u]
    BY <1>0, <2>1, <2>7, <2>8
  <2>9. CASE Confirms(u, m)
    <3>1. job[u].control \in DOMAIN m
      BY <2>6, <2>9 DEF Confirms, Writing, Write
    <3> QED
      BY <2>1, <2>5, <2>7, <3>1
  <2> QED
    BY <2>2, <2>8, <2>9
<1>3. CASE ~Heard
  <2>1. job'[u] = job[u] /\ HasLock(u)
    BY <1>0, <1>1, <1>3
  <2>2. \A x \in Users : ~Finish(x)
    <3> SUFFICES ASSUME NEW x \in Users, Finish(x) PROVE FALSE
      OBVIOUS
    <3>1. HasLock(x) /\ job' = [job EXCEPT ![x] = Ended]
      BY EndOfCommand
    <3>2. x = u
      BY <2>1, <3>1 DEF HasLock
    <3> QED
      BY <1>0, <3>1, <3>2 DEF Ended
  <2>3. Quiet
    BY <1>3, <2>2, QuietSteps
  <2> QED
    BY <1>0, <2>1, <2>3 DEF Quiet
<1> QED
  BY <1>2, <1>3

\* What a control of one value shows is what the client holds, or astray.
LEMMA ShownStep ==
    ASSUME ControlsTypeOK, Follows, [ControlsNext]_controlVars, group \in {"timer", "bath"},
           NEW c \in Controls, known'[c] # Nil
    PROVE  shown'[c].value = known'[c] \/ (said'[c] # Nil /\ shown'[c].value # said'[c])
<1>0. /\ c \in Fields /\ FieldsOf(c) = {c} /\ c # Nil /\ \A k : Implied(c, k) = k[c]
      /\ known[c] # Nil => shown[c].value = known[c] \/ Astray(c)
      /\ Astray(c) => said[c] # Nil /\ shown[c].value # said[c]
  <2>1. c \in Fields /\ FieldsOf(c) = {c} /\ c # Nil /\ \A k : Implied(c, k) = k[c]
    BY OneField
  <2> QED
    BY <2>1 DEF Follows, Astray
<1>1. CASE Quiet
  BY <1>0, <1>1 DEF Quiet
<1>2. CASE Heard
  <2> DEFINE m == Meaning(Head(reports))
  <2>1. /\ known'[c] = IF c \in DOMAIN m THEN m[c] ELSE known[c]
        /\ said'[c] = IF c \in DOMAIN m THEN m[c] ELSE said[c]
        /\ \E wanted \in BOOLEAN :
             shown'[c].value = IF FieldsOf(c) \cap News(known, m, wanted) = {} THEN shown[c].value
                               ELSE Implied(c, known')
    BY <1>0, <1>2, HeardShows
  <2> HIDE DEF m
  <2>2. shown'[c].value = known'[c] \/ (shown'[c].value = shown[c].value /\ (c \in DOMAIN m => known[c] = m[c]))
    BY <1>0, <2>1 DEF News
  <2> QED
    BY <1>0, <2>1, <2>2
<1>3. ASSUME NEW u \in Users, Finish(u)
      PROVE  shown'[c].value = known'[c] \/ (said'[c] # Nil /\ shown'[c].value # said'[c])
  <2> DEFINE a == Assumed(u)
  <2>1. /\ said' = said /\ known'[c] = IF c \in DOMAIN a THEN a[c] ELSE known[c]
        /\ shown'[c].value = IF c = job[u].control THEN job[u].value
                             ELSE IF FieldsOf(c) \cap DOMAIN a = {} THEN shown[c].value
                             ELSE Implied(c, known')
    BY <1>0, <1>3, FinishShows
  <2>2. /\ job[u].pc = "confirmed"
        /\ job[u].op = "set" \/ (job[u].op = "reset" /\ job[u].control = Nil)
    <3>1. /\ job[u].pc = "confirmed"
          /\ \/ Sets(job[u].op, job[u].control, job[u].value, job[u].todo, job[u].got, TRUE)
             \/ Starts(job[u].op, job[u].control, job[u].value, job[u].todo, job[u].got, TRUE)
             \/ Stops(job[u].op, job[u].control, job[u].value, job[u].todo, job[u].got, TRUE)
             \/ Resets(job[u].op, job[u].control, job[u].todo, job[u].got)
      BY <1>3, EndOfCommand, Zenon
    <3>2. Sets(job[u].op, job[u].control, job[u].value, job[u].todo, job[u].got, TRUE) => job[u].op = "set"
      BY DEF Sets
    <3>3. ~Starts(job[u].op, job[u].control, job[u].value, job[u].todo, job[u].got, TRUE)
      BY DEF Starts
    <3>4. ~Stops(job[u].op, job[u].control, job[u].value, job[u].todo, job[u].got, TRUE)
      BY DEF Stops
    <3>5. Resets(job[u].op, job[u].control, job[u].todo, job[u].got)
            => job[u].op = "reset" /\ job[u].control = Nil
      BY DEF Resets
    <3> QED
      BY <3>1, <3>2, <3>3, <3>4, <3>5
  <2>3. CASE job[u].op = "set"
    <3>1. DOMAIN a = {}
      BY <2>3 DEF Assumed
    <3>2. known[job[u].control] = said[job[u].control]
      BY <2>2, <2>3 DEF Follows
    <3> HIDE DEF a
    <3> QED
      BY <1>0, <2>1, <3>1, <3>2
  <2>4. CASE c # job[u].control
    <3> HIDE DEF a
    <3> QED
      BY <1>0, <2>1, <2>4
  <2> QED
    BY <1>0, <2>2, <2>3, <2>4
<1> QED
  BY <1>1, <1>2, <1>3, QuietSteps

LEMMA FollowsStep == ControlsInv /\ [ControlsNext]_controlVars => ControlsInv'
<1> SUFFICES ASSUME ControlsInv, [ControlsNext]_controlVars PROVE ControlsInv'
  OBVIOUS
<1>0. ControlsTypeOK /\ Follows /\ group \in {"wellness", "timer", "bath"}
  BY DEF ControlsInv, ControlsTypeOK
<1>1. ControlsTypeOK' /\ group' = group
  BY <1>0, ControlsTypeStep, GroupKept
<1>2. Controls' = Controls
  BY <1>1 DEF Controls
<1>3. \A u \in Users : /\ job'[u].pc \in {"wait", "lost", "confirmed"} => HasLock(u)'
                       /\ job'[u].pc = "confirmed" /\ job'[u].op = "set"
                            => known'[job'[u].control] = said'[job'[u].control]
  BY <1>0, LockStep, HeldStep
<1>4. ASSUME group # "wellness", NEW c \in Controls, known'[c] # Nil
      PROVE  shown'[c].value = known'[c] \/ Astray(c)'
  <2>1. shown'[c].value = known'[c] \/ (said'[c] # Nil /\ shown'[c].value # said'[c])
    BY <1>0, <1>4, ShownStep
  <2>2. group \in {"timer", "bath"} => FieldsOf(c)' = {c} /\ Implied(c, said)' = said'[c]
    BY <1>1 DEF FieldsOf, Implied
  <2>3. said'[c] # Nil /\ shown'[c].value # said'[c] => Astray(c)'
    BY <1>0, <1>4, <2>2 DEF Astray
  <2> QED
    BY <2>1, <2>3
<1>5. Follows'
  BY <1>1, <1>2, <1>3, <1>4 DEF Follows
<1> QED
  BY <1>1, <1>5 DEF ControlsInv

LEMMA FollowsInit == ControlsInit => ControlsInv
<1> SUFFICES ASSUME ControlsInit PROVE ControlsInv
  OBVIOUS
<1>1. group \in {"wellness", "timer", "bath"}
  BY DEF ControlsInit
<1>2. ControlsJobsOK /\ \A u \in Users : job[u].pc \in {"idle", "done"}
  BY DEF ControlsInit, LinkInit, ControlsJobsOK, ControlJob, Unbegun, Ended
<1>3. ControlsReportsOK
  <2>1. reports \in Seq({}) /\ \A r \in {} : ControlReport(r)
    BY DEF ControlsInit, LinkInit
  <2> QED
    BY <2>1 DEF ControlsReportsOK
<1>4. /\ DOMAIN unit = Fields
      /\ said = [i \in Fields |-> said[i]]
      /\ known = [i \in Fields \cup (IF group = "bath" THEN {"left"} ELSE {}) |-> known[i]]
      /\ \A i \in Fields : known[i] = Nil
  BY DEF ControlsInit
<1>5. /\ shown = [c \in Controls |-> shown[c]]
      /\ \A c \in Controls : shown[c] \in [value : {shown[c].value}, available : {shown[c].available}]
  <2>1. PICK restored : shown = [c \in Controls |-> [value |-> restored, available |-> FALSE]]
    BY DEF ControlsInit
  <2> QED
    BY <2>1
<1>6. ControlsTypeOK
  <2>1. line \in Seq(Users)
    BY DEF ControlsInit, LinkInit
  <2> QED
    BY <1>1, <1>2, <1>3, <1>4, <1>5, <2>1 DEF ControlsTypeOK, ControlsDataOK
<1>7. group # "wellness" => \A c \in Controls : known[c] = Nil
  BY <1>1, <1>4, OneField
<1>8. Follows
  BY <1>2, <1>7 DEF Follows
<1> QED
  BY <1>6, <1>8 DEF ControlsInv

\* Reports alone lead no control astray whose values the client holds.
LEMMA HeardFollows ==
    ASSUME ControlsInv, Heard, NEW c \in Controls, Astray(c)', ~Astray(c)
    PROVE  group = "wellness" /\ \E i \in Fields : known[i] # said[i]
<1> DEFINE m == Meaning(Head(reports))
<1>0. ControlsTypeOK /\ Follows /\ group \in {"wellness", "timer", "bath"} /\ group' = group
  BY Zenon DEF ControlsInv, ControlsTypeOK, Heard
<1>1. /\ \A i \in Fields : /\ known'[i] = IF i \in DOMAIN m THEN m[i] ELSE known[i]
                           /\ said'[i] = IF i \in DOMAIN m THEN m[i] ELSE said[i]
      /\ \E wanted \in BOOLEAN :
           shown'[c].value = IF FieldsOf(c) \cap News(known, m, wanted) = {} THEN shown[c].value
                             ELSE Implied(c, known')
  BY <1>0, HeardShows
<1> HIDE DEF m
<1>2. CASE group \in {"timer", "bath"}
  <2>1. c \in Fields /\ FieldsOf(c) = {c} /\ \A k : Implied(c, k) = k[c]
    BY <1>2, OneField
  <2>2. said'[c] # Nil /\ shown'[c].value # said'[c]
    BY <1>0, <1>2 DEF Astray, FieldsOf, Implied
  <2>3. ~(said[c] # Nil /\ shown[c].value # said[c])
    BY <1>2 DEF Astray, FieldsOf, Implied
  <2>4. known[c] # Nil => shown[c].value = known[c]
    BY <1>0, <1>2 DEF Follows
  <2>5. \/ c \in DOMAIN m /\ shown'[c].value = known'[c]
        \/ shown'[c].value = shown[c].value /\ (c \in DOMAIN m => known[c] = m[c])
    BY <1>1, <2>1 DEF News
  <2> QED
    BY <1>1, <2>1, <2>2, <2>3, <2>4, <2>5
<1>3. CASE group = "wellness"
  <2> SUFFICES ASSUME \A i \in Fields : known[i] = said[i] PROVE FALSE
    BY <1>3
  <2>1. {"program", "active"} = Fields /\ FieldsOf(c) = {"program", "active"}
    BY <1>3 DEF Fields, FieldsOf
  <2>2. \A k : Implied(c, k) = ProgramOn(c, k)
    BY <1>3 DEF Implied
  <2>3. known'["program"] = said'["program"] /\ known'["active"] = said'["active"]
    BY <1>1, <2>1
  <2>4. /\ said'["program"] # Nil \/ said'["active"] # Nil
        /\ shown'[c].value # ProgramOn(c, said')
    <3>1. (\E i \in {"program", "active"} : said'[i] # Nil) /\ shown'[c].value # ProgramOn(c, said')
      BY <1>0, <1>3 DEF Astray, FieldsOf, Implied, ProgramOn
    <3> QED
      BY <3>1
  <2>5. shown'[c].value # ProgramOn(c, known')
    BY <2>3, <2>4 DEF ProgramOn
  <2>6. /\ shown'[c].value = shown[c].value
        /\ \A i \in {"program", "active"} : i \in DOMAIN m => known[i] = m[i]
    BY <1>1, <2>1, <2>2, <2>5 DEF News
  <2>7. said'["program"] = said["program"] /\ said'["active"] = said["active"]
    BY <1>1, <2>1, <2>6
  <2>8. Astray(c)
    BY <2>1, <2>2, <2>4, <2>6, <2>7 DEF Astray, ProgramOn
  <2> QED
    BY <2>8
<1> QED
  BY <1>0, <1>2, <1>3

\* A command that ends with all that it takes for granted still said, leads no
\* control astray.
LEMMA FinishFollows ==
    ASSUME ControlsInv, NEW u \in Users, Finish(u), NEW c \in Controls, Astray(c)', ~Astray(c)
    PROVE  EndsBehind(u) /\ (job[u].control = c \/ DOMAIN Assumed(u) # {})
<1> DEFINE a == Assumed(u)
           got == job[u].got
<1>0. /\ ControlsTypeOK /\ Follows /\ group \in {"wellness", "timer", "bath"}
      /\ group' = group /\ said' = said
  BY FinishShows, Zenon DEF ControlsInv, ControlsTypeOK, Finish
<1>1. /\ \A i \in Fields : known'[i] = IF i \in DOMAIN a THEN a[i] ELSE known[i]
      /\ shown'[c].value = IF c = job[u].control THEN job[u].value
                           ELSE IF FieldsOf(c) \cap DOMAIN a = {} THEN shown[c].value
                           ELSE Implied(c, known')
  BY <1>0, FinishShows
<1>2. /\ job[u].pc = "confirmed" /\ job'[u] = Ended
      /\ \/ Sets(job[u].op, job[u].control, job[u].value, job[u].todo, got, TRUE)
         \/ /\ Starts(job[u].op, job[u].control, job[u].value, job[u].todo, got, TRUE)
            /\ job[u].todo = <<Write("active", 1)>>
         \/ Stops(job[u].op, job[u].control, job[u].value, job[u].todo, got, TRUE)
         \/ Resets(job[u].op, job[u].control, job[u].todo, got)
  <2>1. job = [x \in Users |-> job[x]] /\ job' = [job EXCEPT ![u] = Ended]
    BY <1>0, EndOfCommand DEF ControlsTypeOK, ControlsJobsOK
  <2>2. job'[u] = Ended
    BY <2>1
  <2> QED
    BY <1>0, <2>2, EndOfCommand, Zenon
<1>3. shown'[c].value # Implied(c, said)
  BY <1>0 DEF Astray, FieldsOf, Implied
<1>4. shown'[c].value # shown[c].value
  <2>1. \E i \in FieldsOf(c) : said[i] # Nil
    BY <1>0 DEF Astray, FieldsOf
  <2> QED
    BY <1>3, <2>1 DEF Astray
<1>5. c = job[u].control \/ FieldsOf(c) \cap DOMAIN a # {}
  BY <1>1, <1>4
<1>6. SUFFICES \/ \E i \in DOMAIN got : said[i] # got[i]
               \/ job[u].op = "reset" /\ "running" \notin DOMAIN got
  BY <1>2, <1>5, Zenon DEF EndsBehind
<1>7. CASE Sets(job[u].op, job[u].control, job[u].value, job[u].todo, got, TRUE)
  <2>1. DOMAIN a = {}
    BY <1>7 DEF Sets, Assumed
  <2>2. c = job[u].control
    BY <1>5, <2>1
  <2>3. /\ group \in {"timer", "bath"} /\ c \in DOMAIN got /\ got[c] = job[u].value
    BY <1>0, <1>7, <2>2 DEF Sets
  <2>4. Implied(c, said) = said[c]
    BY <2>3, OneField
  <2> QED
    BY <1>1, <1>3, <2>2, <2>3, <2>4
<1>8. CASE /\ Starts(job[u].op, job[u].control, job[u].value, job[u].todo, got, TRUE)
           /\ job[u].todo = <<Write("active", 1)>>
  <2>1. DOMAIN a = {} /\ group = "wellness" /\ job[u].value = 1
    BY <1>8 DEF Starts, Assumed
  <2>2. c = job[u].control
    BY <1>5, <2>1
  <2>3. /\ "program" \in DOMAIN got /\ got["program"] = c
        /\ "active" \in DOMAIN got /\ got["active"] = 1
    <3>1. <<Write("active", 1)>> # <<Write("program", c), Write("active", 1)>>
      OBVIOUS
    <3> QED
      BY <1>8, <2>2, <3>1 DEF Starts
  <2>4. Implied(c, said) = ProgramOn(c, said) /\ c \in Programs
    BY <1>8, <2>1, <2>2 DEF Implied, Starts
  <2>5. said["program"] = c /\ said["active"] = 1 => ProgramOn(c, said) = 1
    <3>1. c # Nil
      BY <2>4 DEF Programs
    <3> QED
      BY <3>1 DEF ProgramOn
  <2> QED
    BY <1>1, <1>3, <2>1, <2>2, <2>3, <2>4, <2>5
<1>9. CASE Stops(job[u].op, job[u].control, job[u].value, job[u].todo, got, TRUE)
  <2>1. /\ group = "wellness" /\ job[u].value = 0 /\ a = [i \in {"active", "program"} |-> 0]
        /\ "active" \in DOMAIN got /\ got["active"] = 0
    BY <1>9 DEF Stops, Assumed
  <2>2. "active" \in Fields /\ \A k : Implied(c, k) = ProgramOn(c, k)
    BY <2>1 DEF Fields, Implied
  <2>3. known'["active"] = 0
    BY <1>1, <2>1, <2>2
  <2>4. shown'[c].value = 0
    <3>1. ProgramOn(c, known') = 0
      BY <2>3 DEF ProgramOn
    <3> HIDE DEF a
    <3> QED
      BY <1>1, <1>5, <2>1, <2>2, <3>1
  <2>5. said["active"] = 0 => ProgramOn(c, said) = 0
    BY DEF ProgramOn
  <2> QED
    BY <1>3, <2>1, <2>2, <2>4, <2>5
<1>10. CASE Resets(job[u].op, job[u].control, job[u].todo, got)
  <2>1. /\ group = "timer" /\ job[u].op = "reset" /\ job[u].control = Nil
        /\ "running" \in DOMAIN got => got["running"] = 0
    BY <1>10 DEF Resets
  <2>2. a = [i \in {"remaining", "running"} |-> IF i = "running" THEN 0 ELSE Writing(u).value]
    BY <2>1 DEF Assumed
  <2>3. c \in {"running", "duration"} /\ c # Nil /\ FieldsOf(c) = {c} /\ \A k : Implied(c, k) = k[c]
    BY <2>1, OneField DEF Controls
  <2>4. c = "running"
    BY <1>5, <2>1, <2>2, <2>3
  <2>5. shown'[c].value = 0
    <3>1. known'["running"] = 0
      BY <1>1, <2>1, <2>2 DEF Fields
    <3> HIDE DEF a
    <3> QED
      BY <1>1, <1>5, <2>1, <2>3, <2>4, <3>1
  <2> QED
    BY <1>3, <2>1, <2>3, <2>4, <2>5
<1> QED
  BY <1>2, <1>7, <1>8, <1>9, <1>10

\* The controls of the client's groups keep to their form, and each shows what
\* the client holds, or has gone astray.
THEOREM ControlsType == ControlsSpec => []ControlsInv
<1>1. ControlsInit => ControlsInv
  BY FollowsInit
<1>2. ControlsInv /\ [ControlsNext]_controlVars => ControlsInv'
  BY FollowsStep
<1> QED
  BY <1>1, <1>2, PTL DEF ControlsSpec

\* A control goes astray from the device's reports only by a command that a
\* report overtook between its confirmation and its end, by a reset without an
\* echo, or while a stop's assumption stands for a value of a shower program.
THEOREM ControlsStayTrue == ControlsSpec => ControlsFollow
<1> DEFINE Kept(c) ==
       Astray(c)' /\ ~Astray(c) =>
         \/ \E u \in Users : EndsBehind(u) /\ (job[u].control = c \/ DOMAIN Assumed(u) # {})
         \/ group = "wellness" /\ \E i \in Fields : known[i] # said[i]
<1>1. ASSUME ControlsInv, [ControlsNext]_controlVars, NEW c \in Controls PROVE Kept(c)
  <2> SUFFICES ASSUME Astray(c)', ~Astray(c)
               PROVE  \/ \E u \in Users : EndsBehind(u) /\ (job[u].control = c \/ DOMAIN Assumed(u) # {})
                      \/ group = "wellness" /\ \E i \in Fields : known[i] # said[i]
    OBVIOUS
  <2>1. ControlsTypeOK
    BY <1>1 DEF ControlsInv
  <2>2. ~Quiet
    <3> SUFFICES ASSUME Quiet PROVE FALSE
      OBVIOUS
    <3>1. shown'[c].value = shown[c].value /\ group' = group /\ said' = said
      BY <1>1 DEF Quiet
    <3> QED
      BY <3>1 DEF Astray, FieldsOf, Implied
  <2>3. CASE Heard
    BY <1>1, <2>3, HeardFollows
  <2>4. ASSUME NEW u \in Users, Finish(u)
        PROVE  EndsBehind(u) /\ (job[u].control = c \/ DOMAIN Assumed(u) # {})
    BY <1>1, <2>4, FinishFollows
  <2> QED
    BY <1>1, <2>1, <2>2, <2>3, <2>4, QuietSteps
<1>2. ControlsInv /\ [ControlsNext]_controlVars => \A c \in Controls : Kept(c)
  BY <1>1
<1>3. ControlsSpec => [](ControlsInv) /\ [][ControlsNext]_controlVars
  BY ControlsType, PTL DEF ControlsSpec
<1> QED
  BY <1>2, <1>3, PTL DEF ControlsFollow

=============================================================================
