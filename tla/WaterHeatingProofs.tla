------------------------- MODULE WaterHeatingProofs -------------------------
(***************************************************************************)
(* Proofs about the water heating controls, for any number of callers, any *)
(* temperatures, and any number of reports and moves.                      *)
(***************************************************************************)
EXTENDS WaterHeating, SequenceTheorems, TLAPS

(***************************************************************************)
(* What a caller has left to do: heating is followed by its sync packet,   *)
(* which carries the same value, other writes come last, and a target is   *)
(* not above the jumper.                                                   *)
(***************************************************************************)
TodoOK(s) ==
    \A k \in 1 .. Len(s) :
        /\ s[k].id = "heating" => k = 1 /\ Len(s) >= 2 /\ s[2] = Write("sync", s[1].value)
        /\ s[k].id = "sync" => k = 1 \/ (k = 2 /\ s[1].id = "heating")
        /\ s[k].id \notin {"heating", "sync"} => k = Len(s)
        /\ s[k].id = "setpoint" => s[k].value <= Jumper

Working(t) == t.pc \in {"ready", "wait", "lost", "confirmed"}

TasksOK ==
    \A c \in Callers :
        /\ TodoOK(task[c].todo)
        /\ Working(task[c]) <=> task[c].todo # <<>>

\* Reports are only on their way in a session, and a session that is up has
\* made the client available.
LinkOK == (session = "down" => inbox = <<>>) /\ (session = "up" => available)

HeatingInv == HeatingTypeOK /\ TasksOK /\ LinkOK

\* A result that is not shown yet is the last value reported, or overtaken.
ResultsKnown ==
    \A c \in Callers : \A i \in Ids \ overtaken :
        Working(task[c]) =>
            /\ task[c].pc = "confirmed" /\ Current(c).id = i => cache[i] = Current(c).value
            /\ i = "heating" /\ Current(c).id = "sync" => cache[i] = Current(c).value

-----------------------------------------------------------------------------
\* Lemmas about the operators.

USE HeatingAssumption DEF Temps

\* A limit leaves at least the lowest temperature and stays below the jumper.
LEMMA Limits ==
    ASSUME NEW t \in Temps, NEW max \in MinTemp .. Jumper
    PROVE  /\ Clamp(t, max) \in Temps /\ Clamp(t, max) <= max
           /\ Bounded(t) \in Temps
  BY SMT DEF Clamp, Bounded, Higher, Lower

LEMMA MaxTargetLimited ==
    ASSUME NEW safety, NEW limit \in Temps \cup {None}
    PROVE  MaxTarget(safety, limit) \in MinTemp .. Jumper
  BY SMT DEF MaxTarget, Lower

LEMMA BoundedType ==
    ASSUME NEW limit \in Temps \cup {None}
    PROVE  Bounded(limit) \in Temps \cup {None}
  BY SMT DEF Bounded, Higher, Lower

\* What a report holds.
LEMMA ReportHolds ==
    ASSUME NEW r \in Reports
    PROVE  DOMAIN r \subseteq Ids /\ \A i \in DOMAIN r : r[i] \in Domain(i)
<1>1. CASE r \in Values
  BY <1>1, SMT DEF Values, Ids, Domain
<1>2. ASSUME NEW i \in Ids, r \in [{i} -> Domain(i)]
      PROVE  DOMAIN r \subseteq Ids /\ \A j \in DOMAIN r : r[j] \in Domain(j)
  BY <1>2
<1> QED
  BY <1>1, <1>2 DEF Reports

LEMMA WriteTypes ==
    /\ \A t \in Temps : Write("setpoint", t) \in Writes /\ Write("limit", t) \in Writes
    /\ \A v \in {"on", "off"} :
            Write("heating", v) \in Writes /\ Write("sync", v) \in Writes
                /\ Write("safety", v) \in Writes
<1>1. ASSUME NEW i \in Ids, NEW v \in Domain(i) PROVE Write(i, v) \in Writes
  BY DEF Write, Writes
<1>2. ASSUME NEW v \in {"on", "off"} PROVE Write("sync", v) \in Writes
  BY DEF Write, Writes
<1> QED
  BY <1>1, <1>2 DEF Ids, Domain

LEMMA WriteFields ==
    ASSUME NEW w \in Writes
    PROVE  /\ w.id \in Ids \cup {"sync"}
           /\ w.id = "sync" => w.value \in {"on", "off"}
           /\ w.id # "sync" => w.value \in Domain(w.id)
  BY DEF Writes, Ids

\* What is left after a write.
LEMMA TodoTail ==
    ASSUME NEW s \in Seq(Writes), s # <<>>, TodoOK(s)
    PROVE  /\ Head(s) \in Writes /\ Tail(s) \in Seq(Writes) /\ TodoOK(Tail(s))
           /\ Head(s).id = "heating" =>
                 Tail(s) # <<>> /\ Head(Tail(s)) = Write("sync", Head(s).value)
           /\ Head(s).id # "heating" /\ Tail(s) # <<>> => Head(Tail(s)).id # "sync"
           /\ Head(s).id \notin {"heating", "sync"} => Tail(s) = <<>>
           /\ Head(s).id = "setpoint" => Head(s).value <= Jumper
<1>1. Len(s) \in Nat /\ Len(s) >= 1 /\ Head(s) = s[1] /\ Head(s) \in Writes
  OBVIOUS
<1>2. Tail(s) \in Seq(Writes) /\ Len(Tail(s)) = Len(s) - 1
  BY HeadTailProperties
<1>3. \A k \in 1 .. Len(s) - 1 : Tail(s)[k] = s[k + 1]
  BY HeadTailProperties
<1>4. /\ Tail(s) = <<>> <=> Len(s) = 1
      /\ Tail(s) # <<>> => Len(s) > 1 /\ Head(Tail(s)) = s[2]
  <2>1. Tail(s) = <<>> <=> Len(s) = 1
    <3> DEFINE r == Tail(s)
    <3>1. r \in Seq(Writes) /\ Len(r) = Len(s) - 1
      BY <1>2
    <3> HIDE DEF r
    <3>2. r = <<>> <=> Len(r) = 0
      BY <3>1, EmptySeq
    <3>3. r = <<>> <=> Len(s) = 1
      BY <1>1, <3>1, <3>2, SMT
    <3> QED
      BY <3>3 DEF r
  <2>2. ASSUME Tail(s) # <<>> PROVE Len(s) > 1 /\ Head(Tail(s)) = s[2]
    <3>1. Len(s) > 1
      BY <2>1, <2>2, <1>1
    <3>2. Head(Tail(s)) = Tail(s)[1]
      BY <2>2, <1>2
    <3> QED
      BY <3>1, <3>2, <1>3, <1>1
  <2> QED
    BY <2>1, <2>2
<1>5. TodoOK(Tail(s))
  <2> DEFINE r == Tail(s)
  <2>1. ASSUME NEW k \in 1 .. Len(r)
        PROVE  /\ r[k] = s[k + 1] /\ k + 1 \in 1 .. Len(s) /\ k + 1 # 1
               /\ k + 1 = 2 <=> k = 1
               /\ k + 1 = Len(s) <=> k = Len(r)
    BY <1>1, <1>2, <1>3
  <2> HIDE DEF r
  <2>2. ASSUME NEW k \in 1 .. Len(r)
        PROVE  /\ r[k].id # "heating"
               /\ r[k].id = "sync" => k = 1
               /\ r[k].id \notin {"heating", "sync"} => k = Len(r)
               /\ r[k].id = "setpoint" => r[k].value <= Jumper
    <3> DEFINE j == k + 1
    <3>1. /\ r[k] = s[j] /\ j \in 1 .. Len(s) /\ j # 1
          /\ j = 2 <=> k = 1
          /\ j = Len(s) <=> k = Len(r)
      BY <2>1
    <3> HIDE DEF j
    <3>2. /\ s[j].id = "heating" => j = 1
          /\ s[j].id = "sync" => j = 1 \/ j = 2
          /\ s[j].id \notin {"heating", "sync"} => j = Len(s)
          /\ s[j].id = "setpoint" => s[j].value <= Jumper
      BY <3>1, Zenon DEF TodoOK
    <3> QED
      BY <3>1, <3>2
  <2>3. TodoOK(r)
    BY <2>2 DEF TodoOK
  <2> QED
    BY <2>3 DEF r
<1>6. 1 \in 1 .. Len(s) /\ (Len(s) >= 2 => 2 \in 1 .. Len(s))
  BY <1>1
<1>7. Head(s).id = "heating" => Tail(s) # <<>> /\ Head(Tail(s)) = Write("sync", Head(s).value)
  BY <1>1, <1>4, <1>6 DEF TodoOK
<1>8. Head(s).id # "heating" /\ Tail(s) # <<>> => Head(Tail(s)).id # "sync"
  BY <1>1, <1>4, <1>6 DEF TodoOK
<1>9. /\ Head(s).id \notin {"heating", "sync"} => Tail(s) = <<>>
      /\ Head(s).id = "setpoint" => Head(s).value <= Jumper
  BY <1>1, <1>4, <1>6 DEF TodoOK
<1> QED
  BY <1>1, <1>2, <1>5, <1>7, <1>8, <1>9

LEMMA OneWrite ==
    ASSUME NEW w \in Writes, w.id # "heating", w.id = "setpoint" => w.value <= Jumper
    PROVE  <<w>> \in Seq(Writes) /\ TodoOK(<<w>>) /\ <<w>> # <<>> /\ Head(<<w>>) = w
  BY SMT DEF TodoOK

LEMMA Appended ==
    ASSUME NEW q \in Seq(Writes), NEW w \in Writes
    PROVE  /\ Append(q, w) \in Seq(Writes) /\ Len(Append(q, w)) = Len(q) + 1
           /\ \A i \in 1 .. Len(q) : Append(q, w)[i] = q[i]
           /\ Append(q, w)[Len(q) + 1] = w
  BY AppendProperties

LEMMA HeatingWrites ==
    ASSUME NEW v \in {"on", "off"}, NEW t \in MinTemp .. Jumper
    PROVE  /\ SetHeating(v) \in Seq(Writes) /\ TodoOK(SetHeating(v)) /\ SetHeating(v) # <<>>
           /\ Head(SetHeating(v)).id = "heating"
           /\ LET s == Append(SetHeating(v), Write("setpoint", t))
              IN  s \in Seq(Writes) /\ TodoOK(s) /\ s # <<>> /\ Head(s).id = "heating"
<1> DEFINE h == SetHeating(v)
           s == Append(h, Write("setpoint", t))
<1>1. Write("heating", v) \in Writes /\ Write("sync", v) \in Writes
  BY WriteTypes
<1>2. Write("setpoint", t) \in Writes
  BY WriteTypes, SMT
<1>3. h \in Seq(Writes) /\ Len(h) = 2
      /\ h[1] = [id |-> "heating", value |-> v] /\ h[2] = [id |-> "sync", value |-> v]
  BY <1>1 DEF SetHeating, Write
<1> HIDE DEF h
<1>4. TodoOK(h)
  <2>1. h[1].id = "heating" /\ h[1].value = v /\ h[2].id = "sync" /\ h[2] = Write("sync", v)
    BY <1>3 DEF Write
  <2>2. \A k \in 1 .. 2 : k = 1 \/ k = 2
    OBVIOUS
  <2> QED
    BY <1>3, <2>1, <2>2 DEF TodoOK
<1>5. s \in Seq(Writes) /\ Len(s) = 3 /\ s[1] = h[1] /\ s[2] = h[2]
      /\ s[3] = [id |-> "setpoint", value |-> t]
  <2>1. /\ s \in Seq(Writes) /\ Len(s) = Len(h) + 1
        /\ \A i \in 1 .. Len(h) : s[i] = h[i]
        /\ s[Len(h) + 1] = Write("setpoint", t)
    <3>1. h \in Seq(Writes) /\ Write("setpoint", t) \in Writes
      BY <1>2, <1>3
    <3> QED
      BY <3>1, Appended DEF s
  <2> QED
    BY <1>3, <2>1 DEF Write
<1> HIDE DEF s
<1>6. TodoOK(s)
  <2>1. /\ s[1].id = "heating" /\ s[1].value = v /\ s[2].id = "sync" /\ s[2] = Write("sync", v)
        /\ s[3].id = "setpoint" /\ s[3].value = t /\ t <= Jumper
    BY <1>3, <1>5 DEF Write
  <2>2. \A k \in 1 .. 3 : k = 1 \/ k = 2 \/ k = 3
    OBVIOUS
  <2> QED
    BY <1>5, <2>1, <2>2 DEF TodoOK
<1>7. /\ h # <<>> /\ Head(h).id = "heating"
      /\ s # <<>> /\ Head(s).id = "heating"
  <2>1. h # <<>> /\ s # <<>>
    <3>1. h \in Seq(Writes) /\ Len(h) = 2 /\ s \in Seq(Writes) /\ Len(s) = 3
      BY <1>3, <1>5
    <3>2. Len(<<>>) = 0
      BY EmptySeq
    <3>3. h # <<>>
      <4> SUFFICES ASSUME h = <<>> PROVE FALSE
        OBVIOUS
      <4> QED
        BY <3>1, <3>2
    <3>4. s # <<>>
      <4> SUFFICES ASSUME s = <<>> PROVE FALSE
        OBVIOUS
      <4> QED
        BY <3>1, <3>2
    <3> QED
      BY <3>3, <3>4
  <2> QED
    BY <1>3, <1>5, <2>1
<1> QED
  BY <1>3, <1>4, <1>5, <1>6, <1>7 DEF h, s

-----------------------------------------------------------------------------
\* The invariant of types, tasks and the link.

LEMMA IdleTask == Idle \in Tasks /\ Done \in Tasks
  BY EmptySeq DEF Idle, Done, Tasks

LEMMA Initially == HeatingInit => HeatingInv
<1> SUFFICES ASSUME HeatingInit PROVE HeatingInv
  OBVIOUS
<1>1. cache = [i \in Ids |-> cache[i]] /\ \A i \in Ids : cache[i] = None
  BY DEF HeatingInit
<1>2. inbox \in Seq(Reports) /\ queue \in Seq(Callers)
  BY EmptySeq DEF HeatingInit
<1>3. task \in [Callers -> Tasks]
  BY IdleTask DEF HeatingInit
<1>4. HeatingTypeOK
  <2>1. device \in Values /\ moves \in 0 .. MaxMoves
    BY DEF HeatingInit
  <2>2. /\ climate \in [target : Temps \cup {None}, heating : {"on", "off", None},
                       safety : {"on", "off", None}, limit : Temps \cup {None},
                       memory : Temps \cup {None}, available : BOOLEAN]
        /\ switch \in [value : {"on", "off", None}, available : BOOLEAN]
        /\ number \in [value : Temps \cup {None}, available : BOOLEAN]
    BY DEF HeatingInit
  <2> QED
    BY <1>1, <1>2, <1>3, <2>1, <2>2, Zenon DEF HeatingInit, HeatingTypeOK
<1>5. TasksOK
  BY DEF HeatingInit, TasksOK, TodoOK, Idle, Working
<1>6. LinkOK
  BY DEF HeatingInit, LinkOK
<1> QED
  BY <1>4, <1>5, <1>6 DEF HeatingInv

LEMMA ConnectKeeps == HeatingInv /\ Connect => HeatingInv'
<1> SUFFICES ASSUME HeatingInv, Connect PROVE HeatingInv'
  OBVIOUS
<1>1. inbox' \in Seq(Reports)
  BY DEF HeatingInv, HeatingTypeOK, Connect, Reports
<1>2. HeatingTypeOK'
  BY <1>1 DEF HeatingInv, HeatingTypeOK, Connect, commands, entities
<1>3. TasksOK'
  BY DEF HeatingInv, TasksOK, Connect, commands
<1>4. LinkOK'
  BY DEF Connect, LinkOK
<1> QED
  BY <1>2, <1>3, <1>4 DEF HeatingInv

\* What the entities make of availability.
LEMMA AvailabilityTypes ==
    ASSUME HeatingTypeOK, NEW now \in BOOLEAN, SetAvailable(now)
    PROVE  /\ available' = now
           /\ climate' \in [target : Temps \cup {None}, heating : {"on", "off", None},
                            safety : {"on", "off", None}, limit : Temps \cup {None},
                            memory : Temps \cup {None}, available : BOOLEAN]
           /\ switch' \in [value : {"on", "off", None}, available : BOOLEAN]
           /\ number' \in [value : Temps \cup {None}, available : BOOLEAN]
  BY SMTT(60) DEF HeatingTypeOK, SetAvailable, ClimateAvailable, SwitchAvailable, NumberAvailable, entities

LEMMA ProveKeeps == HeatingInv /\ Prove => HeatingInv'
<1> SUFFICES ASSUME HeatingInv, Prove PROVE HeatingInv'
  OBVIOUS
<1>1. HeatingTypeOK'
  BY AvailabilityTypes DEF HeatingInv, HeatingTypeOK, Prove, commands
<1>2. TasksOK'
  BY DEF HeatingInv, TasksOK, Prove, commands
<1>3. LinkOK'
  BY DEF HeatingInv, Prove, LinkOK, SetAvailable
<1> QED
  BY <1>1, <1>2, <1>3 DEF HeatingInv

LEMMA GraceExpiresKeeps == HeatingInv /\ GraceExpires => HeatingInv'
<1> SUFFICES ASSUME HeatingInv, GraceExpires PROVE HeatingInv'
  OBVIOUS
<1>1. HeatingTypeOK'
  BY AvailabilityTypes DEF HeatingInv, HeatingTypeOK, GraceExpires, commands
<1>2. TasksOK'
  BY DEF HeatingInv, TasksOK, GraceExpires, commands
<1>3. LinkOK'
  BY DEF HeatingInv, GraceExpires, LinkOK, SetAvailable
<1> QED
  BY <1>1, <1>2, <1>3 DEF HeatingInv

LEMMA EndSessionKeeps == HeatingInv /\ EndSession => HeatingInv'
<1> SUFFICES ASSUME HeatingInv, EndSession PROVE HeatingInv'
  OBVIOUS
<1>1. ASSUME NEW c \in Callers
      PROVE  /\ task'[c] \in Tasks /\ task'[c].todo = task[c].todo
             /\ Working(task'[c]) <=> Working(task[c])
  BY ZenonT(90) DEF HeatingInv, HeatingTypeOK, EndSession, Fail, Tasks, Working
<1>2. inbox' = <<>> /\ inbox' \in Seq(Reports)
  BY EmptySeq DEF EndSession
<1>3. task' \in [Callers -> Tasks]
  BY <1>1 DEF EndSession
<1>4. moves' \in 0 .. MaxMoves
  BY DEF HeatingInv, HeatingTypeOK, EndSession
<1>5. HeatingTypeOK'
  BY <1>2, <1>3, <1>4 DEF HeatingInv, HeatingTypeOK, EndSession, entities
<1>6. TasksOK'
  BY <1>1 DEF HeatingInv, TasksOK
<1>7. LinkOK'
  BY <1>2 DEF EndSession, LinkOK
<1> QED
  BY <1>5, <1>6, <1>7 DEF HeatingInv

LEMMA DeviceChangesKeeps ==
    ASSUME HeatingInv, NEW i \in Ids, DeviceChanges(i)
    PROVE  HeatingInv'
<1>1. PICK w \in Values : device' = [device EXCEPT ![i] = w[i]]
  BY DEF DeviceChanges
<1>2. device' \in Values
  BY <1>1 DEF HeatingInv, HeatingTypeOK, Values, Ids
<1>3. moves' \in 0 .. MaxMoves
  BY DEF HeatingInv, HeatingTypeOK, DeviceChanges
<1>4. HeatingTypeOK'
  BY <1>2, <1>3 DEF HeatingInv, HeatingTypeOK, DeviceChanges, client, commands, entities
<1>5. TasksOK'
  BY DEF HeatingInv, TasksOK, DeviceChanges, commands
<1>6. LinkOK'
  BY DEF HeatingInv, LinkOK, DeviceChanges, client
<1> QED
  BY <1>4, <1>5, <1>6 DEF HeatingInv

LEMMA DeviceReportsKeeps ==
    ASSUME HeatingInv, NEW i \in Ids, DeviceReports(i)
    PROVE  HeatingInv'
<1> DEFINE r == [k \in {i} |-> device[k]]
<1>1. r \in Reports
  <2>1. device[i] \in Domain(i)
    BY DEF HeatingInv, HeatingTypeOK, Values, Ids, Domain
  <2>2. r \in [{i} -> Domain(i)]
    BY <2>1
  <2> QED
    BY <2>2 DEF Reports
<1>2. inbox' \in Seq(Reports)
  <2> inbox \in Seq(Reports) /\ inbox' = Append(inbox, r)
    BY DEF HeatingInv, HeatingTypeOK, DeviceReports
  <2> HIDE DEF r
  <2> QED
    BY <1>1, AppendProperties
<1>3. HeatingTypeOK'
  BY <1>2 DEF HeatingInv, HeatingTypeOK, DeviceReports, commands, entities
<1>4. TasksOK'
  BY DEF HeatingInv, TasksOK, DeviceReports, commands
<1>5. LinkOK'
  BY DEF HeatingInv, LinkOK, DeviceReports
<1> QED
  BY <1>3, <1>4, <1>5 DEF HeatingInv

LEMMA ReceiveKeeps == HeatingInv /\ Receive => HeatingInv'
<1> SUFFICES ASSUME HeatingInv, Receive PROVE HeatingInv'
  OBVIOUS
<1> DEFINE r == Head(inbox)
<1>1. PICK asked \in BOOLEAN :
         LET told == Told(r, asked)
         IN  /\ climate' = ClimateHears(told, r) /\ switch' = SwitchHears(told, r)
             /\ number' = NumberHears(told, r)
             /\ overtaken' = {i \in overtaken \cup told : i \notin told \/ Unshown(i)}
  BY DEF Receive
<1>2. r \in Reports /\ inbox' \in Seq(Reports)
  BY HeadTailProperties DEF HeatingInv, HeatingTypeOK, Receive
<1>3. DOMAIN r \subseteq Ids /\ \A i \in DOMAIN r : r[i] \in Domain(i)
  BY <1>2, ReportHolds
<1>4. cache' = [i \in Ids |-> cache'[i]] /\ \A i \in Ids : cache'[i] \in Domain(i) \cup {None}
  BY <1>3 DEF HeatingInv, HeatingTypeOK, Receive
<1>5. ASSUME NEW c \in Callers
      PROVE  /\ task'[c] \in Tasks /\ task'[c].todo = task[c].todo
             /\ Working(task'[c]) <=> Working(task[c])
  BY ZenonT(90) DEF HeatingInv, HeatingTypeOK, Receive, Confirms, Tasks, Working
<1>6. task' \in [Callers -> Tasks]
  BY <1>5 DEF Receive
<1> DEFINE told == Told(r, asked)
<1>7. told \subseteq DOMAIN r
  BY DEF Told
<1>8. /\ "setpoint" \in told => r["setpoint"] \in Temps
      /\ "heating" \in told => r["heating"] \in {"on", "off"}
      /\ "safety" \in told => r["safety"] \in {"on", "off"}
      /\ "limit" \in told => r["limit"] \in Temps /\ Bounded(r["limit"]) \in Temps \cup {None}
  BY <1>3, <1>7, BoundedType DEF Domain
<1>9. /\ climate' \in [target : Temps \cup {None}, heating : {"on", "off", None},
                       safety : {"on", "off", None}, limit : Temps \cup {None},
                       memory : Temps \cup {None}, available : BOOLEAN]
      /\ switch' \in [value : {"on", "off", None}, available : BOOLEAN]
      /\ number' \in [value : Temps \cup {None}, available : BOOLEAN]
      /\ overtaken' \subseteq Ids
  <2>1. /\ climate' = ClimateHears(told, r) /\ switch' = SwitchHears(told, r)
        /\ number' = NumberHears(told, r)
        /\ overtaken' \subseteq overtaken \cup told
    BY <1>1
  <2> HIDE DEF told, r
  <2>2. climate' \in [target : Temps \cup {None}, heating : {"on", "off", None},
                     safety : {"on", "off", None}, limit : Temps \cup {None},
                     memory : Temps \cup {None}, available : BOOLEAN]
    <3> DEFINE t == IF "setpoint" \in told THEN r["setpoint"] ELSE climate.target
               m == IF "setpoint" \in told /\ climate.heating # "off"
                    THEN r["setpoint"] ELSE climate.memory
               a == climate.available \/ "setpoint" \in told
               h == IF "heating" \in told THEN r["heating"] ELSE climate.heating
               s == IF "safety" \in told THEN r["safety"] ELSE climate.safety
               l == IF "limit" \in told THEN Bounded(r["limit"]) ELSE climate.limit
    <3>1. climate \in [target : Temps \cup {None}, heating : {"on", "off", None},
                      safety : {"on", "off", None}, limit : Temps \cup {None},
                      memory : Temps \cup {None}, available : BOOLEAN]
      BY DEF HeatingInv, HeatingTypeOK
    <3>2. climate' = [target |-> t, heating |-> h, safety |-> s, limit |-> l,
                      memory |-> m, available |-> a]
      BY <2>1, <3>1 DEF ClimateHears
    <3>3. t \in Temps \cup {None} /\ m \in Temps \cup {None} /\ l \in Temps \cup {None}
      BY <1>8, <3>1
    <3>4. h \in {"on", "off", None} /\ s \in {"on", "off", None} /\ a \in BOOLEAN
      BY <1>8, <3>1
    <3> HIDE DEF t, m, a, h, s, l
    <3> QED
      BY <3>2, <3>3, <3>4
  <2>3. switch' \in [value : {"on", "off", None}, available : BOOLEAN]
    BY <1>8, <2>1 DEF HeatingInv, HeatingTypeOK, SwitchHears
  <2>4. number' \in [value : Temps \cup {None}, available : BOOLEAN]
    BY <1>8, <2>1 DEF HeatingInv, HeatingTypeOK, NumberHears
  <2>5. overtaken' \subseteq Ids
    BY <1>3, <1>7, <2>1 DEF HeatingInv, HeatingTypeOK
  <2> QED
    BY <2>2, <2>3, <2>4, <2>5
<1>10. HeatingTypeOK'
  BY <1>2, <1>4, <1>6, <1>9 DEF HeatingInv, HeatingTypeOK, Receive
<1>11. TasksOK'
  BY <1>5 DEF HeatingInv, TasksOK
<1>12. LinkOK'
  BY DEF HeatingInv, LinkOK, Receive
<1> QED
  BY <1>10, <1>11, <1>12 DEF HeatingInv

\* A new task of a caller keeps the tasks in order.
LEMMA TaskChange ==
    ASSUME TasksOK, NEW c \in Callers, NEW t, TodoOK(t.todo), Working(t) <=> t.todo # <<>>,
           \A d \in Callers : task'[d] = IF d = c THEN t ELSE task[d]
    PROVE  TasksOK'
  BY DEF TasksOK

LEMMA BeginKeeps ==
    ASSUME HeatingInv, NEW c \in Callers,
           NEW op \in {"target", "off", "heat", "limit", "safety"},
           NEW s \in Seq(Writes), TodoOK(s), s # <<>>, Begin(c, op, s)
    PROVE  task' \in [Callers -> Tasks] /\ queue' \in Seq(Callers) /\ TasksOK'
<1> DEFINE t == [op |-> op, todo |-> s, pc |-> "ready", attempt |-> 1]
<1>1. t \in Tasks
  BY DEF Tasks
<1>2. task \in [Callers -> Tasks] /\ queue \in Seq(Callers) /\ TasksOK
  BY DEF HeatingInv, HeatingTypeOK
<1>3. task' = [task EXCEPT ![c] = t] /\ queue' = Append(queue, c)
  BY DEF Begin
<1>4. TodoOK(t.todo) /\ (Working(t) <=> t.todo # <<>>)
  BY DEF Working
<1> HIDE DEF t
<1>5. queue' \in Seq(Callers)
  BY <1>2, <1>3, AppendProperties
<1>6. \A d \in Callers : task'[d] = IF d = c THEN t ELSE task[d]
  BY <1>2, <1>3
<1> QED
  BY <1>1, <1>2, <1>3, <1>4, <1>5, <1>6, TaskChange

LEMMA ClimateMaxLimited == HeatingTypeOK => ClimateMax \in MinTemp .. Jumper
  BY MaxTargetLimited DEF HeatingTypeOK, ClimateMax

LEMMA CallKeeps ==
    ASSUME HeatingInv, NEW c \in Callers, Call(c)
    PROVE  HeatingInv'
<1>1. ClimateMax \in MinTemp .. Jumper
  BY ClimateMaxLimited DEF HeatingInv
<1> DEFINE Done1 == /\ task' \in [Callers -> Tasks] /\ queue' \in Seq(Callers) /\ TasksOK'
                   /\ climate' \in [target : Temps \cup {None}, heating : {"on", "off", None},
                                    safety : {"on", "off", None}, limit : Temps \cup {None},
                                    memory : Temps \cup {None}, available : BOOLEAN]
                   /\ UNCHANGED <<switch, number>>
<1>2. ASSUME HeatingOff(c) PROVE Done1
  <2>1. climate' \in [target : Temps \cup {None}, heating : {"on", "off", None},
                     safety : {"on", "off", None}, limit : Temps \cup {None},
                     memory : Temps \cup {None}, available : BOOLEAN]
    BY <1>2 DEF HeatingInv, HeatingTypeOK, HeatingOff, Remembered
  <2>2. task' \in [Callers -> Tasks] /\ queue' \in Seq(Callers) /\ TasksOK'
    <3>1. CASE Begin(c, "off", SetHeating("off"))
      <4> SetHeating("off") \in Seq(Writes) /\ TodoOK(SetHeating("off")) /\ SetHeating("off") # <<>>
        BY HeatingWrites, <1>1
      <4> QED
        BY <3>1, BeginKeeps
    <3>2. CASE UNCHANGED commands
      BY <3>2 DEF HeatingInv, HeatingTypeOK, TasksOK, commands
    <3> QED
      BY <1>2, <3>1, <3>2 DEF HeatingOff
  <2> QED
    BY <1>2, <2>1, <2>2 DEF HeatingOff
<1>3. ASSUME HeatingOn(c) PROVE Done1
  <2>1. SetHeating("on") \in Seq(Writes) /\ TodoOK(SetHeating("on")) /\ SetHeating("on") # <<>>
    BY HeatingWrites, <1>1
  <2>2. task' \in [Callers -> Tasks] /\ queue' \in Seq(Callers) /\ TasksOK'
    BY <1>3, <2>1, BeginKeeps DEF HeatingOn
  <2> QED
    BY <1>3, <2>2 DEF HeatingOn, entities, HeatingInv, HeatingTypeOK
<1>4. ASSUME NEW t \in Temps, SetTemperature(c, t) PROVE Done1
  <2> DEFINE w == Write("setpoint", Clamp(t, ClimateMax))
             s == IF climate.heating = "off" THEN Append(SetHeating("on"), w) ELSE <<w>>
  <2>1. Clamp(t, ClimateMax) \in MinTemp .. Jumper
    BY <1>1, Limits, SMT DEF Clamp, Higher, Lower
  <2>2. s \in Seq(Writes) /\ TodoOK(s) /\ s # <<>>
    <3>1. w \in Writes /\ w.id = "setpoint" /\ w.value <= Jumper
      <4> Clamp(t, ClimateMax) \in Temps /\ Clamp(t, ClimateMax) <= Jumper
        BY <2>1
      <4> QED
        BY WriteTypes DEF Write
    <3>2. <<w>> \in Seq(Writes) /\ TodoOK(<<w>>) /\ <<w>> # <<>>
      BY <3>1, OneWrite
    <3> QED
      BY <3>2, <2>1, HeatingWrites
  <2>3. Begin(c, "target", s) /\ UNCHANGED entities
    BY <1>4 DEF SetTemperature
  <2> HIDE DEF s
  <2>4. task' \in [Callers -> Tasks] /\ queue' \in Seq(Callers) /\ TasksOK'
    BY <2>2, <2>3, BeginKeeps
  <2> QED
    BY <2>3, <2>4 DEF entities, HeatingInv, HeatingTypeOK
<1>5. ASSUME NEW t \in Temps, SetLimit(c, t) PROVE Done1
  <2> DEFINE w == Write("limit", Bounded(t))
  <2>1. w \in Writes /\ w.id = "limit"
    BY Limits, <1>1, WriteTypes DEF Write
  <2>2. Begin(c, "limit", <<w>>) /\ UNCHANGED entities
    BY <1>5 DEF SetLimit
  <2> HIDE DEF w
  <2>3. task' \in [Callers -> Tasks] /\ queue' \in Seq(Callers) /\ TasksOK'
    BY <2>1, <2>2, OneWrite, BeginKeeps
  <2> QED
    BY <2>2, <2>3 DEF entities, HeatingInv, HeatingTypeOK
<1>6. ASSUME NEW v \in {"on", "off"}, SetSafety(c, v) PROVE Done1
  <2> DEFINE w == Write("safety", v)
  <2>1. w \in Writes /\ w.id = "safety"
    BY WriteTypes DEF Write
  <2>2. Begin(c, "safety", <<w>>) /\ UNCHANGED entities
    BY <1>6 DEF SetSafety
  <2> HIDE DEF w
  <2>3. task' \in [Callers -> Tasks] /\ queue' \in Seq(Callers) /\ TasksOK'
    BY <2>1, <2>2, OneWrite, BeginKeeps
  <2> QED
    BY <2>2, <2>3 DEF entities, HeatingInv, HeatingTypeOK
<1>7. Done1
  BY <1>2, <1>3, <1>4, <1>5, <1>6 DEF Call
<1>8. HeatingTypeOK'
  BY <1>7 DEF HeatingInv, HeatingTypeOK, Call, client
<1>9. LinkOK'
  BY DEF HeatingInv, LinkOK, Call, client
<1> QED
  BY <1>7, <1>8, <1>9 DEF HeatingInv

\* The write that a busy caller is at.
LEMMA CurrentWrite ==
    ASSUME HeatingInv, NEW c \in Callers, Working(task[c])
    PROVE  /\ task[c] \in Tasks /\ task[c].todo \in Seq(Writes) /\ task[c].todo # <<>>
           /\ TodoOK(task[c].todo) /\ Current(c) \in Writes
<1>1. task[c] \in Tasks /\ task[c].todo \in Seq(Writes)
  BY DEF HeatingInv, HeatingTypeOK, Tasks
<1>2. task[c].todo # <<>> /\ TodoOK(task[c].todo)
  BY DEF HeatingInv, TasksOK
<1> QED
  BY <1>1, <1>2, TodoTail DEF Current

LEMMA SendKeeps ==
    ASSUME HeatingInv, NEW c \in Callers, Send(c)
    PROVE  HeatingInv'
<1>1. task[c] \in Tasks /\ Current(c) \in Writes
  BY CurrentWrite DEF Send, Working
<1>2. PICK pc \in {"wait", "confirmed"} : task' = [task EXCEPT ![c].pc = pc]
  BY DEF Send
<1>3. device' \in Values
  <2>1. CASE Current(c).id = "sync"
    BY <2>1 DEF Send, HeatingInv, HeatingTypeOK
  <2>2. CASE Current(c).id # "sync"
    <3>1. Current(c).id \in Ids /\ Current(c).value \in Domain(Current(c).id)
      BY <1>1, <2>2, WriteFields
    <3>2. device' = device \/ device' = [device EXCEPT ![Current(c).id] = Current(c).value]
      BY <2>2 DEF Send
    <3>3. ASSUME NEW i \in Ids, NEW v \in Domain(i)
          PROVE  [device EXCEPT ![i] = v] \in Values
      BY DEF HeatingInv, HeatingTypeOK, Values, Ids, Domain
    <3> QED
      BY <3>1, <3>2, <3>3 DEF HeatingInv, HeatingTypeOK
  <2> QED
    BY <2>1, <2>2
<1>4. task' \in [Callers -> Tasks]
  BY <1>1, <1>2 DEF HeatingInv, HeatingTypeOK, Tasks
<1>5. HeatingTypeOK'
  BY <1>3, <1>4 DEF HeatingInv, HeatingTypeOK, Send, client, entities
<1>6. ASSUME NEW d \in Callers
      PROVE  task'[d].todo = task[d].todo /\ (Working(task'[d]) <=> Working(task[d]))
  BY <1>1, <1>2 DEF HeatingInv, HeatingTypeOK, Tasks, Working, Send
<1>7. TasksOK'
  BY <1>6 DEF HeatingInv, TasksOK
<1>8. LinkOK'
  BY DEF HeatingInv, LinkOK, Send, client
<1> QED
  BY <1>5, <1>7, <1>8 DEF HeatingInv

LEMMA AttemptFailsKeeps ==
    ASSUME HeatingInv, NEW c \in Callers, AttemptFails(c)
    PROVE  HeatingInv'
<1>1. task[c] \in Tasks
  BY DEF HeatingInv, HeatingTypeOK
<1>2. task' \in [Callers -> Tasks]
  BY <1>1 DEF HeatingInv, HeatingTypeOK, Tasks, AttemptFails
<1>3. inbox' = <<>> /\ inbox' \in Seq(Reports)
  BY EmptySeq DEF AttemptFails
<1>4. HeatingTypeOK'
  BY <1>2, <1>3 DEF HeatingInv, HeatingTypeOK, AttemptFails, entities
<1>5. ASSUME NEW d \in Callers
      PROVE  task'[d].todo = task[d].todo /\ (Working(task'[d]) <=> Working(task[d]))
  BY <1>1 DEF HeatingInv, HeatingTypeOK, Tasks, Working, AttemptFails
<1>6. TasksOK'
  BY <1>5 DEF HeatingInv, TasksOK
<1>7. LinkOK'
  BY <1>3 DEF LinkOK, AttemptFails
<1> QED
  BY <1>4, <1>6, <1>7 DEF HeatingInv

LEMMA DoneKeeps == TodoOK(Done.todo) /\ (Working(Done) <=> Done.todo # <<>>)
  BY DEF Done, Idle, TodoOK, Working

LEMMA GiveUpKeeps ==
    ASSUME HeatingInv, NEW c \in Callers, GiveUp(c)
    PROVE  HeatingInv'
<1>1. task' \in [Callers -> Tasks]
  BY IdleTask DEF HeatingInv, HeatingTypeOK, GiveUp
<1>2. queue' \in Seq(Callers)
  BY HeadTailProperties DEF HeatingInv, HeatingTypeOK, GiveUp, Holds
<1>3. /\ climate' \in [target : Temps \cup {None}, heating : {"on", "off", None},
                       safety : {"on", "off", None}, limit : Temps \cup {None},
                       memory : Temps \cup {None}, available : BOOLEAN]
      /\ switch' \in [value : {"on", "off", None}, available : BOOLEAN]
      /\ number' \in [value : Temps \cup {None}, available : BOOLEAN]
  <2> climate.available \in BOOLEAN /\ available \in BOOLEAN
    BY DEF HeatingInv, HeatingTypeOK
  <2> QED
    BY DEF HeatingInv, HeatingTypeOK, GiveUp
<1>4. HeatingTypeOK'
  BY <1>1, <1>2, <1>3 DEF HeatingInv, HeatingTypeOK, GiveUp, client
<1>5. TasksOK'
  <2> \A d \in Callers : task'[d] = IF d = c THEN Done ELSE task[d]
    BY DEF HeatingInv, HeatingTypeOK, GiveUp
  <2> QED
    BY DoneKeeps, TaskChange DEF HeatingInv
<1>6. LinkOK'
  BY DEF HeatingInv, LinkOK, GiveUp, client
<1> QED
  BY <1>4, <1>5, <1>6 DEF HeatingInv

\* What follows a write is in order.
LEMMA FollowingOK ==
    ASSUME HeatingInv, NEW c \in Callers, Working(task[c])
    PROVE  Following(c) \in Seq(Writes) /\ TodoOK(Following(c))
<1>1. Tail(task[c].todo) \in Seq(Writes) /\ TodoOK(Tail(task[c].todo))
  BY CurrentWrite, TodoTail
<1>2. ASSUME Restored # None
      PROVE  LET w == Write("setpoint", Restored) IN <<w>> \in Seq(Writes) /\ TodoOK(<<w>>)
  <2>1. ClimateMax \in MinTemp .. Jumper
    BY ClimateMaxLimited DEF HeatingInv
  <2>2. Before \in Temps
    BY <1>2 DEF HeatingInv, HeatingTypeOK, Before, Restored, Ids, Domain
  <2>3. Restored \in Temps /\ Restored <= Jumper
    <3> Before # None
      BY <2>2
    <3> QED
      BY <2>1, <2>2, Limits DEF Restored
  <2>4. Write("setpoint", Restored) \in Writes
    BY <2>3, WriteTypes
  <2> HIDE DEF Restored
  <2> QED
    BY <2>3, <2>4, OneWrite DEF Write
<1> QED
  BY <1>1, <1>2 DEF Following

LEMMA ResumeKeeps ==
    ASSUME HeatingInv, NEW c \in Callers, Resume(c)
    PROVE  HeatingInv'
<1> DEFINE w == Current(c)
           rest == Following(c)
           t == [task[c] EXCEPT !.todo = rest, !.pc = "ready", !.attempt = 1]
<1>1. Working(task[c]) /\ task[c] \in Tasks /\ w \in Writes
  BY CurrentWrite DEF Resume, Working
<1>2. rest \in Seq(Writes) /\ TodoOK(rest)
  BY <1>1, FollowingOK
<1>3. /\ queue \in Seq(Callers) /\ queue # <<>> /\ task \in [Callers -> Tasks]
  BY DEF HeatingInv, HeatingTypeOK, Resume, Holds
<1>4. /\ ClimateTakes(w, rest = <<>>)
      /\ switch' = IF w.id = "safety" THEN [value |-> w.value, available |-> TRUE] ELSE switch
      /\ number' = IF w.id = "limit" THEN [value |-> Bounded(w.value), available |-> TRUE]
                   ELSE number
      /\ \/ rest = <<>> /\ task' = [task EXCEPT ![c] = Done] /\ queue' = Tail(queue)
         \/ rest # <<>> /\ task' = [task EXCEPT ![c] = t] /\ queue' = Append(Tail(queue), c)
  BY <1>3 DEF Resume
<1>5. t \in Tasks /\ TodoOK(t.todo) /\ (rest # <<>> => (Working(t) <=> t.todo # <<>>))
  BY <1>1, <1>2 DEF Tasks, Working
<1>6. /\ w.id = "setpoint" => w.value \in Temps
      /\ w.id = "sync" => w.value \in {"on", "off"}
      /\ w.id = "safety" => w.value \in {"on", "off"}
      /\ w.id = "limit" => Bounded(w.value) \in Temps \cup {None}
  BY <1>1, WriteFields, BoundedType DEF Ids, Domain
<1> HIDE DEF w, rest, t
<1>7. task' \in [Callers -> Tasks] /\ TasksOK'
  <2>1. CASE task' = [task EXCEPT ![c] = Done]
    <3> \A d \in Callers : task'[d] = IF d = c THEN Done ELSE task[d]
      BY <1>3, <2>1
    <3> QED
      BY <1>3, <2>1, IdleTask, DoneKeeps, TaskChange DEF HeatingInv
  <2>2. CASE rest # <<>> /\ task' = [task EXCEPT ![c] = t]
    <3> \A d \in Callers : task'[d] = IF d = c THEN t ELSE task[d]
      BY <1>3, <2>2
    <3> QED
      BY <1>3, <1>5, <2>2, TaskChange DEF HeatingInv
  <2> QED
    BY <1>4, <2>1, <2>2
<1>8. queue' \in Seq(Callers)
  <2> Tail(queue) \in Seq(Callers)
    BY <1>3, HeadTailProperties
  <2> Append(Tail(queue), c) \in Seq(Callers)
    BY AppendProperties
  <2> QED
    BY <1>4
<1>9. /\ climate' \in [target : Temps \cup {None}, heating : {"on", "off", None},
                       safety : {"on", "off", None}, limit : Temps \cup {None},
                       memory : Temps \cup {None}, available : BOOLEAN]
      /\ switch' \in [value : {"on", "off", None}, available : BOOLEAN]
      /\ number' \in [value : Temps \cup {None}, available : BOOLEAN]
  <2> DEFINE h == IF w.id = "sync" THEN w.value ELSE climate.heating
             g == IF w.id = "setpoint" THEN w.value ELSE climate.target
             m == IF w.id = "setpoint" THEN w.value ELSE climate.memory
             a == climate.available \/ (rest = <<>> /\ w.id \in {"sync", "setpoint"})
  <2>1. climate \in [target : Temps \cup {None}, heating : {"on", "off", None},
                    safety : {"on", "off", None}, limit : Temps \cup {None},
                    memory : Temps \cup {None}, available : BOOLEAN]
    BY DEF HeatingInv, HeatingTypeOK
  <2>2. climate' = [climate EXCEPT !.heating = h, !.target = g, !.memory = m, !.available = a]
    BY <1>4 DEF ClimateTakes
  <2>3. /\ h \in {"on", "off", None} /\ g \in Temps \cup {None}
        /\ m \in Temps \cup {None} /\ a \in BOOLEAN
    BY <1>6, <2>1
  <2>4. /\ switch' \in [value : {"on", "off", None}, available : BOOLEAN]
        /\ number' \in [value : Temps \cup {None}, available : BOOLEAN]
    BY <1>4, <1>6 DEF HeatingInv, HeatingTypeOK
  <2> HIDE DEF h, g, m, a
  <2> QED
    BY <2>1, <2>2, <2>3, <2>4
<1>10. HeatingTypeOK'
  BY <1>7, <1>8, <1>9 DEF HeatingInv, HeatingTypeOK, Resume, client
<1>11. LinkOK'
  BY DEF HeatingInv, LinkOK, Resume, client
<1> QED
  BY <1>7, <1>10, <1>11 DEF HeatingInv

LEMMA HeatingStep == HeatingInv /\ [HeatingNext]_vars => HeatingInv'
<1> SUFFICES ASSUME HeatingInv, [HeatingNext]_vars PROVE HeatingInv'
  OBVIOUS
<1>1. CASE UNCHANGED vars
  BY <1>1 DEF HeatingInv, HeatingTypeOK, TasksOK, LinkOK, vars, client, commands, entities
<1>2. CASE HeatingNext
  BY <1>2, ConnectKeeps, ProveKeeps, EndSessionKeeps, GraceExpiresKeeps, ReceiveKeeps,
     DeviceChangesKeeps, DeviceReportsKeeps, CallKeeps, SendKeeps, AttemptFailsKeeps,
     GiveUpKeeps, ResumeKeeps DEF HeatingNext
<1> QED
  BY <1>1, <1>2

\* Every variable keeps its type, what a caller has left to do stays in order,
\* with no target above the jumper, and a session that is up has an available
\* client.
THEOREM HeatingTypes == HeatingSpec => []HeatingInv
  BY Initially, HeatingStep, PTL DEF HeatingSpec

-----------------------------------------------------------------------------
\* Live availability.

LEMMA LiveStep ==
    ASSUME HeatingInv, [HeatingNext]_vars, Stale', ~Stale
    PROVE  \/ session = "opening" /\ cache'["setpoint"] # cache["setpoint"]
           \/ \E c \in Callers : task[c] # task'[c] /\ task'[c] = Done
<1> DEFINE Same == /\ available' = available /\ climate'.available = climate.available
                   /\ switch'.available = switch.available
                   /\ number'.available = number.available
<1>1. ~Same
  BY DEF Stale
<1>2. UNCHANGED <<available, entities>> => Same
  BY DEF entities
<1>3. ~SetAvailable(TRUE)
  BY DEF Stale, SetAvailable
<1>4. ~(available /\ SetAvailable(FALSE))
  <2> SUFFICES ASSUME available, SetAvailable(FALSE) PROVE FALSE
    OBVIOUS
  <2>1. /\ climate' = [climate EXCEPT !.available = FALSE]
        /\ switch' = [switch EXCEPT !.available = FALSE]
        /\ number' = [number EXCEPT !.available = FALSE]
    BY DEF HeatingInv, HeatingTypeOK, SetAvailable, ClimateAvailable, SwitchAvailable,
           NumberAvailable
  <2> QED
    BY <2>1 DEF HeatingInv, HeatingTypeOK, Stale
<1>5. CASE Receive
  <2> DEFINE r == Head(inbox)
  <2>1. PICK asked \in BOOLEAN : /\ climate' = ClimateHears(Told(r, asked), r)
                                /\ switch' = SwitchHears(Told(r, asked), r)
                                /\ number' = NumberHears(Told(r, asked), r)
    BY <1>5 DEF Receive
  <2> DEFINE told == Told(r, asked)
  <2>2. available' = available /\ ~available /\ ~switch.available /\ ~number.available
        /\ ~climate.available
    BY <1>5, <1>1 DEF Receive, Stale
  <2>3. ~switch'.available /\ ~number'.available
    <3> HIDE DEF told, r
    <3> QED
      BY <2>1, <2>2 DEF SwitchHears, NumberHears, told, HeatingInv, HeatingTypeOK
  <2>4. climate'.available
    BY <2>3 DEF Stale
  <2>5. "setpoint" \in told
    <3> HIDE DEF told, r
    <3> QED
      BY <2>1, <2>2, <2>4 DEF ClimateHears, told, HeatingInv, HeatingTypeOK
  <2>6. "setpoint" \in DOMAIN r /\ cache["setpoint"] # r["setpoint"]
    BY <2>5 DEF Told
  <2>7. cache'["setpoint"] = r["setpoint"]
    BY <1>5, <2>6 DEF Receive, Ids
  <2>8. session = "opening"
    BY <1>5, <2>2 DEF Receive, HeatingInv, HeatingTypeOK, LinkOK
  <2> QED
    BY <2>6, <2>7, <2>8
<1>6. ASSUME NEW c \in Callers, Call(c) PROVE FALSE
  <2>1. \/ UNCHANGED entities
        \/ climate' = [climate EXCEPT !.memory = Remembered] /\ UNCHANGED <<switch, number>>
    <3>1. HeatingOn(c) => UNCHANGED entities
      BY DEF HeatingOn
    <3>2. \A t \in Temps : SetTemperature(c, t) \/ SetLimit(c, t) => UNCHANGED entities
      BY Zenon DEF SetTemperature, SetLimit
    <3>3. \A v \in {"on", "off"} : SetSafety(c, v) => UNCHANGED entities
      BY Zenon DEF SetSafety
    <3>4. HeatingOff(c) => climate' = [climate EXCEPT !.memory = Remembered]
                           /\ UNCHANGED <<switch, number>>
      BY Zenon DEF HeatingOff
    <3> QED
      BY <1>6, <3>1, <3>2, <3>3, <3>4, Zenon DEF Call
  <2>2. available' = available
    BY <1>6 DEF Call, client
  <2>3. climate'.available = climate.available
    BY <2>1 DEF entities, HeatingInv, HeatingTypeOK
  <2> QED
    BY <1>1, <2>1, <2>2, <2>3 DEF entities
<1>7. ASSUME NEW c \in Callers, GiveUp(c) PROVE task[c] # task'[c] /\ task'[c] = Done
  BY <1>7 DEF GiveUp, HeatingInv, HeatingTypeOK, Done, Idle
<1>8. ASSUME NEW c \in Callers, Resume(c) PROVE task[c] # task'[c] /\ task'[c] = Done
  <2>1. CASE Following(c) = <<>>
    BY <1>8, <2>1 DEF Resume, HeatingInv, HeatingTypeOK, Done, Idle
  <2>2. CASE Following(c) # <<>>
    <3>1. Working(task[c])
      BY <1>8 DEF Resume, Working
    <3>2. Current(c).id \in {"heating", "sync"}
      <4>1. Following(c) = Tail(task[c].todo) \/ Current(c).id = "sync"
        BY DEF Following
      <4> QED
        BY <2>2, <3>1, <4>1, CurrentWrite, TodoTail DEF Current
    <3>3. switch' = switch /\ number' = number /\ available' = available
      BY <1>8, <3>2 DEF Resume, client
    <3>4. ClimateTakes(Current(c), FALSE)
      BY <1>8, <2>2 DEF Resume
    <3>5. climate'.available = climate.available
      BY <3>4 DEF ClimateTakes, HeatingInv, HeatingTypeOK
    <3> QED
      BY <1>1, <3>3, <3>5
  <2> QED
    BY <2>1, <2>2
<1>9. ASSUME NEW c \in Callers, Send(c) \/ AttemptFails(c) PROVE FALSE
  BY <1>1, <1>2, <1>9 DEF Send, AttemptFails, client
<1>10. ASSUME NEW i \in Ids, DeviceChanges(i) \/ DeviceReports(i) PROVE FALSE
  BY <1>1, <1>2, <1>10 DEF DeviceChanges, DeviceReports, client
<1>11. ~UNCHANGED vars
  BY <1>1, <1>2 DEF vars, client
<1>12. ~Connect /\ ~EndSession
  BY <1>1, <1>2 DEF Connect, EndSession
<1>13. ~Prove /\ ~GraceExpires
  BY <1>3, <1>4 DEF Prove, GraceExpires
<1> QED
  BY <1>5, <1>6, <1>7, <1>8, <1>9, <1>10, <1>11, <1>12, <1>13 DEF HeatingNext

\* An entity that is available without the client became so by a target that
\* was reported early, or by a command that ended late.
THEOREM LiveUnlessLate == HeatingSpec => EntitiesAreLive
<1>1. HeatingInv /\ [HeatingNext]_vars =>
        [Stale' /\ ~Stale =>
            \/ session = "opening" /\ cache'["setpoint"] # cache["setpoint"]
            \/ \E c \in Callers : task[c] # task'[c] /\ task'[c] = Done]_vars
  BY LiveStep
<1> QED
  BY <1>1, HeatingTypes, PTL DEF HeatingSpec, EntitiesAreLive

-----------------------------------------------------------------------------
\* Safe targets.

\* The targets that are left to be written.
Targets(s) == {s[k].value : k \in {n \in DOMAIN s : s[n].id = "setpoint"}}

LEMMA TargetsLimited ==
    ASSUME NEW s \in Seq(Writes), TodoOK(s), NEW t \in Targets(s)
    PROVE  t \in Temps /\ t <= Jumper
<1>1. PICK k \in 1 .. Len(s) : s[k].id = "setpoint" /\ t = s[k].value
  BY DEF Targets
<1>2. s[k] \in Writes
  OBVIOUS
<1> QED
  BY <1>1, <1>2, WriteFields DEF TodoOK, Ids, Domain

LEMMA TargetsOfTail ==
    ASSUME NEW s \in Seq(Writes), s # <<>>, TodoOK(s)
    PROVE  Targets(Tail(s)) = {} \/ Targets(Tail(s)) = Targets(s)
<1> DEFINE r == Tail(s)
<1>1. CASE Head(s).id = "setpoint"
  <2>1. r = <<>>
    BY <1>1, TodoTail
  <2> QED
    BY <2>1 DEF Targets
<1>2. CASE Head(s).id # "setpoint"
  <2>1. /\ r \in Seq(Writes) /\ Len(r) = Len(s) - 1 /\ Len(s) \in Nat \ {0} /\ s[1].id # "setpoint"
        /\ \A k \in 1 .. Len(r) : r[k] = s[k + 1]
    BY <1>2, HeadTailProperties, EmptySeq
  <2> HIDE DEF r
  <2>2. ASSUME NEW t \in Targets(r) PROVE t \in Targets(s)
    <3>1. PICK k \in 1 .. Len(r) : r[k].id = "setpoint" /\ t = r[k].value
      BY <2>1 DEF Targets
    <3>2. k + 1 \in 1 .. Len(s) /\ s[k + 1].id = "setpoint" /\ t = s[k + 1].value
      BY <2>1, <3>1
    <3> QED
      BY <3>2 DEF Targets
  <2>3. ASSUME NEW t \in Targets(s) PROVE t \in Targets(r)
    <3>1. PICK k \in 1 .. Len(s) : s[k].id = "setpoint" /\ t = s[k].value
      BY DEF Targets
    <3>2. k - 1 \in 1 .. Len(r) /\ (k - 1) + 1 = k
      BY <2>1, <3>1
    <3>3. r[k - 1].id = "setpoint" /\ t = r[k - 1].value
      BY <2>1, <3>1, <3>2
    <3> QED
      BY <2>1, <3>2, <3>3 DEF Targets
  <2> QED
    BY <2>2, <2>3 DEF r
<1> QED
  BY <1>1, <1>2

LEMMA TargetsOfOne ==
    ASSUME NEW w
    PROVE  Targets(<<w>>) = IF w.id = "setpoint" THEN {w.value} ELSE {}
  BY DEF Targets

LEMMA TargetsOfHeating ==
    ASSUME NEW v, NEW t
    PROVE  /\ Targets(SetHeating(v)) = {}
           /\ Targets(Append(SetHeating(v), Write("setpoint", t))) = {t}
<1> DEFINE h == SetHeating(v)
           s == Append(h, Write("setpoint", t))
<1>1. DOMAIN h = {1, 2} /\ h[1].id = "heating" /\ h[2].id = "sync"
  BY DEF SetHeating, Write
<1>2. /\ DOMAIN s = {1, 2, 3} /\ s[1].id = "heating" /\ s[2].id = "sync"
      /\ s[3].id = "setpoint" /\ s[3].value = t
  BY DEF SetHeating, Write
<1> HIDE DEF h, s
<1>3. Targets(h) = {}
  BY <1>1 DEF Targets
<1>4. Targets(s) = {t}
  BY <1>2 DEF Targets
<1> QED
  BY <1>3, <1>4 DEF h, s

\* What a step makes of the targets of a caller: they stay, they go, or they
\* are new and within the maximum.
Limited(c) ==
    \/ Targets(task'[c].todo) = {}
    \/ Targets(task'[c].todo) = Targets(task[c].todo)
    \/ /\ \A t \in Targets(task'[c].todo) : t <= ClimateMax
       /\ ClimateMax' = ClimateMax

LEMMA CallLimited ==
    ASSUME HeatingInv, NEW c \in Callers, Call(c)
    PROVE  Limited(c)
<1>1. ClimateMax \in MinTemp .. Jumper /\ task \in [Callers -> Tasks]
  BY ClimateMaxLimited DEF HeatingInv, HeatingTypeOK
<1>2. ASSUME NEW op, NEW s, Begin(c, op, s) PROVE task'[c].todo = s
  BY <1>1, <1>2 DEF Begin
<1>3. CASE HeatingOff(c)
  BY <1>2, <1>3, TargetsOfHeating DEF HeatingOff, commands, Limited
<1>4. CASE HeatingOn(c)
  BY <1>2, <1>4, TargetsOfHeating DEF HeatingOn, Limited
<1>5. ASSUME NEW t \in Temps, SetTemperature(c, t) PROVE Limited(c)
  <2> DEFINE x == Clamp(t, ClimateMax)
             w == Write("setpoint", x)
             s == IF climate.heating = "off" THEN Append(SetHeating("on"), w) ELSE <<w>>
  <2>1. x <= ClimateMax
    BY <1>1, Limits
  <2>2. Begin(c, "target", s) /\ UNCHANGED entities
    BY <1>5 DEF SetTemperature
  <2>3. Targets(s) = {x}
    BY TargetsOfHeating, TargetsOfOne DEF Write
  <2>4. ClimateMax' = ClimateMax
    BY <2>2 DEF entities, ClimateMax
  <2> HIDE DEF s, x
  <2>5. Targets(task'[c].todo) = {x}
    BY <1>2, <2>2, <2>3
  <2> QED
    BY <2>1, <2>4, <2>5 DEF Limited
<1>6. ASSUME NEW t \in Temps, SetLimit(c, t) PROVE Limited(c)
  BY <1>2, <1>6, TargetsOfOne DEF SetLimit, Write, Limited
<1>7. ASSUME NEW v \in {"on", "off"}, SetSafety(c, v) PROVE Limited(c)
  BY <1>2, <1>7, TargetsOfOne DEF SetSafety, Write, Limited
<1> QED
  BY <1>3, <1>4, <1>5, <1>6, <1>7 DEF Call

LEMMA ResumeLimited ==
    ASSUME HeatingInv, NEW c \in Callers, Resume(c)
    PROVE  Limited(c)
<1>1. Working(task[c]) /\ task \in [Callers -> Tasks]
  BY DEF Resume, Working, HeatingInv, HeatingTypeOK
<1>2. task'[c].todo = <<>> \/ task'[c].todo = Following(c)
  <2> task[c] \in Tasks /\ Done.todo = <<>>
    BY <1>1 DEF Done, Idle
  <2>1. CASE Following(c) = <<>>
    BY <1>1, <2>1 DEF Resume
  <2>2. CASE Following(c) # <<>>
    <3> DEFINE f == Following(c)
    <3>1. task' = [task EXCEPT ![c].todo = f, ![c].pc = "ready", ![c].attempt = 1]
      BY <2>2 DEF Resume
    <3> HIDE DEF f
    <3>2. task'[c].todo = f
      BY <1>1, <3>1 DEF Tasks
    <3> QED
      BY <3>2 DEF f
  <2> QED
    BY <2>1, <2>2
<1>3. CASE task'[c].todo = <<>>
  BY <1>3 DEF Limited, Targets
<1>4. CASE task'[c].todo = Tail(task[c].todo)
  BY <1>1, <1>4, CurrentWrite, TargetsOfTail DEF Limited
<1>5. CASE Restored # None /\ task'[c].todo = <<Write("setpoint", Restored)>>
  <2>1. ClimateMax \in MinTemp .. Jumper
    BY ClimateMaxLimited DEF HeatingInv
  <2>2. Before \in Temps
    BY <1>5 DEF HeatingInv, HeatingTypeOK, Before, Restored, Ids, Domain
  <2>3. Restored <= ClimateMax
    BY <2>1, <2>2, Limits DEF Restored
  <2>4. ClimateMax' = ClimateMax
    BY DEF Resume, ClimateTakes, ClimateMax, HeatingInv, HeatingTypeOK
  <2> HIDE DEF Restored
  <2>5. Targets(task'[c].todo) = {Restored}
    BY <1>5, TargetsOfOne DEF Write
  <2> QED
    BY <2>3, <2>4, <2>5 DEF Limited
<1> QED
  BY <1>2, <1>3, <1>4, <1>5 DEF Following

LEMMA StepLimited ==
    ASSUME HeatingInv, [HeatingNext]_vars, NEW c \in Callers
    PROVE  Limited(c)
<1>1. task \in [Callers -> Tasks]
  BY DEF HeatingInv, HeatingTypeOK
<1>2. task'[c].todo = task[c].todo => Limited(c)
  BY DEF Limited
<1>3. CASE \/ Connect \/ Prove \/ GraceExpires \/ UNCHANGED vars
           \/ \E i \in Ids : DeviceChanges(i) \/ DeviceReports(i)
  BY <1>2, <1>3 DEF Connect, Prove, GraceExpires, DeviceChanges, DeviceReports, commands, vars
<1>4. CASE EndSession
  BY <1>1, <1>2, <1>4 DEF EndSession, Fail, Tasks
<1>5. CASE Receive
  BY <1>1, <1>2, <1>5 DEF Receive, Tasks
<1>6. ASSUME NEW d \in Callers, Send(d) \/ AttemptFails(d) PROVE Limited(c)
  <2>1. CASE Send(d)
    <3> PICK pc : task' = [task EXCEPT ![d].pc = pc]
      BY <2>1 DEF Send
    <3> QED
      BY <1>1, <1>2 DEF Tasks
  <2>2. CASE AttemptFails(d)
    BY <1>1, <1>2, <2>2 DEF AttemptFails, Tasks
  <2> QED
    BY <1>6, <2>1, <2>2
<1>7. ASSUME NEW d \in Callers, d # c, Call(d) \/ GiveUp(d) \/ Resume(d) PROVE Limited(c)
  <2> task'[c] = task[c]
    BY <1>1, <1>7 DEF Call, GiveUp, Resume, HeatingOff, HeatingOn, SetTemperature, SetLimit,
                      SetSafety, Begin, commands
  <2> QED
    BY <1>2
<1>8. CASE GiveUp(c)
  BY <1>1, <1>8 DEF GiveUp, Done, Idle, Limited, Targets
<1> QED
  BY <1>3, <1>4, <1>5, <1>6, <1>7, <1>8, CallLimited, ResumeLimited DEF HeatingNext

LEMMA Between ==
    ASSUME NEW q \in Int, NEW m \in Int, NEW n \in Int, q > n
    PROVE  ~(q > m) => n < m
  OBVIOUS

LEMMA SafeStep ==
    ASSUME HeatingInv, HeatingInv', [HeatingNext]_vars, NEW c \in Callers
    PROVE  /\ Pending(c)' # None => Pending(c)' <= Jumper
           /\ Exceeds(c)' /\ ~Exceeds(c) => ClimateMax' < ClimateMax
<1> DEFINE old == Targets(task[c].todo)
           new == Targets(task'[c].todo)
<1>1. ClimateMax \in Int /\ ClimateMax' \in Int
  <2>1. ClimateMax \in MinTemp .. Jumper /\ (ClimateMax \in MinTemp .. Jumper)'
    BY ClimateMaxLimited, PTL DEF HeatingInv
  <2> QED
    BY <2>1
<1>2. /\ \A t \in old : t \in Int
      /\ \A t \in new : t \in Int /\ t <= Jumper
  <2>1. /\ task[c].todo \in Seq(Writes) /\ TodoOK(task[c].todo)
        /\ task'[c].todo \in Seq(Writes) /\ TodoOK(task'[c].todo)
    BY DEF HeatingInv, HeatingTypeOK, Tasks, TasksOK
  <2> QED
    BY <2>1, TargetsLimited
<1>3. /\ Pending(c) = IF old = {} THEN None ELSE CHOOSE t \in old : TRUE
      /\ Pending(c)' = IF new = {} THEN None ELSE CHOOSE t \in new : TRUE
  BY DEF Pending, Targets
<1>4. /\ old # {} => Pending(c) \in old
      /\ new # {} => Pending(c)' \in new
      /\ old = {} => Pending(c) = None
      /\ new = {} => Pending(c)' = None
      /\ old = new => Pending(c)' = Pending(c)
  <2> HIDE DEF old, new
  <2>1. \A S : S # {} => (CHOOSE t \in S : TRUE) \in S
    BY Zenon
  <2>2. (old # {} => Pending(c) \in old) /\ (new # {} => Pending(c)' \in new)
    BY <1>3, <2>1, Zenon
  <2>3. (old = {} => Pending(c) = None) /\ (new = {} => Pending(c)' = None)
    BY <1>3, Zenon
  <2>4. ASSUME old = new PROVE Pending(c)' = Pending(c)
    <3> DEFINE Pick(S) == IF S = {} THEN None ELSE CHOOSE t \in S : TRUE
    <3>1. Pending(c) = Pick(old) /\ Pending(c)' = Pick(new)
      BY <1>3
    <3> HIDE DEF Pick
    <3> QED
      BY <2>4, <3>1
  <2> QED
    BY <2>2, <2>3, <2>4
<1>5. \/ new = {} \/ new = old
      \/ (\A t \in new : t <= ClimateMax) /\ ClimateMax' = ClimateMax
  BY StepLimited DEF Limited
<1> HIDE DEF old, new
<1>6. Pending(c)' # None => Pending(c)' <= Jumper
  BY <1>2, <1>4
<1>7. ASSUME Exceeds(c)', ~Exceeds(c) PROVE ClimateMax' < ClimateMax
  <2> DEFINE p == Pending(c)
             q == Pending(c)'
             m == ClimateMax
             n == ClimateMax'
  <2>1. q # None /\ q > n /\ (p = None \/ ~(p > m))
    BY <1>7 DEF Exceeds
  <2>2. new # {} /\ q \in new /\ q \in Int
    BY <1>2, <1>4, <2>1
  <2>3. new = old \/ (q <= m /\ n = m)
    BY <1>5, <2>2
  <2>4. CASE new = old
    <3>1. p = q /\ p # None
      BY <1>4, <2>1, <2>2, <2>4
    <3>2. q \in Int /\ q > n /\ ~(q > m)
      BY <2>1, <2>2, <3>1
    <3> QED
      BY <1>1, <3>2, Between
  <2>5. CASE q <= m /\ n = m
    <3>1. q \in Int /\ q > n /\ q <= m /\ n = m
      BY <2>1, <2>2, <2>5
    <3> QED
      BY <1>1, <3>1, Between
  <2> QED
    BY <2>3, <2>4, <2>5
<1> QED
  BY <1>6, <1>7

\* No target above the jumper is written, and none above what the child safety
\* allows, unless that was lowered meanwhile.
THEOREM TargetsAreSafe == HeatingSpec => SafeSetpoint
<1>1. HeatingInv /\ HeatingInv' /\ [HeatingNext]_vars =>
        [\A c \in Callers :
            /\ Pending(c)' # None => Pending(c)' <= Jumper
            /\ Exceeds(c)' /\ ~Exceeds(c) => ClimateMax' < ClimateMax]_vars
  BY SafeStep
<1> QED
  BY <1>1, HeatingTypes, PTL DEF HeatingSpec, SafeSetpoint

-----------------------------------------------------------------------------
\* Shown values.

ShownInv == ShownIsReported /\ ResultsKnown

\* A step that leaves the values of the client and of the entities alone, and
\* confirms nothing new, keeps what is shown.
LEMMA ShownStays ==
    ASSUME ShownInv, cache' = cache, overtaken' = overtaken,
           climate'.safety = climate.safety, climate'.limit = climate.limit,
           climate'.target = climate.target, climate'.heating = climate.heating,
           switch'.value = switch.value, number'.value = number.value,
           \A c \in Callers :
              \/ ~Working(task'[c])
              \/ /\ task'[c].todo = task[c].todo /\ Working(task[c])
                 /\ task'[c].pc = "confirmed" =>
                        task[c].pc = "confirmed" \/ Current(c).id = "sync"
              \/ task'[c].pc # "confirmed" /\ Head(task'[c].todo).id # "sync"
    PROVE  ShownInv'
<1>1. ShownIsReported'
  BY DEF ShownInv, ShownIsReported
<1>2. ResultsKnown'
  BY DEF ShownInv, ResultsKnown, Current, Ids
<1> QED
  BY <1>1, <1>2 DEF ShownInv

\* A step confirms no write of a caller, and leaves what it has to do.
Unconfirmed(c) ==
    /\ task'[c].todo = task[c].todo
    /\ Working(task'[c]) => Working(task[c])
    /\ task'[c].pc = "confirmed" => task[c].pc = "confirmed" \/ Current(c).id = "sync"

LEMMA ShownWaits ==
    ASSUME ShownInv, cache' = cache, overtaken' = overtaken, UNCHANGED entities,
           \A c \in Callers : Unconfirmed(c)
    PROVE  ShownInv'
<1>1. ShownIsReported'
  BY DEF ShownInv, ShownIsReported, entities
<1>2. ResultsKnown'
  BY DEF ShownInv, ResultsKnown, Current, Ids, Unconfirmed
<1> QED
  BY <1>1, <1>2 DEF ShownInv

LEMMA ShownInitially == HeatingInit => ShownInv
<1> SUFFICES ASSUME HeatingInit PROVE ShownInv
  OBVIOUS
<1>1. \A i \in Ids : cache[i] = None
  BY DEF HeatingInit
<1>2. ShownIsReported
  BY <1>1 DEF HeatingInit, ShownIsReported, Ids, Bounded
<1>3. ResultsKnown
  BY DEF HeatingInit, ResultsKnown, Working, Idle
<1> QED
  BY <1>2, <1>3 DEF ShownInv

LEMMA ReceiveShown ==
    ASSUME HeatingInv, ShownInv, Receive
    PROVE  ShownInv'
<1> DEFINE r == Head(inbox)
<1>1. PICK asked \in BOOLEAN :
         LET told == Told(r, asked)
         IN  /\ climate' = ClimateHears(told, r) /\ switch' = SwitchHears(told, r)
             /\ number' = NumberHears(told, r)
             /\ overtaken' = {i \in overtaken \cup told : i \notin told \/ Unshown(i)}
  BY DEF Receive
<1> DEFINE told == Told(r, asked)
<1>2. /\ climate' = ClimateHears(told, r) /\ switch' = SwitchHears(told, r)
      /\ number' = NumberHears(told, r)
      /\ overtaken' = {i \in overtaken \cup told : i \notin told \/ Unshown(i)}
  BY <1>1
<1>3. ASSUME NEW i \in Ids
      PROVE  /\ i \in told => cache'[i] = r[i]
             /\ i \notin told => cache'[i] = cache[i]
             /\ i \notin told => (i \in overtaken' <=> i \in overtaken)
             /\ i \in told => (i \in overtaken' <=> Unshown(i))
             /\ i \in DOMAIN r => cache'[i] = r[i]
  <2>1. cache'[i] = IF i \in DOMAIN r THEN r[i] ELSE cache[i]
    BY DEF Receive
  <2>2. /\ i \in told => i \in DOMAIN r
        /\ i \notin told /\ i \in DOMAIN r => cache[i] = r[i]
    BY DEF Told
  <2> HIDE DEF told, r
  <2> QED
    BY <1>2, <2>1, <2>2
<1>4. /\ climate'.safety = IF "safety" \in told THEN r["safety"] ELSE climate.safety
      /\ climate'.limit = IF "limit" \in told THEN Bounded(r["limit"]) ELSE climate.limit
      /\ climate'.target = IF "setpoint" \in told THEN r["setpoint"] ELSE climate.target
      /\ climate'.heating = IF "heating" \in told THEN r["heating"] ELSE climate.heating
      /\ switch'.value = IF "safety" \in told THEN r["safety"] ELSE switch.value
      /\ number'.value = IF "limit" \in told THEN Bounded(r["limit"]) ELSE number.value
  <2> HIDE DEF told, r
  <2> QED
    BY <1>2 DEF HeatingInv, HeatingTypeOK, ClimateHears, SwitchHears, NumberHears
<1>5. ASSUME NEW c \in Callers
      PROVE  \/ task'[c] = task[c]
             \/ /\ task[c].pc = "wait" /\ Current(c).id \in DOMAIN r
                /\ r[Current(c).id] = Current(c).value
                /\ task'[c].pc = "confirmed" /\ task'[c].todo = task[c].todo
  BY DEF HeatingInv, HeatingTypeOK, Receive, Confirms, Tasks
<1> HIDE DEF told, r
<1>6. ShownIsReported'
  BY <1>3, <1>4 DEF ShownInv, ShownIsReported, Ids
<1>7. ASSUME NEW c \in Callers, NEW i \in Ids \ overtaken', Working(task'[c])
      PROVE  LET w == Head(task'[c].todo)
             IN  /\ task'[c].pc = "confirmed" /\ w.id = i => cache'[i] = w.value
                 /\ i = "heating" /\ w.id = "sync" => cache'[i] = w.value
  <2> DEFINE w == Head(task'[c].todo)
  <2>1. w = Current(c) /\ Working(task[c])
    BY <1>5, <1>7 DEF Current, Working
  <2>2. ASSUME w.id = i, task[c].pc = "confirmed" PROVE cache'[i] = w.value
    <3>1. Unshown(i)
      BY <2>1, <2>2 DEF Unshown
    <3>2. i \notin told /\ i \notin overtaken
      BY <1>3, <3>1, <1>7
    <3>3. cache[i] = w.value
      BY <2>1, <2>2, <3>2 DEF ShownInv, ResultsKnown
    <3> QED
      BY <1>3, <3>2, <3>3
  <2>3. ASSUME i = "heating", w.id = "sync" PROVE cache'[i] = w.value
    <3>1. Unshown(i)
      <4> task[c].todo # <<>>
        BY <2>1, CurrentWrite
      <4> QED
        BY <2>1, <2>3 DEF Unshown
    <3>2. i \notin told /\ i \notin overtaken
      BY <1>3, <3>1, <1>7
    <3>3. cache[i] = w.value
      BY <2>1, <2>3, <3>2 DEF ShownInv, ResultsKnown
    <3> QED
      BY <1>3, <3>2, <3>3
  <2>4. ASSUME w.id = i, task[c].pc # "confirmed", task'[c].pc = "confirmed"
        PROVE  cache'[i] = w.value
    <3>1. i \in DOMAIN r /\ r[i] = w.value
      BY <1>5, <2>1, <2>4
    <3> QED
      BY <1>3, <3>1
  <2> QED
    BY <2>2, <2>3, <2>4
<1>8. ResultsKnown'
  BY <1>7 DEF ResultsKnown, Current, Ids
<1> QED
  BY <1>6, <1>8 DEF ShownInv

LEMMA CallShown ==
    ASSUME HeatingInv, ShownInv, NEW c \in Callers, Call(c)
    PROVE  ShownInv'
<1>1. task \in [Callers -> Tasks] /\ \A d \in Callers : Working(task[d]) => Current(d) \in Writes
  BY CurrentWrite DEF HeatingInv, HeatingTypeOK
<1> DEFINE Starts == \/ UNCHANGED task
                    \/ \E op : \E s : /\ task' = [task EXCEPT ![c] =
                                          [op |-> op, todo |-> s, pc |-> "ready", attempt |-> 1]]
                                       /\ Head(s).id # "sync"
<1>2. ClimateMax \in MinTemp .. Jumper
  BY ClimateMaxLimited DEF HeatingInv
<1>3. ASSUME NEW op, NEW s, Begin(c, op, s), Head(s).id # "sync" PROVE Starts
  BY <1>3 DEF Begin
<1>4. \A v \in {"on", "off"} : \A t \in MinTemp .. Jumper :
          /\ Head(SetHeating(v)).id # "sync"
          /\ Head(Append(SetHeating(v), Write("setpoint", t))).id # "sync"
  BY HeatingWrites
<1>5. \A i : \A v : i # "sync" => Head(<<Write(i, v)>>).id # "sync"
  BY DEF Write
<1> HIDE DEF Starts
<1>6. HeatingOff(c) => Starts
  <2>1. Begin(c, "off", SetHeating("off")) => Starts
    BY <1>2, <1>3, <1>4
  <2>2. UNCHANGED commands => Starts
    BY DEF commands, Starts
  <2> QED
    BY <2>1, <2>2 DEF HeatingOff
<1>7. HeatingOn(c) => Starts
  BY <1>2, <1>3, <1>4 DEF HeatingOn
<1>8. ASSUME NEW t \in Temps, SetTemperature(c, t) PROVE Starts
  <2> DEFINE x == Clamp(t, ClimateMax)
             s == IF climate.heating = "off"
                  THEN Append(SetHeating("on"), Write("setpoint", x)) ELSE <<Write("setpoint", x)>>
  <2>1. x \in MinTemp .. Jumper
    BY <1>2, Limits, SMT DEF Clamp, Higher, Lower
  <2> HIDE DEF x
  <2>2. Head(s).id # "sync"
    BY <1>4, <1>5, <2>1
  <2>3. Begin(c, "target", s)
    BY <1>8, Zenon DEF SetTemperature, x
  <2> HIDE DEF s
  <2> QED
    BY <1>3, <2>2, <2>3
<1>9. ASSUME NEW t \in Temps, SetLimit(c, t) PROVE Starts
  BY <1>3, <1>5, <1>9 DEF SetLimit
<1>10. ASSUME NEW v \in {"on", "off"}, SetSafety(c, v) PROVE Starts
  BY <1>3, <1>5, <1>10 DEF SetSafety
<1>11. Starts
  BY <1>6, <1>7, <1>8, <1>9, <1>10 DEF Call
<1>12. /\ cache' = cache /\ overtaken' = overtaken
       /\ switch' = switch /\ number' = number
       /\ climate' = climate \/ climate' = [climate EXCEPT !.memory = Remembered]
  <2>1. HeatingOn(c) => UNCHANGED entities
    BY DEF HeatingOn
  <2>2. \A t \in Temps : SetTemperature(c, t) \/ SetLimit(c, t) => UNCHANGED entities
    BY Zenon DEF SetTemperature, SetLimit
  <2>3. \A v \in {"on", "off"} : SetSafety(c, v) => UNCHANGED entities
    BY Zenon DEF SetSafety
  <2>4. HeatingOff(c) => climate' = [climate EXCEPT !.memory = Remembered]
                         /\ UNCHANGED <<switch, number>>
    BY Zenon DEF HeatingOff
  <2> QED
    BY <2>1, <2>2, <2>3, <2>4, Zenon DEF Call, client, entities
<1>13. /\ climate'.safety = climate.safety /\ climate'.limit = climate.limit
       /\ climate'.target = climate.target /\ climate'.heating = climate.heating
  BY <1>12 DEF HeatingInv, HeatingTypeOK
<1>14. ASSUME NEW d \in Callers
       PROVE  \/ task'[d] = task[d]
              \/ task'[d].pc # "confirmed" /\ Head(task'[d].todo).id # "sync"
  BY <1>1, <1>11 DEF Starts
<1> QED
  BY <1>12, <1>13, <1>14, ShownStays

LEMMA ResumeShown ==
    ASSUME HeatingInv, ShownInv, NEW c \in Callers, Resume(c)
    PROVE  ShownInv'
<1> DEFINE w == Current(c)
           rest == Following(c)
           t == [task[c] EXCEPT !.todo = rest, !.pc = "ready", !.attempt = 1]
<1>1. /\ Working(task[c]) /\ task[c].pc = "confirmed" /\ task \in [Callers -> Tasks]
      /\ task[c] \in Tasks /\ w \in Writes
  BY CurrentWrite DEF Resume, Working, HeatingInv, HeatingTypeOK
<1>2. \/ rest = <<>> /\ task' = [task EXCEPT ![c] = Done]
      \/ rest # <<>> /\ task' = [task EXCEPT ![c] = t]
  BY <1>1 DEF Resume
<1>3. ASSUME NEW i \in Ids \ overtaken
      PROVE  (w.id = i => cache[i] = w.value) /\ (i = "heating" /\ w.id = "sync" => cache[i] = w.value)
  BY <1>1 DEF ShownInv, ResultsKnown
<1>4. /\ cache' = cache /\ overtaken' = overtaken
      /\ climate' = [climate EXCEPT
            !.heating   = IF w.id = "sync" THEN w.value ELSE @,
            !.target    = IF w.id = "setpoint" THEN w.value ELSE @,
            !.memory    = IF w.id = "setpoint" THEN w.value ELSE @,
            !.available = @ \/ (rest = <<>> /\ w.id \in {"sync", "setpoint"})]
      /\ switch' = IF w.id = "safety" THEN [value |-> w.value, available |-> TRUE] ELSE switch
      /\ number' = IF w.id = "limit" THEN [value |-> Bounded(w.value), available |-> TRUE]
                   ELSE number
  BY DEF Resume, client, ClimateTakes
<1>5. ASSUME rest # <<>>, Head(rest).id = "sync"
      PROVE  w.id = "heating" /\ Head(rest).value = w.value
  <2>1. rest = Tail(task[c].todo)
    BY <1>5 DEF Following, Write
  <2>2. task[c].todo \in Seq(Writes) /\ task[c].todo # <<>> /\ TodoOK(task[c].todo)
    BY <1>1, CurrentWrite
  <2> QED
    BY <1>5, <2>1, <2>2, TodoTail, SMTT(60) DEF Current, Write
<1> HIDE DEF w, rest
<1>6. ShownIsReported'
  <2>1. /\ climate'.safety = climate.safety /\ climate'.limit = climate.limit
        /\ climate'.target = IF w.id = "setpoint" THEN w.value ELSE climate.target
        /\ climate'.heating = IF w.id = "sync" THEN w.value ELSE climate.heating
        /\ switch'.value = IF w.id = "safety" THEN w.value ELSE switch.value
        /\ number'.value = IF w.id = "limit" THEN Bounded(w.value) ELSE number.value
    BY <1>4 DEF HeatingInv, HeatingTypeOK
  <2> QED
    BY <1>3, <1>4, <2>1 DEF ShownInv, ShownIsReported, Ids
<1>7. ASSUME NEW d \in Callers, NEW i \in Ids \ overtaken, Working(task'[d])
      PROVE  LET x == Head(task'[d].todo)
             IN  /\ task'[d].pc = "confirmed" /\ x.id = i => cache[i] = x.value
                 /\ i = "heating" /\ x.id = "sync" => cache[i] = x.value
  <2>1. CASE d # c
    <3> task'[d] = task[d]
      BY <1>1, <1>2, <2>1
    <3> QED
      BY <1>7 DEF ShownInv, ResultsKnown, Current
  <2>2. CASE d = c
    <3>1. rest # <<>> /\ task'[d] = t
      BY <1>1, <1>2, <1>7, <2>2, DoneKeeps DEF Done, Idle, Working
    <3>2. task'[d].pc = "ready" /\ task'[d].todo = rest
      BY <1>1, <3>1 DEF Tasks
    <3> QED
      BY <1>3, <1>5, <3>1, <3>2
  <2> QED
    BY <2>1, <2>2
<1>8. ResultsKnown'
  BY <1>4, <1>7 DEF ResultsKnown, Current
<1> QED
  BY <1>6, <1>8 DEF ShownInv

LEMMA ShownStep == HeatingInv /\ ShownInv /\ [HeatingNext]_vars => ShownInv'
<1> SUFFICES ASSUME HeatingInv, ShownInv, [HeatingNext]_vars PROVE ShownInv'
  OBVIOUS
<1>1. task \in [Callers -> Tasks]
  BY DEF HeatingInv, HeatingTypeOK
<1>2. ASSUME UNCHANGED <<cache, overtaken, task, entities>> PROVE ShownInv'
  BY <1>2, ShownStays DEF entities
<1>3. CASE \/ Connect \/ UNCHANGED vars \/ \E i \in Ids : DeviceChanges(i) \/ DeviceReports(i)
  BY <1>2, <1>3 DEF Connect, DeviceChanges, DeviceReports, vars, client, commands
<1>4. CASE Prove \/ GraceExpires
  <2>1. /\ climate'.safety = climate.safety /\ climate'.limit = climate.limit
        /\ climate'.target = climate.target /\ climate'.heating = climate.heating
        /\ switch'.value = switch.value /\ number'.value = number.value
    BY <1>4 DEF Prove, GraceExpires, SetAvailable, ClimateAvailable, SwitchAvailable,
                NumberAvailable, entities, HeatingInv, HeatingTypeOK
  <2>2. cache' = cache /\ overtaken' = overtaken /\ task' = task
    BY <1>4 DEF Prove, GraceExpires, commands
  <2> QED
    BY <2>1, <2>2, ShownStays
<1>5. CASE EndSession
  <2>1. \A c \in Callers : Unconfirmed(c)
    BY <1>1, <1>5 DEF EndSession, Fail, Tasks, Working, Unconfirmed
  <2>2. cache' = cache /\ overtaken' = overtaken /\ UNCHANGED entities
    BY <1>5 DEF EndSession
  <2> QED
    BY <2>1, <2>2, ShownWaits
<1>6. ASSUME NEW c \in Callers, Send(c) PROVE ShownInv'
  <2>1. PICK pc \in {"wait", "confirmed"} :
            /\ task' = [task EXCEPT ![c].pc = pc]
            /\ pc = "confirmed" => Current(c).id = "sync"
    BY <1>6 DEF Send
  <2>2. Working(task[c])
    BY <1>6 DEF Send, Working
  <2>3. \A d \in Callers : Unconfirmed(d)
    BY <1>1, <2>1, <2>2 DEF Tasks, Unconfirmed
  <2>4. cache' = cache /\ overtaken' = overtaken /\ UNCHANGED entities
    BY <1>6 DEF Send, client
  <2> QED
    BY <2>3, <2>4, ShownWaits
<1>7. ASSUME NEW c \in Callers, AttemptFails(c) PROVE ShownInv'
  <2>1. \A d \in Callers : Unconfirmed(d)
    BY <1>1, <1>7 DEF AttemptFails, Tasks, Working, Unconfirmed
  <2>2. cache' = cache /\ overtaken' = overtaken /\ UNCHANGED entities
    BY <1>7 DEF AttemptFails
  <2> QED
    BY <2>1, <2>2, ShownWaits
<1>8. ASSUME NEW c \in Callers, GiveUp(c) PROVE ShownInv'
  <2>1. \A d \in Callers : task'[d] = task[d] \/ ~Working(task'[d])
    BY <1>1, <1>8 DEF GiveUp, Done, Idle, Working
  <2>2. cache' = cache /\ overtaken' = overtaken
    BY <1>8 DEF GiveUp, client
  <2>3. /\ climate'.safety = climate.safety /\ climate'.limit = climate.limit
        /\ climate'.target = climate.target /\ climate'.heating = climate.heating
        /\ switch'.value = switch.value /\ number'.value = number.value
    BY <1>8 DEF GiveUp, HeatingInv, HeatingTypeOK
  <2> QED
    BY <2>1, <2>2, <2>3, ShownStays
<1> QED
  BY <1>3, <1>4, <1>5, <1>6, <1>7, <1>8, ReceiveShown, CallShown, ResumeShown DEF HeatingNext

\* Each entity shows the last reported value, unless a report came between the
\* confirmation of a command and its result being shown.
THEOREM ShownValuesAreReported == HeatingSpec => []ShownIsReported
<1>1. ShownInv => ShownIsReported
  BY DEF ShownInv
<1> QED
  BY <1>1, ShownInitially, ShownStep, HeatingTypes, PTL DEF HeatingSpec

=============================================================================
