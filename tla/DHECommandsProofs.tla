------------------------- MODULE DHECommandsProofs -------------------------
(***************************************************************************)
(* Proofs about DHECommands, for any callers, prices and bounds.           *)
(***************************************************************************)
EXTENDS DHECommands, TLAPS

USE CommandAssumption

\* Where a caller is between taking the lock and giving it back.
Holding == {"ready", "wait", "failed", "pause", "cancelled", "confirmed"}

(***************************************************************************)
(* A caller that is past the lock holds it, and a command never writes     *)
(* back what it does not know.                                             *)
(***************************************************************************)
LockInv ==
    /\ \A c \in Callers : pc[c] \in Holding => lock = c
    /\ \A c \in Callers : pc[c] = "idle" => mode[c] = "forward"
    /\ \A c \in Callers :
          mode[c] # "forward" /\ pc[c] \in Active \cup {"confirmed"}
              => old[c][current[c]] # None

CommandInv == CommandTypeOK /\ LockInv /\ PendingIsOwn

LEMMA PricesAreNumbers ==
    \A p \in Prices : Values(p) \in [Ids -> Numbers] /\ p.euros \in Numbers /\ p.cents \in Numbers
<1>1. \A p \in Prices : p["euros"] \in Numbers /\ p["cents"] \in Numbers
  BY DEF Numbers
<1>2. ASSUME NEW p \in Prices PROVE Values(p) \in [Ids -> Numbers]
  BY <1>1 DEF Values, Ids, Components
<1> QED
  BY <1>1, <1>2

LEMMA HeadAndTail ==
    ASSUME NEW S, NEW s \in Seq(S), s # <<>>
    PROVE  Head(s) \in S /\ Tail(s) \in Seq(S)
OBVIOUS

LEMMA PacketTypes ==
    /\ \A j \in Ids, v \in Numbers : Assign(j, v) \in Packets
    /\ \A j \in Ids : Get(j) \in Packets
BY DEF Assign, Get, Packets

\* What a caller is to write is a number.
LEMMA WantedIsKnown ==
    ASSUME CommandInv, NEW c \in Callers, pc[c] \in Active \cup {"confirmed"}
    PROVE  current[c] \in Ids /\ Wanted(c) \in Numbers
<1>1. /\ current[c] \in Ids /\ target[c] \in [Ids -> Numbers]
      /\ old[c] \in [Ids -> Numbers \cup {None}]
  BY DEF CommandInv, CommandTypeOK
<1>2. mode[c] # "forward" => old[c][current[c]] # None
  BY DEF CommandInv, LockInv
<1>3. CASE mode[c] = "forward"
  BY <1>1, <1>3 DEF Wanted
<1>4. CASE mode[c] # "forward"
  BY <1>1, <1>2, <1>4 DEF Wanted
<1> QED
  BY <1>1, <1>3, <1>4

\* Only the caller that holds the lock waits, so that no other one does.
LEMMA OnlyHolderWaits ==
    ASSUME CommandInv, NEW c \in Callers, pc[c] \in Holding
    PROVE  /\ lock = c
           /\ pending.owner # None => pending.owner = c /\ pc[c] = "wait"
           /\ \A d \in Callers : pc[d] = "wait" => d = c
BY DEF CommandInv, LockInv, PendingIsOwn, Holding

LEMMA TypeInit == CommandInit => CommandInv
<1> SUFFICES ASSUME CommandInit PROVE CommandInv
  OBVIOUS
<1> USE DEF CommandInit, transit, calls, history
<1>1. Values(StartPrice) \in [Ids -> Numbers]
  BY PricesAreNumbers
<1>2. device \in [Ids -> Numbers] /\ cache \in [Ids -> Numbers \cup {None}]
  BY <1>1
<1>3. CommandTypeOK
  BY <1>2 DEF CommandTypeOK, Ids
<1>4. LockInv /\ PendingIsOwn
  BY DEF LockInv, PendingIsOwn, Holding, NoPending
<1> QED
  BY <1>3, <1>4 DEF CommandInv

LEMMA TypeStep == CommandInv /\ [CommandNext]_vars => CommandTypeOK'
<1> SUFFICES ASSUME CommandInv, [CommandNext]_vars PROVE CommandTypeOK'
  OBVIOUS
<1> USE DEF CommandTypeOK, calls, transit, history
<1>0. CommandTypeOK
  BY DEF CommandInv
<1>1. ASSUME NEW c \in Callers, NEW p \in Prices, Call(c, p) PROVE CommandTypeOK'
  <2>1. Values(p) \in [Ids -> Numbers] /\ Append(waiting, c) \in Seq(Callers)
    BY <1>0, PricesAreNumbers
  <2>2. /\ target' \in [Callers -> [Ids -> Numbers]] /\ waiting' \in Seq(Callers)
        /\ pc' \in [Callers -> {"idle", "confirmed"} \cup Active \cup Ended]
    BY <1>0, <1>1, <2>1 DEF Call, AskLock, Active
  <2>3. current' \in [Callers -> Ids]
    BY <1>0, <1>1 DEF Call, AskLock, Ids, Components
  <2>4. CASE c \in PriceCallers
    <3>1. before' \in [Components -> Numbers] \cup {None}
      BY <1>0, <1>1, <2>4 DEF Call, Components, Ids
    <3>2. old' \in [Callers -> [Ids -> Numbers \cup {None}]]
      BY <1>0, <1>1, <2>4 DEF Call
    <3>3. alone' \in PriceCallers \cup {None} /\ premature' \in {"no", "yes"}
      BY <1>1, <2>4 DEF Call
    <3> QED
      BY <1>0, <1>1, <2>2, <2>3, <3>1, <3>2, <3>3 DEF Call
  <2>5. CASE c \notin PriceCallers
    BY <1>0, <1>1, <2>2, <2>3, <2>5 DEF Call
  <2> QED
    BY <2>4, <2>5
<1>2. ASSUME NEW c \in Callers, TakeLock(c) PROVE CommandTypeOK'
  <2>1. waiting' \in Seq(Callers)
    BY <1>0, <1>2 DEF TakeLock
  <2> QED
    BY <1>0, <1>2, <2>1 DEF TakeLock, Active
<1>3. ASSUME NEW c \in Callers, SendWrite(c) PROVE CommandTypeOK'
  <2>1. Wanted(c) \in Numbers /\ current[c] \in Ids
    BY <1>3, WantedIsKnown DEF SendWrite, Active
  <2>2. <<Assign(current[c], Wanted(c)), Get(current[c])>> \in Seq(Packets)
    BY <2>1, PacketTypes
  <2>3. outbox' \in Seq(Packets)
    BY <1>0, <1>3, <2>2 DEF SendWrite
  <2> QED
    BY <1>0, <1>3, <2>1, <2>3 DEF SendWrite, Active
<1>4. ASSUME NEW c \in Callers, AttemptFails(c) PROVE CommandTypeOK'
  BY <1>0, <1>4 DEF AttemptFails, ClearPending, Clear, Active
<1>5. ASSUME NEW c \in Callers, EndPause(c) PROVE CommandTypeOK'
  BY <1>0, <1>5 DEF EndPause, Active
<1>6. ASSUME NEW c \in Callers, WriteDone(c) PROVE CommandTypeOK'
  <2>1. Append(waiting, c) \in Seq(Callers)
    BY <1>0
  <2>2. ASSUME NEW i \in Ids, AskLock(c, i) PROVE CommandTypeOK'
    BY <1>0, <1>6, <2>1, <2>2 DEF WriteDone, AskLock, Unlock, Active
  <2>3. ASSUME NEW how \in Ended, End(c, how) PROVE CommandTypeOK'
    BY <1>0, <1>6, <2>3 DEF WriteDone, End, Unlock
  <2> QED
    BY <1>6, <2>2, <2>3 DEF WriteDone, Ids, Components, Ended
<1>7. ASSUME NEW c \in Callers, WriteFails(c) PROVE CommandTypeOK'
  <2>1. Append(waiting, c) \in Seq(Callers)
    BY <1>0
  <2>2. ASSUME NEW i \in Ids, AskLock(c, i) PROVE CommandTypeOK'
    BY <1>0, <1>7, <2>1, <2>2 DEF WriteFails, AskLock, Unlock, ClearPending, Active
  <2>3. ASSUME NEW how \in Ended, End(c, how) PROVE CommandTypeOK'
    BY <1>0, <1>7, <2>3 DEF WriteFails, End, Unlock, ClearPending
  <2>4. FirstRollback(c, current[c]) \in Ids \cup {None}
    BY DEF FirstRollback, Ids, Components
  <2> QED
    BY <1>7, <2>2, <2>3, <2>4 DEF WriteFails, Ids, Components, Ended
<1>8. ASSUME NEW c \in Callers, Cancelled(c) PROVE CommandTypeOK'
  BY <1>0, <1>8 DEF Cancelled, End, Unlock, Ended
<1>9. CASE Connect
  <2>1. <<Get("euros"), Get("cents")>> \in Seq(Packets) /\ <<>> \in Seq(Reports)
    BY PacketTypes DEF Ids, Components
  <2> QED
    BY <1>0, <1>9, <2>1 DEF Connect
<1>10. ASSUME NEW how \in {"failed", "cancelled"}, EndSession(how) PROVE CommandTypeOK'
  <2>1. pc' \in [Callers -> {"idle", "confirmed"} \cup Active \cup Ended]
    BY <1>0, <1>10 DEF EndSession, Active
  <2>2. drops' \in 0 .. MaxDrops
    BY <1>0, <1>10 DEF EndSession
  <2> QED
    BY <1>0, <1>10, <2>1, <2>2 DEF EndSession, Clear
<1>11. CASE DeviceAssigns
  <2> DEFINE q == Head(outbox)
  <2>1. q \in Packets /\ Tail(outbox) \in Seq(Packets)
    BY <1>0, <1>11 DEF DeviceAssigns
  <2>2. q.cmd = "assign"
    BY <1>11 DEF DeviceAssigns
  <2>3. q.id \in Ids /\ q.value \in Numbers
    BY <2>1, <2>2 DEF Packets, Get
  <2>4. [id |-> q.id, value |-> q.value] \in Reports
    BY <2>3 DEF Reports
  <2>5. Append(inbox, [id |-> q.id, value |-> q.value]) \in Seq(Reports)
    BY <1>0, <2>4
  <2>6. inbox' \in Seq(Reports)
    BY <1>0, <1>11, <2>5 DEF DeviceAssigns
  <2>7. device' \in [Ids -> Numbers]
    BY <1>0, <1>11, <2>3 DEF DeviceAssigns
  <2> HIDE DEF q
  <2> QED
    BY <1>0, <1>11, <2>1, <2>6, <2>7 DEF DeviceAssigns
<1>12. CASE DeviceAnswers
  <2>1. Head(outbox) \in Packets /\ Tail(outbox) \in Seq(Packets)
    BY <1>0, <1>12 DEF DeviceAnswers
  <2>2. Head(outbox).id \in Ids
    BY <2>1 DEF Packets, Get
  <2> QED
    BY <1>0, <1>12, <2>1, <2>2 DEF DeviceAnswers, Reports
<1>13. CASE Receive
  <2>1. Head(inbox) \in Reports /\ Tail(inbox) \in Seq(Reports)
    BY <1>0, <1>13, HeadAndTail DEF Receive
  <2>2. cache' \in [Ids -> Numbers \cup {None}] /\ inbox' \in Seq(Reports)
    BY <1>0, <1>13, <2>1 DEF Receive, Reports
  <2>3. CASE Completes(Head(inbox))
    <3>1. pending.owner \in Callers
      BY <1>0, <2>1, <2>3 DEF Completes, NoPending, Ids, Components, Reports
    <3> QED
      BY <1>0, <1>13, <2>2, <2>3, <3>1 DEF Receive
  <2>4. CASE ~Completes(Head(inbox))
    BY <1>0, <1>13, <2>2, <2>4 DEF Receive
  <2> QED
    BY <2>3, <2>4
<1>14. CASE UNCHANGED vars
  BY <1>0, <1>14 DEF vars
<1> QED
  BY <1>1, <1>2, <1>3, <1>4, <1>5, <1>6, <1>7, <1>8, <1>9, <1>10, <1>11, <1>12,
     <1>13, <1>14 DEF CommandNext, CallerStep

-----------------------------------------------------------------------------

\* No one holds the lock when it is taken; what its holder does disturbs nobody.
LEMMA LockStep == CommandInv /\ CommandTypeOK' /\ [CommandNext]_vars => (LockInv /\ PendingIsOwn)'
<1> SUFFICES ASSUME CommandInv, CommandTypeOK', [CommandNext]_vars
             PROVE  LockInv' /\ PendingIsOwn'
  OBVIOUS
<1> USE DEF calls, transit, history
<1>0. CommandTypeOK /\ LockInv /\ PendingIsOwn
  BY DEF CommandInv
<1>1. ASSUME NEW c \in Callers, NEW p \in Prices, Call(c, p) PROVE LockInv' /\ PendingIsOwn'
  <2>1. pc[c] = "idle" /\ mode[c] = "forward" /\ pending.owner # c
    BY <1>0, <1>1 DEF Call, LockInv, PendingIsOwn
  <2>2. \A d \in Callers : d # c => /\ pc'[d] = pc[d] /\ target'[d] = target[d]
                                   /\ old'[d] = old[d] /\ current'[d] = current[d]
    BY <1>0, <1>1 DEF Call, AskLock, CommandTypeOK
  <2>3. pc'[c] = "lock"
    BY <1>0, <1>1 DEF Call, AskLock, CommandTypeOK
  <2>4. UNCHANGED <<mode, lock, pending>>
    BY <1>1 DEF Call
  <2>5. \A d \in Callers : d # c => Wanted(d)' = Wanted(d)
    BY <2>2, <2>4 DEF Wanted
  <2>6. pending.owner # None => pending.owner \in Callers
    BY <1>0 DEF CommandTypeOK, NoPending
  <2>7. LockInv'
    BY <1>0, <2>1, <2>2, <2>3, <2>4 DEF LockInv, Holding, Active
  <2>8. PendingIsOwn'
    BY <1>0, <2>1, <2>2, <2>3, <2>4, <2>5, <2>6 DEF PendingIsOwn
  <2> QED
    BY <2>7, <2>8
<1>2. ASSUME NEW c \in Callers, TakeLock(c) PROVE LockInv' /\ PendingIsOwn'
  <2>1. pending.owner = None /\ \A d \in Callers : pc[d] \notin Holding
    BY <1>0, <1>2 DEF TakeLock, LockInv, PendingIsOwn, CommandTypeOK, Holding, NoPending
  <2>2. \A d \in Callers : pc'[d] = IF d = c THEN "ready" ELSE pc[d]
    BY <1>0, <1>2 DEF TakeLock, CommandTypeOK
  <2>3. LockInv'
    BY <1>0, <1>2, <2>1, <2>2 DEF TakeLock, LockInv, Holding, Active
  <2>4. PendingIsOwn'
    BY <1>0, <1>2, <2>1, <2>2 DEF TakeLock, PendingIsOwn, Holding
  <2> QED
    BY <2>3, <2>4
<1>3. ASSUME NEW c \in Callers, SendWrite(c) PROVE LockInv' /\ PendingIsOwn'
  <2>1. lock = c /\ \A d \in Callers : d # c => pc[d] \notin Holding
    BY <1>0, <1>3 DEF SendWrite, LockInv, Holding
  <2>2. \A d \in Callers : pc'[d] = IF d = c THEN "wait" ELSE pc[d]
    BY <1>0, <1>3 DEF SendWrite, CommandTypeOK
  <2>3. pending'.owner = c /\ pending'.id = current[c] /\ pending'.value = Wanted(c)
    BY <1>3 DEF SendWrite
  <2>4. Wanted(c)' = Wanted(c)
    BY <1>3 DEF SendWrite, Wanted
  <2>5. LockInv'
    BY <1>0, <1>3, <2>1, <2>2 DEF SendWrite, LockInv, Holding, Active
  <2>6. PendingIsOwn'
    BY <1>0, <1>3, <2>1, <2>2, <2>3, <2>4 DEF SendWrite, PendingIsOwn, Holding
  <2> QED
    BY <2>5, <2>6
<1>4. ASSUME NEW c \in Callers, AttemptFails(c) PROVE LockInv' /\ PendingIsOwn'
  <2>1. lock = c /\ \A d \in Callers : d # c => pc[d] \notin Holding
    BY <1>0, <1>4 DEF AttemptFails, LockInv, Holding
  <2>2. \A d \in Callers : pc'[d] = IF d = c THEN "pause" ELSE pc[d]
    BY <1>0, <1>4 DEF AttemptFails, CommandTypeOK
  <2>3. LockInv'
    BY <1>0, <1>4, <2>1, <2>2 DEF AttemptFails, LockInv, Holding, Active
  <2>4. PendingIsOwn'
    BY <1>4, <2>1, <2>2 DEF AttemptFails, ClearPending, NoPending, PendingIsOwn, Holding
  <2> QED
    BY <2>3, <2>4
<1>5. ASSUME NEW c \in Callers, EndPause(c) PROVE LockInv' /\ PendingIsOwn'
  <2>1. lock = c /\ pc[c] = "pause" /\ pending.owner # c
    BY <1>0, <1>5 DEF EndPause, LockInv, PendingIsOwn, Holding
  <2>2. \A d \in Callers : pc'[d] = IF d = c THEN "ready" ELSE pc[d]
    BY <1>0, <1>5 DEF EndPause, CommandTypeOK
  <2>3. LockInv'
    BY <1>0, <1>5, <2>1, <2>2 DEF EndPause, LockInv, Holding, Active
  <2>4. pending.owner # None => pending.owner \in Callers
    BY <1>0 DEF CommandTypeOK, NoPending
  <2>5. PendingIsOwn'
    BY <1>0, <1>5, <2>1, <2>2, <2>4 DEF EndPause, PendingIsOwn, Wanted
  <2> QED
    BY <2>3, <2>5
\* Giving the lock back: there is no pending future then.
<1>6. ASSUME NEW c \in Callers, pc[c] \in Holding, pc'[c] \notin Holding,
             \A d \in Callers : d # c => /\ pc'[d] = pc[d] /\ mode'[d] = mode[d]
                                        /\ current'[d] = current[d],
             old' = old, pending' = NoPending,
             pc'[c] # "idle",
             mode'[c] # "forward" /\ pc'[c] \in Active \cup {"confirmed"}
                 => old[c][current'[c]] # None
      PROVE  LockInv' /\ PendingIsOwn'
  <2>1. \A d \in Callers : d # c => pc[d] \notin Holding
    BY <1>0, <1>6 DEF LockInv
  <2>2. LockInv'
    BY <1>0, <1>6, <2>1 DEF LockInv, Holding
  <2>3. PendingIsOwn'
    BY <1>6, <2>1 DEF PendingIsOwn, NoPending, Holding
  <2> QED
    BY <2>2, <2>3
<1>7. ASSUME NEW c \in Callers, WriteDone(c) PROVE LockInv' /\ PendingIsOwn'
  <2>1. pc[c] = "confirmed" /\ pending' = NoPending /\ old' = old /\ mode' = mode
    BY <1>0, <1>7 DEF WriteDone, LockInv, PendingIsOwn, CommandTypeOK, Holding, NoPending
  <2>2. ASSUME NEW i \in Ids, AskLock(c, i), mode[c] # "forward" => old[c][i] # None
        PROVE  LockInv' /\ PendingIsOwn'
    <3>1. pc'[c] = "lock" /\ current'[c] = i
      BY <1>0, <2>2 DEF AskLock, CommandTypeOK
    <3>2. \A d \in Callers : d # c => pc'[d] = pc[d] /\ current'[d] = current[d]
      BY <1>0, <2>2 DEF AskLock, CommandTypeOK
    <3> QED
      BY <1>6, <2>1, <2>2, <3>1, <3>2 DEF Holding
  <2>3. ASSUME NEW how \in Ended, End(c, how) PROVE LockInv' /\ PendingIsOwn'
    <3>1. pc'[c] = how /\ current' = current /\ \A d \in Callers : d # c => pc'[d] = pc[d]
      BY <1>0, <2>3 DEF End, CommandTypeOK
    <3> QED
      BY <1>6, <2>1, <3>1 DEF Holding, Ended, Active
  <2> QED
    BY <1>7, <2>2, <2>3 DEF WriteDone, Ids, Components, Ended
<1>8. ASSUME NEW c \in Callers, WriteFails(c) PROVE LockInv' /\ PendingIsOwn'
  <2>1. pc[c] \in Holding /\ pending' = NoPending /\ old' = old
    BY <1>8 DEF WriteFails, ClearPending, Holding
  <2>2. \A d \in Callers : d # c => mode'[d] = mode[d]
    BY <1>0, <1>8 DEF WriteFails, CommandTypeOK
  <2>3. ASSUME NEW i \in Ids, AskLock(c, i), old[c][i] # None
        PROVE  LockInv' /\ PendingIsOwn'
    <3>1. pc'[c] = "lock" /\ current'[c] = i
      BY <1>0, <2>3 DEF AskLock, CommandTypeOK
    <3>2. \A d \in Callers : d # c => pc'[d] = pc[d] /\ current'[d] = current[d]
      BY <1>0, <2>3 DEF AskLock, CommandTypeOK
    <3> QED
      BY <1>6, <2>1, <2>2, <2>3, <3>1, <3>2 DEF Holding
  <2>4. ASSUME NEW how \in Ended, End(c, how) PROVE LockInv' /\ PendingIsOwn'
    <3>1. pc'[c] = how /\ current' = current /\ \A d \in Callers : d # c => pc'[d] = pc[d]
      BY <1>0, <2>4 DEF End, CommandTypeOK
    <3> QED
      BY <1>6, <2>1, <2>2, <3>1 DEF Holding, Ended, Active
  <2>5. LET i == FirstRollback(c, current[c])
        IN  i # None => i \in Ids /\ old[c][i] # None
    BY DEF FirstRollback, Ids, Components
  <2> QED
    BY <1>8, <2>3, <2>4, <2>5 DEF WriteFails, Ids, Components, Ended
<1>9. ASSUME NEW c \in Callers, Cancelled(c) PROVE LockInv' /\ PendingIsOwn'
  <2>1. pc[c] = "cancelled" /\ pending' = NoPending /\ old' = old /\ mode' = mode
    BY <1>0, <1>9 DEF Cancelled, LockInv, PendingIsOwn, CommandTypeOK, Holding, NoPending
  <2>2. pc'[c] = "gone" /\ current' = current /\ \A d \in Callers : d # c => pc'[d] = pc[d]
    BY <1>0, <1>9 DEF Cancelled, End, CommandTypeOK
  <2> QED
    BY <1>6, <2>1, <2>2 DEF Holding, Active
\* The owner of the pending future goes on, and holds the lock.
<1>10. ASSUME NEW how \in {"failed", "cancelled", "confirmed"},
              pending' = NoPending, UNCHANGED <<mode, old, current, lock>>,
              pc' = IF pending.owner = None THEN pc ELSE [pc EXCEPT ![pending.owner] = how]
       PROVE  LockInv' /\ PendingIsOwn'
  <2>1. pending.owner # None => pending.owner \in Callers
    BY <1>0 DEF CommandTypeOK, NoPending
  <2>2. \A d \in Callers : pc'[d] = IF d = pending.owner THEN how ELSE pc[d]
    BY <1>0, <1>10, <2>1 DEF CommandTypeOK
  <2>3. \A d \in Callers : d = pending.owner => pc[d] = "wait" /\ lock = d
    BY <1>0 DEF PendingIsOwn
  <2>4. LockInv'
    BY <1>0, <1>10, <2>2, <2>3 DEF LockInv, Holding, Active
  <2>5. PendingIsOwn'
    BY <1>0, <1>10, <2>2 DEF PendingIsOwn, NoPending
  <2> QED
    BY <2>4, <2>5
<1>11. ASSUME NEW how \in {"failed", "cancelled"}, EndSession(how) PROVE LockInv' /\ PendingIsOwn'
  BY <1>10, <1>11 DEF EndSession
<1>12. CASE Receive
  <2>1. CASE Completes(Head(inbox))
    <3>1. pending.owner # None
      BY <1>0, <1>12, <2>1, HeadAndTail
         DEF Receive, Completes, CommandTypeOK, NoPending, Reports, Ids, Components
    <3> QED
      BY <1>10, <1>12, <2>1, <3>1 DEF Receive
  <2>2. CASE ~Completes(Head(inbox))
    BY <1>0, <1>12, <2>2 DEF Receive, LockInv, PendingIsOwn, Wanted
  <2> QED
    BY <2>1, <2>2
<1>13. CASE Connect \/ DeviceAssigns \/ DeviceAnswers \/ UNCHANGED vars
  BY <1>0, <1>13
     DEF Connect, DeviceAssigns, DeviceAnswers, vars, LockInv, PendingIsOwn, Wanted
<1> QED
  BY <1>1, <1>2, <1>3, <1>4, <1>5, <1>7, <1>8, <1>9, <1>11, <1>12, <1>13
     DEF CommandNext, CallerStep

(***************************************************************************)
(* The invariant holds throughout (client_command_runner.py, client.py).   *)
(***************************************************************************)
THEOREM CommandsAreExclusive == CommandSpec => []CommandInv
<1>1. CommandInv /\ [CommandNext]_vars => CommandInv'
  BY TypeStep, LockStep DEF CommandInv
<1> QED
  BY TypeInit, <1>1, PTL DEF CommandSpec

(***************************************************************************)
(* Every variable keeps its type, for any callers, prices and bounds.      *)
(***************************************************************************)
THEOREM CommandTypes == CommandSpec => []CommandTypeOK
<1>1. CommandInv => CommandTypeOK
  BY DEF CommandInv
<1> QED
  BY CommandsAreExclusive, <1>1, PTL

(***************************************************************************)
(* A report confirms only the write under way, of the caller that holds    *)
(* the lock (_maybe_complete_write_future).                                *)
(***************************************************************************)
THEOREM PendingWriteIsOwn == CommandSpec => []PendingIsOwn
<1>1. CommandInv => PendingIsOwn
  BY DEF CommandInv
<1> QED
  BY CommandsAreExclusive, <1>1, PTL

-----------------------------------------------------------------------------
\* A write of i is the k-th packet on its way to the device.
IsWrite(k, i) == outbox[k].cmd = "assign" /\ outbox[k].id = i

\* The value i has, and no packet will change it.
Left(i, v) == device[i] = v /\ Quiet(i)

\* The value i has, or will have, is the one before or the one wanted.
Between(i, a) ==
    /\ device[i] \in {before[i], target[a][i]}
    /\ \A k \in DOMAIN outbox : IsWrite(k, i) => outbox[k].value \in {before[i], target[a][i]}

\* The last write of i on its way is one of v.
EndsWith(i, v) ==
    \A k \in DOMAIN outbox : IsWrite(k, i) =>
        \E m \in DOMAIN outbox : k <= m /\ IsWrite(m, i) /\ outbox[m].value = v

(***************************************************************************)
(* Where the price command a has got: the component it writes is between   *)
(* the old value and the new one, the other one is what the order of the   *)
(* writes says, and a confirmed write has been taken.                      *)
(***************************************************************************)
Progress(a) ==
    /\ current[a] \in Components
    /\ Between(current[a], a)
    /\ current[a] = "euros" => Left("cents", before["cents"])
    /\ current[a] = "cents" => Left("euros", target[a]["euros"])
    /\ pc[a] = "wait" => EndsWith(current[a], Wanted(a))
    /\ pc[a] = "confirmed" => Left(current[a], Wanted(a))

PriceSteps(a) ==
    /\ pc[a] # "idle"
    /\ \A i \in Components : old[a][i] = before[i]
    /\ pc[a] \in Active \cup {"confirmed"} /\ mode[a] # "broken" => Progress(a)
    /\ pc[a] = "ok" => \A i \in Components : Left(i, target[a][i])
    /\ pc[a] = "rejected" => \A i \in Components : Left(i, before[i])

OthersIdle == alone # None => \A d \in PriceCallers : d # alone => Idle(d)

ValuesOnly == \A c \in ValueCallers : current[c] = "other"

PriceInv ==
    /\ OthersIdle /\ ValuesOnly
    /\ alone # None /\ before # None /\ premature = "no" => PriceSteps(alone)

-----------------------------------------------------------------------------
\* What a command left is left after a step that sends no write of it.
LEMMA StaysPut ==
    ASSUME NEW a \in PriceCallers, PriceSteps(a),
           before' = before, target'[a] = target[a], old'[a] = old[a],
           current'[a] = current[a], mode'[a] = mode[a],
           \A i \in Components : device'[i] = device[i],
           \/ pc'[a] = pc[a]
           \/ pc[a] \in Active /\ pc'[a] \in Active \ {"wait"}
           \/ pc'[a] = "gone",
           \/ \A k \in DOMAIN outbox', i \in Components : ~IsWrite(k, i)'
           \/ /\ \A k \in DOMAIN outbox : k \in DOMAIN outbox' /\ outbox'[k] = outbox[k]
              /\ \A k \in DOMAIN outbox', i \in Components : IsWrite(k, i)' => k \in DOMAIN outbox
    PROVE  PriceSteps(a)'
<1>1. \A i \in Components : Quiet(i) => Quiet(i)'
  BY DEF Quiet, IsWrite
<1>2. \A i \in Components : \A v : Left(i, v) => Left(i, v)'
  BY <1>1 DEF Left
<1>3. \A i \in Components : Between(i, a) => Between(i, a)'
  BY DEF Between, IsWrite
<1>4. \A i \in Components : \A v : EndsWith(i, v) => EndsWith(i, v)'
  BY DEF EndsWith, IsWrite
<1>5. Wanted(a)' = Wanted(a)
  BY DEF Wanted
<1>6. ASSUME pc'[a] \in Active \cup {"confirmed"}, mode'[a] # "broken" PROVE Progress(a)'
  <2>1. Progress(a)
    BY <1>6 DEF PriceSteps, Active
  <2>2. pc'[a] \in {"wait", "confirmed"} => pc'[a] = pc[a]
    BY DEF Active
  <2> QED
    BY <1>2, <1>3, <1>4, <1>5, <2>1, <2>2 DEF Progress, Components
<1>7. \A i \in Components : old'[a][i] = before'[i]
  BY DEF PriceSteps
<1>8. pc'[a] \in {"ok", "rejected", "idle"} => pc'[a] = pc[a]
  BY DEF Active
<1>9. /\ pc'[a] # "idle"
      /\ pc'[a] = "ok" => \A i \in Components : Left(i, target[a][i])'
      /\ pc'[a] = "rejected" => \A i \in Components : Left(i, before[i])'
  BY <1>2, <1>8 DEF PriceSteps
<1> QED
  BY <1>6, <1>7, <1>9 DEF PriceSteps, Left

\* What the device takes was on its way.
LEMMA DeviceStep ==
    ASSUME NEW a \in PriceCallers, CommandTypeOK, PriceSteps(a),
           before' = before, UNCHANGED <<target, old, current, mode, pc>>,
           outbox # <<>>, outbox' = Tail(outbox),
           \A i \in Components : \/ device'[i] = device[i]
                                 \/ IsWrite(1, i) /\ device'[i] = outbox[1].value
    PROVE  PriceSteps(a)'
<1>1. /\ outbox \in Seq(Packets) /\ 1 \in DOMAIN outbox
      /\ \A k \in DOMAIN outbox' : k + 1 \in DOMAIN outbox /\ outbox'[k] = outbox[k + 1]
      /\ \A k \in DOMAIN outbox : k = 1 \/ (k - 1 \in DOMAIN outbox' /\ outbox'[k - 1] = outbox[k])
      /\ \A k \in DOMAIN outbox : k \in Nat \ {0}
      /\ \A k \in DOMAIN outbox' : k \in Nat \ {0}
  BY DEF CommandTypeOK
<1>2. \A i \in Components : Quiet(i) => Quiet(i)' /\ device'[i] = device[i]
  BY <1>1 DEF Quiet, IsWrite
<1>3. \A i \in Components : \A v : Left(i, v) => Left(i, v)'
  BY <1>2 DEF Left
<1>4. \A i \in Components : Between(i, a) => Between(i, a)'
  BY <1>1 DEF Between, IsWrite
<1>5. ASSUME NEW i \in Components, NEW v, EndsWith(i, v) PROVE EndsWith(i, v)'
  <2>1. ASSUME NEW k \in DOMAIN outbox', IsWrite(k, i)'
        PROVE  \E m \in DOMAIN outbox' : k <= m /\ IsWrite(m, i)' /\ outbox'[m].value = v
    <3>1. k + 1 \in DOMAIN outbox /\ IsWrite(k + 1, i)
      BY <1>1, <2>1 DEF IsWrite
    <3>2. PICK m \in DOMAIN outbox : k + 1 <= m /\ IsWrite(m, i) /\ outbox[m].value = v
      BY <1>5, <3>1 DEF EndsWith
    <3>3. m - 1 \in DOMAIN outbox' /\ outbox'[m - 1] = outbox[m] /\ k <= m - 1
      BY <1>1, <3>2
    <3> QED
      BY <3>2, <3>3 DEF IsWrite
  <2> QED
    BY <2>1 DEF EndsWith
<1>6. Wanted(a)' = Wanted(a)
  BY DEF Wanted
<1>7. Progress(a) => Progress(a)'
  BY <1>3, <1>4, <1>5, <1>6 DEF Progress, Components
<1>8. /\ pc[a] = "ok" => \A i \in Components : Left(i, target[a][i])'
      /\ pc[a] = "rejected" => \A i \in Components : Left(i, before[i])'
  BY <1>3 DEF PriceSteps
<1> QED
  BY <1>7, <1>8 DEF PriceSteps, Left

\* What is written goes behind everything else.
LEMMA WriteStep ==
    ASSUME NEW a \in PriceCallers, CommandInv, PriceSteps(a), SendWrite(a),
           before' = before
    PROVE  PriceSteps(a)'
<1>0. CommandTypeOK
  BY DEF CommandInv
<1>1. /\ UNCHANGED <<device, target, old, current, mode>> /\ pc[a] = "ready" /\ pc'[a] = "wait"
      /\ outbox' = outbox \o <<Assign(current[a], Wanted(a)), Get(current[a])>>
  BY <1>0 DEF SendWrite, CommandTypeOK, Callers
<1>2. Wanted(a)' = Wanted(a)
  BY <1>1 DEF Wanted
<1> SUFFICES ASSUME NEW i, NEW w, NEW n, i = current[a], w = Wanted(a), n = Len(outbox)
             PROVE  PriceSteps(a)'
  OBVIOUS
<1>3. n \in Nat /\ DOMAIN outbox = 1 .. n /\ DOMAIN outbox' = 1 .. (n + 2)
  BY <1>0, <1>1 DEF CommandTypeOK
<1>4. /\ \A k \in 1 .. n : outbox'[k] = outbox[k]
      /\ outbox'[n + 1] = Assign(i, w) /\ outbox'[n + 2] = Get(i)
  BY <1>0, <1>1 DEF CommandTypeOK
<1>5. \A k \in DOMAIN outbox' : k \in DOMAIN outbox \/ k = n + 1 \/ k = n + 2
  BY <1>3
<1>6. mode[a] # "broken" => Progress(a)
  BY <1>1 DEF PriceSteps, Active
<1>7. ASSUME mode[a] # "broken" PROVE Progress(a)'
  <2>1. i \in Components /\ Between(i, a) /\ w \in {before[i], target[a][i]}
    <3>1. i \in Components /\ Between(i, a)
      BY <1>6, <1>7 DEF Progress
    <3>2. w = target[a][i] \/ w = old[a][i]
      BY DEF Wanted
    <3> QED
      BY <3>1, <3>2 DEF PriceSteps
  <2>2. Between(i, a)'
    BY <1>1, <1>3, <1>4, <1>5, <2>1 DEF Between, IsWrite, Assign, Get
  <2>3. EndsWith(i, w)'
    <3>1. n + 1 \in DOMAIN outbox' /\ IsWrite(n + 1, i)' /\ outbox'[n + 1].value = w
      BY <1>3, <1>4 DEF IsWrite, Assign
    <3>2. \A k \in DOMAIN outbox' : IsWrite(k, i)' => k <= n + 1
      BY <1>3, <1>4, <1>5 DEF IsWrite, Get
    <3> QED
      BY <3>1, <3>2 DEF EndsWith
  <2>4. ASSUME NEW j \in Components, NEW v, j # i, Left(j, v) PROVE Left(j, v)'
    BY <1>1, <1>3, <1>4, <1>5, <2>4 DEF Left, Quiet, Assign, Get
  <2>5. current'[a] = i
    BY <1>1
  <2>6. /\ i = "euros" => Left("cents", before["cents"])'
        /\ i = "cents" => Left("euros", target[a]["euros"])'
    BY <1>1, <1>6, <1>7, <2>4 DEF Progress, Components, Left
  <2> QED
    BY <1>1, <1>2, <2>1, <2>2, <2>3, <2>5, <2>6 DEF Progress, Left
<1> QED
  BY <1>1, <1>7 DEF PriceSteps

\* What confirms a write has been taken, unless it is premature.
LEMMA ReceiveStep ==
    ASSUME NEW a \in PriceCallers, CommandInv, PriceSteps(a), Receive, alone = a,
           premature' = "no"
    PROVE  PriceSteps(a)'
<1>0. CommandTypeOK
  BY DEF CommandInv
<1>1. UNCHANGED <<device, outbox, target, old, current, mode, before>>
  BY DEF Receive
<1>2. CASE pc'[a] = pc[a]
  BY <1>1, <1>2, StaysPut
<1>3. CASE pc'[a] # pc[a]
  <2>1. /\ Completes(Head(inbox)) /\ pending.owner = a /\ pc'[a] = "confirmed"
        /\ ~Untrue(Head(inbox).id)
    BY <1>0, <1>3 DEF Receive, CommandTypeOK, Callers
  <2> SUFFICES ASSUME NEW i, NEW w, i = current[a], w = Wanted(a) PROVE PriceSteps(a)'
    OBVIOUS
  <2>2. a # None /\ a \in Callers
    BY DEF Callers
  <2>3. pending.owner # None => /\ pc[pending.owner] = "wait"
                                /\ pending.id = current[pending.owner]
                                /\ pending.value = Wanted(pending.owner)
    BY DEF CommandInv, PendingIsOwn
  <2>4. pc[a] = "wait" /\ pending.id = i /\ pending.value = w
    BY <2>1, <2>2, <2>3
  <2>5. device[i] = w /\ \A k \in DOMAIN outbox : outbox[k] # Assign(i, w)
    BY <2>1, <2>4 DEF Untrue, Completes
  <2>6. Wanted(a)' = w
    BY <1>1 DEF Wanted
  <2>7. ASSUME mode[a] # "broken" PROVE Progress(a)'
    <3>1. Progress(a)
      BY <2>4, <2>7 DEF PriceSteps, Active
    <3>2. EndsWith(i, w)
      BY <2>4, <3>1 DEF Progress
    <3>3. \A m \in DOMAIN outbox : IsWrite(m, i) /\ outbox[m].value = w => outbox[m] = Assign(i, w)
      <4>1. \A m \in DOMAIN outbox : outbox[m] \in Packets
        BY <1>0 DEF CommandTypeOK
      <4> QED
        BY <4>1 DEF IsWrite, Assign, Packets, Get
    <3>4. Quiet(i)
      BY <2>5, <3>2, <3>3 DEF EndsWith, Quiet, IsWrite
    <3>5. Left(i, w)'
      BY <1>1, <2>5, <3>4 DEF Left, Quiet
    <3>6. Between(i, a)'
      BY <1>1, <3>1 DEF Progress, Between, IsWrite
    <3>7. /\ i = "euros" => Left("cents", before["cents"])'
          /\ i = "cents" => Left("euros", target[a]["euros"])'
      BY <1>1, <3>1 DEF Progress, Left, Quiet
    <3>8. current'[a] = i /\ i \in Components
      BY <1>1, <3>1 DEF Progress
    <3> QED
      BY <2>1, <2>6, <3>5, <3>6, <3>7, <3>8 DEF Progress, Left
  <2> QED
    BY <1>1, <2>1, <2>7 DEF PriceSteps
<1> QED
  BY <1>2, <1>3

\* After a confirmed write the next one begins, or the command has ended.
LEMMA DoneStep ==
    ASSUME NEW a \in PriceCallers, CommandInv, PriceSteps(a), WriteDone(a),
           before \in [Components -> Numbers], before' = before
    PROVE  PriceSteps(a)'
<1>0. CommandTypeOK /\ a \in Callers
  BY DEF CommandInv, Callers
<1>1. UNCHANGED <<device, outbox, target, old, mode>> /\ pc[a] = "confirmed"
  BY DEF WriteDone, transit
<1>2. mode[a] # "broken" => Progress(a)
  BY <1>1 DEF PriceSteps
<1>3. \A i \in Components : old[a][i] = before[i] /\ before[i] # None
  BY DEF PriceSteps
<1>4. \A i \in Components : Left(i, target[a][i])' = Left(i, target[a][i])
  BY <1>1 DEF Left, Quiet
<1>5. \A i \in Components : Left(i, before[i])' = Left(i, before[i])
  BY <1>1 DEF Left, Quiet
<1>6. \A i \in Components : Left(i, target[a][i]) \/ Left(i, before[i]) => Between(i, a)'
  BY <1>1 DEF Left, Between, Quiet, IsWrite
<1>7. CASE mode[a] = "forward" /\ current[a] = "euros"
  <2>1. pc'[a] = "lock" /\ current'[a] = "cents"
    BY <1>0, <1>7 DEF WriteDone, AskLock, CommandTypeOK
  <2>2. Left("euros", target[a]["euros"]) /\ Left("cents", before["cents"])
    BY <1>1, <1>2, <1>7 DEF Progress, Wanted
  <2>3. Progress(a)'
    BY <1>4, <1>6, <2>1, <2>2 DEF Progress, Components
  <2> QED
    BY <1>1, <1>3, <2>1, <2>3 DEF PriceSteps
<1>8. CASE mode[a] = "forward" /\ current[a] = "cents"
  <2>1. pc'[a] = "ok"
    BY <1>0, <1>8 DEF WriteDone, End, CommandTypeOK
  <2>2. Left("euros", target[a]["euros"]) /\ Left("cents", target[a]["cents"])
    BY <1>1, <1>2, <1>8 DEF Progress, Wanted
  <2> QED
    BY <1>1, <1>3, <1>4, <2>1, <2>2 DEF PriceSteps, Components, Active
<1>9. CASE mode[a] = "rollback" /\ current[a] = "cents"
  <2>1. pc'[a] = "lock" /\ current'[a] = "euros"
    BY <1>0, <1>3, <1>9 DEF WriteDone, AskLock, CommandTypeOK, Components
  <2>2. Left("euros", target[a]["euros"]) /\ Left("cents", before["cents"])
    BY <1>1, <1>2, <1>3, <1>9 DEF Progress, Wanted, Components
  <2>3. Progress(a)'
    BY <1>5, <1>6, <2>1, <2>2 DEF Progress, Components
  <2> QED
    BY <1>1, <1>3, <2>1, <2>3 DEF PriceSteps
<1>10. CASE mode[a] = "rollback" /\ current[a] = "euros"
  <2>1. pc'[a] = "rejected"
    BY <1>0, <1>10 DEF WriteDone, End, CommandTypeOK
  <2>2. Left("euros", before["euros"]) /\ Left("cents", before["cents"])
    BY <1>1, <1>2, <1>3, <1>10 DEF Progress, Wanted, Components
  <2> QED
    BY <1>1, <1>3, <1>5, <2>1, <2>2 DEF PriceSteps, Components, Active
<1>11. CASE mode[a] = "broken"
  <2>1. pc'[a] \in {"lock", "torn"}
    BY <1>0, <1>11 DEF WriteDone, AskLock, End, CommandTypeOK
  <2> QED
    BY <1>1, <1>3, <1>11, <2>1 DEF PriceSteps
<1> QED
  BY <1>0, <1>2, <1>7, <1>8, <1>9, <1>10, <1>11 DEF CommandTypeOK, Progress, Components

\* A write that failed leaves its component between, and is written back.
LEMMA FailStep ==
    ASSUME NEW a \in PriceCallers, CommandInv, PriceSteps(a), WriteFails(a),
           before \in [Components -> Numbers], before' = before
    PROVE  PriceSteps(a)'
<1>0. CommandTypeOK /\ a \in Callers
  BY DEF CommandInv, Callers
<1>1. /\ UNCHANGED <<device, outbox, target, old>> /\ pc[a] \in Active
      /\ mode'[a] = IF mode[a] = "forward" THEN "rollback" ELSE "broken"
  BY <1>0 DEF WriteFails, transit, Active, CommandTypeOK
<1>2. \A i \in Components : old[a][i] = before[i] /\ before[i] # None
  BY DEF PriceSteps
<1>3. CASE mode[a] = "forward"
  <2>1. Progress(a)
    BY <1>1, <1>3 DEF PriceSteps
  <2>2. FirstRollback(a, current[a]) = current[a] /\ current[a] # None
    <3>1. old[a][current[a]] # None /\ current[a] \in {"euros", "cents"}
      BY <1>2, <2>1 DEF Progress, Components
    <3>2. CASE current[a] = "cents"
      BY <3>1, <3>2 DEF FirstRollback, Components, Ids
    <3>3. CASE current[a] = "euros"
      BY <3>1, <3>3 DEF FirstRollback, Components, Ids
    <3> QED
      BY <3>1, <3>2, <3>3
  <2>3. pc'[a] = "lock" /\ current'[a] = current[a]
    BY <1>0, <1>3, <2>2 DEF WriteFails, AskLock, CommandTypeOK
  <2>4. Progress(a)'
    BY <1>1, <2>1, <2>3 DEF Progress, Between, Left, Quiet, IsWrite
  <2> QED
    BY <1>1, <1>2, <2>3, <2>4 DEF PriceSteps
<1>4. CASE mode[a] # "forward"
  <2>1. pc'[a] \in {"lock", "torn"}
    BY <1>0, <1>4 DEF WriteFails, AskLock, End, CommandTypeOK
  <2> QED
    BY <1>1, <1>2, <1>4, <2>1 DEF PriceSteps
<1> QED
  BY <1>3, <1>4

-----------------------------------------------------------------------------
LEMMA PriceInit == CommandInit => PriceInv
BY DEF CommandInit, calls, history, PriceInv, OthersIdle, ValuesOnly, Callers

\* Only price commands write a price.
LEMMA ValuesStep == CommandInv /\ ValuesOnly /\ [CommandNext]_vars => ValuesOnly'
<1> SUFFICES ASSUME CommandInv, ValuesOnly, [CommandNext]_vars,
                    NEW d \in ValueCallers, current'[d] # "other"
             PROVE  FALSE
  BY DEF ValuesOnly
<1> USE DEF calls
<1>1. CommandTypeOK /\ d \in Callers /\ d \notin PriceCallers /\ current[d] = "other"
  BY DEF CommandInv, ValuesOnly, Callers
<1>2. ASSUME NEW c \in Callers, NEW p \in Prices, Call(c, p) PROVE FALSE
  BY <1>1, <1>2 DEF Call, AskLock, CommandTypeOK
<1>3. ASSUME NEW c \in Callers, WriteDone(c) PROVE FALSE
  <2>1. c = d => current' = current
    BY <1>1, <1>3 DEF WriteDone, End
  <2>2. c # d => current'[d] = current[d]
    BY <1>1, <1>3 DEF WriteDone, End, AskLock, CommandTypeOK
  <2> QED
    BY <1>1, <2>1, <2>2
<1>4. ASSUME NEW c \in Callers, WriteFails(c) PROVE FALSE
  <2>1. c = d => current' = current
    BY <1>1, <1>4 DEF WriteFails, End, FirstRollback, Components
  <2>2. c # d => current'[d] = current[d]
    BY <1>1, <1>4 DEF WriteFails, End, AskLock, CommandTypeOK
  <2> QED
    BY <1>1, <2>1, <2>2
<1>5. ASSUME NEW c \in Callers,
             TakeLock(c) \/ SendWrite(c) \/ AttemptFails(c) \/ EndPause(c) \/ Cancelled(c)
      PROVE  FALSE
  BY <1>1, <1>5 DEF TakeLock, SendWrite, AttemptFails, EndPause, Cancelled, End
<1>6. CASE \/ Connect \/ \E how \in {"failed", "cancelled"} : EndSession(how)
           \/ DeviceAssigns \/ DeviceAnswers \/ Receive \/ UNCHANGED vars
  BY <1>1, <1>6 DEF Connect, EndSession, DeviceAssigns, DeviceAnswers, Receive, vars
<1> QED
  BY <1>2, <1>3, <1>4, <1>5, <1>6 DEF CommandNext, CallerStep

\* A caller that has ended stays so: only a call changes an idle one.
LEMMA IdleStays ==
    ASSUME CommandInv, [CommandNext]_vars, NEW d \in Callers, Idle(d),
           \A p \in Prices : ~Call(d, p)
    PROVE  pc'[d] = pc[d]
<1> USE DEF calls
<1>0. CommandTypeOK /\ d # None
  BY DEF CommandInv, Callers
<1>1. ASSUME NEW c \in Callers, NEW p \in Prices, Call(c, p) PROVE pc'[d] = pc[d]
  BY <1>0, <1>1 DEF Call, AskLock, CommandTypeOK
<1>2. ASSUME NEW c \in Callers, WriteDone(c) PROVE pc'[d] = pc[d]
  BY <1>0, <1>2 DEF WriteDone, AskLock, End, Idle, CommandTypeOK
<1>3. ASSUME NEW c \in Callers, WriteFails(c) PROVE pc'[d] = pc[d]
  BY <1>0, <1>3 DEF WriteFails, AskLock, End, Idle, Active, CommandTypeOK
<1>4. ASSUME NEW c \in Callers,
             TakeLock(c) \/ SendWrite(c) \/ AttemptFails(c) \/ EndPause(c) \/ Cancelled(c)
      PROVE  pc'[d] = pc[d]
  BY <1>0, <1>4 DEF TakeLock, SendWrite, AttemptFails, EndPause, Cancelled, End, Idle,
                    Active, CommandTypeOK
<1>5. pending.owner # d
  BY <1>0 DEF CommandInv, PendingIsOwn, Idle, Active
<1>6. ASSUME NEW how \in {"failed", "cancelled"}, EndSession(how) PROVE pc'[d] = pc[d]
  BY <1>0, <1>5, <1>6 DEF EndSession, CommandTypeOK
<1>7. CASE Receive
  BY <1>0, <1>5, <1>7 DEF Receive, CommandTypeOK
<1>8. CASE Connect \/ DeviceAssigns \/ DeviceAnswers \/ UNCHANGED vars
  BY <1>8 DEF Connect, DeviceAssigns, DeviceAnswers, vars
<1> QED
  BY <1>1, <1>2, <1>3, <1>4, <1>6, <1>7, <1>8 DEF CommandNext, CallerStep

LEMMA OthersStep == CommandInv /\ OthersIdle /\ [CommandNext]_vars => OthersIdle'
<1> SUFFICES ASSUME CommandInv, OthersIdle, [CommandNext]_vars, alone' # None,
                    NEW d \in PriceCallers, d # alone'
             PROVE  Idle(d)'
  BY DEF OthersIdle
<1>0. d \in Callers
  BY DEF Callers
<1>1. CASE \E c \in PriceCallers, p \in Prices : Call(c, p)
  <2>1. PICK c \in PriceCallers, p \in Prices : Call(c, p)
    BY <1>1
  <2>2. alone' = c /\ Idle(d) /\ c # d
    BY <2>1 DEF Call
  <2>3. \A q \in Prices : ~Call(d, q)
    <3> SUFFICES ASSUME NEW q \in Prices, Call(d, q) PROVE FALSE
      OBVIOUS
    <3>1. pc'[d] = "lock"
      BY <1>0 DEF Call, AskLock, CommandInv, CommandTypeOK
    <3>2. pc'[d] = pc[d]
      BY <1>0, <2>1, <2>2 DEF Call, AskLock, CommandInv, CommandTypeOK
    <3> QED
      BY <3>1, <3>2, <2>2 DEF Idle, Active
  <2> QED
    BY <1>0, <2>2, <2>3, IdleStays DEF Idle
<1>2. CASE ~\E c \in PriceCallers, p \in Prices : Call(c, p)
  <2>1. alone' = alone
    BY <1>2 DEF CommandNext, CallerStep, vars, history, Call, TakeLock, SendWrite,
                AttemptFails, EndPause, WriteDone, WriteFails, Cancelled, Connect,
                EndSession, DeviceAssigns, DeviceAnswers, Receive, Callers
  <2>2. Idle(d) /\ \A q \in Prices : ~Call(d, q)
    BY <1>2, <2>1 DEF OthersIdle
  <2> QED
    BY <1>0, <2>2, IdleStays DEF Idle
<1> QED
  BY <1>1, <1>2

\* A new price command that runs alone begins with what it found.
LEMMA CallStep ==
    ASSUME CommandInv, NEW a \in PriceCallers, NEW p \in Prices, Call(a, p),
           before' # None
    PROVE  PriceSteps(a)'
<1>0. CommandTypeOK /\ a \in Callers /\ pc[a] = "idle"
  BY DEF CommandInv, Callers, Call
<1>1. /\ UNCHANGED <<device, outbox, mode>> /\ mode[a] = "forward"
      /\ pc'[a] = "lock" /\ current'[a] = "euros"
      /\ \A i \in Components : old'[a][i] = cache[i]
  BY <1>0 DEF Call, AskLock, CommandInv, LockInv, CommandTypeOK, transit
<1>2. \A i \in Components : cache[i] = device[i] /\ Quiet(i) /\ before'[i] = device[i]
  BY DEF Call
<1>3. \A i \in Components : Left(i, before[i])' /\ Between(i, a)'
  BY <1>1, <1>2 DEF Left, Between, Quiet, IsWrite
<1>4. Progress(a)'
  BY <1>1, <1>3 DEF Progress, Components
<1> QED
  BY <1>1, <1>2, <1>4 DEF PriceSteps

\* What the command of another caller does to the one that runs alone.
LEMMA OtherStep ==
    ASSUME CommandInv, PriceInv, NEW a \in PriceCallers, PriceSteps(a), alone = a,
           NEW c \in Callers, c # a, CallerStep(c), before' = before
    PROVE  PriceSteps(a)'
<1> USE DEF transit, calls
<1>0. CommandTypeOK /\ a \in Callers /\ a # None
  BY DEF CommandInv, Callers
<1>1. pc[c] \in Active \cup {"confirmed"}
  BY DEF CallerStep, TakeLock, SendWrite, AttemptFails, EndPause, WriteDone, WriteFails,
         Cancelled, Active
<1>2. c \in ValueCallers /\ current[c] = "other"
  BY <1>0, <1>1 DEF PriceInv, OthersIdle, ValuesOnly, Idle, Callers
<1>3. /\ device' = device /\ target' = target /\ old' = old
      /\ pc'[a] = pc[a] /\ current'[a] = current[a] /\ mode'[a] = mode[a]
  <2>1. CASE TakeLock(c) \/ SendWrite(c) \/ AttemptFails(c) \/ EndPause(c) \/ Cancelled(c)
    BY <1>0, <2>1 DEF TakeLock, SendWrite, AttemptFails, EndPause, Cancelled, End, CommandTypeOK
  <2>2. CASE WriteDone(c)
    BY <1>0, <2>2 DEF WriteDone, AskLock, End, CommandTypeOK
  <2>3. CASE WriteFails(c)
    BY <1>0, <2>3 DEF WriteFails, AskLock, End, CommandTypeOK
  <2> QED
    BY <2>1, <2>2, <2>3 DEF CallerStep
<1>4. CASE outbox' = outbox
  BY <1>3, <1>4, StaysPut
<1>5. CASE AttemptFails(c)
  <2>1. outbox' = <<>>
    BY <1>5 DEF AttemptFails, Clear
  <2>2. \A k \in DOMAIN outbox', i \in Components : ~IsWrite(k, i)'
    BY <2>1
  <2> QED
    BY <1>3, <2>2, StaysPut
<1>6. CASE SendWrite(c)
  <2> SUFFICES ASSUME NEW w, w = Wanted(c), NEW n, n = Len(outbox) PROVE PriceSteps(a)'
    OBVIOUS
  <2>0. Assign("other", w) \in Packets /\ Get("other") \in Packets
    BY <1>1, <1>2, WantedIsKnown, PacketTypes
  <2>1. /\ n \in Nat /\ DOMAIN outbox = 1 .. n
        /\ outbox' = outbox \o <<Assign("other", w), Get("other")>>
    BY <1>0, <1>2, <1>6 DEF SendWrite, CommandTypeOK
  <2>2. /\ DOMAIN outbox' = 1 .. (n + 2)
        /\ \A k \in DOMAIN outbox : outbox'[k] = outbox[k]
        /\ outbox'[n + 1] = Assign("other", w) /\ outbox'[n + 2] = Get("other")
    BY <1>0, <2>0, <2>1 DEF CommandTypeOK
  <2>3. \A k \in DOMAIN outbox' : k \in DOMAIN outbox \/ k = n + 1 \/ k = n + 2
    BY <2>1, <2>2
  <2>4. \A i \in Components : ~IsWrite(n + 1, i)' /\ ~IsWrite(n + 2, i)'
    BY <2>2 DEF IsWrite, Assign, Get, Components
  <2>5. \A k \in DOMAIN outbox : k \in DOMAIN outbox' /\ outbox'[k] = outbox[k]
    BY <2>1, <2>2
  <2>6. \A k \in DOMAIN outbox', i \in Components : IsWrite(k, i)' => k \in DOMAIN outbox
    BY <2>3, <2>4
  <2> QED
    BY <1>3, <2>5, <2>6, StaysPut
<1> QED
  BY <1>4, <1>5, <1>6 DEF CallerStep, TakeLock, EndPause, WriteDone, WriteFails, Cancelled

\* The steps of the command itself.
LEMMA OwnStep ==
    ASSUME CommandInv, PriceInv, NEW a \in PriceCallers, PriceSteps(a), CallerStep(a),
           before' = before, before \in [Components -> Numbers]
    PROVE  PriceSteps(a)'
<1> USE DEF transit, calls
<1>0. CommandTypeOK /\ a \in Callers
  BY DEF CommandInv, Callers
<1>1. CASE TakeLock(a) \/ EndPause(a)
  <2>1. /\ UNCHANGED <<device, outbox, target, old, current, mode>>
        /\ pc[a] \in Active /\ pc'[a] = "ready"
    BY <1>0, <1>1 DEF TakeLock, EndPause, CommandTypeOK, Active
  <2> QED
    BY <2>1, StaysPut DEF Active
<1>2. CASE Cancelled(a)
  <2>1. UNCHANGED <<device, outbox, target, old, current, mode>> /\ pc'[a] = "gone"
    BY <1>0, <1>2 DEF Cancelled, End, CommandTypeOK
  <2> QED
    BY <2>1, StaysPut
<1>3. CASE AttemptFails(a)
  <2>1. /\ UNCHANGED <<device, target, old, current, mode>> /\ outbox' = <<>>
        /\ pc[a] \in Active /\ pc'[a] = "pause"
    BY <1>0, <1>3 DEF AttemptFails, Clear, CommandTypeOK, Active
  <2>2. \A k \in DOMAIN outbox', i \in Components : ~IsWrite(k, i)'
    BY <2>1
  <2> QED
    BY <2>1, <2>2, StaysPut DEF Active
<1>4. CASE SendWrite(a)
  BY <1>4, WriteStep
<1>5. CASE WriteDone(a)
  BY <1>5, DoneStep
<1>6. CASE WriteFails(a)
  BY <1>6, FailStep
<1> QED
  BY <1>1, <1>2, <1>3, <1>4, <1>5, <1>6 DEF CallerStep

\* The steps of the session, the device and the reports.
LEMMA LinkStep ==
    ASSUME CommandInv, NEW a \in PriceCallers, PriceSteps(a), before' = before,
           \/ Connect \/ \E how \in {"failed", "cancelled"} : EndSession(how)
           \/ DeviceAssigns \/ DeviceAnswers
    PROVE  PriceSteps(a)'
<1> USE DEF transit, calls
<1>0. CommandTypeOK /\ a \in Callers
  BY DEF CommandInv, Callers
<1>1. CASE Connect
  <2>1. /\ UNCHANGED <<device, target, old, current, mode, pc>>
        /\ outbox' = <<Get("euros"), Get("cents")>>
    BY <1>1 DEF Connect
  <2>2. \A k \in DOMAIN outbox' : outbox'[k].cmd = "get"
    BY <2>1 DEF Get
  <2>3. \A k \in DOMAIN outbox', i \in Components : ~IsWrite(k, i)'
    BY <2>2 DEF IsWrite
  <2> QED
    BY <2>1, <2>3, StaysPut
<1>2. ASSUME NEW how \in {"failed", "cancelled"}, EndSession(how) PROVE PriceSteps(a)'
  <2>1. UNCHANGED <<device, target, old, current, mode>> /\ outbox' = <<>>
    BY <1>2 DEF EndSession, Clear
  <2>2. \A k \in DOMAIN outbox', i \in Components : ~IsWrite(k, i)'
    BY <2>1
  <2>3. pending.owner # None => pending.owner \in Callers /\ pc[pending.owner] = "wait"
    BY <1>0 DEF CommandInv, PendingIsOwn, CommandTypeOK, NoPending
  <2>4. pc'[a] = pc[a] \/ (pc[a] \in Active /\ pc'[a] \in Active \ {"wait"})
    BY <1>0, <1>2, <2>3 DEF EndSession, CommandTypeOK, Active
  <2> QED
    BY <2>1, <2>2, <2>4, StaysPut
<1>3. CASE DeviceAssigns
  <2>1. /\ UNCHANGED <<target, old, current, mode, pc>>
        /\ outbox # <<>> /\ outbox' = Tail(outbox) /\ Head(outbox).cmd = "assign"
        /\ \/ device' = [device EXCEPT ![Head(outbox).id] = Head(outbox).value]
           \/ device' = device
    BY <1>3 DEF DeviceAssigns
  <2>2. Head(outbox) = outbox[1]
    BY <1>0, <2>1 DEF CommandTypeOK
  <2>3. \A i \in Components : \/ device'[i] = device[i]
                              \/ IsWrite(1, i) /\ device'[i] = outbox[1].value
    BY <1>0, <2>1, <2>2 DEF IsWrite, CommandTypeOK, Ids
  <2> QED
    BY <1>0, <2>1, <2>3, DeviceStep
<1>4. CASE DeviceAnswers
  <2>1. /\ UNCHANGED <<device, target, old, current, mode, pc>>
        /\ outbox # <<>> /\ outbox' = Tail(outbox)
    BY <1>4 DEF DeviceAnswers
  <2> QED
    BY <1>0, <2>1, DeviceStep
<1> QED
  BY <1>1, <1>2, <1>3, <1>4

LEMMA PriceStep == CommandInv /\ PriceInv /\ [CommandNext]_vars => PriceInv'
<1> SUFFICES ASSUME CommandInv, PriceInv, [CommandNext]_vars PROVE PriceInv'
  OBVIOUS
<1> USE DEF transit, calls, history
<1>0. CommandTypeOK /\ OthersIdle /\ ValuesOnly
  BY DEF CommandInv, PriceInv
<1>1. OthersIdle' /\ ValuesOnly'
  BY <1>0, OthersStep, ValuesStep
<1>2. ASSUME NEW a, a = alone', a # None, before' # None, premature' = "no"
      PROVE  PriceSteps(a)'
  <2>1. CASE \E c \in PriceCallers, p \in Prices : Call(c, p)
    <3>1. PICK c \in PriceCallers, p \in Prices : Call(c, p)
      BY <2>1
    <3>2. c = a
      BY <1>2, <3>1 DEF Call
    <3> QED
      BY <1>2, <3>1, <3>2, CallStep
  <2>2. CASE ~\E c \in PriceCallers, p \in Prices : Call(c, p)
    <3>1. alone = a /\ before' = before /\ premature = "no"
      BY <1>2, <2>2 DEF CommandNext, CallerStep, vars, Call, TakeLock, SendWrite,
                AttemptFails, EndPause, WriteDone, WriteFails, Cancelled, Connect,
                EndSession, DeviceAssigns, DeviceAnswers, Receive, Callers
    <3>2. a \in PriceCallers /\ PriceSteps(a) /\ before \in [Components -> Numbers]
      BY <1>0, <1>2, <3>1 DEF PriceInv, CommandTypeOK
    <3>3. ASSUME NEW c \in ValueCallers, NEW p \in Prices, Call(c, p) PROVE PriceSteps(a)'
      <4>1. c # a /\ c \in Callers /\ c \notin PriceCallers
        BY <3>2 DEF Callers
      <4>2. /\ UNCHANGED <<device, outbox, old, mode>> /\ pc'[a] = pc[a]
            /\ target'[a] = target[a] /\ current'[a] = current[a]
        BY <1>0, <3>2, <3>3, <4>1 DEF Call, AskLock, CommandTypeOK, Callers
      <4> QED
        BY <3>1, <3>2, <4>2, StaysPut
    <3>4. ASSUME NEW c \in Callers, CallerStep(c) PROVE PriceSteps(a)'
      BY <3>1, <3>2, <3>4, OwnStep, OtherStep
    <3>5. CASE Receive
      BY <1>2, <3>1, <3>2, <3>5, ReceiveStep
    <3>6. CASE \/ Connect \/ \E how \in {"failed", "cancelled"} : EndSession(how)
               \/ DeviceAssigns \/ DeviceAnswers
      BY <3>1, <3>2, <3>6, LinkStep
    <3>7. CASE UNCHANGED vars
      BY <3>2, <3>7, StaysPut DEF vars
    <3> QED
      BY <2>2, <3>3, <3>4, <3>5, <3>6, <3>7 DEF CommandNext, Callers
  <2> QED
    BY <2>1, <2>2
<1> QED
  BY <1>1, <1>2 DEF PriceInv

(***************************************************************************)
(* A price command that ran without another one leaves a whole price: the  *)
(* one it set or the one before (_set_price, _rollback_price_components),  *)
(* for any callers and prices and whatever becomes of the session.         *)
(***************************************************************************)
THEOREM PricesStayWhole == CommandSpec => []PriceIsWhole
<1>1. CommandInit => CommandInv /\ PriceInv
  BY TypeInit, PriceInit
<1>2. CommandInv /\ PriceInv /\ [CommandNext]_vars => (CommandInv /\ PriceInv)'
  BY TypeStep, LockStep, PriceStep DEF CommandInv
<1>3. CommandInv /\ PriceInv => PriceIsWhole
  BY DEF PriceInv, PriceSteps, PriceIsWhole, Left
<1> QED
  BY <1>1, <1>2, <1>3, PTL DEF CommandSpec

=============================================================================
