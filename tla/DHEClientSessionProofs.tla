------------------------ MODULE DHEClientSessionProofs ------------------------
(***************************************************************************)
(* Proofs about ConnectionSupervisor and about DHEClientSession, which     *)
(* extends it: for any delays and grace period, any number of sessions and *)
(* of session loop tasks.                                                  *)
(***************************************************************************)
EXTENDS DHEClientSession, FiniteSetTheorems, TLAPS

-----------------------------------------------------------------------------
(***************************************************************************)
(* The provers know nothing of 2^n but its being an integer.  As the       *)
(* number of subsets of 1..n it is positive and grows with n.              *)
(***************************************************************************)
LEMMA PowerIsPositive == \A n \in Nat : 2^n \in Nat \ {0}
<1> SUFFICES ASSUME NEW n \in Nat PROVE 2^n \in Nat \ {0}
  OBVIOUS
<1>1. IsFiniteSet(1 .. n) /\ Cardinality(1 .. n) = n
  BY FS_Interval
<1>2. IsFiniteSet(SUBSET (1 .. n)) /\ Cardinality(SUBSET (1 .. n)) = 2^n
  BY <1>1, FS_SUBSET
<1>3. SUBSET (1 .. n) # {}
  OBVIOUS
<1> QED
  BY <1>2, <1>3, FS_CardinalityType, FS_EmptySet

\* More numbers have more subsets.
LEMMA PowerGrows == \A n \in Nat : 2^n <= 2^(n + 1)
<1> SUFFICES ASSUME NEW n \in Nat PROVE 2^n <= 2^(n + 1)
  OBVIOUS
<1>1. /\ IsFiniteSet(1 .. n) /\ Cardinality(1 .. n) = n
      /\ IsFiniteSet(1 .. n + 1) /\ Cardinality(1 .. n + 1) = n + 1
  BY FS_Interval
<1>2. /\ Cardinality(SUBSET (1 .. n)) = 2^n
      /\ IsFiniteSet(SUBSET (1 .. n + 1))
      /\ Cardinality(SUBSET (1 .. n + 1)) = 2^(n + 1)
  BY <1>1, FS_SUBSET
<1>3. SUBSET (1 .. n) \subseteq SUBSET (1 .. n + 1)
  OBVIOUS
<1> QED
  BY <1>2, <1>3, FS_Subset

\* The delay of an attempt is positive, limited and grows with the attempts.
LEMMA BackoffBounds ==
    ASSUME NEW n \in Nat \ {0}
    PROVE  Backoff(n) \in 1 .. MaxDelay /\ Backoff(n) <= Backoff(n + 1)
<1>1. n - 1 \in Nat /\ (n + 1) - 1 = (n - 1) + 1
  OBVIOUS
<1> DEFINE p == 2^(n - 1)  q == 2^((n + 1) - 1)
<1>2. p \in Nat \ {0} /\ q \in Nat \ {0} /\ p <= q
  BY <1>1, PowerIsPositive, PowerGrows
<1>3. BaseDelay \in Nat \ {0} /\ MaxDelay \in Nat \ {0}
  BY SupervisorAssumption
<1> HIDE DEF p, q
<1>4. /\ BaseDelay * p \in Nat \ {0} /\ BaseDelay * q \in Nat \ {0}
      /\ BaseDelay * p <= BaseDelay * q
  BY <1>2, <1>3
<1>5. Backoff(n) = Lower(MaxDelay, BaseDelay * p)
      /\ Backoff(n + 1) = Lower(MaxDelay, BaseDelay * q)
  BY DEF Backoff, p, q
<1> QED
  BY <1>3, <1>4, <1>5 DEF Lower

(***************************************************************************)
(* The delay of an open outage is the one of its attempts; the attempts    *)
(* are counted before the delay is computed.                               *)
(***************************************************************************)
DelayOfAttempts ==
    disconnectedFor # Unset => attempts # 0 /\ nextDelay = Backoff(attempts)

SupervisorInv == SupervisorTypeOK /\ OutageHasDelay /\ DelayOfAttempts

\* A new supervisor knows no outage.
LEMMA SupervisorInitInv == SupervisorInit => SupervisorInv
  BY SupervisorAssumption
     DEF SupervisorInit, SupervisorInv, SupervisorTypeOK, OutageHasDelay,
         DelayOfAttempts, Unset

\* Every step keeps it.
LEMMA SupervisorStepInv ==
    SupervisorInv /\ [SupervisorNext]_supervisorVars => SupervisorInv'
<1> SUFFICES ASSUME SupervisorInv, [SupervisorNext]_supervisorVars
             PROVE  SupervisorInv'
  OBVIOUS
<1> USE SupervisorAssumption
    DEF SupervisorInv, SupervisorTypeOK, OutageHasDelay, DelayOfAttempts, Unset
<1>1. CASE MarkConnected
  BY <1>1 DEF MarkConnected
<1>2. CASE MarkDisconnected
  <2>1. attempts' \in 1 .. MaxAttempts
    BY <1>2 DEF MarkDisconnected, CarriedAttempts, Lower
  <2>2. Backoff(attempts') \in 1 .. MaxDelay
    BY <2>1, BackoffBounds
  <2> QED
    BY <1>2, <2>1, <2>2 DEF MarkDisconnected
<1>3. CASE Tick
  BY <1>3 DEF Tick, Age, Lower
<1>4. CASE UNCHANGED supervisorVars
  BY <1>4 DEF supervisorVars
<1> QED
  BY <1>1, <1>2, <1>3, <1>4 DEF SupervisorNext

\* It holds in every reachable state.
LEMMA SupervisorInvariant == SupervisorSpec => []SupervisorInv
  BY SupervisorInitInv, SupervisorStepInv, PTL DEF SupervisorSpec

(***************************************************************************)
(* Attempts, ages and the reconnect delay stay in their ranges: the delay  *)
(* never exceeds MaxDelay (_reconnect_backoff_delay).                      *)
(***************************************************************************)
THEOREM SupervisorTypeCorrect == SupervisorSpec => []SupervisorTypeOK
<1>1. SupervisorInv => SupervisorTypeOK
  BY DEF SupervisorInv
<1> QED
  BY SupervisorInvariant, <1>1, PTL

(***************************************************************************)
(* A client is never both connected and in an outage, and it has a         *)
(* reconnect delay exactly during an outage (mark_connected,               *)
(* mark_disconnected).                                                     *)
(***************************************************************************)
THEOREM OutageAlwaysHasDelay == SupervisorSpec => []OutageHasDelay
<1>1. SupervisorInv => OutageHasDelay
  BY DEF SupervisorInv
<1> QED
  BY SupervisorInvariant, <1>1, PTL

(***************************************************************************)
(* From one outage to the next the delay shrinks only over a stable        *)
(* connection: a flapping device keeps its backoff (mark_disconnected).    *)
(***************************************************************************)
THEOREM BackoffIsKept == SupervisorSpec => FlappingKeepsBackoff
<1>1. SupervisorInv /\ [SupervisorNext]_supervisorVars
        => [attempts # 0 /\ disconnectedFor' # Unset /\ nextDelay' < Backoff(attempts)
              => connectedFor >= StableResetAfter]_supervisorVars
  <2> SUFFICES ASSUME SupervisorInv, [SupervisorNext]_supervisorVars,
                      attempts # 0, disconnectedFor' # Unset,
                      nextDelay' < Backoff(attempts)
               PROVE  connectedFor >= StableResetAfter
    OBVIOUS
  <2> USE SupervisorAssumption DEF SupervisorInv, SupervisorTypeOK, DelayOfAttempts
  <2>1. Backoff(attempts) \in Nat /\ Backoff(attempts) <= Backoff(attempts + 1)
    BY BackoffBounds
  <2>2. CASE MarkConnected
    BY <2>2 DEF MarkConnected
  <2>3. CASE MarkDisconnected
    <3> SUFFICES ASSUME ~(connectedFor >= StableResetAfter) PROVE FALSE
      OBVIOUS
    <3>1. attempts' = attempts \/ attempts' = attempts + 1
      BY <2>3 DEF MarkDisconnected, CarriedAttempts, Lower
    <3>2. nextDelay' = Backoff(attempts) \/ nextDelay' = Backoff(attempts + 1)
      BY <2>3, <3>1 DEF MarkDisconnected
    <3>3. Backoff(attempts + 1) \in Nat
      BY BackoffBounds
    <3> QED
      BY <2>1, <3>2, <3>3
  <2>4. CASE Tick
    <3>1. disconnectedFor # Unset /\ nextDelay' = nextDelay
      BY <2>4 DEF Tick, Age
    <3> QED
      BY <2>1, <3>1
  <2>5. CASE UNCHANGED supervisorVars
    <3>1. disconnectedFor # Unset /\ nextDelay' = nextDelay
      BY <2>5 DEF supervisorVars
    <3> QED
      BY <2>1, <3>1
  <2> QED
    BY <2>2, <2>3, <2>4, <2>5 DEF SupervisorNext
<1> QED
  BY SupervisorInvariant, <1>1, PTL DEF SupervisorSpec, FlappingKeepsBackoff

(***************************************************************************)
(* The grace window runs from the first loss of an outage                  *)
(* (mark_disconnected keeps disconnected_at).                              *)
(***************************************************************************)
THEOREM GraceIsNotRestarted == SupervisorSpec => GraceRunsFromFirstLoss
<1>1. SupervisorInv /\ [SupervisorNext]_supervisorVars
        => [disconnectedFor # Unset /\ disconnectedFor' # Unset
              => disconnectedFor' >= disconnectedFor]_supervisorVars
  BY SupervisorAssumption
     DEF SupervisorInv, SupervisorTypeOK, SupervisorNext, MarkConnected,
         MarkDisconnected, Tick, Age, Lower, Unset, supervisorVars
<1> QED
  BY SupervisorInvariant, <1>1, PTL DEF SupervisorSpec, GraceRunsFromFirstLoss

-----------------------------------------------------------------------------
(***************************************************************************)
(* What a step of the session does to the supervisor is a step of the      *)
(* supervisor, or nothing.                                                 *)
(***************************************************************************)
LEMMA StepIsSupervised == [Next]_vars => [SupervisorNext]_supervisorVars
<1> SUFFICES ASSUME Next PROVE [SupervisorNext]_supervisorVars
  BY DEF vars
<1> USE DEF SupervisorNext, MarkReconnecting, OnlyRunner, OnlySuspends
<1>1. ASSUME NEW r \in Runners, RunnerStep(r)
      PROVE  [SupervisorNext]_supervisorVars
  <2>1. CASE OpenFails(r) \/ RequestsFail(r) \/ ReadClosed(r)
    BY <2>1 DEF OpenFails, RequestsFail, ReadClosed, LoseSession
  <2>2. CASE OpenRefused(r) \/ ProofMissing(r)
    BY <2>2 DEF OpenRefused, ProofMissing, FailAuthentication
  <2>3. CASE RequestsSent(r) \/ ProofHandled(r)
    BY <2>3 DEF RequestsSent, ProofHandled, Connect
  <2>4. CASE WatchdogReconnects(r)
    BY <2>4 DEF WatchdogReconnects, ForceReconnect
  <2>5. CASE \/ RunnerBegins(r) \/ OpenSucceeds(r) \/ ProofRead(r) \/ EventRead(r)
             \/ EventHandled(r) \/ WatchdogProbes(r) \/ WatchdogProbeSent(r)
    BY <2>5 DEF RunnerBegins, OpenSucceeds, ProofRead, EventRead, EventHandled,
                WatchdogProbes, WatchdogProbeSent
  <2>6. CASE \/ StaleClosed(r) \/ LostClosed(r) \/ BackoffEnds(r) \/ AuthClosed(r)
             \/ WaitEnds(r) \/ RunnerEnds(r) \/ RunnerCancelled(r)
             \/ CancellationLost(r)
    BY <2>6 DEF StaleClosed, LostClosed, BackoffEnds, AuthClosed, WaitEnds,
                RunnerEnds, RunnerCancelled, CancellationLost
  <2> QED
    BY <1>1, <2>1, <2>2, <2>3, <2>4, <2>5, <2>6 DEF RunnerStep
<1>2. ASSUME NEW s \in Sessions, \/ HeartbeatFails(s) \/ HeartbeatClosed(s)
                                 \/ HeartbeatEnds(s) \/ DeviceLoses(s)
      PROVE  [SupervisorNext]_supervisorVars
  BY <1>2 DEF HeartbeatFails, HeartbeatClosed, HeartbeatEnds, DeviceLoses,
              ForceReconnect
<1>3. CASE GraceExpires \/ TimePasses
  BY <1>3 DEF GraceExpires, TimePasses
<1>4. CASE CommandStep
  BY <1>4 DEF CommandStep, CommandBegins, CommandWoken, CommandResumes,
              CommandEnds, CommandFails, CommandForceClosed, CommandRetries,
              RepairBegins, RepairRestarts, ReauthRestarts, Restart,
              ForceReconnect
<1>5. CASE StopStep
  BY <1>5 DEF StopStep, StopAfterGrace, StopAfterRunner, StopEntryDone,
              StopCommandDone
<1>6. CASE EntrySetup \/ EntryUnload
  BY <1>6 DEF EntrySetup, EntryUnload
<1> QED
  BY <1>1, <1>2, <1>3, <1>4, <1>5, <1>6 DEF Next

\* Every step keeps the flags Boolean.
LEMMA FlagsStep == FlagsTypeOK /\ [Next]_vars => FlagsTypeOK'
<1> SUFFICES ASSUME FlagsTypeOK, [Next]_vars PROVE FlagsTypeOK'
  OBVIOUS
<1> USE DEF FlagsTypeOK, availVars, linkVars, OnlyRunner, OnlySuspends,
            ShowUnavailable, MarkReconnecting, DropSession, EndRunner,
            ForceReconnect
<1>1. ASSUME NEW r \in Runners, RunnerStep(r) PROVE FlagsTypeOK'
  <2> USE DEF NextSession, ReadOn
  <2>1. CASE OpenFails(r) \/ RequestsFail(r) \/ ReadClosed(r)
    BY <2>1, Zenon DEF OpenFails, RequestsFail, ReadClosed, LoseSession
  <2>2. CASE OpenRefused(r) \/ ProofMissing(r)
    BY <2>2, Zenon DEF OpenRefused, ProofMissing, FailAuthentication
  <2>3. CASE RequestsSent(r) \/ ProofHandled(r)
    BY <2>3, Zenon DEF RequestsSent, ProofHandled, Connect
  <2>4. CASE WatchdogReconnects(r) \/ RunnerCancelled(r) \/ CancellationLost(r)
    BY <2>4, Zenon DEF WatchdogReconnects, RunnerCancelled, CancellationLost
  <2>5. CASE RunnerBegins(r) \/ OpenSucceeds(r) \/ ProofRead(r) \/ EventRead(r)
    BY <2>5, Zenon DEF RunnerBegins, OpenSucceeds, ProofRead, EventRead
  <2>6. CASE EventHandled(r) \/ WatchdogProbes(r) \/ WatchdogProbeSent(r)
    BY <2>6, Zenon DEF EventHandled, WatchdogProbes, WatchdogProbeSent
  <2>7. CASE StaleClosed(r) \/ LostClosed(r) \/ BackoffEnds(r)
    BY <2>7, Zenon DEF StaleClosed, LostClosed, BackoffEnds
  <2>8. CASE AuthClosed(r) \/ WaitEnds(r) \/ RunnerEnds(r)
    BY <2>8, Zenon DEF AuthClosed, WaitEnds, RunnerEnds
  <2> QED
    BY <1>1, <2>1, <2>2, <2>3, <2>4, <2>5, <2>6, <2>7, <2>8 DEF RunnerStep
<1>2. ASSUME NEW s \in Sessions, \/ HeartbeatFails(s) \/ HeartbeatClosed(s)
                                 \/ HeartbeatEnds(s) \/ DeviceLoses(s)
      PROVE  FlagsTypeOK'
  BY <1>2, Zenon DEF HeartbeatFails, HeartbeatClosed, HeartbeatEnds, DeviceLoses
<1>3. CASE GraceExpires \/ TimePasses
  BY <1>3, Zenon DEF GraceExpires, TimePasses
<1> USE DEF Start, StopCleanup, StopRunner, BeginStop, runnerVars
<1>4. CASE CommandStep
  <2> USE <1>4 DEF OnlyCommand
  <2>1. CASE CommandFails
    BY <2>1, Zenon DEF CommandFails
  <2>2. CASE RepairBegins \/ RepairRestarts \/ ReauthRestarts
    BY <2>2, Zenon DEF RepairBegins, RepairRestarts, ReauthRestarts, Restart
  <2>3. CASE ~CommandFails /\ ~(RepairBegins \/ RepairRestarts \/ ReauthRestarts)
    BY <2>3, Zenon DEF CommandStep, CommandBegins, CommandWoken, CommandResumes,
                CommandEnds, CommandForceClosed, CommandRetries
  <2> QED
    BY <2>1, <2>2, <2>3
<1>5. CASE StopStep
  <2>1. ASSUME NEW k \in Stoppers, StopAfterGrace(k) \/ StopAfterRunner(k)
        PROVE  FlagsTypeOK'
    BY <2>1, Zenon DEF StopAfterGrace, StopAfterRunner
  <2>2. CASE StopEntryDone \/ StopCommandDone
    BY <2>2, Zenon DEF StopEntryDone, StopCommandDone
  <2> QED
    BY <1>5, <2>1, <2>2 DEF StopStep
<1>6. CASE EntrySetup \/ EntryUnload
  BY <1>6, Zenon DEF EntrySetup, EntryUnload
<1>7. CASE UNCHANGED vars
  BY <1>7, Zenon DEF vars
<1> QED
  BY <1>1, <1>2, <1>3, <1>4, <1>5, <1>6, <1>7 DEF Next

\* The places where a task of the session loop can be suspended.
Places == {"done", "start", "opening", "requesting", "proving", "proved",
           "reading", "event", "probing", "stale_close", "lost_close", "backoff",
           "paused", "auth_close", "auth_wait", "cleanup_close"}

\* Ending a session or beginning the next one keeps the types it touches.
LEMMA NextSessionTypes ==
    ASSUME TasksTypeOK, NEW r \in Runners,
           EndRunner(r) \/ NextSession(r) \/ ReadOn(r)
    PROVE  /\ ctx' \in Sessions \cup {None}
           /\ rpc' \in [Runners -> Places]
           /\ rctx' \in [Runners -> Sessions \cup {None}]
           /\ ping' \in [Sessions -> {"none", "sleeping", "closing"}]
<1> USE DEF TasksTypeOK, Places, Suspend
<1>1. ASSUME EndRunner(r)
      PROVE  /\ ctx' \in Sessions \cup {None}
             /\ rpc' \in [Runners -> Places]
             /\ rctx' \in [Runners -> Sessions \cup {None}]
             /\ ping' \in [Sessions -> {"none", "sleeping", "closing"}]
  BY <1>1, SMT DEF EndRunner, DropSession, CancelPing
<1>2. ASSUME NextSession(r), ~EndRunner(r)
      PROVE  /\ ctx' \in Sessions \cup {None}
             /\ rpc' \in [Runners -> Places]
             /\ rctx' \in [Runners -> Sessions \cup {None}]
             /\ ping' \in [Sessions -> {"none", "sleeping", "closing"}]
  BY <1>2, SMT DEF NextSession, linkVars
<1>3. ASSUME ReadOn(r), ~NextSession(r)
      PROVE  /\ ctx' \in Sessions \cup {None}
             /\ rpc' \in [Runners -> Places]
             /\ rctx' \in [Runners -> Sessions \cup {None}]
             /\ ping' \in [Sessions -> {"none", "sleeping", "closing"}]
  BY <1>3, SMT DEF ReadOn, linkVars
<1> QED
  BY <1>1, <1>2, <1>3

\* Closing a websocket, and a forced reconnect, keep the types they touch.
LEMMA CloseTypes ==
    ASSUME TasksTypeOK, NEW s \in Sessions \cup {None}, CloseWebsocket(s)
    PROVE  sess' \in [Sessions -> {"open", "lost", "closed"}]
BY DEF TasksTypeOK, CloseWebsocket

LEMMA ForceTypes ==
    ASSUME TasksTypeOK, NEW s, ForceReconnect(s)
    PROVE  ctx' \in Sessions \cup {None}
BY Zenon DEF TasksTypeOK, ForceReconnect, linkVars

\* start() keeps the types of the session loop task.
LEMMA StartTypes ==
    ASSUME TasksTypeOK, Start
    PROVE  /\ runner' \in Runners \cup {None}
           /\ rpc' \in [Runners -> Places]
           /\ rctx' \in [Runners -> Sessions \cup {None}]
           /\ cancelled' \in [Runners -> BOOLEAN]
<1>1. CASE RunnerAlive
  BY <1>1, SMT DEF TasksTypeOK, Places, Start, runnerVars
<1>2. CASE ~RunnerAlive
  <2>1. PICK r \in Runners : /\ runner' = r /\ Suspend(r, "start", None)
                            /\ cancelled' = [cancelled EXCEPT ![r] = FALSE]
    BY <1>2, Zenon DEF Start
  <2> QED
    BY <2>1, SMT DEF TasksTypeOK, Places, Suspend
<1> QED
  BY <1>1, <1>2

\* What the steps of a stop() change.
StopTypeOK ==
    /\ ctx \in Sessions \cup {None}
    /\ runner \in Runners \cup {None}
    /\ rpc \in [Runners -> Places]
    /\ rctx \in [Runners -> Sessions \cup {None}]
    /\ cancelled \in [Runners -> BOOLEAN]
    /\ ping \in [Sessions -> {"none", "sleeping", "closing"}]
    /\ spc \in [Stoppers -> {"idle", "grace", "runner", "close"}]
    /\ swait \in [Stoppers -> Runners \cup {None}]
    /\ sctx \in [Stoppers -> Sessions \cup {None}]

\* The steps of a stop() keep these types.
LEMMA StopTypes ==
    ASSUME TasksTypeOK, NEW k \in Stoppers,
           \/ BeginStop(k) \/ StopRunner(k)
           \/ StopCleanup(k) /\ UNCHANGED runnerVars
    PROVE  StopTypeOK'
<1> USE DEF TasksTypeOK, StopTypeOK, Places, SuspendStop, runnerVars
<1>1. ASSUME StopCleanup(k), UNCHANGED runnerVars PROVE StopTypeOK'
  BY <1>1, SMT DEF StopCleanup, DropSession, CancelPing
<1>2. ASSUME StopRunner(k) PROVE StopTypeOK'
  <2>1. CASE RunnerAlive
    <3>1. runner \in Runners /\ SuspendStop(k, "runner", runner, None)
          /\ UNCHANGED <<ctx, ping, rpc, rctx>> /\ runner' = None
          /\ cancelled' = [cancelled EXCEPT ![runner] = TRUE]
      BY <1>2, <2>1, Zenon DEF StopRunner, RunnerAlive, linkVars
    <3> QED
      BY <3>1, SMT
  <2>2. CASE ~RunnerAlive
    BY <1>2, <2>2, SMT DEF StopRunner, StopCleanup, DropSession, CancelPing
  <2> QED
    BY <2>1, <2>2
<1>3. ASSUME BeginStop(k), ~StopRunner(k) PROVE StopTypeOK'
  BY <1>3, SMT DEF BeginStop, linkVars
<1> QED
  BY <1>1, <1>2, <1>3

\* A restart after repair or reauthentication.
LEMMA RestartTypes ==
    ASSUME TasksTypeOK, NEW kind \in CommandKinds, Restart(kind) PROVE TasksTypeOK'
<1> USE DEF TasksTypeOK
<1>1. /\ UNCHANGED <<sess, cctx, attempt, entry>>
      /\ cpc' \in {"stopping", "idle"} /\ ckind' \in {kind, "none"}
  BY DEF Restart
<1>2. StopTypeOK'
  <2>1. CASE RunnerAlive
    <3>1. BeginStop("command") /\ "command" \in Stoppers
      BY <2>1, Zenon DEF Restart, Stoppers
    <3> QED
      BY <3>1, StopTypes
  <2>2. CASE ~RunnerAlive
    <3>1. Start /\ UNCHANGED <<ctx, ping, spc, swait, sctx>>
      BY <2>2, Zenon DEF Restart, linkVars
    <3> QED
      BY <3>1, StartTypes DEF StopTypeOK, Places
  <2> QED
    BY <2>1, <2>2
<1> QED
  BY <1>1, <1>2, SMT DEF StopTypeOK, Places

\* The end of a stop(): its session is closed, if it had one.
LEMMA StopDoneTypes ==
    ASSUME TasksTypeOK, NEW k \in Stoppers,
           IF sctx[k] = None THEN UNCHANGED sess ELSE CloseWebsocket(sctx[k]),
           SuspendStop(k, "idle", None, None)
    PROVE  /\ sess' \in [Sessions -> {"open", "lost", "closed"}]
           /\ spc' \in [Stoppers -> {"idle", "grace", "runner", "close"}]
           /\ swait' \in [Stoppers -> Runners \cup {None}]
           /\ sctx' \in [Stoppers -> Sessions \cup {None}]
<1>1. sess' \in [Sessions -> {"open", "lost", "closed"}]
  <2>1. sctx[k] \in Sessions \cup {None}
    BY DEF TasksTypeOK
  <2> QED
    BY <2>1, CloseTypes DEF TasksTypeOK
<1> QED
  BY <1>1 DEF TasksTypeOK, SuspendStop

\* Every step keeps the types of the tasks and sessions.
LEMMA TasksStep == TasksTypeOK /\ [Next]_vars => TasksTypeOK'
<1> SUFFICES ASSUME TasksTypeOK, [Next]_vars PROVE TasksTypeOK'
  OBVIOUS
<1> USE DEF TasksTypeOK, Places, StopTypeOK, availVars, linkVars, runnerVars,
            socketVars, commandVars, stopVars, OnlyRunner, OnlySuspends, Suspend,
            CancelPing
<1>1. ASSUME NEW r \in Runners, RunnerStep(r) PROVE TasksTypeOK'
  <2>1. CASE RunnerBegins(r)
    BY <2>1, NextSessionTypes DEF RunnerBegins
  <2>2. CASE OpenSucceeds(r)
    BY <2>2 DEF OpenSucceeds
  <2>3. CASE OpenFails(r)
    BY <2>3 DEF OpenFails, LoseSession
  <2>4. CASE OpenRefused(r)
    BY <2>4 DEF OpenRefused, FailAuthentication
  <2>5. CASE RequestsSent(r)
    BY <2>5, NextSessionTypes DEF RequestsSent, Connect
  <2>6. CASE RequestsFail(r)
    BY <2>6 DEF RequestsFail, LoseSession
  <2>7. CASE ProofRead(r)
    BY <2>7 DEF ProofRead
  <2>8. CASE ProofHandled(r)
    BY <2>8, NextSessionTypes DEF ProofHandled, Connect
  <2>9. CASE ProofMissing(r)
    BY <2>9 DEF ProofMissing, FailAuthentication
  <2>10. CASE ReadClosed(r)
    BY <2>10 DEF ReadClosed, LoseSession
  <2>11. CASE EventRead(r)
    BY <2>11 DEF EventRead
  <2>12. CASE EventHandled(r)
    BY <2>12, NextSessionTypes DEF EventHandled
  <2>13. CASE WatchdogProbes(r)
    BY <2>13 DEF WatchdogProbes
  <2>14. CASE WatchdogProbeSent(r)
    BY <2>14, NextSessionTypes DEF WatchdogProbeSent
  <2>15. CASE WatchdogReconnects(r)
    BY <2>15, StopTypes, ForceTypes DEF WatchdogReconnects
  <2>16. CASE StaleClosed(r)
    BY <2>16, NextSessionTypes, StopTypes, CloseTypes DEF StaleClosed
  <2>17. CASE LostClosed(r)
    BY <2>17, StopTypes, CloseTypes DEF LostClosed
  <2>18. CASE BackoffEnds(r)
    BY <2>18, NextSessionTypes DEF BackoffEnds
  <2>19. CASE AuthClosed(r)
    BY <2>19, StopTypes, CloseTypes DEF AuthClosed
  <2>20. CASE WaitEnds(r)
    BY <2>20, NextSessionTypes DEF WaitEnds
  <2>21. CASE RunnerEnds(r)
    BY <2>21, StopTypes, CloseTypes DEF RunnerEnds
  <2>22. CASE RunnerCancelled(r)
    BY <2>22, NextSessionTypes, StopTypes, CloseTypes
       DEF RunnerCancelled, Closing
  <2>23. CASE CancellationLost(r)
    BY <2>23 DEF CancellationLost, Closing
  <2> QED
    BY <1>1, <2>1, <2>2, <2>3, <2>4, <2>5, <2>6, <2>7, <2>8, <2>9, <2>10,
       <2>11, <2>12, <2>13, <2>14, <2>15, <2>16, <2>17, <2>18, <2>19, <2>20,
       <2>21, <2>22, <2>23 DEF RunnerStep
<1>2. ASSUME NEW s \in Sessions, HeartbeatFails(s) PROVE TasksTypeOK'
  BY <1>2, StopTypes, ForceTypes DEF HeartbeatFails
<1>3. ASSUME NEW s \in Sessions, HeartbeatClosed(s) PROVE TasksTypeOK'
  BY <1>3, StopTypes, CloseTypes DEF HeartbeatClosed
<1>4. ASSUME NEW s \in Sessions, HeartbeatEnds(s) PROVE TasksTypeOK'
  BY <1>4 DEF HeartbeatEnds
<1>5. ASSUME NEW s \in Sessions, DeviceLoses(s) PROVE TasksTypeOK'
  BY <1>5 DEF DeviceLoses
<1>6. CASE GraceExpires
  BY <1>6 DEF GraceExpires
<1>7. CASE TimePasses
  BY <1>7 DEF TimePasses
<1>8. ASSUME NEW kind \in CommandKinds, CommandBegins(kind) PROVE TasksTypeOK'
  BY <1>8 DEF CommandBegins, Ensure, OnlyCommand, CommandMoves
<1>9. CASE CommandWoken
  BY <1>9 DEF CommandWoken, CommandMoves, OnlyCommand
<1>10. CASE CommandResumes
  BY <1>10 DEF CommandResumes, CommandMoves, OnlyCommand
<1>11. CASE CommandEnds
  BY <1>11 DEF CommandEnds, CommandDone, OnlyCommand, CommandMoves
<1>12. CASE CommandFails
  BY <1>12, StopTypes, ForceTypes
     DEF CommandFails, MayRetry, CommandMoves, CommandDone, OnlyCommand
<1>13. CASE CommandForceClosed
  BY <1>13, StopTypes, CloseTypes
     DEF CommandForceClosed, CommandMoves, OnlyCommand
<1>14. CASE CommandRetries
  BY <1>14 DEF CommandRetries, Ensure, OnlyCommand, CommandMoves
<1>15. CASE "repair" \in CommandKinds /\ RepairBegins
  BY <1>15 DEF RepairBegins
<1>16. CASE "repair" \in CommandKinds /\ RepairRestarts
  BY <1>16, RestartTypes DEF RepairRestarts
<1>17. CASE "reauth" \in CommandKinds /\ ReauthRestarts
  BY <1>17, RestartTypes DEF ReauthRestarts
<1>18. ASSUME NEW k \in Stoppers, StopAfterGrace(k) PROVE TasksTypeOK'
  BY <1>18, StopTypes DEF StopAfterGrace
<1>19. ASSUME NEW k \in Stoppers, StopAfterRunner(k) PROVE TasksTypeOK'
  BY <1>19, StopTypes DEF StopAfterRunner
<1>20. CASE StopEntryDone
  BY <1>20, StopDoneTypes DEF StopEntryDone, Stoppers
<1>21. CASE StopCommandDone
  BY <1>21, StopDoneTypes, StartTypes DEF StopCommandDone, Stoppers
<1>22. CASE EntrySetup
  BY <1>22, StartTypes DEF EntrySetup
<1>23. CASE EntryUnload
  BY <1>23, StopTypes DEF EntryUnload, Stoppers
<1>24. CASE UNCHANGED vars
  BY <1>24 DEF vars
<1> QED
  BY <1>1, <1>2, <1>3, <1>4, <1>5, <1>6, <1>7, <1>8, <1>9, <1>10, <1>11, <1>12,
     <1>13, <1>14, <1>15, <1>16, <1>17, <1>18, <1>19, <1>20, <1>21, <1>22,
     <1>23, <1>24
     DEF Next, CommandStep, StopStep

-----------------------------------------------------------------------------
(***************************************************************************)
(* Who runs the session loop, and which stop() waits for it.               *)
(***************************************************************************)
\* Where a task suspends, and that no other task moves.
LEMMA SuspendMoves ==
    ASSUME TasksTypeOK, NEW r \in Runners, NEW at, NEW s, Suspend(r, at, s)
    PROVE  /\ rpc'[r] = at /\ rctx'[r] = s
           /\ \A q \in Runners : q # r => rpc'[q] = rpc[q] /\ rctx'[q] = rctx[q]
BY DEF TasksTypeOK, Suspend

\* The same of a stop().
LEMMA StopMoves ==
    ASSUME TasksTypeOK, NEW k \in Stoppers, NEW at, NEW r, NEW s,
           SuspendStop(k, at, r, s)
    PROVE  /\ spc'[k] = at /\ swait'[k] = r /\ sctx'[k] = s
           /\ \A j \in Stoppers : j # k => /\ spc'[j] = spc[j]
                                           /\ swait'[j] = swait[j]
                                           /\ sctx'[j] = sctx[j]
BY DEF TasksTypeOK, SuspendStop

\* A step of a session loop task is one of a running task and moves no other.
LEMMA RunnerStepFrame ==
    ASSUME TasksTypeOK, NEW r \in Runners, RunnerStep(r)
    PROVE  /\ Alive(r)
           /\ \A q \in Runners : q # r => rpc'[q] = rpc[q] /\ rctx'[q] = rctx[q]
           /\ UNCHANGED <<stopped, runner, commandVars, stopVars>>
<1> DEFINE Moves == \E at, s : Suspend(r, at, s)
           Frame == UNCHANGED <<stopped, runner, commandVars, stopVars>>
<1>1. Moves => \A q \in Runners : q # r => rpc'[q] = rpc[q] /\ rctx'[q] = rctx[q]
  BY SuspendMoves
<1>2. NextSession(r) \/ ReadOn(r) \/ EndRunner(r) => Moves
  BY Zenon DEF NextSession, ReadOn, EndRunner
<1> HIDE DEF Moves
<1> USE DEF Alive, Resumes, OnlyRunner, OnlySuspends
<1>3. CASE OpenFails(r) \/ RequestsFail(r) \/ ReadClosed(r)
  <2>1. LoseSession(r) /\ Alive(r)
    BY <1>3 DEF OpenFails, RequestsFail, ReadClosed
  <2>2. Moves /\ Frame
    BY <2>1, Zenon DEF LoseSession, Moves
  <2> QED
    BY <2>1, <2>2, <1>1
<1>4. CASE OpenRefused(r) \/ ProofMissing(r)
  <2>1. FailAuthentication(r) /\ Alive(r)
    BY <1>4 DEF OpenRefused, ProofMissing
  <2>2. Moves /\ Frame
    BY <2>1, Zenon DEF FailAuthentication, Moves
  <2> QED
    BY <2>1, <2>2, <1>1
<1>5. CASE RequestsSent(r) \/ ProofHandled(r)
  <2>1. Alive(r)
    BY <1>5 DEF RequestsSent, ProofHandled
  <2>2. Moves /\ Frame
    BY <1>5, <1>2, Zenon DEF RequestsSent, ProofHandled, Connect, Moves
  <2> QED
    BY <2>1, <2>2, <1>1
<1>6. CASE RunnerBegins(r) \/ OpenSucceeds(r) \/ ProofRead(r) \/ EventRead(r)
  <2>1. Alive(r)
    BY <1>6 DEF RunnerBegins, OpenSucceeds, ProofRead, EventRead
  <2>2. Moves /\ Frame
    BY <1>6, <1>2, Zenon DEF RunnerBegins, OpenSucceeds, ProofRead, EventRead, Moves
  <2> QED
    BY <2>1, <2>2, <1>1
<1>7. CASE \/ EventHandled(r) \/ WatchdogProbes(r) \/ WatchdogProbeSent(r)
           \/ WatchdogReconnects(r)
  <2>1. Alive(r)
    BY <1>7 DEF EventHandled, WatchdogProbes, WatchdogProbeSent, WatchdogReconnects
  <2>2. Moves /\ Frame
    BY <1>7, <1>2, Zenon DEF EventHandled, WatchdogProbes, WatchdogProbeSent,
                             WatchdogReconnects, Moves
  <2> QED
    BY <2>1, <2>2, <1>1
<1>8. CASE StaleClosed(r) \/ LostClosed(r) \/ BackoffEnds(r) \/ AuthClosed(r)
  <2>1. Alive(r)
    BY <1>8 DEF StaleClosed, LostClosed, BackoffEnds, AuthClosed
  <2>2. Moves /\ Frame
    BY <1>8, <1>2, Zenon DEF StaleClosed, LostClosed, BackoffEnds, AuthClosed, Moves
  <2> QED
    BY <2>1, <2>2, <1>1
<1>9. CASE WaitEnds(r) \/ RunnerEnds(r) \/ RunnerCancelled(r)
  <2>1. Alive(r)
    BY <1>9 DEF WaitEnds, RunnerEnds, RunnerCancelled
  <2>2. Moves /\ Frame
    BY <1>9, <1>2, Zenon DEF WaitEnds, RunnerEnds, RunnerCancelled, Moves
  <2> QED
    BY <2>1, <2>2, <1>1
<1>10. CASE CancellationLost(r)
  BY <1>10 DEF CancellationLost, Closing
<1> QED
  BY <1>3, <1>4, <1>5, <1>6, <1>7, <1>8, <1>9, <1>10 DEF RunnerStep

\* The steps that leave session loop tasks and stops as they are.
Bystander ==
    \/ \E s \in Sessions : \/ HeartbeatFails(s) \/ HeartbeatClosed(s)
                           \/ HeartbeatEnds(s) \/ DeviceLoses(s)
    \/ GraceExpires \/ TimePasses
    \/ \E kind \in CommandKinds : CommandBegins(kind)
    \/ CommandWoken \/ CommandResumes \/ CommandEnds \/ CommandFails
    \/ CommandForceClosed \/ CommandRetries
    \/ "repair" \in CommandKinds /\ RepairBegins

\* The steps that do not.
Restarts == \/ "repair" \in CommandKinds /\ RepairRestarts
            \/ "reauth" \in CommandKinds /\ ReauthRestarts

LEMMA NextSplit ==
    ASSUME [Next]_vars
    PROVE  \/ \E r \in Runners : RunnerStep(r)
           \/ Bystander \/ Restarts \/ StopStep \/ EntrySetup \/ EntryUnload
           \/ UNCHANGED vars
BY Zenon DEF Next, CommandStep, Bystander, Restarts

\* They neither stop a session loop nor start one, and stop() is not the command.
LEMMA BystanderFrame ==
    ASSUME Bystander
    PROVE  /\ UNCHANGED <<stopped, runnerVars, stopVars>>
           /\ cpc' # cpc => cpc # "stopping" /\ cpc' # "stopping"
           /\ cpc' # cpc => entry # "setup" \/ cpc # "idle"
<1> USE DEF OnlyCommand, CommandMoves, CommandDone, Ensure, stopVars, commandVars
<1>1. CASE \E s \in Sessions : \/ HeartbeatFails(s) \/ HeartbeatClosed(s)
                               \/ HeartbeatEnds(s) \/ DeviceLoses(s)
  BY <1>1 DEF HeartbeatFails, HeartbeatClosed, HeartbeatEnds, DeviceLoses
<1>2. CASE GraceExpires \/ TimePasses
  BY <1>2 DEF GraceExpires, TimePasses
<1>3. CASE \E kind \in CommandKinds : CommandBegins(kind)
  BY <1>3 DEF CommandBegins
<1>4. CASE CommandWoken \/ CommandResumes \/ CommandEnds \/ CommandRetries
  BY <1>4 DEF CommandWoken, CommandResumes, CommandEnds, CommandRetries
<1>5. CASE CommandFails
  BY <1>5 DEF CommandFails
<1>6. CASE CommandForceClosed \/ RepairBegins
  BY <1>6 DEF CommandForceClosed, RepairBegins
<1> QED
  BY <1>1, <1>2, <1>3, <1>4, <1>5, <1>6 DEF Bystander

(***************************************************************************)
(* A running session loop task is the client's, or a stop() waits for it;  *)
(* a stop() is running exactly while its caller waits for it; before setup *)
(* nothing runs.                                                           *)
(***************************************************************************)
WaitedFor(r) == \E k \in Stoppers : spc[k] = "runner" /\ swait[k] = r

LoopIsKnown == \A r \in Runners : Alive(r) => r = runner \/ WaitedFor(r)

RestartsPossible == "repair" \in CommandKinds \/ "reauth" \in CommandKinds

StopsMatch ==
    /\ (spc["entry"] # "idle") <=> (entry = "unloading")
    /\ (spc["command"] # "idle") <=> (cpc = "stopping")
    /\ entry = "setup" => cpc = "idle" /\ \A r \in Runners : ~Alive(r)
    /\ cpc = "stopping" => RestartsPossible
    /\ entry \in {"unloading", "unloaded"} => MayUnload

LoopInv == SupervisorInv /\ TypeOK /\ LoopIsKnown /\ StopsMatch

\* Nothing runs when the program starts.
LEMMA LoopInit == Init => LoopInv
<1> SUFFICES ASSUME Init PROVE LoopInv
  OBVIOUS
<1> USE DEF Init
<1>1. SupervisorInv /\ SupervisorTypeOK
  BY SupervisorInitInv DEF SupervisorInv
<1>2. FlagsTypeOK
  BY Zenon DEF FlagsTypeOK
<1>3. TasksTypeOK
  BY DEF TasksTypeOK, Stoppers
<1>4. LoopIsKnown
  BY DEF LoopIsKnown, Alive
<1>5. StopsMatch
  BY DEF StopsMatch, Alive, Stoppers
<1> QED
  BY <1>1, <1>2, <1>3, <1>4, <1>5 DEF LoopInv, TypeOK

\* The task a stop() takes away from the client is waited for.
LEMMA StopKnows ==
    ASSUME TasksTypeOK, LoopIsKnown, NEW k \in Stoppers, spc[k] # "runner",
           BeginStop(k) \/ StopRunner(k)
    PROVE  /\ LoopIsKnown' /\ UNCHANGED rpc
           /\ spc'[k] # "idle"
           /\ spc'[k] \in {"runner", "close"} => runner' = None
           /\ \A j \in Stoppers : j # k => spc'[j] = spc[j]
           /\ runner' = runner \/ runner' = None
<1> USE DEF LoopIsKnown, WaitedFor, Alive
<1>1. ASSUME StopRunner(k), RunnerAlive
      PROVE  /\ LoopIsKnown' /\ UNCHANGED rpc /\ runner' = None
             /\ spc'[k] = "runner"
             /\ \A j \in Stoppers : j # k => spc'[j] = spc[j]
  <2>1. SuspendStop(k, "runner", runner, None) /\ UNCHANGED rpc /\ runner' = None
    BY <1>1, Zenon DEF StopRunner
  <2> QED
    BY <2>1, StopMoves
<1>2. ASSUME StopRunner(k), ~RunnerAlive
      PROVE  /\ LoopIsKnown' /\ UNCHANGED rpc /\ runner' = None
             /\ spc'[k] = "close"
             /\ \A j \in Stoppers : j # k => spc'[j] = spc[j]
  <2>1. SuspendStop(k, "close", None, ctx) /\ UNCHANGED rpc /\ runner' = None
    BY <1>2, Zenon DEF StopRunner, StopCleanup
  <2>2. \A r \in Runners : Alive(r) => r # runner
    BY <1>2, SessionAssumption DEF RunnerAlive
  <2> QED
    BY <2>1, <2>2, StopMoves
<1>3. ASSUME BeginStop(k), ~StopRunner(k)
      PROVE  /\ LoopIsKnown' /\ UNCHANGED <<rpc, runner>>
             /\ spc'[k] = "grace"
             /\ \A j \in Stoppers : j # k => spc'[j] = spc[j]
  <2>1. SuspendStop(k, "grace", None, None) /\ UNCHANGED <<rpc, runner>>
    BY <1>3, Zenon DEF BeginStop, runnerVars
  <2> QED
    BY <2>1, StopMoves
<1> QED
  BY <1>1, <1>2, <1>3

\* What start() does: nothing, or a new task that is the client's.
LEMMA StartKnows ==
    ASSUME TasksTypeOK, Start
    PROVE  \/ RunnerAlive /\ UNCHANGED <<stopped, runner, rpc, rctx>>
           \/ /\ ~RunnerAlive /\ ~stopped'
              /\ runner' \in Runners /\ ~Alive(runner') /\ rpc'[runner'] = "start"
              /\ \A q \in Runners : q # runner' => rpc'[q] = rpc[q] /\ rctx'[q] = rctx[q]
<1>1. CASE RunnerAlive
  BY <1>1, Zenon DEF Start, runnerVars
<1>2. CASE ~RunnerAlive
  <2>1. PICK r \in Runners : /\ runner' = r /\ FreeRunner(r)
                             /\ Suspend(r, "start", None)
    BY <1>2, Zenon DEF Start
  <2>2. ~stopped'
    BY <1>2, Zenon DEF Start
  <2> QED
    BY <1>2, <2>1, <2>2, SuspendMoves DEF FreeRunner
<1> QED
  BY <1>1, <1>2

\* Every step keeps them.
LEMMA LoopStep == LoopInv /\ [Next]_vars => LoopInv'
<1> SUFFICES ASSUME LoopInv, [Next]_vars PROVE LoopInv'
  OBVIOUS
<1>0. SupervisorInv /\ TasksTypeOK /\ FlagsTypeOK /\ LoopIsKnown /\ StopsMatch
  BY DEF LoopInv, TypeOK
<1>1. SupervisorInv' /\ SupervisorTypeOK'
  BY <1>0, StepIsSupervised, SupervisorStepInv DEF SupervisorInv
<1>2. TypeOK'
  BY <1>0, <1>1, FlagsStep, TasksStep DEF TypeOK
<1>3. LoopIsKnown' /\ StopsMatch'
  <2> USE <1>0
  <2>1. ASSUME NEW r \in Runners, RunnerStep(r) PROVE LoopIsKnown' /\ StopsMatch'
    BY <2>1, RunnerStepFrame
       DEF LoopIsKnown, WaitedFor, StopsMatch, Alive, commandVars, stopVars
  <2>2. CASE Bystander
    BY <2>2, BystanderFrame
       DEF LoopIsKnown, WaitedFor, StopsMatch, Alive, runnerVars, stopVars
  <2>3. CASE Restarts
    <3>1. PICK kind \in {"repair", "reauth"} :
            /\ kind \in CommandKinds /\ Restart(kind)
            /\ \/ cpc = "clear_token"
               \/ cpc = "idle" /\ entry # "setup"
      BY <2>3 DEF Restarts, RepairRestarts, ReauthRestarts
    <3>2. entry # "setup" /\ spc["command"] = "idle" /\ RestartsPossible
      BY <3>1 DEF StopsMatch, RestartsPossible
    <3>3. entry' = entry /\ "command" \in Stoppers /\ "entry" \in Stoppers
      BY <3>1 DEF Restart, Stoppers
    <3>4. CASE RunnerAlive
      <4>1. BeginStop("command") /\ cpc' = "stopping"
        BY <3>1, <3>4, Zenon DEF Restart
      <4>2. LoopIsKnown' /\ spc'["command"] # "idle" /\ spc'["entry"] = spc["entry"]
        BY <3>2, <3>3, <4>1, StopKnows
      <4> QED
        BY <3>2, <3>3, <4>1, <4>2 DEF StopsMatch, RestartsPossible
    <3>5. CASE ~RunnerAlive
      <4>1. Start /\ cpc' = "idle" /\ UNCHANGED <<spc, swait>>
        BY <3>1, <3>5, Zenon DEF Restart
      <4> QED
        BY <3>2, <3>3, <3>5, <4>1, StartKnows, SessionAssumption
           DEF StopsMatch, RestartsPossible, LoopIsKnown, WaitedFor, Alive, RunnerAlive
    <3> QED
      BY <3>4, <3>5
  <2>4. CASE StopStep
    <3> USE DEF LoopIsKnown, WaitedFor, StopsMatch, RestartsPossible, Alive
    <3>1. ASSUME NEW k \in Stoppers, StopAfterGrace(k)
          PROVE  LoopIsKnown' /\ StopsMatch'
      <4>1. StopRunner(k) /\ spc[k] = "grace" /\ UNCHANGED <<cpc, entry>>
        BY <3>1 DEF StopAfterGrace, commandVars
      <4>2. /\ LoopIsKnown' /\ UNCHANGED rpc /\ spc'[k] # "idle"
            /\ \A j \in Stoppers : j # k => spc'[j] = spc[j]
        BY <4>1, StopKnows
      <4> QED
        BY <4>1, <4>2 DEF Stoppers
    <3>2. ASSUME NEW k \in Stoppers, StopAfterRunner(k)
          PROVE  LoopIsKnown' /\ StopsMatch'
      <4>1. /\ SuspendStop(k, "close", None, ctx) /\ spc[k] = "runner"
            /\ ~Alive(swait[k]) /\ UNCHANGED <<cpc, entry, runner, rpc>>
        BY <3>2 DEF StopAfterRunner, StopCleanup, commandVars, runnerVars
      <4> QED
        BY <4>1, StopMoves DEF Stoppers
    <3>3. CASE StopEntryDone
      <4>1. /\ SuspendStop("entry", "idle", None, None) /\ spc["entry"] = "close"
            /\ entry' = "unloaded" /\ UNCHANGED <<cpc, runner, rpc>>
        BY <3>3 DEF StopEntryDone, commandVars, runnerVars
      <4> QED
        BY <4>1, StopMoves DEF Stoppers
    <3>4. CASE StopCommandDone
      <4>1. /\ SuspendStop("command", "idle", None, None) /\ spc["command"] = "close"
            /\ entry' = entry /\ cpc' = "idle" /\ Start
        BY <3>4 DEF StopCommandDone
      <4> QED
        BY <4>1, StopMoves, StartKnows, SessionAssumption DEF Stoppers, RunnerAlive
    <3> QED
      BY <2>4, <3>1, <3>2, <3>3, <3>4 DEF StopStep
  <2>5. CASE EntrySetup
    <3>1. /\ Start /\ entry = "setup" /\ entry' = "loaded"
          /\ UNCHANGED <<cpc, spc, swait>>
      BY <2>5 DEF EntrySetup, commandVars
    <3> QED
      BY <3>1, StartKnows
         DEF LoopIsKnown, WaitedFor, StopsMatch, RestartsPossible, Alive, RunnerAlive
  <2>6. CASE EntryUnload
    <3>1. /\ BeginStop("entry") /\ entry = "loaded" /\ entry' = "unloading"
          /\ cpc' = cpc /\ MayUnload /\ "entry" \in Stoppers
      BY <2>6 DEF EntryUnload, commandVars, Stoppers
    <3>2. spc["entry"] = "idle"
      BY <3>1 DEF StopsMatch
    <3>3. /\ LoopIsKnown' /\ spc'["entry"] # "idle"
          /\ \A j \in Stoppers : j # "entry" => spc'[j] = spc[j]
      BY <3>1, <3>2, StopKnows
    <3> QED
      BY <3>1, <3>3 DEF StopsMatch, RestartsPossible, Stoppers
  <2>7. CASE UNCHANGED vars
    BY <2>7 DEF LoopIsKnown, WaitedFor, StopsMatch, Alive, vars, runnerVars,
                commandVars, stopVars
  <2> QED
    BY <2>1, <2>2, <2>3, <2>4, <2>5, <2>6, <2>7, NextSplit
<1> QED
  BY <1>1, <1>2, <1>3 DEF LoopInv

\* They hold in every reachable state.
LEMMA LoopInvariant == Spec => []LoopInv
  BY LoopInit, LoopStep, PTL DEF Spec

(***************************************************************************)
(* The session keeps its types: every task is suspended at one of the      *)
(* awaits of the code, on a session of the client or on none.              *)
(***************************************************************************)
THEOREM SessionTypeCorrect == Spec => []TypeOK
<1>1. LoopInv => TypeOK
  BY DEF LoopInv
<1> QED
  BY LoopInvariant, <1>1, PTL

(***************************************************************************)
(* Two stops overlap only when the entry is unloaded while a repair or     *)
(* reauthentication restarts the client.  Without that a stop() that has   *)
(* taken the session loop leaves the client without one, so no second      *)
(* session loop is started beside the one it waits for.                    *)
(***************************************************************************)
OneLoop == \A r, q \in Runners : Alive(r) /\ Alive(q) => r = q

StopTakesLoop == \A k \in Stoppers : spc[k] \in {"runner", "close"} => runner = None

StopsNeverOverlap == ~MayUnload \/ ~RestartsPossible

\* A stop() that took the loop keeps the client without one.
LEMMA StopTakesLoopStep ==
    ASSUME StopsNeverOverlap, LoopInv, StopTakesLoop, [Next]_vars
    PROVE  StopTakesLoop'
<1> USE SessionAssumption DEF StopTakesLoop, StopsMatch, Stoppers
<1>0. /\ TasksTypeOK /\ LoopIsKnown /\ StopsMatch
      /\ "command" \in Stoppers /\ "entry" \in Stoppers
      /\ entry # "unloading" \/ cpc # "stopping"
  BY DEF LoopInv, TypeOK, StopsNeverOverlap
<1> HIDE DEF Stoppers
<1>1. ASSUME NEW r \in Runners, RunnerStep(r) PROVE StopTakesLoop'
  BY <1>0, <1>1, RunnerStepFrame DEF stopVars
<1>2. CASE Bystander
  BY <1>2, BystanderFrame DEF runnerVars, stopVars
<1>3. CASE Restarts
  <2>1. PICK kind \in {"repair", "reauth"} :
          /\ kind \in CommandKinds /\ Restart(kind)
          /\ \/ cpc = "clear_token"
             \/ cpc = "idle" /\ entry # "setup"
    BY <1>3 DEF Restarts, RepairRestarts, ReauthRestarts
  <2>2. spc["command"] = "idle" /\ spc["entry"] = "idle"
    BY <1>0, <2>1 DEF StopsNeverOverlap, RestartsPossible
  <2>3. CASE RunnerAlive
    <3>1. BeginStop("command")
      BY <2>1, <2>3, Zenon DEF Restart
    <3> QED
      BY <1>0, <2>2, <3>1, StopKnows DEF Stoppers
  <2>4. CASE ~RunnerAlive
    <3>1. UNCHANGED spc
      BY <2>1, <2>4, Zenon DEF Restart
    <3> QED
      BY <2>2, <3>1 DEF Stoppers
  <2> QED
    BY <2>3, <2>4
<1>4. ASSUME NEW k \in Stoppers, StopAfterGrace(k) PROVE StopTakesLoop'
  <2>1. StopRunner(k) /\ spc[k] = "grace"
    BY <1>4 DEF StopAfterGrace
  <2>2. runner' = None
    BY <2>1 DEF StopRunner
  <2> QED
    BY <2>2
<1>5. ASSUME NEW k \in Stoppers, StopAfterRunner(k) PROVE StopTakesLoop'
  BY <1>5 DEF StopAfterRunner, runnerVars
<1>6. CASE StopEntryDone
  <2>1. SuspendStop("entry", "idle", None, None) /\ UNCHANGED runner
    BY <1>6 DEF StopEntryDone, runnerVars
  <2> QED
    BY <1>0, <2>1, StopMoves
<1>7. CASE StopCommandDone
  <2>1. SuspendStop("command", "idle", None, None) /\ spc["command"] = "close"
    BY <1>7 DEF StopCommandDone
  <2>2. spc'["command"] = "idle" /\ spc'["entry"] = "idle"
    BY <1>0, <2>1, StopMoves
  <2> QED
    BY <2>2 DEF Stoppers
<1>8. CASE EntrySetup
  <2>1. UNCHANGED spc /\ entry = "setup"
    BY <1>8 DEF EntrySetup
  <2> QED
    BY <1>0, <2>1 DEF Stoppers
<1>9. CASE EntryUnload
  <2>1. BeginStop("entry") /\ entry = "loaded" /\ MayUnload
    BY <1>9 DEF EntryUnload
  <2>2. spc["entry"] = "idle" /\ spc["command"] = "idle"
    BY <1>0, <2>1 DEF StopsNeverOverlap
  <2> QED
    BY <1>0, <2>1, <2>2, StopKnows DEF Stoppers
<1>10. CASE UNCHANGED vars
  BY <1>10 DEF vars, runnerVars, stopVars
<1> QED
  BY <1>1, <1>2, <1>3, <1>4, <1>5, <1>6, <1>7, <1>8, <1>9, <1>10, NextSplit
     DEF StopStep

(***************************************************************************)
(* Without overlapping stops there is never more than one session loop:    *)
(* stop() waits for the task it cancels before anybody starts another one  *)
(* (start and stop in client.py, repair_pairing, restart_after_reauth).    *)
(***************************************************************************)
THEOREM OneLoopRuns ==
    ASSUME StopsNeverOverlap PROVE Spec => []OneLoop
<1>1. Init => StopTakesLoop
  BY DEF Init, StopTakesLoop
<1>2. LoopInv /\ StopTakesLoop /\ [Next]_vars => StopTakesLoop'
  BY StopTakesLoopStep
<1>3. LoopInv /\ StopTakesLoop => OneLoop
  <2> SUFFICES ASSUME LoopInv, StopTakesLoop, NEW r \in Runners, NEW q \in Runners,
                      Alive(r), Alive(q)
               PROVE  r = q
    BY DEF OneLoop
  <2>1. (r = runner \/ WaitedFor(r)) /\ (q = runner \/ WaitedFor(q))
    BY DEF LoopInv, LoopIsKnown
  <2>2. spc["entry"] = "idle" \/ spc["command"] = "idle"
    BY DEF LoopInv, StopsMatch, StopsNeverOverlap
  <2> QED
    BY <2>1, <2>2, SessionAssumption DEF WaitedFor, Stoppers, StopTakesLoop
<1> QED
  BY <1>1, <1>2, <1>3, LoopInvariant, PTL DEF Spec

-----------------------------------------------------------------------------
(***************************************************************************)
(* Websockets.  The current session is one a session loop task works on.   *)
(***************************************************************************)
Uses == {"requesting", "proving", "proved", "reading", "event", "probing"}

CurrentIsUsed ==
    ctx # None => \E r \in Runners : rpc[r] \in Uses /\ rctx[r] = ctx

SocketInv == CurrentIsUsed /\ OnlyCurrentSessionLives

\* Task r opens no websocket, and has closed the one it was closing.
ClosesOwn(r) ==
    \A s \in Sessions : \/ sess'[s] = "closed"
                        \/ sess'[s] = sess[s] /\ ~(rpc[r] \in Closing /\ rctx[r] = s)

\* What is known of a step of task r that opens no session.
RunnerMoved(r) ==
    /\ \A q \in Runners : q # r => rpc'[q] = rpc[q] /\ rctx'[q] = rctx[q]
    /\ UNCHANGED <<commandVars, stopVars>>
    /\ ClosesOwn(r)

LEMMA RunnerMoves ==
    ASSUME TasksTypeOK, NEW r \in Runners, RunnerStep(r), ~OpenSucceeds(r), ~CancellationLost(r)
    PROVE  RunnerMoved(r)
<1> USE DEF Resumes, OnlyRunner, OnlySuspends, socketVars
<1>1. CloseWebsocket(rctx[r]) => ClosesOwn(r)
  BY DEF TasksTypeOK, CloseWebsocket, ClosesOwn
<1>2. rpc[r] \notin Closing /\ UNCHANGED sess => ClosesOwn(r)
  BY DEF ClosesOwn
<1>3. CASE OpenFails(r) \/ RequestsFail(r) \/ ReadClosed(r)
  BY <1>2, <1>3, RunnerStepFrame
     DEF RunnerMoved, OpenFails, RequestsFail, ReadClosed, LoseSession, Closing
<1>4. CASE OpenRefused(r) \/ ProofMissing(r)
  BY <1>2, <1>4, RunnerStepFrame
     DEF RunnerMoved, OpenRefused, ProofMissing, FailAuthentication, Closing
<1>5. CASE RequestsSent(r) \/ ProofHandled(r)
  BY <1>2, <1>5, RunnerStepFrame
     DEF RunnerMoved, RequestsSent, ProofHandled, Connect, Closing
<1>6. CASE RunnerBegins(r) \/ ProofRead(r) \/ EventRead(r) \/ BackoffEnds(r)
  BY <1>2, <1>6, RunnerStepFrame
     DEF RunnerMoved, RunnerBegins, ProofRead, EventRead, BackoffEnds, Closing
<1>7. CASE \/ EventHandled(r) \/ WatchdogProbes(r) \/ WatchdogProbeSent(r)
           \/ WatchdogReconnects(r) \/ WaitEnds(r)
  BY <1>2, <1>7, RunnerStepFrame
     DEF RunnerMoved, EventHandled, WatchdogProbes, WatchdogProbeSent,
         WatchdogReconnects, WaitEnds, Closing
<1>8. CASE StaleClosed(r) \/ LostClosed(r) \/ AuthClosed(r) \/ RunnerEnds(r)
  BY <1>1, <1>8, RunnerStepFrame
     DEF RunnerMoved, StaleClosed, LostClosed, AuthClosed, RunnerEnds
<1>9. CASE RunnerCancelled(r)
  <2>1. ClosesOwn(r)
    BY <1>1, <1>2, <1>9, Zenon DEF RunnerCancelled, Closing
  <2> QED
    BY <2>1, RunnerStepFrame DEF RunnerMoved
<1> QED
  BY <1>3, <1>4, <1>5, <1>6, <1>7, <1>8, <1>9 DEF RunnerStep

\* A task that keeps the current session in use keeps the invariant ...
LEMMA MovesOn ==
    ASSUME TasksTypeOK, SocketInv, NEW r \in Runners, RunnerMoved(r),
           UNCHANGED <<ctx, ping>>,
           rpc[r] \in Uses /\ rctx[r] = ctx /\ ctx # None
             => rpc'[r] \in Uses /\ rctx'[r] = ctx
    PROVE  SocketInv'
<1> USE DEF SocketInv, RunnerMoved
<1>1. CurrentIsUsed'
  BY DEF CurrentIsUsed
<1>2. OnlyCurrentSessionLives'
  BY DEF OnlyCurrentSessionLives, InClose, ClosesOwn, commandVars, stopVars
<1> QED
  BY <1>1, <1>2

\* ... and so does one that drops the current session and closes it.
LEMMA Drops ==
    ASSUME TasksTypeOK, SocketInv, NEW r \in Runners, RunnerMoved(r),
           ctx' = None, CancelPing(ctx),
           ctx # None => rpc'[r] \in Closing /\ rctx'[r] = ctx
    PROVE  SocketInv'
<1> USE DEF SocketInv, RunnerMoved
<1>1. CurrentIsUsed'
  BY DEF CurrentIsUsed
<1>2. \A s \in Sessions : /\ ping'[s] # "sleeping"
                          /\ ping[s] = "closing" => ping'[s] = "closing"
  BY SessionAssumption DEF CancelPing, OnlyCurrentSessionLives, TasksTypeOK
<1>3. ASSUME NEW s \in Sessions, sess'[s] # "closed" PROVE InClose(s)'
  <2>1. s = ctx \/ InClose(s)
    BY <1>3 DEF OnlyCurrentSessionLives, ClosesOwn
  <2>2. CASE s = ctx
    BY <2>2, SessionAssumption DEF InClose
  <2>3. CASE InClose(s)
    BY <1>2, <1>3, <2>3 DEF InClose, ClosesOwn, commandVars, stopVars
  <2> QED
    BY <2>1, <2>2, <2>3
<1> QED
  BY <1>1, <1>2, <1>3 DEF OnlyCurrentSessionLives

\* The ways on of the session loop.
LEMMA EndRunnerSockets ==
    ASSUME TasksTypeOK, SocketInv, NEW r \in Runners, RunnerMoved(r), EndRunner(r)
    PROVE  SocketInv'
<1>1. rpc'[r] = (IF ctx = None THEN "done" ELSE "cleanup_close") /\ rctx'[r] = ctx
  BY SuspendMoves DEF EndRunner
<1> QED
  BY <1>1, Drops DEF EndRunner, DropSession, Closing

LEMMA NextSessionSockets ==
    ASSUME TasksTypeOK, SocketInv, NEW r \in Runners, RunnerMoved(r),
           \/ NextSession(r) /\ (ctx = None \/ rpc[r] \notin Uses)
           \/ ReadOn(r)
    PROVE  SocketInv'
<1>1. CASE EndRunner(r)
  BY <1>1, EndRunnerSockets
<1>2. CASE NextSession(r) /\ ~EndRunner(r) /\ (ctx = None \/ rpc[r] \notin Uses)
  BY <1>2, MovesOn DEF NextSession, linkVars
<1>3. CASE ReadOn(r) /\ ctx # None /\ ~stopped
  <2>1. Suspend(r, "reading", ctx) /\ UNCHANGED <<ctx, ping>>
    BY <1>3, Zenon DEF ReadOn, linkVars
  <2> QED
    BY <2>1, MovesOn, SuspendMoves DEF Uses
<1> QED
  BY <1>1, <1>2, <1>3 DEF ReadOn, NextSession

\* Every step of the session loop keeps the websockets accounted for.
LEMMA RunnerSockets ==
    ASSUME TasksTypeOK, OneLoop, SocketInv, NEW r \in Runners, RunnerStep(r)
    PROVE  SocketInv'
<1> USE DEF Resumes, Uses
<1>1. CASE OpenSucceeds(r)
  <2>1. PICK s \in Sessions :
          /\ Unused(s) /\ ctx' = s /\ Suspend(r, "requesting", s)
          /\ sess' = [sess EXCEPT ![s] = "open"]
          /\ ping' = [ping EXCEPT ![s] = "sleeping"]
          /\ rpc[r] = "opening" /\ UNCHANGED <<commandVars, stopVars>>
    BY <1>1 DEF OpenSucceeds, OnlyRunner
  <2>2. /\ rpc'[r] = "requesting" /\ rctx'[r] = s
        /\ \A q \in Runners : q # r => rpc'[q] = rpc[q] /\ rctx'[q] = rctx[q]
    BY <2>1, SuspendMoves
  <2>3. ctx = None
    BY <2>1 DEF SocketInv, CurrentIsUsed, OneLoop, Alive
  <2>4. CurrentIsUsed'
    BY <2>1, <2>2 DEF CurrentIsUsed
  <2>5. ASSUME NEW t \in Sessions, sess'[t] # "closed" PROVE (t = ctx \/ InClose(t))'
    <3>1. CASE t # s
      BY <2>1, <2>2, <2>3, <2>5, <3>1, SessionAssumption
         DEF SocketInv, OnlyCurrentSessionLives, InClose, TasksTypeOK, commandVars,
             stopVars, Closing
    <3> QED
      BY <2>1, <3>1
  <2>6. ASSUME NEW t \in Sessions, ping'[t] = "sleeping" PROVE t = ctx'
    BY <2>1, <2>3, <2>6, SessionAssumption
       DEF SocketInv, OnlyCurrentSessionLives, TasksTypeOK
  <2> QED
    BY <2>4, <2>5, <2>6 DEF SocketInv, OnlyCurrentSessionLives
<1>2. CASE CancellationLost(r)
  BY <1>2 DEF CancellationLost, linkVars, socketVars, commandVars, stopVars,
              SocketInv, CurrentIsUsed, OnlyCurrentSessionLives, InClose
<1>3. CASE ~OpenSucceeds(r) /\ ~CancellationLost(r)
  <2>0. RunnerMoved(r)
    BY <1>3, RunnerMoves
  <2>1. CASE OpenFails(r) \/ RequestsFail(r) \/ ReadClosed(r)
    <3>1. /\ ctx' = None /\ CancelPing(ctx)
          /\ ctx # None => Suspend(r, "lost_close", ctx)
      BY <2>1 DEF OpenFails, RequestsFail, ReadClosed, LoseSession
    <3> QED
      BY <2>0, <3>1, SuspendMoves, Drops DEF Closing
  <2>2. CASE OpenRefused(r) \/ ProofMissing(r)
    <3>1. /\ ctx' = None /\ CancelPing(ctx)
          /\ ctx # None => Suspend(r, "auth_close", ctx)
      BY <2>2 DEF OpenRefused, ProofMissing, FailAuthentication
    <3> QED
      BY <2>0, <3>1, SuspendMoves, Drops DEF Closing
  <2>3. CASE RequestsSent(r) \/ ProofHandled(r)
    <3>1. \/ EndRunner(r)
          \/ /\ UNCHANGED <<ctx, ping>>
             /\ \/ Suspend(r, IF ctx = None THEN "opening" ELSE "reading", ctx)
                \/ ctx # None /\ Suspend(r, "proving", ctx)
      BY <2>3, Zenon DEF RequestsSent, ProofHandled, Connect, linkVars
    <3> QED
      BY <2>0, <3>1, SuspendMoves, EndRunnerSockets, MovesOn
  <2>4. CASE RunnerBegins(r) \/ BackoffEnds(r)
    <3>1. NextSession(r) /\ rpc[r] \notin Uses
      BY <2>4 DEF RunnerBegins, BackoffEnds
    <3> QED
      BY <2>0, <3>1, NextSessionSockets
  <2>5. CASE ProofRead(r) \/ EventRead(r) \/ WatchdogProbes(r)
    <3>1. /\ UNCHANGED <<ctx, ping>>
          /\ \/ Suspend(r, "proved", rctx[r]) \/ Suspend(r, "event", rctx[r])
             \/ Suspend(r, "probing", rctx[r])
      BY <2>5 DEF ProofRead, EventRead, WatchdogProbes, OnlySuspends, linkVars,
                  socketVars
    <3> QED
      BY <2>0, <3>1, SuspendMoves, MovesOn
  <2>6. CASE EventHandled(r) \/ WatchdogProbeSent(r) \/ StaleClosed(r)
    <3>1. ReadOn(r)
      BY <2>6 DEF EventHandled, WatchdogProbeSent, StaleClosed
    <3> QED
      BY <2>0, <3>1, NextSessionSockets
  <2>7. CASE WatchdogReconnects(r)
    <3>1. /\ rpc[r] \in Uses /\ Suspend(r, "stale_close", rctx[r])
          /\ ForceReconnect(rctx[r]) /\ CancelPing(rctx[r])
      BY <2>7 DEF WatchdogReconnects
    <3>2. rpc'[r] = "stale_close" /\ rctx'[r] = rctx[r]
      BY <3>1, SuspendMoves
    <3>3. CASE rctx[r] # None /\ ctx # rctx[r]
      <4>1. UNCHANGED ctx
        BY <3>1, <3>3, Zenon DEF ForceReconnect, linkVars
      <4>2. UNCHANGED ping
        BY <3>1, <3>3 DEF CancelPing, SocketInv, OnlyCurrentSessionLives, TasksTypeOK
      <4> QED
        BY <2>0, <3>3, <4>1, <4>2, MovesOn
    <3>4. CASE rctx[r] = None \/ ctx = rctx[r]
      <4>1. ctx' = None
        BY <3>1, <3>4, Zenon DEF ForceReconnect
      <4>2. ctx = rctx[r]
        BY <3>1, <3>4 DEF SocketInv, CurrentIsUsed, OneLoop, Alive
      <4> QED
        BY <2>0, <3>1, <3>2, <4>1, <4>2, Drops DEF Closing
    <3> QED
      BY <3>3, <3>4
  <2>8. CASE LostClosed(r) \/ AuthClosed(r) \/ RunnerEnds(r)
    BY <2>0, <2>8, MovesOn DEF LostClosed, AuthClosed, RunnerEnds, linkVars
  <2>9. CASE WaitEnds(r)
    BY <2>0, <2>9, EndRunnerSockets DEF WaitEnds
  <2>10. CASE RunnerCancelled(r)
    <3>1. \/ EndRunner(r)
          \/ rpc[r] \in {"start", "cleanup_close"} /\ UNCHANGED <<ctx, ping>>
      BY <2>10, Zenon DEF RunnerCancelled, linkVars
    <3> QED
      BY <2>0, <3>1, EndRunnerSockets, MovesOn
  <2> QED
    BY <1>3, <2>1, <2>2, <2>3, <2>4, <2>5, <2>6, <2>7, <2>8, <2>9, <2>10
       DEF RunnerStep
<1> QED
  BY <1>1, <1>2, <1>3

\* Heartbeats, the device, the timers and commands keep them.
LEMMA BystanderSockets ==
    ASSUME TasksTypeOK, SocketInv, Bystander PROVE SocketInv'
<1> USE DEF SocketInv, linkVars, socketVars, OnlyCommand, CommandMoves, CommandDone
<1>0. UNCHANGED <<rpc, rctx, spc, sctx>>
  BY BystanderFrame DEF runnerVars, stopVars
<1>a. ctx' = None \/ ctx' = ctx => CurrentIsUsed'
  BY <1>0 DEF CurrentIsUsed
<1> HIDE DEF SocketInv
<1>1. ASSUME NEW s \in Sessions, HeartbeatFails(s) PROVE SocketInv'
  <2>1. /\ ping[s] = "sleeping" /\ ping' = [ping EXCEPT ![s] = "closing"]
        /\ UNCHANGED <<sess, cpc, cctx>>
    BY <1>1 DEF HeartbeatFails, commandVars
  <2>2. s = ctx
    BY <2>1 DEF SocketInv, OnlyCurrentSessionLives
  <2>3. ctx' = None
    BY <1>1, <2>2, Zenon DEF HeartbeatFails, ForceReconnect
  <2>4. OnlyCurrentSessionLives'
    BY <1>0, <2>1, <2>2, <2>3 DEF SocketInv, OnlyCurrentSessionLives, InClose, TasksTypeOK
  <2> QED
    BY <1>a, <2>3, <2>4 DEF SocketInv
<1>2. ASSUME NEW s \in Sessions, HeartbeatClosed(s) \/ HeartbeatEnds(s) PROVE SocketInv'
  <2>1. /\ \/ /\ sess' = [sess EXCEPT ![s] = "closed"]
              /\ ping' = [ping EXCEPT ![s] = "none"]
           \/ /\ sess' = sess /\ ping[s] = "sleeping"
              /\ ping' = [ping EXCEPT ![s] = "none"]
        /\ UNCHANGED <<ctx, cpc, cctx>>
    BY <1>2 DEF HeartbeatClosed, HeartbeatEnds, CloseWebsocket, commandVars
  <2>2. OnlyCurrentSessionLives'
    BY <1>0, <2>1 DEF SocketInv, OnlyCurrentSessionLives, InClose, TasksTypeOK
  <2> QED
    BY <1>a, <2>1, <2>2 DEF SocketInv
<1>3. ASSUME NEW s \in Sessions, DeviceLoses(s) PROVE SocketInv'
  <2>1. /\ sess[s] = "open" /\ sess' = [sess EXCEPT ![s] = "lost"]
        /\ UNCHANGED <<ctx, ping, cpc, cctx>>
    BY <1>3 DEF DeviceLoses, commandVars
  <2>2. OnlyCurrentSessionLives'
    BY <1>0, <2>1 DEF SocketInv, OnlyCurrentSessionLives, InClose, TasksTypeOK
  <2> QED
    BY <1>a, <2>1, <2>2 DEF SocketInv
<1>4. CASE GraceExpires \/ TimePasses
  <2>1. UNCHANGED <<ctx, sess, ping, cpc, cctx>>
    BY <1>4 DEF GraceExpires, TimePasses, commandVars
  <2> QED
    BY <1>0, <1>a, <2>1 DEF SocketInv, OnlyCurrentSessionLives, InClose
<1>5. CASE \/ \E kind \in CommandKinds : CommandBegins(kind)
           \/ CommandWoken \/ CommandResumes \/ CommandEnds \/ CommandRetries
           \/ RepairBegins
  <2>1. cpc # "force_close" /\ UNCHANGED <<ctx, sess, ping>>
    BY <1>5 DEF CommandBegins, CommandWoken, CommandResumes, CommandEnds,
                CommandRetries, RepairBegins
  <2> QED
    BY <1>0, <1>a, <2>1 DEF SocketInv, OnlyCurrentSessionLives, InClose
<1>6. CASE CommandFails
  <2>1. cpc # "force_close" /\ UNCHANGED sess
    BY <1>6 DEF CommandFails
  <2>2. CASE UNCHANGED <<ctx, ping>>
    BY <1>0, <1>a, <2>1, <2>2 DEF SocketInv, OnlyCurrentSessionLives, InClose
  <2>3. CASE ~UNCHANGED <<ctx, ping>>
    <3>1. /\ ctx' = None /\ CancelPing(ctx)
          /\ ctx # None => cpc' = "force_close" /\ cctx' = ctx
      BY <1>6, <2>3 DEF CommandFails, ForceReconnect
    <3>2. \A s \in Sessions : /\ ping'[s] # "sleeping"
                              /\ ping[s] = "closing" => ping'[s] = "closing"
      BY <3>1, SessionAssumption
         DEF CancelPing, SocketInv, OnlyCurrentSessionLives, TasksTypeOK
    <3> QED
      BY <1>0, <1>a, <2>1, <3>1, <3>2, SessionAssumption
         DEF SocketInv, OnlyCurrentSessionLives, InClose
  <2> QED
    BY <2>2, <2>3
<1>7. CASE CommandForceClosed
  <2>1. /\ cpc = "force_close" /\ cpc' = "retry_wait" /\ UNCHANGED <<ctx, ping>>
        /\ CloseWebsocket(cctx)
    BY <1>7 DEF CommandForceClosed
  <2> QED
    BY <1>0, <1>a, <2>1
       DEF SocketInv, OnlyCurrentSessionLives, InClose, CloseWebsocket, TasksTypeOK
<1> QED
  BY <1>1, <1>2, <1>3, <1>4, <1>5, <1>6, <1>7 DEF Bystander

\* A stop() that takes or drops the session closes it.
LEMMA StopSockets ==
    ASSUME TasksTypeOK, SocketInv, NEW k \in Stoppers, spc[k] # "close",
           \/ BeginStop(k) \/ StopRunner(k)
           \/ StopCleanup(k) /\ UNCHANGED runnerVars,
           UNCHANGED sess, cpc # "force_close" \/ UNCHANGED <<cpc, cctx>>
    PROVE  SocketInv'
<1>1. CASE StopCleanup(k) /\ UNCHANGED <<rpc, rctx>>
  <2>1. ctx' = None /\ CancelPing(ctx) /\ SuspendStop(k, "close", None, ctx)
    BY <1>1 DEF StopCleanup, DropSession
  <2>2. \A s \in Sessions : /\ ping'[s] # "sleeping"
                            /\ ping[s] = "closing" => ping'[s] = "closing"
    BY <2>1, SessionAssumption
       DEF CancelPing, SocketInv, OnlyCurrentSessionLives, TasksTypeOK
  <2>3. ASSUME NEW s \in Sessions, sess'[s] # "closed" PROVE InClose(s)'
    BY <1>1, <2>1, <2>2, <2>3, StopMoves
       DEF SocketInv, OnlyCurrentSessionLives, InClose
  <2> QED
    BY <2>1, <2>2, <2>3 DEF SocketInv, CurrentIsUsed, OnlyCurrentSessionLives
<1>2. CASE ~(StopCleanup(k) /\ UNCHANGED <<rpc, rctx>>)
  <2>1. /\ \E at \in {"grace", "runner"} : \E r : SuspendStop(k, at, r, None)
        /\ UNCHANGED <<ctx, ping, rpc, rctx>>
    BY <1>2, Zenon DEF BeginStop, StopRunner, linkVars, runnerVars
  <2>2. UNCHANGED <<ctx, ping, rpc, rctx>> /\ spc'[k] # "close"
        /\ \A j \in Stoppers : j # k => spc'[j] = spc[j] /\ sctx'[j] = sctx[j]
    BY <2>1, StopMoves
  <2> QED
    BY <2>2 DEF SocketInv, CurrentIsUsed, OnlyCurrentSessionLives, InClose
<1> QED
  BY <1>1, <1>2

\* A start changes no session.
LEMMA StartSockets ==
    ASSUME TasksTypeOK, SocketInv, Start, UNCHANGED <<ctx, ping>>,
           cpc # "force_close" \/ UNCHANGED <<cpc, cctx>>,
           \A s \in Sessions : sess'[s] = sess[s] \/ sess'[s] = "closed",
           \A k \in Stoppers : \/ spc'[k] = spc[k] /\ sctx'[k] = sctx[k]
                               \/ \A s \in Sessions : sctx[k] = s => sess'[s] = "closed"
    PROVE  SocketInv'
<1>1. \A r \in Runners : rpc[r] # "done" => rpc'[r] = rpc[r] /\ rctx'[r] = rctx[r]
  BY StartKnows DEF Alive
<1>2. CurrentIsUsed'
  BY <1>1 DEF SocketInv, CurrentIsUsed, Uses
<1>3. OnlyCurrentSessionLives'
  BY <1>1 DEF SocketInv, OnlyCurrentSessionLives, InClose, Closing
<1> QED
  BY <1>2, <1>3 DEF SocketInv

\* Every step keeps the websockets accounted for.
LEMMA SocketStep ==
    ASSUME LoopInv, OneLoop, SocketInv, [Next]_vars PROVE SocketInv'
<1>0. TasksTypeOK /\ StopsMatch /\ "command" \in Stoppers /\ "entry" \in Stoppers
  BY DEF LoopInv, TypeOK, Stoppers
<1>1. ASSUME NEW r \in Runners, RunnerStep(r) PROVE SocketInv'
  BY <1>0, <1>1, RunnerSockets
<1>2. CASE Bystander
  BY <1>0, <1>2, BystanderSockets
<1>3. CASE Restarts
  <2>1. PICK kind \in {"repair", "reauth"} :
          Restart(kind) /\ cpc \in {"idle", "clear_token"}
    BY <1>3 DEF Restarts, RepairRestarts, ReauthRestarts
  <2>2. spc["command"] = "idle" /\ UNCHANGED sess
    BY <1>0, <2>1 DEF StopsMatch, Restart
  <2>3. CASE RunnerAlive
    <3>1. BeginStop("command")
      BY <2>1, <2>3, Zenon DEF Restart
    <3> QED
      BY <1>0, <2>1, <2>2, <3>1, StopSockets
  <2>4. CASE ~RunnerAlive
    <3>1. Start /\ UNCHANGED <<ctx, ping, spc, sctx>>
      BY <2>1, <2>4, Zenon DEF Restart, linkVars
    <3> QED
      BY <1>0, <2>1, <2>2, <3>1, StartSockets
  <2> QED
    BY <2>3, <2>4
<1>4. ASSUME NEW k \in Stoppers, StopAfterGrace(k) \/ StopAfterRunner(k)
      PROVE  SocketInv'
  <2>1. /\ StopRunner(k) \/ (StopCleanup(k) /\ UNCHANGED runnerVars)
        /\ spc[k] # "close" /\ UNCHANGED <<sess, cpc, cctx>>
    BY <1>4 DEF StopAfterGrace, StopAfterRunner, commandVars
  <2> QED
    BY <1>0, <2>1, StopSockets
<1>5. CASE StopEntryDone
  <2>1. /\ SuspendStop("entry", "idle", None, None)
        /\ UNCHANGED <<ctx, ping, rpc, rctx, cpc, cctx>>
        /\ IF sctx["entry"] = None THEN UNCHANGED sess
                                   ELSE CloseWebsocket(sctx["entry"])
    BY <1>5 DEF StopEntryDone, linkVars, runnerVars, commandVars
  <2>2. /\ \A s \in Sessions : sess'[s] = sess[s] \/ sess'[s] = "closed"
        /\ \A s \in Sessions : sctx["entry"] = s => sess'[s] = "closed"
    BY <1>0, <2>1, SessionAssumption DEF CloseWebsocket, TasksTypeOK
  <2>3. /\ spc'["entry"] = "idle"
        /\ \A j \in Stoppers : j # "entry" => spc'[j] = spc[j] /\ sctx'[j] = sctx[j]
    BY <1>0, <2>1, StopMoves
  <2> QED
    BY <1>0, <2>1, <2>2, <2>3
       DEF SocketInv, CurrentIsUsed, OnlyCurrentSessionLives, InClose
<1>6. CASE StopCommandDone
  <2>1. /\ SuspendStop("command", "idle", None, None) /\ spc["command"] = "close"
        /\ Start /\ UNCHANGED <<ctx, ping>>
        /\ IF sctx["command"] = None THEN UNCHANGED sess
                                     ELSE CloseWebsocket(sctx["command"])
    BY <1>6 DEF StopCommandDone, linkVars
  <2>2. cpc # "force_close"
    BY <1>0, <2>1 DEF StopsMatch
  <2>3. /\ \A s \in Sessions : sess'[s] = sess[s] \/ sess'[s] = "closed"
        /\ \A s \in Sessions : sctx["command"] = s => sess'[s] = "closed"
    BY <1>0, <2>1, SessionAssumption DEF CloseWebsocket, TasksTypeOK
  <2> QED
    BY <1>0, <2>1, <2>2, <2>3, StopMoves, StartSockets
<1>7. CASE EntrySetup
  <2>1. Start /\ UNCHANGED <<ctx, ping, sess, cpc, cctx, spc, sctx>>
    BY <1>7 DEF EntrySetup, linkVars, socketVars, commandVars
  <2> QED
    BY <1>0, <2>1, StartSockets
<1>8. CASE EntryUnload
  <2>1. BeginStop("entry") /\ entry = "loaded" /\ UNCHANGED <<sess, cpc, cctx>>
    BY <1>8 DEF EntryUnload, commandVars
  <2>2. spc["entry"] # "close"
    BY <1>0, <2>1 DEF StopsMatch
  <2> QED
    BY <1>0, <2>1, <2>2, StopSockets
<1>9. CASE UNCHANGED vars
  BY <1>9 DEF vars, linkVars, socketVars, commandVars, stopVars, runnerVars,
              SocketInv, CurrentIsUsed, OnlyCurrentSessionLives, InClose
<1> QED
  BY <1>1, <1>2, <1>3, <1>4, <1>5, <1>6, <1>7, <1>8, <1>9, NextSplit DEF StopStep


(***************************************************************************)
(* As long as there is one session loop, no websocket is leaked and only   *)
(* the current session keeps a heartbeat: every other open websocket is    *)
(* being closed by the task that dropped it (_force_reconnect,             *)
(* _handle_transport_reconnect, _cleanup_runtime_session).                 *)
(***************************************************************************)
THEOREM NoSocketLeaks == Spec /\ []OneLoop => []OnlyCurrentSessionLives
<1>1. Init => SocketInv
  BY DEF Init, SocketInv, CurrentIsUsed, OnlyCurrentSessionLives
<1>2. LoopInv /\ OneLoop /\ SocketInv /\ [Next]_vars => SocketInv'
  BY SocketStep
<1>3. SocketInv => OnlyCurrentSessionLives
  BY DEF SocketInv
<1> QED
  BY <1>1, <1>2, <1>3, LoopInvariant, PTL DEF Spec

-----------------------------------------------------------------------------
(***************************************************************************)
(* Availability.  Entities are available only while a session loop lives   *)
(* that can end it, and a task that closes a lost or refused session has   *)
(* cleared _ready.                                                         *)
(***************************************************************************)
Dead == {"done", "start", "cleanup_close"}

AvailableHasLoop == available => \E r \in Runners : rpc[r] \notin Dead

LostIsNotReady ==
    \A r \in Runners : rpc[r] \in {"lost_close", "auth_close"} => ~ready

AvailabilityInv ==
    /\ AvailableHasLoop /\ LostIsNotReady
    /\ ReadyIsConnected /\ ReadyHasSession /\ OutageIsTimed

\* What the supervisor's steps do to its two ages.
LEMMA AgesMove ==
    ASSUME SupervisorTypeOK
    PROVE  /\ MarkConnected => connectedFor' # Unset /\ disconnectedFor' = Unset
           /\ Tick => /\ connectedFor # Unset => connectedFor' # Unset
                      /\ disconnectedFor' = Unset <=> disconnectedFor = Unset
           /\ ShouldMarkUnavailable => disconnectedFor # Unset
BY SupervisorAssumption
   DEF SupervisorTypeOK, MarkConnected, Tick, Age, Lower, Unset, ShouldMarkUnavailable

\* A lost connection leaves the client not ready, timed or unavailable.
LEMMA LossIsTimed ==
    ASSUME NEW withdraw, MarkReconnecting(withdraw), ~ready'
    PROVE  /\ LostIsNotReady' /\ ReadyIsConnected' /\ ReadyHasSession' /\ OutageIsTimed'
           /\ available' => available
BY Zenon DEF MarkReconnecting, ShowUnavailable, LostIsNotReady, ReadyIsConnected,
             ReadyHasSession, OutageIsTimed

\* A dropped session leaves the client neither ready nor available.
LEMMA DropIsTrue ==
    ASSUME ~ready', ~available' PROVE AvailabilityInv'
BY Zenon DEF AvailabilityInv, AvailableHasLoop, LostIsNotReady, ReadyIsConnected,
             ReadyHasSession, OutageIsTimed

\* Where the tasks are matters little while availability stays as it is.
LEMMA StillTrue ==
    ASSUME AvailabilityInv, UNCHANGED <<supervisorVars, availVars, ready, stopped>>,
           UNCHANGED ctx \/ ctx' # None,
           \A r \in Runners :
             \/ UNCHANGED <<rpc[r]>>
             \/ /\ rpc'[r] \notin Dead \/ rpc[r] \in Dead
                /\ rpc[r] # "opening" \/ ctx' # None
                /\ rpc'[r] \in {"lost_close", "auth_close"} => ~ready
    PROVE  AvailabilityInv'
<1> USE DEF AvailabilityInv, availVars
<1>1. AvailableHasLoop'
  BY DEF AvailableHasLoop
<1>2. LostIsNotReady'
  BY DEF LostIsNotReady
<1>3. ReadyIsConnected' /\ OutageIsTimed'
  BY DEF ReadyIsConnected, OutageIsTimed, supervisorVars
<1>4. ReadyHasSession'
  BY DEF ReadyHasSession
<1> QED
  BY <1>1, <1>2, <1>3, <1>4

\* A step of task r keeps them.
LEMMA RunnerAvailability ==
    ASSUME SupervisorTypeOK, TasksTypeOK, OneLoop, AvailabilityInv,
           NEW r \in Runners, RunnerStep(r)
    PROVE  AvailabilityInv'
<1>0. /\ rpc[r] # "done" /\ UNCHANGED stopped
      /\ \A q \in Runners : q # r => rpc'[q] = rpc[q] /\ rpc[q] = "done"
  BY RunnerStepFrame DEF OneLoop, Alive
<1>a. EndRunner(r) => AvailabilityInv'
  BY DropIsTrue DEF EndRunner, DropSession, ShowUnavailable
<1>b. ASSUME UNCHANGED <<supervisorVars, availVars, ready>>,
             UNCHANGED ctx \/ ctx' # None,
             rpc'[r] \notin Dead \/ rpc[r] \in Dead,
             rpc[r] # "opening" \/ ctx' # None,
             rpc'[r] \notin {"lost_close", "auth_close"}
      PROVE  AvailabilityInv'
  BY <1>0, <1>b, StillTrue
<1> USE DEF Resumes, OnlyRunner, OnlySuspends
<1>1. CASE OpenFails(r) \/ RequestsFail(r) \/ ReadClosed(r)
  <2>1. LoseSession(r)
    BY <1>1 DEF OpenFails, RequestsFail, ReadClosed
  <2>2. MarkReconnecting(ctx = None /\ paused') /\ ~ready'
    BY <2>1, Zenon DEF LoseSession
  <2>3. rpc'[r] \in {"lost_close", "paused", "backoff"}
    BY <2>1, SuspendMoves DEF LoseSession
  <2> QED
    BY <2>2, <2>3, LossIsTimed DEF AvailabilityInv, AvailableHasLoop, Dead
<1>2. CASE OpenRefused(r) \/ ProofMissing(r)
  <2>1. FailAuthentication(r)
    BY <1>2 DEF OpenRefused, ProofMissing
  <2>2. ~ready' /\ (~available' \/ UNCHANGED availVars) /\ UNCHANGED supervisorVars
    BY <2>1, Zenon DEF FailAuthentication, ShowUnavailable
  <2>3. rpc'[r] \in {"auth_wait", "auth_close"}
    BY <2>1, SuspendMoves DEF FailAuthentication
  <2>4. AvailableHasLoop'
    BY <2>3 DEF AvailableHasLoop, Dead
  <2>5. OutageIsTimed'
    <3>1. disconnectedFor' = disconnectedFor /\ stopped' = stopped
      BY <1>0, <2>2 DEF supervisorVars
    <3>2. CASE ~available'
      BY <3>2, Zenon DEF OutageIsTimed
    <3>3. CASE UNCHANGED availVars
      <4>1. available' = available /\ graceTimer' = graceTimer
        BY <3>3 DEF availVars
      <4> QED
        BY <3>1, <4>1, Zenon DEF AvailabilityInv, OutageIsTimed
    <3> QED
      BY <2>2, <3>2, <3>3, Zenon
  <2> QED
    BY <2>2, <2>4, <2>5, Zenon
       DEF AvailabilityInv, LostIsNotReady, ReadyIsConnected, ReadyHasSession
<1>3. CASE (RequestsSent(r) /\ proven) \/ ProofHandled(r)
  <2>1. Connect(r)
    BY <1>3 DEF RequestsSent, ProofHandled
  <2>2. CASE stopped
    BY <1>a, <2>1, <2>2, Zenon DEF Connect
  <2>3. CASE ~stopped
    <3>1. /\ MarkConnected /\ ready' /\ available' /\ ~graceTimer' /\ UNCHANGED ctx
          /\ Suspend(r, IF ctx = None THEN "opening" ELSE "reading", ctx)
      BY <2>1, <2>3, Zenon DEF Connect
    <3>2. rpc'[r] = (IF ctx = None THEN "opening" ELSE "reading")
      BY <3>1, SuspendMoves
    <3> QED
      BY <1>0, <3>1, <3>2, AgesMove
         DEF AvailabilityInv, AvailableHasLoop, LostIsNotReady, ReadyIsConnected,
             ReadyHasSession, OutageIsTimed, Dead
  <2> QED
    BY <2>2, <2>3
<1>4. CASE RequestsSent(r) /\ ~proven
  <2>1. \/ EndRunner(r)
        \/ /\ Suspend(r, "proving", ctx) /\ rpc[r] = "requesting"
           /\ UNCHANGED <<supervisorVars, availVars, ctx, ready>>
    BY <1>4, Zenon DEF RequestsSent, linkVars
  <2> QED
    BY <1>a, <1>b, <2>1, SuspendMoves DEF Dead
<1>5. CASE OpenSucceeds(r)
  <2>1. /\ UNCHANGED <<supervisorVars, availVars, ready>> /\ ctx' # None
        /\ \E s : Suspend(r, "requesting", s)
    BY <1>5, SessionAssumption DEF OpenSucceeds
  <2> QED
    BY <1>b, <2>1, SuspendMoves DEF Dead
<1>6. CASE ProofRead(r) \/ EventRead(r) \/ WatchdogProbes(r)
  <2>1. /\ UNCHANGED <<supervisorVars, availVars, ctx, ready>>
        /\ \E at \in {"proved", "event", "probing"} : \E s : Suspend(r, at, s)
        /\ rpc[r] # "opening"
    BY <1>6 DEF ProofRead, EventRead, WatchdogProbes, linkVars
  <2> QED
    BY <1>b, <2>1, SuspendMoves DEF Dead
<1>7. CASE \/ RunnerBegins(r) \/ BackoffEnds(r) \/ EventHandled(r)
           \/ WatchdogProbeSent(r) \/ StaleClosed(r)
  <2>1. /\ NextSession(r) \/ ReadOn(r)
        /\ rpc[r] # "opening" /\ UNCHANGED supervisorVars
    BY <1>7 DEF RunnerBegins, BackoffEnds, EventHandled, WatchdogProbeSent, StaleClosed
  <2>2. \/ EndRunner(r)
        \/ /\ UNCHANGED <<availVars, ctx, ready>>
           /\ \E at \in {"opening", "reading"} : \E s : Suspend(r, at, s)
    BY <2>1, Zenon DEF NextSession, ReadOn, linkVars
  <2> QED
    BY <1>a, <1>b, <2>1, <2>2, SuspendMoves DEF Dead
<1>8. CASE WatchdogReconnects(r)
  <2>1. /\ ForceReconnect(rctx[r]) /\ rpc[r] # "opening"
        /\ Suspend(r, "stale_close", rctx[r])
    BY <1>8 DEF WatchdogReconnects
  <2>2. rpc'[r] = "stale_close"
    BY <2>1, SuspendMoves
  <2>3. \/ MarkReconnecting(FALSE) /\ ~ready'
        \/ UNCHANGED <<supervisorVars, availVars, ctx, ready>>
    BY <2>1, Zenon DEF ForceReconnect, linkVars
  <2> QED
    BY <1>b, <2>1, <2>2, <2>3, LossIsTimed DEF AvailabilityInv, AvailableHasLoop, Dead
<1>9. CASE LostClosed(r) \/ AuthClosed(r)
  <2>1. /\ rpc[r] \in {"lost_close", "auth_close"} /\ UNCHANGED ready
        /\ UNCHANGED <<supervisorVars, ctx>>
        /\ ~available' \/ UNCHANGED availVars
        /\ \E at \in {"paused", "backoff", "auth_wait"} : Suspend(r, at, None)
    BY <1>9 DEF LostClosed, AuthClosed, linkVars, ShowUnavailable
  <2>2. ~ready /\ ~ready'
    BY <2>1 DEF AvailabilityInv, LostIsNotReady
  <2>3. rpc'[r] \notin Dead /\ rpc'[r] \notin {"lost_close", "auth_close"}
    BY <2>1, SuspendMoves DEF Dead
  <2> QED
    BY <1>b, <2>1, <2>2, <2>3, DropIsTrue
<1>10. CASE RunnerEnds(r) \/ CancellationLost(r)
  <2>1. /\ UNCHANGED <<supervisorVars, availVars, ctx, ready>>
        /\ \/ rpc' = rpc
           \/ rpc[r] = "cleanup_close" /\ Suspend(r, "done", None)
    BY <1>10 DEF RunnerEnds, CancellationLost, linkVars
  <2> QED
    BY <1>0, <2>1, StillTrue, SuspendMoves DEF Dead
<1>11. CASE WaitEnds(r)
  BY <1>a, <1>11 DEF WaitEnds
<1>12. CASE RunnerCancelled(r)
  <2>1. \/ EndRunner(r)
        \/ /\ UNCHANGED <<supervisorVars, availVars, ctx, ready>>
           /\ rpc[r] \in {"start", "cleanup_close"} /\ Suspend(r, "done", None)
    BY <1>12, Zenon DEF RunnerCancelled, linkVars
  <2> QED
    BY <1>a, <1>b, <2>1, SuspendMoves DEF Dead
<1> QED
  BY <1>1, <1>2, <1>3, <1>4, <1>5, <1>6, <1>7, <1>8, <1>9, <1>10, <1>11, <1>12
     DEF RunnerStep

\* Heartbeats, the device, the timers and commands keep them.
LEMMA BystanderAvailability ==
    ASSUME SupervisorTypeOK, TasksTypeOK, AvailabilityInv, Bystander
    PROVE  AvailabilityInv'
<1>0. UNCHANGED <<rpc, stopped>>
  BY BystanderFrame DEF runnerVars
<1>a. UNCHANGED <<supervisorVars, availVars, ctx, ready>> => AvailabilityInv'
  BY <1>0, StillTrue
<1>b. ASSUME NEW s, ForceReconnect(s) PROVE AvailabilityInv'
  <2>1. \/ MarkReconnecting(FALSE) /\ ~ready'
        \/ UNCHANGED <<supervisorVars, availVars, ctx, ready>>
    BY <1>b, Zenon DEF ForceReconnect, linkVars
  <2> QED
    BY <1>0, <1>a, <2>1, LossIsTimed DEF AvailabilityInv, AvailableHasLoop
<1>1. ASSUME NEW s \in Sessions, HeartbeatFails(s) PROVE AvailabilityInv'
  BY <1>1, <1>b DEF HeartbeatFails
<1>2. ASSUME NEW s \in Sessions,
             HeartbeatClosed(s) \/ HeartbeatEnds(s) \/ DeviceLoses(s)
      PROVE  AvailabilityInv'
  BY <1>2, <1>a DEF HeartbeatClosed, HeartbeatEnds, DeviceLoses, linkVars
<1>3. CASE GraceExpires
  <2>1. /\ disconnectedFor # Unset /\ ~graceTimer' /\ UNCHANGED <<supervisorVars, ctx, ready>>
        /\ available' = (available /\ (ready \/ stopped))
    BY <1>3, AgesMove DEF GraceExpires, linkVars
  <2>2. ~ready /\ ~ready' /\ (available' => available /\ stopped')
    BY <1>0, <2>1 DEF AvailabilityInv, ReadyIsConnected
  <2> QED
    BY <1>0, <2>2, Zenon
       DEF AvailabilityInv, AvailableHasLoop, LostIsNotReady, ReadyIsConnected,
           ReadyHasSession, OutageIsTimed
<1>4. CASE TimePasses
  <2>1. Tick /\ UNCHANGED <<available, graceTimer, ctx, ready>>
    BY <1>4 DEF TimePasses, availVars, linkVars
  <2> QED
    BY <1>0, <2>1, AgesMove
       DEF AvailabilityInv, AvailableHasLoop, LostIsNotReady, ReadyIsConnected,
           ReadyHasSession, OutageIsTimed
<1>5. CASE \/ \E kind \in CommandKinds : CommandBegins(kind)
           \/ CommandWoken \/ CommandResumes \/ CommandEnds \/ CommandForceClosed
           \/ CommandRetries \/ RepairBegins
  BY <1>5, <1>a DEF CommandBegins, CommandWoken, CommandResumes, CommandEnds,
                    CommandForceClosed, CommandRetries, RepairBegins, linkVars
<1>6. CASE CommandFails
  BY <1>6, <1>a, <1>b DEF CommandFails, linkVars
<1> QED
  BY <1>1, <1>2, <1>3, <1>4, <1>5, <1>6 DEF Bystander

\* The steps of stop() end availability or leave it alone.
LEMMA StopAvailability ==
    ASSUME AvailabilityInv, NEW k \in Stoppers,
           \/ BeginStop(k)
           \/ (StopRunner(k) \/ StopCleanup(k)) /\ UNCHANGED stopped,
           UNCHANGED supervisorVars
    PROVE  AvailabilityInv'
<1>1. CASE StopCleanup(k)
  BY <1>1, DropIsTrue DEF StopCleanup, DropSession, ShowUnavailable
<1>2. CASE StopRunner(k) /\ ~StopCleanup(k)
  <2>1. UNCHANGED <<supervisorVars, availVars, ctx, ready, rpc>>
    BY <1>2, Zenon DEF StopRunner, linkVars
  <2>2. UNCHANGED stopped \/ stopped'
    BY Zenon DEF BeginStop
  <2> QED
    BY <2>1, <2>2
       DEF AvailabilityInv, AvailableHasLoop, LostIsNotReady, ReadyIsConnected,
           ReadyHasSession, OutageIsTimed, supervisorVars, availVars
<1>3. CASE BeginStop(k) /\ ~StopRunner(k)
  <2>1. stopped' /\ ~graceTimer' /\ UNCHANGED <<available, ctx, ready, rpc>>
    BY <1>3, Zenon DEF BeginStop, linkVars, runnerVars
  <2> QED
    BY <2>1
       DEF AvailabilityInv, AvailableHasLoop, LostIsNotReady, ReadyIsConnected,
           ReadyHasSession, OutageIsTimed, supervisorVars
<1> QED
  BY <1>1, <1>2, <1>3

(***************************************************************************)
(* A start finds entities unavailable: a session loop that could have made *)
(* them available would still be alive beside the new one.                 *)
(***************************************************************************)
LEMMA StartAvailability ==
    ASSUME TasksTypeOK, AvailabilityInv, OneLoop', Start,
           UNCHANGED <<supervisorVars, availVars, ctx, ready>>
    PROVE  AvailabilityInv'
<1>1. CASE RunnerAlive
  <2>1. UNCHANGED <<stopped, rpc>>
    BY <1>1, Zenon DEF Start, runnerVars
  <2> QED
    BY <2>1, StillTrue
<1>2. CASE ~RunnerAlive
  <2>1. /\ runner' \in Runners /\ rpc'[runner'] = "start" /\ rpc[runner'] = "done"
        /\ \A q \in Runners : q # runner' => rpc'[q] = rpc[q]
    BY <1>2, StartKnows DEF Alive
  <2>2. ~available
    <3>1. SUFFICES ASSUME NEW q \in Runners, rpc[q] \notin Dead PROVE FALSE
      BY DEF AvailabilityInv, AvailableHasLoop
    <3>2. q # runner' /\ rpc'[q] = rpc[q]
      BY <2>1, <3>1 DEF Dead
    <3> QED
      BY <2>1, <3>1, <3>2 DEF OneLoop, Alive, Dead
  <2>3. ~available' /\ ~ready'
    BY <2>2, Zenon DEF AvailabilityInv, ReadyIsConnected, availVars
  <2> QED
    BY <2>3, DropIsTrue
<1> QED
  BY <1>1, <1>2

\* Every step keeps them.
LEMMA AvailabilityStep ==
    ASSUME LoopInv, OneLoop, OneLoop', AvailabilityInv, [Next]_vars
    PROVE  AvailabilityInv'
<1>0. /\ TasksTypeOK /\ SupervisorTypeOK /\ "command" \in Stoppers /\ "entry" \in Stoppers
  BY DEF LoopInv, TypeOK, Stoppers
<1>1. ASSUME NEW r \in Runners, RunnerStep(r) PROVE AvailabilityInv'
  BY <1>0, <1>1, RunnerAvailability
<1>2. CASE Bystander
  BY <1>0, <1>2, BystanderAvailability
<1>3. CASE Restarts
  <2>1. PICK kind \in {"repair", "reauth"} : Restart(kind)
    BY <1>3 DEF Restarts, RepairRestarts, ReauthRestarts
  <2>2. UNCHANGED supervisorVars
    BY <2>1 DEF Restart
  <2>3. CASE RunnerAlive
    <3>1. BeginStop("command")
      BY <2>1, <2>3, Zenon DEF Restart
    <3> QED
      BY <1>0, <2>2, <3>1, StopAvailability
  <2>4. CASE ~RunnerAlive
    <3>1. Start /\ UNCHANGED <<availVars, ctx, ready>>
      BY <2>1, <2>4, Zenon DEF Restart, linkVars
    <3> QED
      BY <1>0, <2>2, <3>1, StartAvailability
  <2> QED
    BY <2>3, <2>4
<1>4. ASSUME NEW k \in Stoppers, StopAfterGrace(k) \/ StopAfterRunner(k)
      PROVE  AvailabilityInv'
  BY <1>4, StopAvailability DEF StopAfterGrace, StopAfterRunner
<1>5. CASE StopEntryDone
  BY <1>5, StillTrue DEF StopEntryDone, linkVars, runnerVars
<1>6. CASE StopCommandDone
  BY <1>0, <1>6, StartAvailability DEF StopCommandDone, linkVars
<1>7. CASE EntrySetup
  BY <1>0, <1>7, StartAvailability DEF EntrySetup, linkVars
<1>8. CASE EntryUnload
  BY <1>0, <1>8, StopAvailability DEF EntryUnload
<1>9. CASE UNCHANGED vars
  BY <1>9, StillTrue DEF vars, linkVars, runnerVars
<1> QED
  BY <1>1, <1>2, <1>3, <1>4, <1>5, <1>6, <1>7, <1>8, <1>9, NextSplit DEF StopStep

\* They hold as long as there is one session loop.
LEMMA AvailabilityInvariant == Spec /\ []OneLoop => []AvailabilityInv
<1>1. Init => AvailabilityInv
  BY DropIsTrue DEF Init, AvailabilityInv, AvailableHasLoop, LostIsNotReady,
                    ReadyIsConnected, ReadyHasSession, OutageIsTimed
<1>2. LoopInv /\ OneLoop /\ OneLoop' /\ AvailabilityInv /\ [Next]_vars => AvailabilityInv'
  BY AvailabilityStep
<1> QED
  BY <1>1, <1>2, LoopInvariant, PTL DEF Spec

(***************************************************************************)
(* While entities are available during an outage their grace timer is      *)
(* pending, whatever the order of losses, forced reconnects, failed        *)
(* commands and restarts (_mark_reconnecting, _expire_reconnect_grace_     *)
(* after, start, stop).                                                    *)
(***************************************************************************)
THEOREM OutageStaysTimed == Spec /\ []OneLoop => []OutageIsTimed
<1>1. AvailabilityInv => OutageIsTimed
  BY DEF AvailabilityInv
<1> QED
  BY <1>1, AvailabilityInvariant, PTL

(***************************************************************************)
(* A client that calls itself ready is connected for the supervisor, shows *)
(* its entities available and has a session or is opening the next one     *)
(* (_record_session_connected and everything that clears _ready).          *)
(***************************************************************************)
THEOREM ReadyStaysTrue == Spec /\ []OneLoop => []ReadyIsTrue
<1>1. AvailabilityInv => ReadyIsTrue
  BY DEF AvailabilityInv, ReadyIsTrue
<1> QED
  BY <1>1, AvailabilityInvariant, PTL

(***************************************************************************)
(* Everything the session does to the reconnect supervisor is what the     *)
(* supervisor's own specification allows, so its theorems hold of the      *)
(* session: mark_connected and mark_disconnected are never mixed.          *)
(***************************************************************************)
THEOREM SessionImplementsSupervisor == Spec => SupervisorSpec
<1>1. Init => SupervisorInit
  BY DEF Init
<1> QED
  BY <1>1, StepIsSupervised, PTL DEF Spec, SupervisorSpec

(***************************************************************************)
(* So a device that flaps cannot shorten the delay of the session's        *)
(* reconnects ...                                                          *)
(***************************************************************************)
THEOREM SessionKeepsBackoff == Spec => FlappingKeepsBackoff
  BY SessionImplementsSupervisor, BackoffIsKept, PTL

(***************************************************************************)
(* ... and no failure during an outage, of the session loop, a heartbeat,  *)
(* the watchdog or a command, restarts the grace window.                   *)
(***************************************************************************)
THEOREM SessionKeepsGrace == Spec => GraceRunsFromFirstLoss
  BY SessionImplementsSupervisor, GraceIsNotRestarted, PTL

-----------------------------------------------------------------------------
(***************************************************************************)
(* Unloading.  From the moment its stop() has taken the session loop and   *)
(* dropped the session, the entry stays without either.                    *)
(***************************************************************************)
Released == runner = None /\ ctx = None /\ ~ready /\ ~online /\ ~available

UnloadedIsStill == entry = "unloaded" \/ spc["entry"] = "close" => Released

\* Then no session loop task is left that could take a step.
LEMMA NobodyRuns ==
    ASSUME ~RestartsPossible, LoopInv, entry = "unloaded" \/ spc["entry"] = "close",
           runner = None
    PROVE  \A r \in Runners : ~Alive(r)
<1>1. spc["command"] = "idle" /\ spc["entry"] # "runner"
  BY DEF LoopInv, StopsMatch
<1> QED
  BY <1>1, SessionAssumption DEF LoopInv, LoopIsKnown, WaitedFor, Stoppers

\* Heartbeats, timers and commands that still run bring nothing back.
LEMMA BystanderStaysReleased ==
    ASSUME Bystander, Released PROVE Released'
<1> USE DEF Released, OnlyCommand, linkVars, availVars, runnerVars
<1>0. UNCHANGED runner
  BY BystanderFrame
<1>a. ASSUME NEW s, ForceReconnect(s)
      PROVE  ctx' = None /\ ~ready' /\ ~online' /\ ~available'
  <2>1. CASE UNCHANGED <<supervisorVars, availVars, linkVars>>
    BY <2>1
  <2>2. CASE ctx' = None /\ ready' = FALSE /\ MarkReconnecting(FALSE)
    <3>1. online' = FALSE /\ (available' = available \/ available' = FALSE)
      BY <2>2, Zenon DEF MarkReconnecting, ShowUnavailable
    <3> QED
      BY <2>2, <3>1
  <2> QED
    BY <1>a, <2>1, <2>2, Zenon DEF ForceReconnect
<1>1. CASE \E s \in Sessions : HeartbeatFails(s)
  BY <1>0, <1>1, <1>a DEF HeartbeatFails
<1>2. CASE \E s \in Sessions : HeartbeatClosed(s) \/ HeartbeatEnds(s) \/ DeviceLoses(s)
  BY <1>2 DEF HeartbeatClosed, HeartbeatEnds, DeviceLoses
<1>3. CASE GraceExpires
  <2>1. UNCHANGED linkVars /\ available' = (available /\ (ready \/ stopped))
    BY <1>3 DEF GraceExpires
  <2> QED
    BY <1>0, <2>1, Zenon
<1>4. CASE TimePasses
  BY <1>4 DEF TimePasses
<1>5. CASE \/ \E kind \in CommandKinds : CommandBegins(kind)
           \/ CommandWoken \/ CommandResumes \/ CommandEnds \/ CommandForceClosed
           \/ CommandRetries \/ RepairBegins
  BY <1>5 DEF CommandBegins, CommandWoken, CommandResumes, CommandEnds,
              CommandForceClosed, CommandRetries, RepairBegins
<1>6. CASE CommandFails
  BY <1>0, <1>6, <1>a DEF CommandFails
<1> QED
  BY <1>1, <1>2, <1>3, <1>4, <1>5, <1>6 DEF Bystander

\* Every step keeps the entry released.
LEMMA UnloadedStep ==
    ASSUME ~RestartsPossible, LoopInv, StopTakesLoop, UnloadedIsStill, [Next]_vars
    PROVE  UnloadedIsStill'
<1> USE DEF UnloadedIsStill
<1>0. /\ TasksTypeOK /\ StopsMatch /\ spc["command"] = "idle"
      /\ "entry" \in Stoppers /\ "command" \in Stoppers
  BY DEF LoopInv, TypeOK, StopsMatch, Stoppers
<1>1. ASSUME NEW r \in Runners, RunnerStep(r) PROVE UnloadedIsStill'
  <2>1. Alive(r) /\ UNCHANGED <<entry, spc>>
    BY <1>0, <1>1, RunnerStepFrame DEF stopVars
  <2> QED
    BY <2>1, NobodyRuns DEF Released
<1>2. CASE Bystander
  BY <1>2, BystanderFrame, BystanderStaysReleased DEF stopVars
<1>3. ~Restarts
  BY DEF Restarts, RestartsPossible
<1>4. ASSUME NEW k \in Stoppers, StopAfterGrace(k) PROVE UnloadedIsStill'
  <2>1. k = "entry" /\ StopRunner(k) /\ spc[k] = "grace" /\ UNCHANGED entry
    BY <1>0, <1>4 DEF StopAfterGrace, Stoppers
  <2>2. entry' # "unloaded"
    BY <1>0, <2>1 DEF StopsMatch
  <2>3. \/ SuspendStop(k, "runner", runner, None)
        \/ runner' = None /\ StopCleanup(k)
    BY <2>1, Zenon DEF StopRunner
  <2>4. CASE SuspendStop(k, "runner", runner, None)
    BY <1>0, <2>1, <2>2, <2>4, StopMoves
  <2>5. CASE runner' = None /\ StopCleanup(k)
    BY <2>5, Zenon DEF StopCleanup, DropSession, ShowUnavailable, Released
  <2> QED
    BY <2>3, <2>4, <2>5
<1>5. ASSUME NEW k \in Stoppers, StopAfterRunner(k) PROVE UnloadedIsStill'
  <2>1. k = "entry" /\ StopCleanup(k) /\ runner' = runner /\ runner = None
    BY <1>0, <1>5 DEF StopAfterRunner, Stoppers, StopTakesLoop, runnerVars
  <2> QED
    BY <2>1, Zenon DEF StopCleanup, DropSession, ShowUnavailable, Released
<1>6. CASE StopEntryDone
  <2>1. spc["entry"] = "close" /\ UNCHANGED <<availVars, linkVars, runner>>
    BY <1>6 DEF StopEntryDone, runnerVars
  <2> QED
    BY <2>1 DEF Released, availVars, linkVars
<1>7. ~StopCommandDone
  BY <1>0 DEF StopCommandDone
<1>8. CASE EntrySetup
  BY <1>0, <1>8 DEF EntrySetup, StopsMatch
<1>9. CASE EntryUnload
  <2>1. BeginStop("entry") /\ entry' = "unloading"
    BY <1>9 DEF EntryUnload
  <2>2. \/ \E at \in {"grace", "runner"} : \E r : SuspendStop("entry", at, r, None)
        \/ runner' = None /\ StopCleanup("entry")
    BY <2>1, Zenon DEF BeginStop, StopRunner
  <2>3. CASE \E at \in {"grace", "runner"} : \E r : SuspendStop("entry", at, r, None)
    BY <1>0, <2>1, <2>3, StopMoves
  <2>4. CASE runner' = None /\ StopCleanup("entry")
    BY <2>4, Zenon DEF StopCleanup, DropSession, ShowUnavailable, Released
  <2> QED
    BY <2>2, <2>3, <2>4
<1>10. CASE UNCHANGED vars
  BY <1>10 DEF vars, runnerVars, stopVars, linkVars, availVars, Released
<1> QED
  BY <1>1, <1>2, <1>3, <1>4, <1>5, <1>6, <1>7, <1>8, <1>9, <1>10, NextSplit
     DEF StopStep

(***************************************************************************)
(* An unloaded entry has no session loop, no session, no heartbeat and     *)
(* unavailable entities, and none of the commands or timers that outlive   *)
(* it brings one back (stop in client.py).  Repair and reauthentication    *)
(* are excluded: they call start() whatever became of the entry.           *)
(***************************************************************************)
THEOREM UnloadKeepsReleased ==
    ASSUME ~RestartsPossible PROVE Spec => []UnloadReleases
<1>1. Init => UnloadedIsStill
  BY DEF Init, UnloadedIsStill, Stoppers
<1>2. LoopInv /\ StopTakesLoop /\ UnloadedIsStill /\ [Next]_vars => UnloadedIsStill'
  BY UnloadedStep
<1>3. LoopInv /\ OnlyCurrentSessionLives /\ UnloadedIsStill => UnloadReleases
  BY NobodyRuns, SessionAssumption
     DEF UnloadedIsStill, Released, UnloadReleases, OnlyCurrentSessionLives
<1>4. Init => StopTakesLoop
  BY DEF Init, StopTakesLoop
<1>5. LoopInv /\ StopTakesLoop /\ [Next]_vars => StopTakesLoop'
  BY StopTakesLoopStep DEF StopsNeverOverlap
<1>6. Spec => []OneLoop
  BY OneLoopRuns DEF StopsNeverOverlap
<1> QED
  BY <1>1, <1>2, <1>3, <1>4, <1>5, <1>6, LoopInvariant, NoSocketLeaks, PTL DEF Spec

=============================================================================
