------------------------ MODULE ConnectionSupervisor ------------------------
(***************************************************************************)
(* The reconnect policy of the DHE client: how long the next reconnect     *)
(* attempt is delayed, and how long entities stay available after the      *)
(* connection is lost (client_connection_supervisor.py).                   *)
(*                                                                         *)
(* The code keeps monotonic timestamps and only ever compares their age    *)
(* with a threshold, so the model keeps the ages, in ticks, and lets them  *)
(* saturate at the threshold they are compared with.  The statistics of    *)
(* successful reconnects are left out: nothing reads them but diagnostics. *)
(***************************************************************************)
EXTENDS Integers

CONSTANTS
    BaseDelay,         \* first reconnect delay
    MaxDelay,          \* largest reconnect delay
    StableResetAfter,  \* age of a connection that resets the backoff
    GracePeriod,       \* how long entities stay available without a connection
    MaxAttempts        \* attempts after which the delay no longer grows

ASSUME SupervisorAssumption ==
    /\ BaseDelay \in Nat \ {0}
    /\ MaxDelay \in Nat
    /\ BaseDelay <= MaxDelay
    /\ StableResetAfter \in Nat
    /\ GracePeriod \in Nat \ {0}
    /\ MaxAttempts \in Nat \ {0}

(***************************************************************************)
(* The code counts attempts without limit; from the first delay that       *)
(* reaches MaxDelay on, counting further changes nothing.                  *)
(***************************************************************************)
ASSUME AttemptsAssumption == BaseDelay * 2^(MaxAttempts - 1) >= MaxDelay

VARIABLES
    attempts,          \* reconnect attempts since the last stable connection
    connectedFor,      \* age of the connection, Unset while disconnected
    disconnectedFor,   \* age of the outage, Unset while connected
    nextDelay          \* delay before the next reconnect attempt

supervisorVars == <<attempts, connectedFor, disconnectedFor, nextDelay>>

Unset == -1

Lower(a, b) == IF a < b THEN a ELSE b

SupervisorTypeOK ==
    /\ attempts \in 0 .. MaxAttempts
    /\ connectedFor \in Unset .. StableResetAfter
    /\ disconnectedFor \in Unset .. GracePeriod
    /\ nextDelay \in 0 .. MaxDelay

SupervisorInit ==
    /\ attempts = 0
    /\ connectedFor = Unset
    /\ disconnectedFor = Unset
    /\ nextDelay = 0

-----------------------------------------------------------------------------

(***************************************************************************)
(* The operators named Wrong... are mistakes a change of the code could    *)
(* make; no specification uses them.  Each shows that a property can fail. *)
(***************************************************************************)
\* The delay of the n-th attempt in a row.
Backoff(n) == Lower(MaxDelay, BaseDelay * 2^(n - 1))

\* The outage has outlived the grace window.
ShouldMarkUnavailable == disconnectedFor >= GracePeriod

MarkConnected ==
    /\ connectedFor' = 0
    /\ disconnectedFor' = Unset
    /\ nextDelay' = 0
    /\ UNCHANGED attempts

\* Any connection, however short, resets the attempts.
WrongCarriedAttempts == IF connectedFor # Unset THEN 0 ELSE attempts

\* The attempts already counted when a connection is lost.
CarriedAttempts == IF connectedFor >= StableResetAfter THEN 0 ELSE attempts

\* Every failure restarts the grace window.
WrongMarkDisconnected ==
    /\ attempts' = Lower(CarriedAttempts + 1, MaxAttempts)
    /\ connectedFor' = Unset
    /\ disconnectedFor' = 0
    /\ nextDelay' = Backoff(attempts')

MarkDisconnected ==
    /\ attempts' = Lower(CarriedAttempts + 1, MaxAttempts)
    /\ connectedFor' = Unset
    /\ disconnectedFor' = IF disconnectedFor = Unset THEN 0 ELSE disconnectedFor
    /\ nextDelay' = Backoff(attempts')

\* Age(a, cap) is the age a one tick later.
Age(a, cap) == IF a = Unset THEN Unset ELSE Lower(a + 1, cap)

Tick ==
    /\ connectedFor' = Age(connectedFor, StableResetAfter)
    /\ disconnectedFor' = Age(disconnectedFor, GracePeriod)
    /\ UNCHANGED <<attempts, nextDelay>>

SupervisorNext == MarkConnected \/ MarkDisconnected \/ Tick

SupervisorSpec == SupervisorInit /\ [][SupervisorNext]_supervisorVars

-----------------------------------------------------------------------------

(***************************************************************************)
(* A connection is never both up and down, and the backoff shown as the    *)
(* next reconnect delay is zero exactly while no outage is open            *)
(* (mark_connected, mark_disconnected).                                    *)
(***************************************************************************)
OutageHasDelay ==
    /\ connectedFor = Unset \/ disconnectedFor = Unset
    /\ (nextDelay = 0) <=> (disconnectedFor = Unset)

(***************************************************************************)
(* A flapping device cannot win its way back to short delays: from one     *)
(* outage to the next the delay shrinks only over a connection that lasted *)
(* StableResetAfter (mark_disconnected resets the attempts only then).     *)
(***************************************************************************)
FlappingKeepsBackoff ==
    [][attempts # 0 /\ disconnectedFor' # Unset /\ nextDelay' < Backoff(attempts)
        => connectedFor >= StableResetAfter]_supervisorVars

(***************************************************************************)
(* The grace window runs from the first loss: further failures during the  *)
(* same outage never restart it (mark_disconnected keeps disconnected_at). *)
(***************************************************************************)
GraceRunsFromFirstLoss ==
    [][disconnectedFor # Unset /\ disconnectedFor' # Unset
        => disconnectedFor' >= disconnectedFor]_supervisorVars

=============================================================================
