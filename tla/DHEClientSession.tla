-------------------------- MODULE DHEClientSession --------------------------
(***************************************************************************)
(* The life of the one session a DHE client owns: the session loop that    *)
(* opens, proves, reads and replaces it (client.py), the transport that    *)
(* closes or force-drops it (client_transport.py), the heartbeat task of   *)
(* each websocket, the availability state with its grace timer             *)
(* (client_connection_state.py), the task that holds the command lock      *)
(* (client_command_runner.py, repair and reauth in client.py) and the      *)
(* start and stop of the config entry (__init__.py).                       *)
(*                                                                         *)
(* Everything runs on one event loop, so an action is the code between two *)
(* awaits of one task; every await is a place where the other tasks run.   *)
(* Left out: the messages themselves.  An await on the device may end in   *)
(* any way the code distinguishes: an answer, a transport error, a refused *)
(* token, a timeout.                                                       *)
(***************************************************************************)
EXTENDS ConnectionSupervisor

CONSTANTS
    Runners,        \* task identities of the session loop
    Sessions,       \* websocket sessions
    CommandKinds,   \* what may hold the command lock
    MayUnload,      \* the config entry may be unloaded
    None

ASSUME SessionAssumption ==
    /\ None \notin Runners \cup Sessions
    /\ CommandKinds \subseteq {"retry", "once", "repair", "reauth"}
    /\ MayUnload \in BOOLEAN

VARIABLES
    ctx,         \* the current session, or None
    ready,       \* the _ready event
    stopped,     \* the _stopped event
    available,   \* what entities show
    online,
    graceTimer,  \* a grace expiry task is pending
    paused,      \* pairing failed too often: no automatic reconnect
    runner,      \* the session loop task the client owns, or None
    rpc,         \* where each session loop task is suspended
    rctx,        \* the session each session loop task works on
    cancelled,   \* session loop tasks with an undelivered cancellation
    proven,      \* the session has produced device data
    sess,        \* "open", "lost" (by the device) or "closed" (by us)
    ping,        \* the heartbeat task of each session
    cpc,         \* where the holder of the command lock is suspended
    ckind,
    cctx,        \* the session the command works on, or closes
    attempt,
    spc,         \* where each running stop() is suspended
    swait,       \* the session loop task a stop() waits for
    sctx,        \* the session a stop() closes
    entry        \* config entry: "setup", "loaded", "unloading", "unloaded"

availVars   == <<available, graceTimer>>
linkVars    == <<ctx, ready, online>>
runnerVars  == <<runner, rpc, rctx, cancelled>>
socketVars  == <<sess, ping>>
commandVars == <<cpc, ckind, cctx, attempt>>
stopVars    == <<spc, swait, sctx, entry>>
vars == <<supervisorVars, availVars, linkVars, stopped, paused, runnerVars,
          proven, socketVars, commandVars, stopVars>>

\* stop() is called on unload, and by repair and reauth under the lock.
Stoppers == {"entry", "command"}

Alive(r) == rpc[r] # "done"
RunnerAlive == runner # None /\ Alive(runner)

FlagsTypeOK ==
    /\ ready \in BOOLEAN /\ stopped \in BOOLEAN /\ available \in BOOLEAN
    /\ online \in BOOLEAN /\ graceTimer \in BOOLEAN
    /\ paused \in BOOLEAN /\ proven \in BOOLEAN

TasksTypeOK ==
    /\ ctx \in Sessions \cup {None}
    /\ runner \in Runners \cup {None}
    /\ rpc \in [Runners -> {"done", "start", "opening", "requesting", "proving",
                            "proved", "reading", "event", "probing",
                            "stale_close", "lost_close", "backoff", "paused", "auth_close",
                            "auth_wait", "cleanup_close"}]
    /\ rctx \in [Runners -> Sessions \cup {None}]
    /\ cancelled \in [Runners -> BOOLEAN]
    /\ sess \in [Sessions -> {"open", "lost", "closed"}]
    /\ ping \in [Sessions -> {"none", "sleeping", "closing"}]
    /\ cpc \in {"idle", "waiting", "woken", "operation", "force_close",
                "retry_wait", "clear_token", "stopping"}
    /\ ckind \in CommandKinds \cup {"none"}
    /\ cctx \in Sessions \cup {None}
    /\ attempt \in 0 .. 1
    /\ spc \in [Stoppers -> {"idle", "grace", "runner", "close"}]
    /\ swait \in [Stoppers -> Runners \cup {None}]
    /\ sctx \in [Stoppers -> Sessions \cup {None}]
    /\ entry \in {"setup", "loaded", "unloading", "unloaded"}

TypeOK == SupervisorTypeOK /\ FlagsTypeOK /\ TasksTypeOK

Init ==
    /\ SupervisorInit
    /\ ctx = None /\ ready = FALSE /\ online = FALSE
    /\ stopped = FALSE /\ available = FALSE
    /\ graceTimer = FALSE /\ paused = FALSE
    /\ runner = None
    /\ rpc = [r \in Runners |-> "done"]
    /\ rctx = [r \in Runners |-> None]
    /\ cancelled = [r \in Runners |-> FALSE]
    /\ proven = FALSE
    /\ sess = [s \in Sessions |-> "closed"]
    /\ ping = [s \in Sessions |-> "none"]
    /\ cpc = "idle" /\ ckind = "none" /\ cctx = None /\ attempt = 0
    /\ spc = [k \in Stoppers |-> "idle"]
    /\ swait = [k \in Stoppers |-> None]
    /\ sctx = [k \in Stoppers |-> None]
    /\ entry = "setup"

-----------------------------------------------------------------------------
(* Availability, sessions and tasks: what the handlers are built from.     *)

\* _set_available(False, immediate=True)
ShowUnavailable == available' = FALSE /\ graceTimer' = FALSE

(***************************************************************************)
(* The operators named Wrong... and Hasty... are mistakes a change of the  *)
(* code could make; no specification uses them.  Each shows that a         *)
(* property can fail.                                                      *)
(***************************************************************************)
\* The grace timer is not started.
WrongMarkReconnecting(withdraw) ==
    /\ MarkDisconnected
    /\ online' = FALSE
    /\ IF withdraw \/ ShouldMarkUnavailable'
         THEN ShowUnavailable
         ELSE UNCHANGED <<graceTimer, available>>

(***************************************************************************)
(* _mark_reconnecting.  While the grace window is open a timer is pending  *)
(* (an older one is kept); afterwards entities become unavailable at once. *)
(* "withdraw" is an immediate unavailability in the same step.             *)
(***************************************************************************)
MarkReconnecting(withdraw) ==
    /\ MarkDisconnected
    /\ online' = FALSE
    /\ IF withdraw \/ ShouldMarkUnavailable'
         THEN ShowUnavailable
         ELSE graceTimer' = TRUE /\ UNCHANGED available

\* The heartbeat of a session that is closed goes on.
WrongCancelPing(s) == UNCHANGED ping

\* The synchronous start of _close_session: the heartbeat is cancelled,
\* unless it is itself the task that closes.
CancelPing(s) ==
    ping' = IF s # None /\ ping[s] = "sleeping"
              THEN [ping EXCEPT ![s] = "none"] ELSE ping

\* The end of _close_session.
CloseWebsocket(s) == sess' = [sess EXCEPT ![s] = "closed"]

\* A session nothing refers to any more; the next one to be opened.
Unused(s) ==
    /\ sess[s] = "closed" /\ ping[s] = "none" /\ ctx # s /\ cctx # s
    /\ \A r \in Runners : rctx[r] # s
    /\ \A k \in Stoppers : sctx[k] # s

\* Runner r suspends at "at", working on session s.
Suspend(r, at, s) ==
    /\ rpc' = [rpc EXCEPT ![r] = at]
    /\ rctx' = [rctx EXCEPT ![r] = s]

\* _ready stays set.
WrongDropSession ==
    /\ ctx' = None /\ online' = FALSE
    /\ ShowUnavailable
    /\ CancelPing(ctx)
    /\ UNCHANGED ready

(***************************************************************************)
(* _cleanup_runtime_session up to its await; "s" is the session that is    *)
(* left to close.                                                          *)
(***************************************************************************)
DropSession ==
    /\ ctx' = None /\ ready' = FALSE /\ online' = FALSE
    /\ ShowUnavailable
    /\ CancelPing(ctx)

\* The session loop ends: the finally block of _run_loop.
EndRunner(r) ==
    /\ DropSession
    /\ Suspend(r, IF ctx = None THEN "done" ELSE "cleanup_close", ctx)

-----------------------------------------------------------------------------
(* Start and stop.                                                         *)

\* A task identity no stop() waits for and no running task has.
FreeRunner(r) == ~Alive(r) /\ \A k \in Stoppers : swait[k] # r

\* start()
Start ==
    IF RunnerAlive
      THEN UNCHANGED <<stopped, runnerVars>>
      ELSE /\ stopped' = FALSE
           /\ \E r \in Runners :
                /\ FreeRunner(r)
                /\ runner' = r
                /\ Suspend(r, "start", None)
                /\ cancelled' = [cancelled EXCEPT ![r] = FALSE]

\* stop() of k suspends at "at", waiting for task r and closing session s.
SuspendStop(k, at, r, s) ==
    /\ spc' = [spc EXCEPT ![k] = at]
    /\ swait' = [swait EXCEPT ![k] = r]
    /\ sctx' = [sctx EXCEPT ![k] = s]

\* The finally block of stop().
StopCleanup(k) ==
    /\ DropSession
    /\ SuspendStop(k, "close", None, ctx)

\* stop() cancels the session loop task and does not wait for it.
WrongStopRunner(k) ==
    /\ runner' = None
    /\ StopCleanup(k)
    /\ cancelled' = [r \in Runners |-> cancelled[r] \/ (r = runner /\ Alive(r))]
    /\ UNCHANGED <<rpc, rctx>>

\* stop() takes the session loop task, cancels it and waits for it.
StopRunner(k) ==
    /\ runner' = None
    /\ IF RunnerAlive
         THEN /\ cancelled' = [cancelled EXCEPT ![runner] = TRUE]
              /\ SuspendStop(k, "runner", runner, None)
              /\ UNCHANGED <<availVars, linkVars, ping>>
         ELSE StopCleanup(k) /\ UNCHANGED cancelled
    /\ UNCHANGED <<rpc, rctx>>

\* stop() of k begins: it first cancels the grace timer and waits for it.
BeginStop(k) ==
    /\ stopped' = TRUE
    /\ IF graceTimer
         THEN /\ graceTimer' = FALSE
              /\ SuspendStop(k, "grace", None, None)
              /\ UNCHANGED <<available, linkVars, runnerVars, ping>>
         ELSE StopRunner(k)

StopAfterGrace(k) ==
    /\ spc[k] = "grace"
    /\ StopRunner(k)
    /\ UNCHANGED <<supervisorVars, stopped, paused, proven, sess, commandVars,
                   entry>>

StopAfterRunner(k) ==
    /\ spc[k] = "runner" /\ ~Alive(swait[k])
    /\ StopCleanup(k)
    /\ UNCHANGED <<supervisorVars, stopped, paused, runnerVars, proven, sess,
                   commandVars, entry>>

\* The stop of the config entry returns.
StopEntryDone ==
    /\ spc["entry"] = "close"
    /\ IF sctx["entry"] = None THEN UNCHANGED sess
                               ELSE CloseWebsocket(sctx["entry"])
    /\ SuspendStop("entry", "idle", None, None)
    /\ entry' = "unloaded"
    /\ UNCHANGED <<supervisorVars, availVars, linkVars, stopped, paused,
                   runnerVars, proven, ping, commandVars>>

\* The stop of repair or reauth returns, and start() follows.
StopCommandDone ==
    /\ spc["command"] = "close"
    /\ IF sctx["command"] = None THEN UNCHANGED sess
                                 ELSE CloseWebsocket(sctx["command"])
    /\ SuspendStop("command", "idle", None, None)
    /\ cpc' = "idle" /\ ckind' = "none"
    /\ Start
    /\ UNCHANGED <<supervisorVars, availVars, linkVars, paused, proven, ping,
                   cctx, attempt, entry>>

\* async_setup_entry starts the client, async_unload_entry stops it.
EntrySetup ==
    /\ entry = "setup"
    /\ entry' = "loaded"
    /\ Start
    /\ UNCHANGED <<supervisorVars, availVars, linkVars, paused, proven, socketVars,
                   commandVars, spc, swait, sctx>>

EntryUnload ==
    /\ entry = "loaded" /\ MayUnload
    /\ entry' = "unloading"
    /\ BeginStop("entry")
    /\ UNCHANGED <<supervisorVars, paused, proven, sess, commandVars>>

-----------------------------------------------------------------------------
(* The session loop.                                                       *)

\* Task r runs on: it is suspended at "at" and not being cancelled.
Resumes(r, at) == rpc[r] = at /\ ~cancelled[r]

\* The next session is opened even after stop().
WrongNextSession(r) ==
    /\ Suspend(r, "opening", None)
    /\ proven' = FALSE
    /\ UNCHANGED <<availVars, linkVars, ping>>

\* The outer loop of _run_sessions: the next session, or the end.
NextSession(r) ==
    IF stopped
      THEN EndRunner(r) /\ UNCHANGED proven
      ELSE /\ Suspend(r, "opening", None)
           /\ proven' = FALSE
           /\ UNCHANGED <<availVars, linkVars, ping>>

\* The inner loop: read on whatever session is current.
ReadOn(r) ==
    IF stopped \/ ctx = None
      THEN NextSession(r)
      ELSE /\ Suspend(r, "reading", ctx)
           /\ UNCHANGED <<availVars, linkVars, ping, proven>>

\* _handle_transport_reconnect up to its first await.
LoseSession(r) ==
    /\ ctx' = None /\ ready' = FALSE
    /\ MarkReconnecting(ctx = None /\ paused')
    /\ CancelPing(ctx)
    /\ Suspend(r, IF ctx # None THEN "lost_close"
                  ELSE IF paused' THEN "paused" ELSE "backoff", ctx)
    /\ UNCHANGED <<stopped, runner, cancelled, proven, sess, commandVars, stopVars>>

\* _handle_auth_failure up to its first await.
FailAuthentication(r) ==
    /\ ctx' = None /\ ready' = FALSE
    /\ IF ctx = None
         THEN online' = FALSE /\ ShowUnavailable
         ELSE UNCHANGED <<online, availVars>>
    /\ CancelPing(ctx)
    /\ Suspend(r, IF ctx = None THEN "auth_wait" ELSE "auth_close", ctx)
    /\ UNCHANGED <<supervisorVars, stopped, paused, runner, cancelled, proven,
                   sess, commandVars, stopVars>>

\* The first session is proven to deliver data: the client is connected.
Connect(r) ==
    /\ MarkConnected
    /\ paused' = FALSE
    /\ IF stopped
         THEN EndRunner(r) /\ proven' = TRUE
         ELSE /\ ready' = TRUE /\ available' = TRUE /\ graceTimer' = FALSE
              /\ Suspend(r, IF ctx = None THEN "opening" ELSE "reading", ctx)
              /\ proven' = (ctx # None)
              /\ UNCHANGED <<ctx, online, ping>>
    /\ UNCHANGED <<stopped, runner, cancelled, sess, commandVars, stopVars>>

\* What a step of the session loop leaves alone when it only moves on.
OnlyRunner == UNCHANGED <<supervisorVars, stopped, paused, runner, cancelled,
                          commandVars, stopVars>>
OnlySuspends == OnlyRunner /\ UNCHANGED <<availVars, linkVars, proven, socketVars>>

RunnerBegins(r) ==
    /\ Resumes(r, "start") /\ NextSession(r)
    /\ OnlyRunner /\ UNCHANGED sess

\* _open_authenticated_session returns a session with its heartbeat running.
OpenSucceeds(r) ==
    /\ Resumes(r, "opening")
    /\ \E s \in Sessions :
         /\ Unused(s)
         /\ ctx' = s /\ online' = TRUE
         /\ sess' = [sess EXCEPT ![s] = "open"]
         /\ ping' = [ping EXCEPT ![s] = "sleeping"]
         /\ Suspend(r, "requesting", s)
    /\ OnlyRunner /\ UNCHANGED <<availVars, ready, proven>>

\* ... or fails; the third pairing failure in a row pauses reconnecting.
OpenFails(r) ==
    /\ Resumes(r, "opening")
    /\ paused' \in {paused, TRUE}
    /\ LoseSession(r)

\* ... or the device refuses the stored token.
OpenRefused(r) == Resumes(r, "opening") /\ FailAuthentication(r)

(***************************************************************************)
(* _request_initial_values is over: failing optional requests are          *)
(* suppressed, so it also ends on a session another task has dropped.      *)
(* Only now is _ctx read again; reading from None ends the task.           *)
(***************************************************************************)
RequestsSent(r) ==
    /\ Resumes(r, "requesting")
    /\ IF proven
         THEN Connect(r)
         ELSE /\ IF ctx = None
                   THEN EndRunner(r)
                   ELSE /\ Suspend(r, "proving", ctx)
                        /\ UNCHANGED <<availVars, linkVars, ping>>
              /\ OnlyRunner /\ UNCHANGED <<proven, sess>>

RequestsFail(r) ==
    /\ Resumes(r, "requesting") /\ sess[rctx[r]] # "open"
    /\ UNCHANGED paused
    /\ LoseSession(r)

\* The socket hands over a startup value; it is handled when the task resumes.
ProofRead(r) ==
    /\ Resumes(r, "proving") /\ sess[rctx[r]] = "open"
    /\ Suspend(r, "proved", rctx[r])
    /\ OnlySuspends

ProofHandled(r) == Resumes(r, "proved") /\ Connect(r)

\* No startup value in time, or stop() was called.
ProofMissing(r) == Resumes(r, "proving") /\ FailAuthentication(r)

\* The socket is closed while a startup value or an event is awaited.
ReadClosed(r) ==
    /\ Resumes(r, "proving") \/ Resumes(r, "reading")
    /\ sess[rctx[r]] # "open"
    /\ UNCHANGED paused
    /\ LoseSession(r)

EventRead(r) ==
    /\ Resumes(r, "reading") /\ sess[rctx[r]] = "open"
    /\ Suspend(r, "event", rctx[r])
    /\ OnlySuspends

\* The events are handled; the watchdog finds nothing to do.
EventHandled(r) ==
    /\ Resumes(r, "event") /\ ReadOn(r)
    /\ OnlyRunner /\ UNCHANGED sess

(***************************************************************************)
(* _force_reconnect(s) up to its await: with a session that is no longer   *)
(* current it changes nothing, without one (None) it drops the current.    *)
(***************************************************************************)
ForceReconnect(s) ==
    IF s # None /\ ctx # s
      THEN UNCHANGED <<supervisorVars, availVars, linkVars>>
      ELSE /\ ctx' = None /\ ready' = FALSE
           /\ MarkReconnecting(FALSE)

\* _maybe_recover_stale_runtime acts on the current, ready session only.
WatchdogActs(r) == ctx = rctx[r] /\ ready /\ ~stopped

\* No device data for too long: the watchdog sends its probe.
WatchdogProbes(r) ==
    /\ Resumes(r, "event") /\ WatchdogActs(r)
    /\ Suspend(r, "probing", rctx[r])
    /\ OnlySuspends

WatchdogProbeSent(r) ==
    /\ Resumes(r, "probing") /\ ReadOn(r)
    /\ OnlyRunner /\ UNCHANGED sess

\* The probe stayed unanswered, or could not be sent.
WatchdogReconnects(r) ==
    /\ \/ Resumes(r, "event") /\ WatchdogActs(r)
       \/ Resumes(r, "probing") /\ sess[rctx[r]] # "open"
    /\ ForceReconnect(rctx[r])
    /\ CancelPing(rctx[r])
    /\ Suspend(r, "stale_close", rctx[r])
    /\ UNCHANGED <<stopped, paused, runner, cancelled, proven, sess, commandVars,
                   stopVars>>

StaleClosed(r) ==
    /\ Resumes(r, "stale_close") /\ CloseWebsocket(rctx[r])
    /\ ReadOn(r) /\ OnlyRunner

LostClosed(r) ==
    /\ Resumes(r, "lost_close") /\ CloseWebsocket(rctx[r])
    /\ Suspend(r, IF paused THEN "paused" ELSE "backoff", None)
    /\ IF paused THEN ShowUnavailable ELSE UNCHANGED availVars
    /\ OnlyRunner /\ UNCHANGED <<linkVars, proven, ping>>

\* The task waits for stop() without a timeout.
WrongBackoffEnds(r) ==
    /\ Resumes(r, "backoff") /\ stopped /\ NextSession(r)
    /\ OnlyRunner /\ UNCHANGED sess

\* The delay is over, or stop() ends it.
BackoffEnds(r) ==
    /\ Resumes(r, "backoff") /\ NextSession(r)
    /\ OnlyRunner /\ UNCHANGED sess

AuthClosed(r) ==
    /\ Resumes(r, "auth_close") /\ CloseWebsocket(rctx[r])
    /\ Suspend(r, "auth_wait", None)
    /\ online' = FALSE /\ ShowUnavailable
    /\ OnlyRunner /\ UNCHANGED <<ctx, ready, proven, ping>>

\* Paused after pairing failures, or refused: the task waits for stop().
WaitEnds(r) ==
    /\ Resumes(r, "paused") \/ Resumes(r, "auth_wait")
    /\ stopped
    /\ EndRunner(r)
    /\ OnlyRunner /\ UNCHANGED <<proven, sess>>

RunnerEnds(r) ==
    /\ Resumes(r, "cleanup_close") /\ CloseWebsocket(rctx[r])
    /\ Suspend(r, "done", None)
    /\ OnlyRunner /\ UNCHANGED <<availVars, linkVars, proven, ping>>

Closing == {"stale_close", "lost_close", "auth_close", "cleanup_close"}

\* CancelledError is raised where the task is suspended; a close that is
\* interrupted still closes the websocket.
RunnerCancelled(r) ==
    /\ Alive(r) /\ cancelled[r]
    /\ cancelled' = [cancelled EXCEPT ![r] = FALSE]
    /\ IF rpc[r] \in Closing THEN CloseWebsocket(rctx[r]) ELSE UNCHANGED sess
    /\ IF rpc[r] \in {"start", "cleanup_close"}
         THEN /\ Suspend(r, "done", None)
              /\ UNCHANGED <<availVars, linkVars, ping>>
         ELSE EndRunner(r)
    /\ UNCHANGED <<supervisorVars, stopped, paused, runner, proven, commandVars,
                   stopVars>>

\* _close_session suppresses CancelledError while it awaits the heartbeat
\* task, so a cancellation that arrives there is lost.
CancellationLost(r) ==
    /\ cancelled[r] /\ rpc[r] \in Closing
    /\ cancelled' = [cancelled EXCEPT ![r] = FALSE]
    /\ UNCHANGED <<supervisorVars, availVars, linkVars, stopped, paused, runner,
                   rpc, rctx, proven, socketVars, commandVars, stopVars>>

\* The steps of the session loop that it takes by itself.
RunnerStep(r) ==
    \/ RunnerBegins(r) \/ OpenSucceeds(r) \/ OpenFails(r) \/ OpenRefused(r)
    \/ RequestsSent(r) \/ RequestsFail(r)
    \/ ProofRead(r) \/ ProofHandled(r) \/ ProofMissing(r) \/ ReadClosed(r)
    \/ EventRead(r) \/ EventHandled(r) \/ WatchdogProbes(r)
    \/ WatchdogProbeSent(r) \/ WatchdogReconnects(r)
    \/ StaleClosed(r) \/ LostClosed(r) \/ BackoffEnds(r) \/ AuthClosed(r)
    \/ WaitEnds(r) \/ RunnerEnds(r) \/ RunnerCancelled(r) \/ CancellationLost(r)

-----------------------------------------------------------------------------
(* The heartbeat task of a websocket, the device and the grace timer.      *)

HeartbeatFails(s) ==
    /\ ping[s] = "sleeping" /\ sess[s] = "lost" /\ ~stopped
    /\ ForceReconnect(s)
    /\ ping' = [ping EXCEPT ![s] = "closing"]
    /\ UNCHANGED <<stopped, paused, runnerVars, proven, sess, commandVars, stopVars>>

HeartbeatClosed(s) ==
    /\ ping[s] = "closing" /\ CloseWebsocket(s)
    /\ ping' = [ping EXCEPT ![s] = "none"]
    /\ UNCHANGED <<supervisorVars, availVars, linkVars, stopped, paused,
                   runnerVars, proven, commandVars, stopVars>>

\* The loop ends by itself on a closed websocket or after stop().
HeartbeatEnds(s) ==
    /\ ping[s] = "sleeping" /\ (sess[s] # "open" \/ stopped)
    /\ ping' = [ping EXCEPT ![s] = "none"]
    /\ UNCHANGED <<supervisorVars, availVars, linkVars, stopped, paused,
                   runnerVars, proven, sess, commandVars, stopVars>>

DeviceLoses(s) ==
    /\ sess[s] = "open"
    /\ sess' = [sess EXCEPT ![s] = "lost"]
    /\ UNCHANGED <<supervisorVars, availVars, linkVars, stopped, paused,
                   runnerVars, proven, ping, commandVars, stopVars>>

\* _expire_reconnect_grace_after
GraceExpires ==
    /\ graceTimer /\ ShouldMarkUnavailable
    /\ graceTimer' = FALSE
    /\ available' = (available /\ (ready \/ stopped))
    /\ UNCHANGED <<supervisorVars, linkVars, stopped, paused, runnerVars, proven,
                   socketVars, commandVars, stopVars>>

TimePasses ==
    /\ Tick
    /\ UNCHANGED <<availVars, linkVars, stopped, paused, runnerVars, proven,
                   socketVars, commandVars, stopVars>>

-----------------------------------------------------------------------------
(* The holder of the command lock.                                         *)

OnlyCommand == UNCHANGED <<stopped, paused, runnerVars, proven, stopVars>>

CommandMoves(at, s) == cpc' = at /\ cctx' = s

CommandDone == CommandMoves("idle", None) /\ ckind' = "none" /\ attempt' = 0

\* _ensure_ready looks at availability, not at _ready, before it waits.
Ensure == IF ctx # None /\ available THEN CommandMoves("operation", ctx)
                                     ELSE CommandMoves("waiting", None)

CommandBegins(kind) ==
    /\ cpc = "idle" /\ entry # "setup" /\ kind \in {"retry", "once"}
    /\ Ensure
    /\ ckind' = kind /\ attempt' = 0
    /\ OnlyCommand
    /\ UNCHANGED <<supervisorVars, availVars, linkVars, socketVars>>

\* _ready is set; the task resumes one turn of the event loop later.
CommandWoken ==
    /\ cpc = "waiting" /\ ready
    /\ CommandMoves("woken", None)
    /\ OnlyCommand
    /\ UNCHANGED <<supervisorVars, availVars, linkVars, socketVars, ckind, attempt>>

CommandResumes ==
    /\ cpc = "woken" /\ ctx # None
    /\ CommandMoves("operation", ctx)
    /\ OnlyCommand
    /\ UNCHANGED <<supervisorVars, availVars, linkVars, socketVars, ckind, attempt>>

\* Sent and confirmed; also a call that its caller, or a cleared future of
\* the client, cancels.
CommandEnds ==
    /\ cpc \in {"waiting", "woken", "operation", "retry_wait"}
    /\ CommandDone
    /\ OnlyCommand
    /\ UNCHANGED <<supervisorVars, availVars, linkVars, socketVars>>

MayRetry == ckind = "retry" /\ attempt = 0

(***************************************************************************)
(* Not ready in time, no session after all, or the operation failed: the   *)
(* first attempt of a retried command drops whatever session is current.   *)
(***************************************************************************)
CommandFails ==
    /\ \/ cpc \in {"waiting", "operation"}
       \/ cpc = "woken" /\ ctx = None
    /\ IF MayRetry
         THEN /\ ForceReconnect(None)
              /\ CancelPing(ctx)
              /\ attempt' = attempt + 1 /\ UNCHANGED ckind
              /\ CommandMoves(IF ctx = None THEN "retry_wait" ELSE "force_close", ctx)
         ELSE /\ CommandDone
              /\ UNCHANGED <<supervisorVars, availVars, linkVars, ping>>
    /\ OnlyCommand /\ UNCHANGED sess

CommandForceClosed ==
    /\ cpc = "force_close" /\ CloseWebsocket(cctx)
    /\ CommandMoves("retry_wait", None)
    /\ OnlyCommand
    /\ UNCHANGED <<supervisorVars, availVars, linkVars, ping, ckind, attempt>>

CommandRetries ==
    /\ cpc = "retry_wait"
    /\ Ensure
    /\ OnlyCommand
    /\ UNCHANGED <<supervisorVars, availVars, linkVars, socketVars, ckind, attempt>>

\* repair_pairing: manual pairing begins and the stored token is cleared.
RepairBegins ==
    /\ cpc = "idle" /\ entry # "setup"
    /\ cpc' = "clear_token" /\ ckind' = "repair"
    /\ paused' = FALSE
    /\ UNCHANGED <<supervisorVars, availVars, linkVars, stopped, runnerVars, proven,
                   socketVars, cctx, attempt, stopVars>>

\* The second half of repair_pairing, and the whole of restart_after_reauth:
\* a running session loop is stopped first.
Restart(kind) ==
    /\ IF RunnerAlive
         THEN /\ BeginStop("command")
              /\ cpc' = "stopping" /\ ckind' = kind
         ELSE /\ Start
              /\ cpc' = "idle" /\ ckind' = "none"
              /\ UNCHANGED <<availVars, linkVars, ping, spc, swait, sctx>>
    /\ UNCHANGED <<supervisorVars, paused, proven, sess, cctx, attempt, entry>>

RepairRestarts == cpc = "clear_token" /\ Restart("repair")
ReauthRestarts == cpc = "idle" /\ entry # "setup" /\ Restart("reauth")

CommandStep ==
    \/ \E kind \in CommandKinds : CommandBegins(kind)
    \/ CommandWoken \/ CommandResumes \/ CommandEnds \/ CommandFails
    \/ CommandForceClosed \/ CommandRetries
    \/ "repair" \in CommandKinds /\ (RepairBegins \/ RepairRestarts)
    \/ "reauth" \in CommandKinds /\ ReauthRestarts

StopStep == \/ \E k \in Stoppers : StopAfterGrace(k) \/ StopAfterRunner(k)
            \/ StopEntryDone \/ StopCommandDone

Next ==
    \/ \E r \in Runners : RunnerStep(r)
    \/ \E s \in Sessions : \/ HeartbeatFails(s) \/ HeartbeatClosed(s)
                           \/ HeartbeatEnds(s) \/ DeviceLoses(s)
    \/ GraceExpires \/ TimePasses
    \/ CommandStep \/ StopStep
    \/ EntrySetup \/ EntryUnload

Spec == Init /\ [][Next]_vars

(***************************************************************************)
(* The event loop resumes every task whose await is over.  A command may   *)
(* still wait for the device, but not for ever: all its waits have         *)
(* timeouts.  Nothing is assumed of start, unload and new commands.        *)
(***************************************************************************)
SchedulerFairness ==
    /\ \A r \in Runners : WF_vars(RunnerStep(r))
    /\ \A s \in Sessions : WF_vars(HeartbeatClosed(s))
    /\ WF_vars(GraceExpires) /\ WF_vars(TimePasses)
    /\ WF_vars(StopStep)
    /\ WF_vars(CommandStep /\ cpc # "idle")

FairSpec == Spec /\ SchedulerFairness

-----------------------------------------------------------------------------
(* Safety.                                                                 *)

\* Some task is closing session s.
InClose(s) ==
    \/ ping[s] = "closing"
    \/ cpc = "force_close" /\ cctx = s
    \/ \E r \in Runners : rpc[r] \in Closing /\ rctx[r] = s
    \/ \E k \in Stoppers : spc[k] = "close" /\ sctx[k] = s

(***************************************************************************)
(* No websocket is leaked, whatever drops a session while another task     *)
(* uses it: one the client has not closed is the current one or being      *)
(* closed, and only the current one keeps a heartbeat (_force_reconnect,   *)
(* _handle_transport_reconnect, _cleanup_runtime_session).                 *)
(***************************************************************************)
OnlyCurrentSessionLives ==
    \A s \in Sessions :
        /\ sess[s] # "closed" => s = ctx \/ InClose(s)
        /\ ping[s] = "sleeping" => s = ctx

(***************************************************************************)
(* While entities are still available during an outage, the timer that     *)
(* ends the grace window is pending: no order of forced reconnects,        *)
(* failures and reconnects loses it (_mark_reconnecting,                   *)
(* _expire_reconnect_grace_after).  stop() withdraws availability itself.  *)
(***************************************************************************)
OutageIsTimed ==
    available /\ disconnectedFor # Unset /\ ~stopped => graceTimer

(***************************************************************************)
(* A client that is ready is connected for the reconnect supervisor too:   *)
(* no outage is open and no grace timer pending (_record_session_connected *)
(* and everything that clears _ready).                                     *)
(***************************************************************************)
ReadyIsConnected ==
    ready => /\ connectedFor # Unset /\ disconnectedFor = Unset
             /\ ~graceTimer /\ available

(***************************************************************************)
(* Ready without a session happens only while the session loop opens the   *)
(* next one: a proof handled after a forced reconnect (_run_sessions).     *)
(***************************************************************************)
ReadyHasSession ==
    ready /\ ctx = None => \E r \in Runners : rpc[r] = "opening"

(***************************************************************************)
(* The client calls itself ready only with a connection to show for it,    *)
(* towards the supervisor as well as towards commands.                     *)
(***************************************************************************)
ReadyIsTrue == ReadyIsConnected /\ ReadyHasSession

(***************************************************************************)
(* When unloading the entry returns, no session loop, session or heartbeat *)
(* is left and entities are unavailable: the code says that "unload must   *)
(* also release failed tasks" (stop in client.py).                         *)
(***************************************************************************)
UnloadReleases ==
    entry = "unloaded" =>
        /\ \A r \in Runners : ~Alive(r)
        /\ \A s \in Sessions : ping[s] # "sleeping"
        /\ ctx = None /\ ~ready /\ ~online /\ ~available

-----------------------------------------------------------------------------
(* Liveness.                                                               *)

\* stop() always returns, whatever the tasks it waits for are doing.
UnloadEnds == entry = "unloading" ~> entry = "unloaded"

\* An outage that lasts is shown: entities do not stay available for ever.
OutageIsShown ==
    available /\ disconnectedFor # Unset ~> ready \/ ~available

\* The session loop gave up reconnecting and waits for the user.
GaveUp == \E r \in Runners : rpc[r] \in {"paused", "auth_wait", "auth_close"}

(***************************************************************************)
(* A device that is asked again and again in the end accepts a session,    *)
(* takes the initial requests on it and answers one of them.               *)
(***************************************************************************)
DeviceFairness ==
    \A r \in Runners :
        /\ SF_vars(OpenSucceeds(r))
        /\ SF_vars(RequestsSent(r) /\ sess[rctx[r]] = "open")
        /\ SF_vars(ProofRead(r)) /\ SF_vars(ProofHandled(r))

(***************************************************************************)
(* With such a device a loaded client gets ready, unless it gave up, was   *)
(* stopped, or its session loop died (_run_sessions): no order of forced   *)
(* reconnects, losses and failures makes it wait for ever.                 *)
(***************************************************************************)
GetsReady ==
    DeviceFairness =>
        (entry = "loaded" ~> ready \/ stopped \/ GaveUp \/ ~RunnerAlive)

-----------------------------------------------------------------------------
(* Claims of the documentation that the code does not keep.                *)

(***************************************************************************)
(* "The integration reconnects automatically after socket closes and short *)
(* DHE session drops" (docs/troubleshooting.md): while the entry is loaded *)
(* and nothing stops the client, the session loop is alive.                *)
(***************************************************************************)
LoopSurvives == entry = "loaded" /\ ~stopped => RunnerAlive

(***************************************************************************)
(* "If the DHE goes offline after setup, entities become unavailable after *)
(* the reconnect grace window" (docs/troubleshooting.md): available        *)
(* without a session only while the grace timer is pending.                *)
(***************************************************************************)
OfflineIsTimed == available /\ ctx = None /\ ~stopped => graceTimer

=============================================================================
