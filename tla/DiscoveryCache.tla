--------------------------- MODULE DiscoveryCache ---------------------------
(***************************************************************************)
(* How discovery observations reach the disk (discovery_state.py).         *)
(* Setup flows and diagnostics load the cache under one lock; an           *)
(* observation is recorded in memory and schedules a deferred write, owned *)
(* by one _DiscoveryWriter: a timer starts a background task, which writes *)
(* a snapshot in an executor thread and keeps the lock until the thread is *)
(* done, also when the task is cancelled.  Home Assistant cancels the task *)
(* when it stops and fires its final-write event later; the writer then    *)
(* flushes what is dirty.  A crash loses all but the file.                 *)
(*                                                                         *)
(* Clients are the calls that load the cache: those in Observations also   *)
(* record something, the others only read.  The lock is asyncio's, granted *)
(* in the order of the requests; what a call does without awaiting is one  *)
(* step.                                                                   *)
(***************************************************************************)
EXTENDS Integers, Sequences

CONSTANTS
    Observations,   \* calls of async_record_discovery and of the scan's
    Readers,        \* calls that only load the cache
    MaxFailures,    \* file operations that fail
    Nil

ASSUME DiscoveryAssumption ==
    /\ Nil \notin Observations \cup Readers \cup {"save", "stop"}
    /\ \A s \in SUBSET Observations : s # Nil
    /\ Observations \cap Readers = {}
    /\ {"save", "stop"} \cap (Observations \cup Readers) = {}
    /\ MaxFailures \in Nat

Clients == Observations \cup Readers
Writers == {"save", "stop"}

VARIABLES
    memory,     \* the records in memory, Nil before the first load
    disk,       \* the records in the file
    owner,      \* who holds the discovery lock
    queue,      \* who waits for it
    client,     \* where each client is
    writer,     \* where each flush is
    job,        \* the snapshot each executor job is to write
    outcome,    \* how the job ended
    timer,      \* "set" when writer.handle is
    dirty,      \* "dirty" when writer.dirty, else "clean"
    listening,  \* the writer listens for the final write: "no", "yes", "stopping"
    cancelled,  \* "yes" when Home Assistant cancelled the save task
    phase,      \* of Home Assistant: "running", "stopping", "final"
    failures,   \* file operations that failed
    late        \* history: observations recorded when the writer was stopping

callVars   == <<owner, queue, client>>
jobVars    == <<writer, job, outcome, cancelled>>
timerVars  == <<timer, dirty, listening, late>>
cacheVars == <<memory, disk, callVars, jobVars, timerVars, phase, failures>>

DiscoveryInit ==
    /\ memory = Nil /\ disk = {}
    /\ owner = Nil /\ queue = <<>>
    /\ client = [c \in Clients |-> "new"]
    /\ writer = [w \in Writers |-> "idle"]
    /\ job = [w \in Writers |-> Nil] /\ outcome = [w \in Writers |-> "none"]
    /\ timer = "none" /\ dirty = "clean" /\ listening = "no"
    /\ cancelled = "no" /\ phase = "running"
    /\ failures = 0 /\ late = {}

\* Mutants: no exclusion; the lock is not given back.
WrongMayAcquire(p) == queue # <<>> /\ Head(queue) = p
MayAcquire(p) == owner = Nil /\ queue # <<>> /\ Head(queue) = p

WrongRelease == UNCHANGED owner
Release == owner' = Nil

SaveRuns == writer["save"] # "idle"

-----------------------------------------------------------------------------
\* Recording.

\* _async_schedule_discovery_save, when o was recorded.
Schedule(o) ==
    IF listening = "stopping"
    THEN late' = late \cup {o} /\ UNCHANGED <<timer, dirty, listening>>
    ELSE /\ dirty' = "dirty" /\ listening' = "yes"
         /\ timer' = IF SaveRuns THEN timer ELSE "set"
         /\ UNCHANGED late

\* What a client does when it has the cache: a reader looks, others record.
Proceed(c, content) ==
    /\ client' = [client EXCEPT ![c] = "done"]
    /\ IF c \in Observations
       THEN memory' = content \cup {c} /\ Schedule(c)
       ELSE memory' = content /\ UNCHANGED timerVars

Ask(c) ==
    /\ client[c] = "new"
    /\ client' = [client EXCEPT ![c] = "queued"]
    /\ queue' = Append(queue, c)
    /\ UNCHANGED <<memory, disk, owner, jobVars, timerVars, phase, failures>>

\* The cache is in memory: the lock is given back at once.
UseCached(c) ==
    /\ client[c] = "queued" /\ MayAcquire(c) /\ memory # Nil
    /\ queue' = Tail(queue)
    /\ Proceed(c, memory)
    /\ UNCHANGED <<disk, owner, jobVars, phase, failures>>

\* The first caller reads the file in a thread and keeps the lock meanwhile.
BeginLoad(c) ==
    /\ client[c] = "queued" /\ MayAcquire(c) /\ memory = Nil
    /\ owner' = c /\ queue' = Tail(queue)
    /\ client' = [client EXCEPT ![c] = "loading"]
    /\ UNCHANGED <<memory, disk, jobVars, timerVars, phase, failures>>

\* An unreadable file counts as empty.
EndLoad(c) ==
    /\ client[c] = "loading"
    /\ Release
    /\ \/ Proceed(c, disk) /\ UNCHANGED failures
       \/ /\ failures < MaxFailures /\ failures' = failures + 1
          /\ Proceed(c, {})
    /\ UNCHANGED <<disk, queue, jobVars, phase>>

-----------------------------------------------------------------------------
\* Writing.

\* The part of async_flush_discovery_cache that follows the wait for a task.
FlushOrReturn(w) ==
    IF dirty = "clean"
    THEN /\ writer' = [writer EXCEPT ![w] = IF w = "save" THEN "idle" ELSE "done"]
         /\ UNCHANGED <<dirty, queue>>
    ELSE /\ dirty' = "clean"
         /\ queue' = Append(queue, w)
         /\ writer' = [writer EXCEPT ![w] = "queued"]

TimerFires ==
    /\ timer = "set"
    /\ timer' = "none"
    /\ FlushOrReturn("save")
    /\ UNCHANGED <<memory, disk, owner, client, job, outcome, cancelled,
                   listening, late, phase, failures>>

\* _async_save_discovery_cache copies the records once it has the lock.
BeginWrite(w) ==
    /\ writer[w] = "queued" /\ MayAcquire(w)
    /\ owner' = w /\ queue' = Tail(queue)
    /\ writer' = [writer EXCEPT ![w] = "writing"]
    /\ job' = [job EXCEPT ![w] = memory]
    /\ UNCHANGED <<memory, disk, client, outcome, cancelled, timerVars, phase,
                   failures>>

JobReplaces(w) ==
    /\ job[w] # Nil
    /\ disk' = job[w]
    /\ job' = [job EXCEPT ![w] = Nil]
    /\ outcome' = [outcome EXCEPT ![w] = "ok"]
    /\ UNCHANGED <<memory, callVars, writer, cancelled, timerVars, phase,
                   failures>>

JobFails(w) ==
    /\ job[w] # Nil /\ failures < MaxFailures
    /\ failures' = failures + 1
    /\ job' = [job EXCEPT ![w] = Nil]
    /\ outcome' = [outcome EXCEPT ![w] = "error"]
    /\ UNCHANGED <<memory, disk, callVars, writer, cancelled, timerVars, phase>>

\* Mutant: what could not be written counts as written.
WrongRedirty(broken) == UNCHANGED dirty

\* What was not written stays dirty (the flush's except clause).
Redirty(broken) == dirty' = IF broken THEN "dirty" ELSE dirty

\* The stop handler, waiting for the save task, is cancelled with it; else it
\* goes on once the task is gone.
StopAfterSave(stop, how) ==
    IF stop # "waiting" THEN stop
    ELSE IF how = "cancelled" THEN "aborted" ELSE "resumed"

\* The end of _save: a failed or cancelled write leaves the records dirty
\* and is not tried again; one that found new observations is scheduled.
EndSave ==
    LET failed == outcome["save"] = "error"
        broken == failed \/ cancelled = "yes"
    IN  /\ writer["save"] = "writing" /\ outcome["save"] # "none"
        /\ Release /\ Redirty(broken)
        /\ timer' = IF ~broken /\ dirty = "dirty" /\ listening # "stopping"
                    THEN "set" ELSE timer
        /\ writer' = [save |-> "idle",
                      stop |-> StopAfterSave(writer["stop"],
                                   IF broken /\ ~failed THEN "cancelled" ELSE "ended")]
        /\ outcome' = [outcome EXCEPT !["save"] = "none"]
        /\ cancelled' = "no"
        /\ UNCHANGED <<memory, disk, queue, client, job, listening, late, phase,
                       failures>>

-----------------------------------------------------------------------------
\* The end of the process.

\* Home Assistant stops and cancels its background tasks.  A save that waits
\* for the lock ends at once, one that writes waits for its thread.
BeginStopping ==
    /\ phase = "running"
    /\ phase' = "stopping"
    /\ \/ /\ writer["save"] = "queued"
          /\ \E i \in 1 .. Len(queue) :
                /\ queue[i] = "save"
                /\ queue' = SubSeq(queue, 1, i - 1) \o SubSeq(queue, i + 1, Len(queue))
          /\ writer' = [writer EXCEPT !["save"] = "idle"]
          /\ dirty' = "dirty"
          /\ UNCHANGED cancelled
       \/ /\ writer["save"] # "queued"
          /\ cancelled' = IF SaveRuns THEN "yes" ELSE cancelled
          /\ UNCHANGED <<writer, queue, dirty>>
    /\ UNCHANGED <<memory, disk, owner, client, job, outcome, timer, listening,
                   late, failures>>

\* EVENT_HOMEASSISTANT_FINAL_WRITE: the writer's _stop, when there is one.
FinalWrite ==
    /\ phase = "stopping"
    /\ phase' = "final"
    /\ IF listening = "no"
       THEN UNCHANGED <<listening, timer, writer, dirty, queue>>
       ELSE /\ listening' = "stopping" /\ timer' = "none"
            /\ IF SaveRuns
               THEN /\ writer' = [writer EXCEPT !["stop"] = "waiting"]
                    /\ UNCHANGED <<dirty, queue>>
               ELSE FlushOrReturn("stop")
    /\ UNCHANGED <<memory, disk, owner, client, job, outcome, cancelled, late,
                   failures>>

StopResumes ==
    /\ writer["stop"] = "resumed"
    /\ FlushOrReturn("stop")
    /\ UNCHANGED <<memory, disk, owner, client, job, outcome, cancelled, timer,
                   listening, late, phase, failures>>

EndStop ==
    /\ writer["stop"] = "writing" /\ outcome["stop"] # "none"
    /\ Release /\ Redirty(outcome["stop"] = "error")
    /\ writer' = [writer EXCEPT !["stop"] =
                     IF outcome["stop"] = "error" THEN "failed" ELSE "done"]
    /\ outcome' = [outcome EXCEPT !["stop"] = "none"]
    /\ UNCHANGED <<memory, disk, queue, client, job, cancelled, timer, listening,
                   late, phase, failures>>

\* A crash, or the next start: only the file survives.  Calls that had not
\* begun are made of the new process.
Restart ==
    /\ memory' = Nil
    /\ owner' = Nil /\ queue' = <<>>
    /\ client' = [c \in Clients |-> IF client[c] = "new" THEN "new" ELSE "done"]
    /\ writer' = [w \in Writers |-> "idle"]
    /\ job' = [w \in Writers |-> Nil] /\ outcome' = [w \in Writers |-> "none"]
    /\ timer' = "none" /\ dirty' = "clean" /\ listening' = "no"
    /\ cancelled' = "no" /\ phase' = "running" /\ late' = {}
    /\ UNCHANGED <<disk, failures>>

ClientStep(c) == Ask(c) \/ UseCached(c) \/ BeginLoad(c) \/ EndLoad(c)

WriterStep(w) == BeginWrite(w) \/ JobReplaces(w) \/ JobFails(w)

DiscoveryNext ==
    \/ \E c \in Clients : ClientStep(c)
    \/ \E w \in Writers : WriterStep(w)
    \/ TimerFires \/ EndSave
    \/ BeginStopping \/ FinalWrite \/ StopResumes \/ EndStop
    \/ Restart

DiscoverySpec == DiscoveryInit /\ [][DiscoveryNext]_cacheVars

\* The event loop runs what is ready and the executor finishes its jobs; no
\* call is ever sure to be made, Home Assistant need not stop, nor crash.
FairDiscoverySpec ==
    /\ DiscoverySpec
    /\ \A c \in Clients : WF_cacheVars(UseCached(c) \/ BeginLoad(c) \/ EndLoad(c))
    /\ \A w \in Writers : WF_cacheVars(BeginWrite(w) \/ JobReplaces(w))
    /\ WF_cacheVars(TimerFires) /\ WF_cacheVars(EndSave)
    /\ WF_cacheVars(StopResumes) /\ WF_cacheVars(EndStop)

-----------------------------------------------------------------------------

DiscoveryTypeOK ==
    /\ memory \in (SUBSET Observations) \cup {Nil}
    /\ disk \in SUBSET Observations
    /\ owner \in Clients \cup Writers \cup {Nil}
    /\ queue \in Seq(Clients \cup Writers)
    /\ client \in [Clients -> {"new", "queued", "loading", "done"}]
    /\ writer \in [Writers -> {"idle", "waiting", "resumed", "queued", "writing",
                               "done", "failed", "aborted"}]
    /\ job \in [Writers -> (SUBSET Observations) \cup {Nil}]
    /\ outcome \in [Writers -> {"none", "ok", "error"}]
    /\ timer \in {"none", "set"} /\ dirty \in {"clean", "dirty"}
    /\ listening \in {"no", "yes", "stopping"} /\ cancelled \in {"no", "yes"}
    /\ phase \in {"running", "stopping", "final"}
    /\ failures \in 0 .. MaxFailures /\ late \in SUBSET Observations

\* A flush that has yet to take its snapshot or to hear that its write failed.
Unwritten == \E w \in Writers : writer[w] = "queued" \/ outcome[w] = "error"

Snapshots == UNION {job[w] : w \in {v \in Writers : job[v] # Nil}}

\* The snapshot under way: the lock admits one.
InFlight == IF job["save"] # Nil THEN job["save"] ELSE job["stop"]

(***************************************************************************)
(* No observation is forgotten: one that the file does not hold is still   *)
(* going to be written (the writer is dirty, a flush has yet to begin or   *)
(* failed, or the snapshot under way has it), unless it came when the      *)
(* writer was already stopping (_async_schedule_discovery_save,            *)
(* async_flush_discovery_cache).                                           *)
(***************************************************************************)
NothingForgotten ==
    memory # Nil =>
        \/ dirty = "dirty" \/ Unwritten
        \/ \A o \in memory : o \in disk \cup late \/ o \in Snapshots

(***************************************************************************)
(* A final write that succeeds leaves everything in the file that was      *)
(* recorded before it began, whatever save it waited for and however that  *)
(* one ended (_stop).  A handler that waits for a save which Home          *)
(* Assistant cancels ends with it and has written nothing ("aborted").     *)
(***************************************************************************)
FinalWriteSaves == writer["stop"] = "done" => memory \subseteq disk \cup late

(***************************************************************************)
(* Both: nothing that was recorded is lost while it waits for a write, or  *)
(* by the last one (discovery_state.py).                                   *)
(***************************************************************************)
RecordsAreKept == NothingForgotten /\ FinalWriteSaves

(***************************************************************************)
(* The file is only replaced by what the memory held while nothing else    *)
(* was recorded or written: the lock makes the cache the store of module   *)
(* SnapshotStore.                                                          *)
(***************************************************************************)
Store == INSTANCE SnapshotStore WITH stored <- disk, snapshot <- InFlight

ImplementsSnapshotStore == Store!StoreSpec

(***************************************************************************)
(* An observation whose write is scheduled gets to the disk, unless a file *)
(* operation fails meanwhile or Home Assistant stops: the timer, the lock  *)
(* and the task never wait for each other (_start, _save).                 *)
(***************************************************************************)
ObservationIsSaved ==
    \A o \in Observations, f \in 0 .. MaxFailures :
        (memory # Nil /\ o \in memory /\ timer = "set" /\ failures = f)
            ~> (o \in disk \/ failures > f \/ phase # "running" \/ memory = Nil)

=============================================================================
