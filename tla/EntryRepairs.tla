---------------------------- MODULE EntryRepairs ----------------------------
(***************************************************************************)
(* The life of one config entry (__init__.py) and the repair issues shown  *)
(* for it (repair_issues.py, repairs.py): setup with its probes, migration *)
(* and platforms, unloading, removal, the listener that reloads an entry   *)
(* whose target was changed, the callback that turns the client's          *)
(* diagnostics into issues, and the repair flow that a user starts from an *)
(* issue.                                                                  *)
(*                                                                         *)
(* An action is the code between two awaits of one task.  Home Assistant's *)
(* part is its setup lock, which reloads and removals wait for, the task   *)
(* it starts for each change of an entry, and its retries of a setup.  A   *)
(* device may or may not answer at any target at any time.  The client is  *)
(* what its diagnostics say of it; how it comes to them is the subject of  *)
(* DHEClientSession and PairingHandshake.                                  *)
(***************************************************************************)
EXTENDS Integers, FiniteSets

CONSTANTS
    Targets,        \* hosts and ports
    MaxChanges,     \* bound: changes of the entry's target
    MaxPending,     \* bound: tasks for changes, and reloads asked for
    Nil

IssueTypes == {"pairing_required", "token_invalid", "device_unreachable", "host_changed"}
Fixable == {"pairing_required", "token_invalid"}
Connectivity == IssueTypes \ Fixable

\* What a reason for reconnecting says, as far as the code looks at it.
Reasons == {"auth", "session", "host", "other"}

\* The client's states: when it tries to open a session, when a session that
\* it tried for may be lost.
Trying == {"starting", "stopped", "reconnecting"}
Running == Trying \cup {"initializing", "connected"}

Clients ==
    [state : Running \cup {"paused", "auth_failed", "stopping"}, auth : BOOLEAN,
     reason : Reasons \cup {Nil}, outage : {"no", "grace", "late"}]

\* The target a client is for, and the signature the listener compares.
Signatures == Targets \X (Targets \cup {Nil})
Runtimes == [target : Targets, signature : Signatures]

ASSUME EntryAssumption ==
    /\ Nil \notin Targets \cup IssueTypes \cup Clients \cup Runtimes
    /\ MaxChanges \in Nat /\ MaxPending \in Nat \ {0}

VARIABLES
    entry,      \* its state, the target of its data, and that of its options
    setup,      \* a setup in progress, or an unload and what follows it
    runtime,    \* runtime_data: the target the client is for, and the
                \* entry_reload_signature
    client,     \* the client's diagnostics
    issues,     \* the issues Home Assistant shows
    watch,      \* active_issue_type and connected_cleanup_scheduled
    cleanup,    \* _async_clear_issues_when_connected: "none", "waiting", "deleting"
    fix,        \* where the repair flow is
    listeners,  \* tasks of the update listener that have not run yet
    reloads,    \* reloads that wait for the setup lock
    changes,    \* changes of the target so far
    overlooked  \* history: the target changed during the setup

hass  == <<entry, setup, runtime>>
shown == <<issues, watch, cleanup>>
tasks == <<listeners, reloads>>
allVars == <<hass, client, shown, fix, tasks, changes, overlooked>>

Idle == [pc |-> "none", primary |-> Nil, reached |-> Nil, next |-> Nil]
Unheard == [active |-> Nil, asked |-> FALSE]
NewClient == [state |-> "starting", auth |-> FALSE, reason |-> Nil, outage |-> "no"]

Signature == <<entry.data, entry.options>>
Target == IF entry.options = Nil THEN entry.data ELSE entry.options

\* Callbacks and listeners are registered at the end of a setup and removed
\* at the end of an unload that succeeds.
Registered == client # Nil

EntryInit ==
    /\ entry \in [state : {"setup"}, data : Targets, options : {Nil}]
    /\ setup = [Idle EXCEPT !.pc = "probe", !.primary = entry.data]
    /\ runtime = Nil /\ client = Nil
    /\ issues = {} /\ watch = Unheard /\ cleanup = "none"
    /\ fix = "none"
    /\ listeners = 0 /\ reloads = 0 /\ changes = 0 /\ overlooked = FALSE

(***************************************************************************)
(* Issues.                                                                 *)
(***************************************************************************)
\* _auth_repair_issue_type
AuthIssue(c) == IF c.reason = "auth" THEN "token_invalid" ELSE "pairing_required"

\* _runtime_connectivity_issue_type
ConnectivityIssue(c) ==
    IF c.state # "reconnecting" \/ c.outage # "late" THEN Nil
    ELSE IF Target # entry.data THEN "host_changed"
    ELSE IF c.reason \in {"auth", "session"} THEN "token_invalid"
    ELSE IF c.reason = "host" THEN "host_changed"
    ELSE "device_unreachable"

Wanted(c) == IF c.auth THEN AuthIssue(c) ELSE ConnectivityIssue(c)

\* Mutant: issues of an entry that was removed.
CarelessCreated(type) == {type}
Created(type) == IF entry.state = "gone" THEN {} ELSE {type}

\* _create_issue deletes the others, and creates one that is not active yet.
Show(type) ==
    /\ issues' = IF watch.active = type THEN issues ELSE Created(type)
    /\ watch' = [active |-> type, asked |-> FALSE]

Withdraw ==
    /\ watch' = [active |-> IF watch.active \in Connectivity THEN Nil ELSE watch.active,
                 asked |-> FALSE]
    /\ issues' = IF watch.active \in Connectivity THEN {} ELSE issues

\* The clean-up deletes only what a connected entry shows.
ScheduleCleanup == cleanup' = IF cleanup = "none" THEN "waiting" ELSE cleanup

AllClear ==
    /\ issues' = {}
    /\ watch' = [active |-> Nil, asked |-> TRUE]
    /\ IF watch.asked THEN UNCHANGED cleanup ELSE ScheduleCleanup

\* _handle_diagnostic_update: the client's diagnostics become c.
Hear(c) ==
    /\ client' = c
    /\ IF c.state = "connected" THEN AllClear
       ELSE /\ UNCHANGED cleanup
            /\ IF Wanted(c) # Nil THEN Show(Wanted(c)) ELSE Withdraw

(***************************************************************************)
(* The client, as long as its callbacks are registered.                    *)
(***************************************************************************)
elsewhere == <<hass, fix, tasks, changes, overlooked>>

ClientIs(states) == Registered /\ client.state \in states

Opens ==
    /\ ClientIs(Trying)
    /\ Hear([client EXCEPT !.state = "initializing"])
    /\ UNCHANGED elsewhere

\* The reason is kept, but not read before there is another.
Connects ==
    /\ ClientIs({"initializing"})
    /\ Hear([NewClient EXCEPT !.state = "connected"])
    /\ UNCHANGED elsewhere

Loses ==
    /\ ClientIs(Running)
    /\ \E r \in Reasons :
           Hear([client EXCEPT !.state = "reconnecting", !.reason = r,
                               !.outage = IF @ = "no" THEN "grace" ELSE @])
    /\ UNCHANGED elsewhere

\* The pairing failed too often; the loop waits.
Pauses ==
    /\ ClientIs({"reconnecting"})
    /\ Hear([client EXCEPT !.state = "paused", !.reason = "other"])
    /\ UNCHANGED elsewhere

AuthFails ==
    /\ ClientIs(Trying)
    /\ Hear([client EXCEPT !.state = "auth_failed", !.auth = TRUE, !.reason = "auth"])
    /\ UNCHANGED elsewhere

\* The grace period ends; whoever looks later finds it ended.
GraceEnds ==
    /\ Registered /\ client.outage = "grace"
    /\ client' = [client EXCEPT !.outage = "late"]
    /\ UNCHANGED <<elsewhere, shown>>

\* Any other diagnostics change; a grace timer that ends; a lost message.
Notifies ==
    /\ Registered
    /\ Hear(client)
    /\ UNCHANGED elsewhere

\* The button, or a reauthentication, stops the client and starts it again.
Restarts ==
    /\ ClientIs(Running \cup {"auth_failed", "paused"}) /\ setup.pc # "stop"
    /\ Hear([client EXCEPT !.state = "stopping"])
    /\ UNCHANGED elsewhere

Restarted ==
    /\ ClientIs({"stopping"}) /\ setup.pc # "stop"
    /\ Hear([client EXCEPT !.state = "stopped"])
    /\ UNCHANGED elsewhere

\* _async_clear_issues_when_connected
Cleans ==
    /\ cleanup # "none"
    /\ IF client.state = "connected"
       THEN /\ issues' = {}
            /\ cleanup' \in {"deleting", "none"}
       ELSE cleanup' = "none" /\ UNCHANGED issues
    /\ UNCHANGED <<client, elsewhere, watch>>

ClientStep ==
    \/ Opens \/ Connects \/ Loses \/ Pauses \/ AuthFails \/ GraceEnds \/ Notifies
    \/ Restarts \/ Restarted \/ Cleans

(***************************************************************************)
(* Setup and unload, which hold Home Assistant's setup lock.               *)
(***************************************************************************)
others == <<fix, listeners, changes>>

BeginSetup ==
    /\ setup' = [Idle EXCEPT !.pc = "probe", !.primary = Target]
    /\ entry' = [entry EXCEPT !.state = "setup"]
    /\ overlooked' = FALSE

\* Home Assistant tries a failed setup again.
Retry ==
    /\ entry.state = "retry"
    /\ BeginSetup
    /\ UNCHANGED <<runtime, client, shown, others, reloads>>

\* _setup_unreachable_issue_type; async_create_repair_issue deletes nothing.
Unreachable ==
    /\ setup.pc = "probe"
    /\ entry' = [entry EXCEPT !.state = "retry"]
    /\ setup' = Idle
    /\ issues' = issues \cup
           {IF setup.primary # entry.data THEN "host_changed" ELSE "device_unreachable"}
    /\ UNCHANGED <<runtime, client, watch, cleanup, others, reloads, overlooked>>

\* The first target that answers: the merged one, then that of the data.
Probed ==
    /\ setup.pc = "probe"
    /\ \E t \in {setup.primary, entry.data} :
           setup' = [setup EXCEPT !.pc = "migrate", !.reached = t]
    /\ UNCHANGED <<entry, runtime, client, shown, others, reloads, overlooked>>

Migrated ==
    /\ setup.pc = "migrate"
    /\ setup' = [setup EXCEPT !.pc = "platforms"]
    /\ runtime' = [target |-> setup.reached, signature |-> Signature]
    /\ UNCHANGED <<entry, client, shown, others, reloads, overlooked>>

PlatformsFail ==
    /\ setup.pc = "platforms"
    /\ entry' = [entry EXCEPT !.state = "off"]
    /\ setup' = Idle /\ runtime' = Nil
    /\ UNCHANGED <<client, shown, others, reloads, overlooked>>

Loaded ==
    /\ setup.pc = "platforms"
    /\ entry' = [entry EXCEPT !.state = "loaded"]
    /\ setup' = Idle /\ client' = NewClient
    /\ issues' = {} /\ watch' = Unheard /\ cleanup' = "waiting"
    /\ UNCHANGED <<runtime, others, reloads, overlooked>>

BeginUnload(next) ==
    /\ entry' = [entry EXCEPT !.state = "unloading"]
    /\ setup' = [Idle EXCEPT !.pc = "unload", !.next = next]
    /\ UNCHANGED overlooked

\* What is asked for when the setup lock is free.
Starts(next) ==
    IF entry.state = "loaded" THEN BeginUnload(next)
    ELSE IF entry.state \in {"retry", "off"} /\ next = "setup" THEN BeginSetup
    ELSE UNCHANGED <<entry, setup, overlooked>>

Free == setup.pc = "none"

Reload ==
    /\ Free /\ reloads > 0 /\ reloads' = reloads - 1
    /\ Starts("setup")
    /\ UNCHANGED <<runtime, client, shown, others>>

UserReload ==
    /\ Free /\ entry.state \in {"loaded", "off"}
    /\ Starts("setup")
    /\ UNCHANGED <<runtime, client, shown, others, reloads>>

Disable ==
    /\ Free /\ entry.state = "loaded"
    /\ Starts("off")
    /\ UNCHANGED <<runtime, client, shown, others, reloads>>

\* async_remove_entry, then the entry is gone.
Removed ==
    /\ entry' = [entry EXCEPT !.state = "gone"]
    /\ setup' = Idle /\ issues' = {}

RemoveEntry ==
    /\ Free /\ entry.state # "gone"
    /\ IF entry.state = "loaded"
       THEN BeginUnload("gone") /\ UNCHANGED issues
       ELSE Removed /\ UNCHANGED overlooked
    /\ UNCHANGED <<runtime, client, watch, cleanup, others, reloads>>

\* The client of an entry whose platforms do not unload goes on.
UnloadFails ==
    /\ setup.pc = "unload"
    /\ IF setup.next = "gone" THEN Removed
       ELSE /\ entry' = [entry EXCEPT !.state = "stuck"]
            /\ setup' = Idle /\ UNCHANGED issues
    /\ UNCHANGED <<runtime, client, watch, cleanup, others, reloads, overlooked>>

StopsClient ==
    /\ setup.pc = "unload"
    /\ setup' = [setup EXCEPT !.pc = "stop"]
    /\ Hear([client EXCEPT !.state = "stopping"])
    /\ UNCHANGED <<entry, runtime, others, reloads, overlooked>>

\* stop() ends with its last diagnostics, which say nothing new to the callback;
\* then the callbacks are removed and what follows the unload begins.
Unloaded ==
    /\ setup.pc = "stop"
    /\ runtime' = Nil /\ client' = Nil /\ cleanup' = "none"
    /\ watch' = Unheard
    /\ \/ setup.next = "setup" /\ BeginSetup /\ UNCHANGED issues
       \/ setup.next = "gone" /\ Removed /\ UNCHANGED overlooked
       \/ /\ setup.next = "off" /\ entry' = [entry EXCEPT !.state = "off"]
          /\ setup' = Idle /\ UNCHANGED <<issues, overlooked>>
    /\ UNCHANGED <<others, reloads>>

LoadStep ==
    \/ Retry \/ Unreachable \/ Probed \/ Migrated \/ PlatformsFail \/ Loaded
    \/ Reload \/ UserReload \/ Disable \/ RemoveEntry
    \/ UnloadFails \/ StopsClient \/ Unloaded

(***************************************************************************)
(* Changes of the entry.                                                   *)
(***************************************************************************)
Update ==
    IF Registered THEN listeners < MaxPending /\ listeners' = listeners + 1
    ELSE UNCHANGED listeners

\* A token is saved or cleared; the signature leaves it out.
TokenSaved ==
    /\ Registered /\ entry.state # "gone"
    /\ Update
    /\ UNCHANGED <<hass, client, shown, fix, reloads, changes, overlooked>>

\* Mutant: the reload signature leaves the options out.
CoarseListens ==
    /\ listeners > 0 /\ listeners' = listeners - 1
    /\ IF runtime # Nil /\ runtime.signature[1] = entry.data
       THEN UNCHANGED <<runtime, reloads>>
       ELSE /\ reloads < MaxPending /\ reloads' = reloads + 1
            /\ runtime' = IF runtime = Nil THEN Nil
                          ELSE [runtime EXCEPT !.signature = Signature]
    /\ UNCHANGED <<entry, setup, client, shown, fix, changes, overlooked>>

\* _async_update_listener
Listens ==
    /\ listeners > 0 /\ listeners' = listeners - 1
    /\ IF runtime # Nil /\ runtime.signature = Signature
       THEN UNCHANGED <<runtime, reloads>>
       ELSE /\ reloads < MaxPending /\ reloads' = reloads + 1
            /\ runtime' = IF runtime = Nil THEN Nil
                          ELSE [runtime EXCEPT !.signature = Signature]
    /\ UNCHANGED <<entry, setup, client, shown, fix, changes, overlooked>>

\* What a form or an announcement asked for, after its awaits: the new target
\* answers, and the token of the old one has moved over.  A reconfiguration or
\* the options form writes options and leaves the reload to the listener; an
\* announcement writes both, and reloads an entry that has no listener.
Retarget(flow, t) ==
    LET new == [entry EXCEPT !.data = IF flow = "announced" THEN t ELSE @, !.options = t]
    IN
    /\ entry.state # "gone" /\ new # entry
    /\ changes < MaxChanges /\ changes' = changes + 1
    /\ entry' = new
    /\ Update
    /\ IF flow = "announced" /\ ~Registered
       THEN reloads < MaxPending /\ reloads' = reloads + 1
       ELSE UNCHANGED reloads
    /\ overlooked' =
           (overlooked \/ (flow = "options" /\ setup.pc \in {"probe", "migrate", "platforms"}))
    /\ UNCHANGED <<setup, runtime, client, shown, fix>>

ChangeStep ==
    \/ TokenSaved \/ Listens
    \/ \E flow \in {"options", "announced"}, t \in Targets : Retarget(flow, t)

(***************************************************************************)
(* The repair flow of a pairing or token issue.                            *)
(***************************************************************************)
quiet == <<client, watch, cleanup, listeners, changes>>

FixOpens ==
    /\ fix = "none" /\ issues \cap Fixable # {}
    /\ fix' = "form"
    /\ UNCHANGED <<hass, issues, quiet, reloads, overlooked>>

\* The connection test, and the pairing with a client of its own.
FixSubmits ==
    /\ fix = "form"
    /\ fix' \in (IF entry.state = "gone" THEN {"none"} ELSE {"form", "pairing"})
    /\ UNCHANGED <<hass, issues, quiet, reloads, overlooked>>

\* Mutant: the flow reloads only a loaded entry that does not try by itself.
HastyFixed ==
    /\ fix = "pairing"
    /\ issues' = {}
    /\ fix' = IF entry.state = "retry" THEN "reload" ELSE "none"
    /\ UNCHANGED <<hass, quiet, reloads, overlooked>>

Fixed ==
    /\ fix = "pairing"
    /\ issues' = {}
    /\ fix' = IF entry.state \in {"loaded", "retry"} THEN "reload" ELSE "none"
    /\ UNCHANGED <<hass, quiet, reloads, overlooked>>

FixFails ==
    /\ fix = "pairing"
    /\ fix' = "form"
    /\ UNCHANGED <<hass, issues, quiet, reloads, overlooked>>

FixReloads ==
    /\ Free /\ fix = "reload"
    /\ fix' = "none"
    /\ Starts("setup")
    /\ UNCHANGED <<runtime, issues, quiet, reloads>>

FixStep == FixOpens \/ FixSubmits \/ Fixed \/ FixFails \/ FixReloads

EntryNext == ClientStep \/ LoadStep \/ ChangeStep \/ FixStep

EntrySpec == EntryInit /\ [][EntryNext]_allVars

(***************************************************************************)
(* Properties.                                                             *)
(***************************************************************************)
HassTypeOK ==
    /\ entry \in [state : {"setup", "retry", "loaded", "unloading", "off", "stuck", "gone"},
                  data : Targets, options : Targets \cup {Nil}]
    /\ setup \in [pc : {"none", "probe", "migrate", "platforms", "unload", "stop"},
                  primary : Targets \cup {Nil}, reached : Targets \cup {Nil},
                  next : {"setup", "off", "gone", Nil}]
    /\ runtime \in Runtimes \cup {Nil}

ShownTypeOK ==
    /\ client \in Clients \cup {Nil}
    /\ issues \subseteq IssueTypes
    /\ watch \in [active : IssueTypes \cup {Nil}, asked : BOOLEAN]
    /\ cleanup \in {"none", "waiting", "deleting"}

TasksTypeOK ==
    /\ fix \in {"none", "form", "pairing", "reload"}
    /\ listeners \in 0 .. MaxPending /\ reloads \in 0 .. MaxPending
    /\ changes \in 0 .. MaxChanges /\ overlooked \in BOOLEAN

EntryTypeOK == HassTypeOK /\ ShownTypeOK /\ TasksTypeOK

\* No issue is shown for an entry that was removed or while the device is
\* connected, whatever was created for it before or is on its way
\* (__init__.py:530, repair_issues.py:88).
IssuesAreJustified ==
    issues # {} => entry.state # "gone" /\ ~ClientIs({"connected"})

\* Of a loaded entry at most one issue is shown, and it is the one that the
\* callback takes for active; while the device refuses the token, it can be
\* repaired.  Excepted is an entry that a repair is about to reload
\* (__init__.py:471, 493, 539).
IssueIsRight ==
    entry.state = "loaded" =>
        /\ \/ issues = {} /\ (watch.active = Nil \/ fix = "reload")
           \/ issues = {watch.active}
        /\ client.state = "auth_failed" /\ fix # "reload" => issues \cap Fixable # {}

\* A loaded entry that nothing is going to reload runs for a target it names,
\* unless the target changed while it was set up (__init__.py:374).
RunsItsTarget ==
    entry.state = "loaded" /\ listeners = 0 /\ reloads = 0 /\ ~overlooked =>
        runtime.target \in {Target, entry.data}

=============================================================================
