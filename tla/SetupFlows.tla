----------------------------- MODULE SetupFlows -----------------------------
(***************************************************************************)
(* How config entries come to be and change their target (config_flow.py): *)
(* setup flows that a user starts, flows that a Zeroconf announcement      *)
(* starts, and the reconfiguration of an entry.  Flows run side by side,   *)
(* and each awaits: a connection test, the discovery cache, a pairing that *)
(* takes as long as the user needs at the device's display.                *)
(*                                                                         *)
(* An action is the code between two awaits of one flow.  Home Assistant   *)
(* keeps the entries, serves one step of a flow at a time and aborts flows *)
(* as the integration asks it to.  Data that only fills forms is left out: *)
(* names, the jumper setting, the results of a subnet scan, the cache's    *)
(* records; a target is a host and a port, and an entry's target that of   *)
(* its data and options merged.  Reauthentication and the token are the    *)
(* subject of other modules.                                               *)
(***************************************************************************)
EXTENDS Integers, FiniteSets

CONSTANTS
    Devices,
    Targets,
    Ids,        \* MAC addresses
    Owner,      \* the device of each of them
    Entries,    \* entry ids
    Flows,      \* flow ids
    MaxMoves,   \* address changes of devices
    None

ASSUME SetupAssumption ==
    /\ None \notin Devices \cup Targets \cup Ids \cup Entries \cup Flows
    /\ None \notin [target : Targets, uid : Ids \cup {None}]
    /\ Owner \in [Ids -> Devices]
    /\ MaxMoves \in Nat

VARIABLES
    at,         \* the target each device answers at
    moves,
    entry,      \* the config entries
    flow,       \* the flows in progress
    conflicts   \* targets with a discovery-conflict issue

vars == <<at, moves, entry, flow, conflicts>>

EntryRecords == [target : Targets, uid : Ids \cup {None}]

(***************************************************************************)
(* pc is the await, or the form shown, at which the flow is; target is     *)
(* what it sets up (the pending setup data); ctx the target it shows in    *)
(* its context; ids the MAC addresses an announcement carried; uid the     *)
(* unique id the flow has set; subject the entry it is to update; source   *)
(* the flow whose card the user chose.  free is a history field: "yes"     *)
(* while no other entry has taken the target since the flow checked it.    *)
(***************************************************************************)
FlowRecords ==
    [kind : {"user", "zeroconf", "reconfigure"},
     pc : {"form", "manual_connect", "prompt_check", "connect", "record",
           "confirm", "pairing", "creating",
           "update_connect", "update", "retarget_connect", "retarget"},
     target : Targets \cup {None}, ctx : Targets \cup {None},
     ids : SUBSET Ids, uid : Ids \cup {None},
     subject : Entries \cup {None}, source : Flows \cup {None},
     free : {"yes", "no"}]

SetupTypeOK ==
    /\ at \in [Devices -> Targets \cup {None}]
    /\ moves \in 0 .. MaxMoves
    /\ entry \in [Entries -> EntryRecords \cup {None}]
    /\ flow \in [Flows -> FlowRecords \cup {None}]
    /\ conflicts \subseteq Targets

SetupInit ==
    /\ at \in [Devices -> Targets \cup {None}]
    /\ \A x, y \in Devices : at[x] = at[y] /\ at[x] # None => x = y
    /\ moves = 0
    /\ entry = [e \in Entries |-> None]
    /\ flow = [f \in Flows |-> None]
    /\ conflicts = {}

-----------------------------------------------------------------------------
\* Entries and flows.

Configured == {e \in Entries : entry[e] # None}
InProgress == {f \in Flows : flow[f] # None}
At(f, pc) == f \in InProgress /\ flow[f].pc = pc

\* _is_target_used_by_other_entry; the entry excluded may be None.
UsedByOther(t, excluded) == \E e \in Configured \ {excluded} : entry[e].target = t

\* _is_matching_flow_in_progress
MatchingFlow(t) == \E g \in InProgress : flow[g].ctx = t

\* Mutant: an entry without a unique id may be any device's.
WrongEntriesOf(ids) == {e \in Configured : entry[e].uid \in ids \cup {None}}

\* _entries_for_discovery_identity
EntriesOf(ids) == {e \in Configured : entry[e].uid \in ids}

Starts(f, kind, pc, t, ids, e) ==
    [flow EXCEPT ![f] =
        [kind |-> kind, pc |-> pc, target |-> t, ctx |-> None, ids |-> ids,
         uid |-> None, subject |-> e, source |-> None, free |-> "yes"]]

Moves(f, pc) == flow' = [flow EXCEPT ![f].pc = pc]
Ends(f) == flow' = [flow EXCEPT ![f] = None]

BackToForm(f) == flow' = [flow EXCEPT ![f].pc = "form", ![f].target = None,
                                      ![f].source = None]

OnlyFlow == UNCHANGED <<at, moves, entry>>
OnlyFlows == OnlyFlow /\ UNCHANGED conflicts

\* What becomes of the flows when f ends by giving entry e the target t.
FlowsAfter(f, e, t) ==
    [g \in Flows |->
        CASE g = f -> None
          [] g # f /\ flow[g] = None -> None
          [] g # f /\ flow[g] # None ->
               IF flow[g].target = t /\ flow[g].subject # e
                 THEN [flow[g] EXCEPT !.free = "no"] ELSE flow[g]]

-----------------------------------------------------------------------------
\* The network and the user.

\* A device gets another address, or is switched off (None).
DeviceMoves(d, t) ==
    /\ moves < MaxMoves /\ at[d] # t
    /\ t = None \/ \A x \in Devices : at[x] # t
    /\ at' = [at EXCEPT ![d] = t] /\ moves' = moves + 1
    /\ UNCHANGED <<entry, flow, conflicts>>

\* Home Assistant also aborts the entry's reconfigure flow.
RemoveEntry(e) ==
    /\ e \in Configured
    /\ entry' = [entry EXCEPT ![e] = None]
    /\ flow' = [g \in Flows |-> IF g \in InProgress /\ flow[g].kind = "reconfigure"
                                   /\ flow[g].subject = e THEN None ELSE flow[g]]
    /\ UNCHANGED <<at, moves, conflicts>>

\* The user closes a form or a card.
Dismiss(f) ==
    /\ At(f, "form") \/ At(f, "confirm")
    /\ Ends(f) /\ OnlyFlows

-----------------------------------------------------------------------------
\* async_step_user, async_step_manual and _async_start_discovered_setup.

UserStarts(f) ==
    /\ f \notin InProgress
    /\ flow' = Starts(f, "user", "form", None, {}, None)
    /\ OnlyFlows

SubmitManual(f, t) ==
    /\ At(f, "form") /\ flow[f].kind = "user"
    /\ flow' = [flow EXCEPT ![f] =
           IF UsedByOther(t, None) THEN None
           ELSE [flow[f] EXCEPT !.pc = "manual_connect", !.target = t, !.free = "yes"]]
    /\ OnlyFlows

ManualConnected(f) ==
    /\ At(f, "manual_connect")
    /\ Moves(f, "confirm") \/ BackToForm(f)
    /\ OnlyFlows

\* Mutant: the target was checked when the announcement was read.
WrongStartDiscovered(f, rec, t) ==
    /\ conflicts' = conflicts \ {t}
    /\ flow' = [flow EXCEPT ![f] =
           [rec EXCEPT !.pc = "connect", !.target = t, !.ctx = t, !.free = "yes"]]

\* rec is the flow as it is when the discovered setup starts.
StartDiscovered(f, rec, t) ==
    /\ conflicts' = conflicts \ {t}
    /\ flow' = [flow EXCEPT ![f] =
           IF UsedByOther(t, None) THEN None
           ELSE [rec EXCEPT !.pc = "connect", !.target = t, !.ctx = t, !.free = "yes"]]

(***************************************************************************)
(* The user chooses a discovered device: from the card of a flow in        *)
(* progress, or from the cache, which may name any target.                 *)
(***************************************************************************)
ChooseDiscovered(f, t, g) ==
    /\ At(f, "form") /\ flow[f].kind = "user" /\ ~UsedByOther(t, None)
    /\ LET cards == {x \in InProgress \ {f} : flow[x].kind = "zeroconf" /\ flow[x].ctx = t}
       IN  IF cards = {} THEN g = None ELSE g \in cards
    /\ StartDiscovered(f, [flow[f] EXCEPT !.source = g], t)
    /\ OnlyFlow

\* The test of an announced device ends; the card is recorded before it is
\* shown.  A flow that no longer is in progress cannot be aborted: the step
\* of the user's flow fails, and its form stays.
DiscoveredConnected(f) ==
    LET g == flow[f].source
    IN  /\ At(f, "connect")
        /\ \/ Ends(f)
           \/ /\ g = None
              /\ Moves(f, IF flow[f].kind = "zeroconf" THEN "record" ELSE "confirm")
           \/ /\ g # None /\ g \in InProgress
              /\ flow' = [flow EXCEPT ![f].pc = "confirm", ![f].source = None,
                                      ![g] = None]
           \/ /\ g # None /\ g \notin InProgress
              /\ BackToForm(f)
        /\ OnlyFlows

CardRecorded(f) ==
    /\ At(f, "record")
    /\ Moves(f, "confirm") /\ OnlyFlows

-----------------------------------------------------------------------------
(***************************************************************************)
(* async_step_zeroconf.  An announcement of d carries some of its MAC      *)
(* addresses, and may contradict itself.  One that looks little like a DHE *)
(* is only recorded, as every one is before an abort: that changes nothing *)
(* modelled here.                                                          *)
(***************************************************************************)
Announce(f, d, ids, contradictory) ==
    LET t == at[d]
        matched == EntriesOf(ids)
        conflict == \/ contradictory
                    \/ Cardinality(matched) > 1
                    \/ \E e \in matched : UsedByOther(t, e)
        subject == CHOOSE e \in matched : TRUE
    IN  /\ f \notin InProgress /\ t # None
        /\ ids \subseteq {i \in Ids : Owner[i] = d}
        /\ ~MatchingFlow(t)
        /\ \/ /\ conflict
              /\ conflicts' = conflicts \cup {t}
              /\ UNCHANGED flow
           \/ /\ ~conflict /\ matched # {}
              /\ entry[subject].target # t
              /\ flow' = Starts(f, "zeroconf", "update_connect", t, ids, subject)
              /\ UNCHANGED conflicts
           \/ /\ ~conflict /\ matched = {} /\ ~UsedByOther(t, None)
              /\ IF Configured # {}
                   THEN /\ flow' = Starts(f, "zeroconf", "prompt_check", t, {}, None)
                        /\ UNCHANGED conflicts
                   ELSE StartDiscovered(
                            f, Starts(f, "zeroconf", "connect", t, {}, None)[f], t)
        /\ OnlyFlow

\* A device prompted for recently is not prompted for again.
PromptChecked(f) ==
    /\ At(f, "prompt_check")
    /\ \/ Ends(f) /\ UNCHANGED conflicts
       \/ StartDiscovered(f, flow[f], flow[f].target)
    /\ OnlyFlow

-----------------------------------------------------------------------------
\* async_step_pairing_confirm

SubmitPairing(f) ==
    /\ At(f, "confirm")
    /\ Moves(f, "pairing") /\ OnlyFlows

PairingFails(f) ==
    /\ At(f, "pairing")
    /\ Moves(f, "confirm") /\ OnlyFlows

\* Mutant: only the entries are asked.
WrongIdTaken(f, i) == \E e \in Configured : entry[e].uid = i

(***************************************************************************)
(* async_set_unique_id and _abort_if_unique_id_configured: the flow ends   *)
(* when another one in progress has the id, or an entry.                   *)
(***************************************************************************)
IdTaken(f, i) ==
    \/ \E g \in InProgress \ {f} : flow[g].uid = i
    \/ \E e \in Configured : entry[e].uid = i

\* The device may not tell its MAC address in time.
Paired(f, d, i) ==
    /\ At(f, "pairing") /\ at[d] = flow[f].target
    /\ i # None => Owner[i] = d
    /\ flow' = [flow EXCEPT ![f] =
           CASE i = None -> [flow[f] EXCEPT !.pc = "creating"]
             [] i # None /\ IdTaken(f, i) -> None
             [] i # None /\ ~IdTaken(f, i) -> [flow[f] EXCEPT !.pc = "creating", !.uid = i]]
    /\ OnlyFlows

\* After the token was read and the discovery recorded, which it awaits.
CreateEntry(f, e) ==
    LET t == flow[f].target
    IN  /\ At(f, "creating") /\ e \notin Configured
        /\ \A g \in InProgress : flow[g].subject # e
        /\ entry' = [entry EXCEPT ![e] = [target |-> t, uid |-> flow[f].uid]]
        /\ flow' = FlowsAfter(f, e, t)
        /\ UNCHANGED <<at, moves, conflicts>>

-----------------------------------------------------------------------------
\* _async_update_discovered_existing_entry and async_step_reconfigure

\* The connection test, after which the token is preserved.
UpdateConnected(f) ==
    /\ At(f, "update_connect")
    /\ Ends(f) \/ Moves(f, "update")
    /\ OnlyFlows

\* The entry may have been removed meanwhile: the step fails.
UpdateEntry(f) ==
    LET t == flow[f].target
        e == flow[f].subject
    IN  /\ At(f, "update")
        /\ IF e \in Configured
             THEN /\ entry' = [entry EXCEPT ![e].target = t]
                  /\ flow' = FlowsAfter(f, e, t)
                  /\ conflicts' = conflicts \ {t}
             ELSE Ends(f) /\ UNCHANGED <<entry, conflicts>>
        /\ UNCHANGED <<at, moves>>

ReconfigureStarts(f, e) ==
    /\ f \notin InProgress /\ e \in Configured
    /\ flow' = Starts(f, "reconfigure", "form", None, {}, e)
    /\ OnlyFlows

\* A target that is in use is refused, and an unchanged one needs no test.
SubmitReconfigure(f, t) ==
    LET e == flow[f].subject
    IN  /\ At(f, "form") /\ flow[f].kind = "reconfigure"
        /\ ~UsedByOther(t, e)
        /\ flow' = [flow EXCEPT ![f] =
               IF entry[e].target = t THEN None
               ELSE [flow[f] EXCEPT !.pc = "retarget_connect", !.target = t,
                                    !.free = "yes"]]
        /\ OnlyFlows

RetargetConnected(f) ==
    /\ At(f, "retarget_connect")
    /\ BackToForm(f) \/ Moves(f, "retarget")
    /\ OnlyFlows

Retarget(f) ==
    LET t == flow[f].target
        e == flow[f].subject
    IN  /\ At(f, "retarget")
        /\ entry' = [entry EXCEPT ![e].target = t]
        /\ flow' = FlowsAfter(f, e, t)
        /\ UNCHANGED <<at, moves, conflicts>>

-----------------------------------------------------------------------------
FlowStep(f) ==
    \/ ManualConnected(f) \/ DiscoveredConnected(f) \/ CardRecorded(f)
    \/ PromptChecked(f) \/ PairingFails(f)
    \/ \E d \in Devices, i \in Ids \cup {None} : Paired(f, d, i)
    \/ \E e \in Entries : CreateEntry(f, e)
    \/ UpdateConnected(f) \/ UpdateEntry(f)
    \/ RetargetConnected(f) \/ Retarget(f)

UserStep(f) ==
    \/ UserStarts(f) \/ Dismiss(f) \/ SubmitPairing(f)
    \/ \E t \in Targets : SubmitManual(f, t) \/ SubmitReconfigure(f, t)
    \/ \E t \in Targets, g \in Flows \cup {None} : ChooseDiscovered(f, t, g)
    \/ \E e \in Entries : ReconfigureStarts(f, e)

SetupNext ==
    \/ \E f \in Flows : FlowStep(f) \/ UserStep(f)
    \/ \E f \in Flows, d \in Devices, ids \in SUBSET Ids,
          contradictory \in BOOLEAN : Announce(f, d, ids, contradictory)
    \/ \E d \in Devices, t \in Targets \cup {None} : DeviceMoves(d, t)
    \/ \E e \in Entries : RemoveEntry(e)

SetupSpec == SetupInit /\ [][SetupNext]_vars

-----------------------------------------------------------------------------
(***************************************************************************)
(* No two entries have the same unique id, whichever flows pair at the     *)
(* same time and whatever devices tell when (docs/troubleshooting.md, "all *)
(* setup methods get the same unique-ID behavior").                        *)
(***************************************************************************)
OneEntryPerId ==
    \A e1, e2 \in Configured :
        entry[e1].uid = entry[e2].uid /\ entry[e1].uid # None => e1 = e2

(***************************************************************************)
(* An entry gets a target another entry has only if that entry took it     *)
(* after the flow had checked it: no path to an entry misses the check.    *)
(***************************************************************************)
OnlyRacesClash ==
    [][\A e \in Entries :
           LET t == entry'[e].target
           IN  entry'[e] # None /\ entry'[e] # entry[e] /\ UsedByOther(t, e)
                 => \E f \in InProgress :
                        flow'[f] = None /\ flow[f].target = t /\ flow[f].free = "no"]_vars

(***************************************************************************)
(* An announcement changes the target of an entry only if it carries the   *)
(* entry's unique id, also when the entry was removed or another one was   *)
(* created while the flow awaited the connection test.                     *)
(***************************************************************************)
RetargetsItsOwn ==
    [][\A f \in InProgress, e \in Configured :
           flow[f].kind = "zeroconf" /\ UpdateEntry(f)
               /\ entry'[e] # None /\ entry'[e] # entry[e]
               => entry[e].uid \in flow[f].ids]_vars

(***************************************************************************)
(* What docs/troubleshooting.md says, and concurrent flows do not keep:    *)
(* "Home Assistant blocks duplicate DHE config entries by normalized host  *)
(* and port before pairing."                                               *)
(***************************************************************************)
NoSharedTarget ==
    \A e1, e2 \in Configured : entry[e1].target = entry[e2].target => e1 = e2

=============================================================================
