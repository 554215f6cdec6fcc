--------------------------- MODULE DiscoveryProofs ---------------------------
(***************************************************************************)
(* Proofs about SetupFlows, for any number of devices, targets, MAC        *)
(* addresses, entries and flows, and about DiscoveryCache, for any sets of *)
(* calls and any number of failing file operations.                        *)
(***************************************************************************)
EXTENDS SetupFlows, DiscoveryCache, TLAPS

-----------------------------------------------------------------------------
\* Config flows.

(***************************************************************************)
(* A flow relies, when it creates or changes an entry, on what it found    *)
(* before its last awaits.  FlowOK says what of that still holds, whatever *)
(* the other flows did meanwhile: the entry a reconfiguration is for       *)
(* exists; an entry to be updated is gone or has a unique id that was      *)
(* announced; a target not taken by another entry since the check is free; *)
(* a unique id that was set belongs to no entry.                           *)
(***************************************************************************)
FlowOK(r) ==
    /\ r.kind = "reconfigure" =>
           r.subject \in Configured /\ r.pc \in {"form", "retarget_connect", "retarget"}
    /\ r.kind # "reconfigure" /\ r.pc \notin {"update_connect", "update"} => r.subject = None
    /\ r.pc = "prompt_check" => r.kind = "zeroconf"
    /\ r.uid # None => r.pc = "creating"
    /\ r.pc \in {"retarget_connect", "retarget"} => r.kind = "reconfigure"
    /\ r.pc \in {"update_connect", "update"} =>
           /\ r.kind = "zeroconf" /\ r.subject \in Entries
           /\ r.subject \in Configured => entry[r.subject].uid \in r.ids
    /\ r.pc # "form" => r.target \in Targets
    /\ r.free = "yes" => \A e \in Configured \ {r.subject} : entry[e].target # r.target
    /\ r.uid # None => \A e \in Configured : entry[e].uid # r.uid

FlowsOK == \A f \in InProgress : FlowOK(flow[f])

FlowIdsApart ==
    \A f, g \in InProgress :
        flow[f].uid = flow[g].uid /\ flow[f].uid # None => f = g

SetupInv == SetupTypeOK /\ FlowsOK /\ FlowIdsApart /\ OneEntryPerId

EntriesTyped == entry \in [Entries -> EntryRecords \cup {None}]
FlowsTyped == flow \in [Flows -> FlowRecords \cup {None}]
EnvironmentTyped ==
    /\ at \in [Devices -> Targets \cup {None}]
    /\ moves \in 0 .. MaxMoves
    /\ conflicts \subseteq Targets

(***************************************************************************)
(* A step of flow f that changes no entry: every other flow stays as it is *)
(* or ends, and f gets a record that is all right and an id of its own.    *)
(***************************************************************************)
LEMMA FlowMoves ==
    ASSUME SetupInv, entry' = entry, EnvironmentTyped', FlowsTyped',
           NEW f \in Flows,
           \A g \in Flows \ {f} : flow'[g] \in {flow[g], None},
           f \in InProgress' => FlowOK(flow'[f]),
           f \in InProgress' /\ flow'[f].uid # None =>
               \A g \in InProgress \ {f} : flow[g].uid # flow'[f].uid
    PROVE  SetupInv'
<1>1. Configured' = Configured
  BY DEF Configured
<1>2. SetupTypeOK'
  BY DEF SetupInv, SetupTypeOK, EnvironmentTyped, FlowsTyped
<1>3. OneEntryPerId'
  BY <1>1 DEF SetupInv, OneEntryPerId
<1>4. \A g \in InProgress' : g \in Flows /\ (g # f => g \in InProgress /\ flow'[g] = flow[g])
  BY DEF InProgress
<1>5. FlowsOK'
  <2> SUFFICES ASSUME NEW g \in InProgress' PROVE FlowOK(flow[g])'
    BY DEF FlowsOK
  <2>1. FlowOK(flow'[g])
    BY <1>4 DEF SetupInv, FlowsOK
  <2> QED
    BY <2>1, <1>1 DEF FlowOK
<1>6. FlowIdsApart'
  BY <1>4 DEF SetupInv, FlowIdsApart
<1> QED
  BY <1>2, <1>3, <1>5, <1>6 DEF SetupInv

\* The three ways most steps end.
LEMMA FlowEnds ==
    ASSUME SetupInv, entry' = entry, EnvironmentTyped', NEW f \in Flows, Ends(f)
    PROVE  SetupInv'
<1>1. FlowsTyped' /\ flow'[f] = None /\ \A g \in Flows \ {f} : flow'[g] = flow[g]
  BY DEF Ends, FlowsTyped, SetupInv, SetupTypeOK
<1> QED
  BY <1>1, FlowMoves DEF InProgress

LEMMA FlowGoesOn ==
    ASSUME SetupInv, entry' = entry, EnvironmentTyped', NEW f \in InProgress,
           NEW pc \in {"record", "confirm", "pairing", "update", "retarget"},
           Moves(f, pc),
           pc \in {"record", "confirm", "pairing"} =>
               flow[f].pc \in {"manual_connect", "connect", "record", "confirm", "pairing"},
           pc = "update" => flow[f].pc = "update_connect",
           pc = "retarget" => flow[f].pc = "retarget_connect"
    PROVE  SetupInv'
<1>1. f \in Flows /\ flow[f] \in FlowRecords
  BY DEF InProgress, SetupInv, SetupTypeOK
<1> DEFINE r == [flow[f] EXCEPT !.pc = pc]
<1>2. r \in FlowRecords
  BY <1>1 DEF FlowRecords
<1>3. flow'[f] = r /\ FlowsTyped' /\ \A g \in Flows \ {f} : flow'[g] = flow[g]
  BY <1>1, <1>2 DEF Moves, FlowsTyped, SetupInv, SetupTypeOK
<1>4. /\ r.pc = pc /\ r.kind = flow[f].kind /\ r.subject = flow[f].subject
      /\ r.target = flow[f].target /\ r.free = flow[f].free /\ r.uid = flow[f].uid
      /\ r.ids = flow[f].ids
  BY <1>1 DEF FlowRecords
<1>5. FlowOK(flow[f])
  BY DEF SetupInv, FlowsOK
<1>6. FlowOK(r)
  <2> HIDE DEF r
  <2> QED BY <1>4, <1>5 DEF FlowOK
<1>7. r.uid # None => \A g \in InProgress \ {f} : flow[g].uid # r.uid
  BY <1>4 DEF SetupInv, FlowIdsApart
<1> HIDE DEF r
<1> QED
  BY <1>1, <1>3, <1>6, <1>7, FlowMoves

LEMMA FlowShowsForm ==
    ASSUME SetupInv, SetupAssumption, entry' = entry, EnvironmentTyped', NEW f \in InProgress,
           BackToForm(f), flow[f].pc \in {"manual_connect", "connect", "retarget_connect"}
    PROVE  SetupInv'
<1>1. f \in Flows /\ flow[f] \in FlowRecords
  BY DEF InProgress, SetupInv, SetupTypeOK
<1> DEFINE r == [[[flow[f] EXCEPT !.pc = "form"] EXCEPT !.target = None] EXCEPT !.source = None]
<1>2. r \in FlowRecords
  BY <1>1 DEF FlowRecords
<1>3. flow'[f] = r /\ FlowsTyped' /\ \A g \in Flows \ {f} : flow'[g] = flow[g]
  BY <1>1, <1>2 DEF BackToForm, FlowsTyped, SetupInv, SetupTypeOK
<1>4. /\ r.pc = "form" /\ r.kind = flow[f].kind /\ r.subject = flow[f].subject
      /\ r.target = None /\ r.uid = flow[f].uid
  BY <1>1 DEF FlowRecords
<1>5. FlowOK(flow[f])
  BY DEF SetupInv, FlowsOK
<1>6. \A e \in Configured : entry[e].target # None
  BY DEF SetupInv, SetupTypeOK, Configured, EntryRecords, SetupAssumption
<1>7. FlowOK(r)
  <2> HIDE DEF r
  <2> QED BY <1>1, <1>4, <1>5, <1>6 DEF FlowOK, BackToForm
<1>8. r.uid # None => \A g \in InProgress \ {f} : flow[g].uid # r.uid
  BY <1>4 DEF SetupInv, FlowIdsApart
<1> HIDE DEF r
<1> QED
  BY <1>1, <1>3, <1>7, <1>8, FlowMoves

(***************************************************************************)
(* A flow begins, or goes on with another target: it has no unique id yet. *)
(***************************************************************************)
LEMMA FlowGets ==
    ASSUME SetupInv, entry' = entry, EnvironmentTyped', NEW f \in Flows,
           flow'[f] \in FlowRecords \cup {None}, flow' = [flow EXCEPT ![f] = flow'[f]],
           flow'[f] # None => FlowOK(flow'[f]),
           flow'[f] # None => flow'[f].uid = None
    PROVE  SetupInv'
<1>1. FlowsTyped' /\ \A g \in Flows \ {f} : flow'[g] = flow[g]
  BY DEF FlowsTyped, SetupInv, SetupTypeOK
<1>2. f \in InProgress' => flow'[f] # None
  BY DEF InProgress
<1>3. flow'[f] # None /\ flow'[f].uid # None =>
          \A g \in InProgress \ {f} : flow[g].uid # flow'[f].uid
  OBVIOUS
<1> QED
  BY <1>1, <1>2, <1>3, FlowMoves

-----------------------------------------------------------------------------
(***************************************************************************)
(* Steps that give an entry a target: the flow ends, and another one that  *)
(* checked the same target for another entry is no longer free.            *)
(***************************************************************************)
LEMMA AfterTyped ==
    ASSUME SetupInv, NEW f \in Flows, NEW e, NEW t, flow' = FlowsAfter(f, e, t)
    PROVE  /\ FlowsTyped'
           /\ \A g \in InProgress' :
                  /\ g \in InProgress \ {f} /\ flow[g] \in FlowRecords
                  /\ flow'[g].kind = flow[g].kind /\ flow'[g].pc = flow[g].pc
                  /\ flow'[g].target = flow[g].target /\ flow'[g].ids = flow[g].ids
                  /\ flow'[g].uid = flow[g].uid /\ flow'[g].subject = flow[g].subject
                  /\ flow'[g].free = "yes" =>
                        flow[g].free = "yes" /\ (flow[g].target # t \/ flow[g].subject = e)
<1>1. \A g \in Flows : flow[g] \in FlowRecords \cup {None}
  BY DEF SetupInv, SetupTypeOK
<1>2. ASSUME NEW r \in FlowRecords
      PROVE  /\ [r EXCEPT !.free = "no"] \in FlowRecords
             /\ [r EXCEPT !.free = "no"].free = "no"
             /\ [r EXCEPT !.free = "no"].kind = r.kind /\ [r EXCEPT !.free = "no"].pc = r.pc
             /\ [r EXCEPT !.free = "no"].target = r.target
             /\ [r EXCEPT !.free = "no"].ids = r.ids /\ [r EXCEPT !.free = "no"].uid = r.uid
             /\ [r EXCEPT !.free = "no"].subject = r.subject
  BY DEF FlowRecords
<1>3. ASSUME NEW g \in Flows
      PROVE  /\ g = f \/ flow[g] = None => flow'[g] = None
             /\ g # f /\ flow[g] # None =>
                  /\ flow[g].target = t /\ flow[g].subject # e =>
                        flow'[g] = [flow[g] EXCEPT !.free = "no"]
                  /\ ~(flow[g].target = t /\ flow[g].subject # e) => flow'[g] = flow[g]
  BY DEF FlowsAfter
<1>4. FlowsTyped'
  <2>1. \A g \in Flows : flow'[g] \in FlowRecords \cup {None}
    BY <1>1, <1>2, <1>3, ZenonT(60)
  <2>2. flow' = [g \in Flows |-> flow'[g]]
    BY DEF FlowsAfter
  <2> QED
    BY <2>1, <2>2 DEF FlowsTyped
<1>5. ASSUME NEW g \in InProgress'
      PROVE  /\ g \in InProgress \ {f} /\ flow[g] \in FlowRecords
             /\ \/ flow'[g] = [flow[g] EXCEPT !.free = "no"]
                \/ flow'[g] = flow[g] /\ (flow[g].target # t \/ flow[g].subject = e)
  BY <1>1, <1>3 DEF InProgress
<1>6. ASSUME NEW g \in InProgress'
      PROVE  /\ flow'[g].kind = flow[g].kind /\ flow'[g].pc = flow[g].pc
             /\ flow'[g].target = flow[g].target /\ flow'[g].ids = flow[g].ids
             /\ flow'[g].uid = flow[g].uid /\ flow'[g].subject = flow[g].subject
             /\ flow'[g].free = "yes" =>
                   flow[g].free = "yes" /\ (flow[g].target # t \/ flow[g].subject = e)
  BY <1>2, <1>5, ZenonT(60)
<1> QED
  BY <1>4, <1>5, <1>6

LEMMA EntryMoves ==
    ASSUME SetupInv, SetupAssumption, EnvironmentTyped', NEW f \in Flows,
           NEW e \in Configured, NEW t \in Targets, entry' = [entry EXCEPT ![e].target = t],
           flow' = FlowsAfter(f, e, t)
    PROVE  SetupInv'
<1>1. e \in Entries /\ entry[e] \in EntryRecords
  BY DEF Configured, SetupInv, SetupTypeOK
<1> DEFINE r == [entry[e] EXCEPT !.target = t]
<1>2. r \in EntryRecords /\ r.target = t /\ r.uid = entry[e].uid
  BY <1>1 DEF EntryRecords
<1>3. entry'[e] = r /\ EntriesTyped' /\ \A x \in Entries \ {e} : entry'[x] = entry[x]
  BY <1>1, <1>2 DEF EntriesTyped, SetupInv, SetupTypeOK
<1> HIDE DEF r
<1>4. \A x \in Configured' : x \in Configured /\ entry'[x].uid = entry[x].uid
  BY <1>2, <1>3 DEF Configured
<1>5. SetupTypeOK' /\ OneEntryPerId'
  BY <1>3, <1>4, AfterTyped
     DEF EntriesTyped, FlowsTyped, EnvironmentTyped, SetupTypeOK, SetupInv, OneEntryPerId
<1>6. FlowIdsApart'
  BY AfterTyped DEF SetupInv, FlowIdsApart
<1>7. FlowsOK'
  <2> SUFFICES ASSUME NEW g \in InProgress' PROVE FlowOK(flow[g])'
    BY DEF FlowsOK
  <2>1. /\ g \in InProgress \ {f}
        /\ flow'[g].kind = flow[g].kind /\ flow'[g].pc = flow[g].pc
        /\ flow'[g].target = flow[g].target /\ flow'[g].ids = flow[g].ids
        /\ flow'[g].uid = flow[g].uid /\ flow'[g].subject = flow[g].subject
        /\ flow'[g].free = "yes" =>
              flow[g].free = "yes" /\ (flow[g].target # t \/ flow[g].subject = e)
    BY AfterTyped
  <2>2. FlowOK(flow[g])
    BY <2>1 DEF SetupInv, FlowsOK
  <2>3. Configured' = Configured
    BY <1>2, <1>3 DEF Configured, SetupAssumption, EntryRecords
  <2>4. flow[g].free = "yes" /\ (flow[g].target # t \/ flow[g].subject = e) =>
            \A x \in Configured \ {flow[g].subject} : entry'[x].target # flow[g].target
    BY <1>2, <1>3, <2>2 DEF FlowOK, Configured
  <2> QED
    BY <1>4, <2>1, <2>2, <2>3, <2>4 DEF FlowOK
<1> QED
  BY <1>5, <1>6, <1>7 DEF SetupInv

LEMMA EntryCreated ==
    ASSUME SetupInv, SetupAssumption, NEW f \in Flows, NEW e \in Entries, CreateEntry(f, e)
    PROVE  SetupInv'
<1> DEFINE t == flow[f].target
<1> DEFINE r == [target |-> t, uid |-> flow[f].uid]
<1>1. f \in InProgress /\ flow[f] \in FlowRecords /\ FlowOK(flow[f]) /\ flow[f].pc = "creating"
  BY DEF CreateEntry, At, InProgress, SetupInv, SetupTypeOK, FlowsOK
<1>2. t \in Targets /\ flow[f].uid \in Ids \cup {None}
  BY <1>1 DEF FlowOK, FlowRecords
<1>3. r \in EntryRecords /\ r.target = t /\ r.uid = flow[f].uid
  BY <1>2 DEF EntryRecords
<1>4. /\ e \notin Configured /\ \A g \in InProgress : flow[g].subject # e
      /\ entry' = [entry EXCEPT ![e] = r] /\ flow' = FlowsAfter(f, e, t)
      /\ UNCHANGED <<at, moves, conflicts>>
  BY DEF CreateEntry
<1> HIDE DEF r, t
<1>5. EntriesTyped' /\ entry'[e] = r /\ \A x \in Entries \ {e} : entry'[x] = entry[x]
  BY <1>3, <1>4 DEF EntriesTyped, SetupInv, SetupTypeOK
<1>6. Configured' = Configured \cup {e}
  BY <1>3, <1>5 DEF Configured, SetupAssumption, EntryRecords
<1>7. SetupTypeOK'
  BY <1>4, <1>5, AfterTyped DEF EntriesTyped, FlowsTyped, SetupTypeOK, SetupInv
<1>8. \A x \in Configured : flow[f].uid # None => entry[x].uid # flow[f].uid
  BY <1>1 DEF FlowOK
<1>9. OneEntryPerId'
  BY <1>3, <1>4, <1>5, <1>6, <1>8 DEF SetupInv, OneEntryPerId, Configured
<1>10. FlowIdsApart'
  BY <1>4, AfterTyped DEF SetupInv, FlowIdsApart
<1>11. FlowsOK'
  <2> SUFFICES ASSUME NEW g \in InProgress' PROVE FlowOK(flow[g])'
    BY DEF FlowsOK
  <2>1. /\ g \in InProgress \ {f}
        /\ flow'[g].kind = flow[g].kind /\ flow'[g].pc = flow[g].pc
        /\ flow'[g].target = flow[g].target /\ flow'[g].ids = flow[g].ids
        /\ flow'[g].uid = flow[g].uid /\ flow'[g].subject = flow[g].subject
        /\ flow'[g].free = "yes" =>
              flow[g].free = "yes" /\ (flow[g].target # t \/ flow[g].subject = e)
    BY <1>4, AfterTyped
  <2>2. FlowOK(flow[g]) /\ flow[g].subject # e
    BY <1>4, <2>1 DEF SetupInv, FlowsOK
  <2>3. flow[g].uid # None => flow[f].uid # flow[g].uid
    BY <1>1, <2>1 DEF SetupInv, FlowIdsApart
  <2>4. flow[g].uid # None => \A x \in Configured' : entry'[x].uid # flow[g].uid
    BY <1>3, <1>4, <1>5, <1>6, <2>2, <2>3 DEF FlowOK, Configured
  <2>5. flow[g].free = "yes" /\ flow[g].target # t =>
            \A x \in Configured' \ {flow[g].subject} : entry'[x].target # flow[g].target
    BY <1>3, <1>4, <1>5, <1>6, <2>2 DEF FlowOK, Configured
  <2>6. flow[g].subject \in Configured' => entry'[flow[g].subject] = entry[flow[g].subject]
    BY <1>5, <1>6, <2>2 DEF Configured
  <2> QED
    BY <1>6, <2>1, <2>2, <2>4, <2>5, <2>6 DEF FlowOK
<1> QED
  BY <1>7, <1>9, <1>10, <1>11 DEF SetupInv

LEMMA EntryRemoved ==
    ASSUME SetupInv, SetupAssumption, NEW e \in Entries, RemoveEntry(e)
    PROVE  SetupInv'
<1>1. EntriesTyped' /\ entry'[e] = None /\ \A x \in Entries \ {e} : entry'[x] = entry[x]
  BY DEF RemoveEntry, EntriesTyped, SetupInv, SetupTypeOK
<1>2. Configured' = Configured \ {e}
  BY <1>1 DEF Configured
<1>3. FlowsTyped'
  BY DEF RemoveEntry, FlowsTyped, SetupInv, SetupTypeOK
<1>4. SetupTypeOK'
  BY <1>1, <1>3 DEF RemoveEntry, EntriesTyped, FlowsTyped, SetupTypeOK, SetupInv
<1>5. \A x \in Configured' : x \in Configured /\ entry'[x] = entry[x]
  BY <1>1, <1>2 DEF Configured
<1>6. OneEntryPerId'
  BY <1>5 DEF SetupInv, OneEntryPerId
<1>7. ASSUME NEW g \in InProgress'
      PROVE  /\ g \in InProgress /\ flow'[g] = flow[g]
             /\ ~(flow[g].kind = "reconfigure" /\ flow[g].subject = e)
  BY DEF RemoveEntry, InProgress
<1>8. FlowIdsApart'
  BY <1>7 DEF SetupInv, FlowIdsApart
<1>9. FlowsOK'
  <2> SUFFICES ASSUME NEW g \in InProgress' PROVE FlowOK(flow[g])'
    BY DEF FlowsOK
  <2>1. FlowOK(flow[g])
    BY <1>7 DEF SetupInv, FlowsOK
  <2> QED
    BY <1>2, <1>5, <1>7, <2>1 DEF FlowOK
<1> QED
  BY <1>4, <1>6, <1>8, <1>9 DEF SetupInv

-----------------------------------------------------------------------------
LEMMA SetupStarts ==
    ASSUME SetupAssumption, SetupInit PROVE SetupInv
<1>1. SetupTypeOK
  BY DEF SetupInit, SetupTypeOK, SetupAssumption
<1>2. Configured = {} /\ InProgress = {}
  BY DEF SetupInit, Configured, InProgress
<1> QED
  BY <1>1, <1>2 DEF SetupInv, FlowsOK, FlowIdsApart, OneEntryPerId

\* A flow that begins, or goes on with another target.
LEMMA Discovered ==
    ASSUME SetupInv, SetupAssumption, OnlyFlow, NEW f \in Flows, NEW t \in Targets,
           NEW rec \in FlowRecords, StartDiscovered(f, rec, t),
           rec.kind # "reconfigure", rec.subject = None, rec.uid = None
    PROVE  SetupInv'
<1> DEFINE r == [rec EXCEPT !.pc = "connect", !.target = t, !.ctx = t, !.free = "yes"]
<1>1. r \in FlowRecords
  BY DEF FlowRecords
<1>2. /\ r.pc = "connect" /\ r.target = t /\ r.free = "yes" /\ r.kind = rec.kind
      /\ r.subject = rec.subject /\ r.uid = rec.uid
  BY DEF FlowRecords
<1>3. EnvironmentTyped' /\ entry' = entry
  BY DEF StartDiscovered, OnlyFlow, EnvironmentTyped, SetupInv, SetupTypeOK
<1>4. CASE UsedByOther(t, None)
  <2>1. flow' = [flow EXCEPT ![f] = None]
    BY <1>4 DEF StartDiscovered
  <2> QED
    BY <1>3, <2>1, FlowEnds DEF Ends
<1>5. CASE ~UsedByOther(t, None)
  <2>1. flow' = [flow EXCEPT ![f] = r]
    BY <1>5 DEF StartDiscovered
  <2> HIDE DEF r
  <2>2. FlowOK(r)
    BY <1>2, <1>5 DEF FlowOK, UsedByOther
  <2>3. r.uid = None
    BY <1>2
  <2>4. flow'[f] = r /\ flow' = [flow EXCEPT ![f] = flow'[f]]
    BY <2>1 DEF SetupInv, SetupTypeOK
  <2> QED
    BY <1>1, <1>3, <2>2, <2>3, <2>4, FlowGets
<1> QED
  BY <1>4, <1>5

\* The record of a new flow.
LEMMA NewFlow ==
    ASSUME NEW kind \in {"user", "zeroconf", "reconfigure"},
           NEW pc \in {"form", "prompt_check", "connect", "update_connect"},
           NEW t \in Targets \cup {None}, NEW ids \in SUBSET Ids,
           NEW e \in Entries \cup {None}
    PROVE  [kind |-> kind, pc |-> pc, target |-> t, ctx |-> None, ids |-> ids,
            uid |-> None, subject |-> e, source |-> None, free |-> "yes"] \in FlowRecords
BY DEF FlowRecords

LEMMA Announced ==
    ASSUME SetupInv, SetupAssumption, NEW f \in Flows, NEW d \in Devices,
           NEW ids \in SUBSET Ids, NEW contradictory \in BOOLEAN,
           Announce(f, d, ids, contradictory)
    PROVE  SetupInv'
<1> DEFINE t == at[d]
           matched == EntriesOf(ids)
           subject == CHOOSE e \in matched : TRUE
           upd == [kind |-> "zeroconf", pc |-> "update_connect", target |-> t,
                   ctx |-> None, ids |-> ids, uid |-> None, subject |-> subject,
                   source |-> None, free |-> "yes"]
           new(pc) == [kind |-> "zeroconf", pc |-> pc, target |-> t, ctx |-> None,
                   ids |-> {}, uid |-> None, subject |-> None,
                   source |-> None, free |-> "yes"]
<1>1. OnlyFlow /\ f \notin InProgress /\ t \in Targets
  BY DEF Announce, SetupInv, SetupTypeOK
<1>2. entry' = entry /\ at' = at /\ moves' = moves
  BY <1>1 DEF OnlyFlow
<1>3. CASE conflicts' = conflicts \cup {t} /\ UNCHANGED flow
  <2>1. EnvironmentTyped' /\ FlowsTyped'
    BY <1>1, <1>2, <1>3 DEF EnvironmentTyped, FlowsTyped, SetupInv, SetupTypeOK
  <2> QED
    BY <1>1, <1>2, <1>3, <2>1, FlowMoves DEF InProgress
<1>4. CASE /\ matched # {} /\ ~\E e \in matched : UsedByOther(t, e)
           /\ flow' = [flow EXCEPT ![f] = upd] /\ UNCHANGED conflicts
  <2>1. subject \in matched /\ matched \subseteq Configured
    BY <1>4 DEF EntriesOf
  <2>2. subject \in Configured /\ subject \in Entries /\ entry[subject].uid \in ids
    BY <2>1 DEF EntriesOf, Configured
  <2>3. ~UsedByOther(t, subject)
    BY <1>4, <2>1
  <2> HIDE DEF t, subject
  <2>4. upd \in FlowRecords
    BY <1>1, <2>2, NewFlow
  <2>5. FlowOK(upd) /\ upd.uid = None
    BY <1>1, <2>2, <2>3 DEF FlowOK, UsedByOther
  <2> HIDE DEF upd
  <2>6. EnvironmentTyped'
    BY <1>2, <1>4 DEF EnvironmentTyped, SetupInv, SetupTypeOK
  <2>7. flow'[f] = upd /\ flow' = [flow EXCEPT ![f] = flow'[f]]
    BY <1>4 DEF SetupInv, SetupTypeOK
  <2> QED
    BY <1>2, <2>4, <2>5, <2>6, <2>7, FlowGets
<1>5. CASE /\ ~UsedByOther(t, None) /\ flow' = [flow EXCEPT ![f] = new("prompt_check")]
           /\ UNCHANGED conflicts
  <2> DEFINE r == new("prompt_check")
  <2> HIDE DEF t
  <2>1. r \in FlowRecords
    BY <1>1, NewFlow
  <2>2. FlowOK(r) /\ r.uid = None
    BY <1>1, <1>5 DEF FlowOK, UsedByOther
  <2>3. EnvironmentTyped' /\ flow' = [flow EXCEPT ![f] = r]
    BY <1>2, <1>5 DEF EnvironmentTyped, SetupInv, SetupTypeOK
  <2> HIDE DEF r
  <2>4. flow'[f] = r /\ flow' = [flow EXCEPT ![f] = flow'[f]]
    BY <2>3 DEF SetupInv, SetupTypeOK
  <2> QED
    BY <1>2, <2>1, <2>2, <2>3, <2>4, FlowGets
<1>6. CASE StartDiscovered(f, new("connect"), t)
  <2> DEFINE r == new("connect")
  <2> HIDE DEF t
  <2>1. r \in FlowRecords
    BY <1>1, NewFlow
  <2>2. r.kind # "reconfigure" /\ r.subject = None /\ r.uid = None
    OBVIOUS
  <2>3. StartDiscovered(f, r, t)
    BY <1>6
  <2> HIDE DEF r
  <2> QED
    BY <1>1, <2>1, <2>2, <2>3, Discovered
<1>7. Starts(f, "zeroconf", "update_connect", t, ids, subject) = [flow EXCEPT ![f] = upd]
  BY DEF Starts
<1>8. /\ Starts(f, "zeroconf", "prompt_check", t, {}, None)
            = [flow EXCEPT ![f] = new("prompt_check")]
      /\ Starts(f, "zeroconf", "connect", t, {}, None)[f] = new("connect")
  BY DEF Starts, SetupInv, SetupTypeOK
<1> QED
  BY <1>3, <1>4, <1>5, <1>6, <1>7, <1>8 DEF Announce

\* A form of f is submitted with the target t, to be tested at pc.
LEMMA Submitted ==
    ASSUME SetupInv, OnlyFlows, NEW f \in InProgress, NEW t \in Targets,
           NEW pc \in {"manual_connect", "retarget_connect"}, flow[f].pc = "form",
           flow[f].kind = IF pc = "retarget_connect" THEN "reconfigure" ELSE "user",
           ~UsedByOther(t, flow[f].subject),
           flow' = [flow EXCEPT ![f] = [flow[f] EXCEPT !.pc = pc, !.target = t,
                                                       !.free = "yes"]]
    PROVE  SetupInv'
<1> DEFINE r == [flow[f] EXCEPT !.pc = pc, !.target = t, !.free = "yes"]
<1>1. f \in Flows /\ flow[f] \in FlowRecords /\ FlowOK(flow[f])
  BY DEF InProgress, SetupInv, SetupTypeOK, FlowsOK
<1>2. r \in FlowRecords
  BY <1>1 DEF FlowRecords
<1>3. /\ r.pc = pc /\ r.target = t /\ r.free = "yes" /\ r.kind = flow[f].kind
      /\ r.subject = flow[f].subject /\ r.uid = flow[f].uid
  BY <1>1 DEF FlowRecords
<1>4. flow'[f] = r /\ flow' = [flow EXCEPT ![f] = flow'[f]]
  BY <1>1 DEF SetupInv, SetupTypeOK
<1> HIDE DEF r
<1>5. FlowOK(r) /\ r.uid = None
  BY <1>1, <1>3 DEF FlowOK, UsedByOther
<1>6. entry' = entry /\ EnvironmentTyped'
  BY DEF OnlyFlows, OnlyFlow, EnvironmentTyped, SetupInv, SetupTypeOK
<1> QED
  BY <1>1, <1>2, <1>3, <1>4, <1>5, <1>6, FlowGets, ZenonT(60)

LEMMA PairedKeepsInv ==
    ASSUME SetupInv, SetupAssumption, NEW f \in Flows, NEW d \in Devices,
           NEW i \in Ids \cup {None}, Paired(f, d, i)
    PROVE  SetupInv'
<1> DEFINE r == IF i = None THEN [flow[f] EXCEPT !.pc = "creating"]
                ELSE [flow[f] EXCEPT !.pc = "creating", !.uid = i]
<1>1. /\ f \in InProgress /\ flow[f].pc = "pairing"
      /\ flow[f] \in FlowRecords /\ FlowOK(flow[f])
  BY DEF Paired, At, InProgress, SetupInv, SetupTypeOK, FlowsOK
<1>2. entry' = entry /\ EnvironmentTyped'
  BY DEF Paired, OnlyFlows, OnlyFlow, EnvironmentTyped, SetupInv, SetupTypeOK
<1>3. CASE i # None /\ IdTaken(f, i)
  <2>1. Ends(f)
    BY <1>3 DEF Paired, Ends
  <2> QED
    BY <1>2, <2>1, FlowEnds
<1>4. CASE ~(i # None /\ IdTaken(f, i))
  <2>1. r \in FlowRecords
    BY <1>1 DEF FlowRecords
  <2>2. /\ r.pc = "creating" /\ r.target = flow[f].target /\ r.free = flow[f].free
        /\ r.kind = flow[f].kind /\ r.subject = flow[f].subject
        /\ r.uid = IF i = None THEN flow[f].uid ELSE i
    BY <1>1 DEF FlowRecords
  <2>3. flow'[f] = r /\ FlowsTyped' /\ \A g \in Flows \ {f} : flow'[g] = flow[g]
    BY <1>4, <2>1 DEF Paired, FlowsTyped, SetupInv, SetupTypeOK
  <2> HIDE DEF r
  <2>4. FlowOK(r)
    BY <1>1, <1>4, <2>2 DEF FlowOK, IdTaken
  <2>5. r.uid # None => \A g \in InProgress \ {f} : flow[g].uid # r.uid
    BY <1>1, <1>4, <2>2 DEF SetupInv, FlowIdsApart, IdTaken
  <2> QED
    BY <1>2, <2>3, <2>4, <2>5, FlowMoves
<1> QED
  BY <1>3, <1>4

\* The flow the card came from, too, ends.
LEMMA DiscoveredConnectedKeepsInv ==
    ASSUME SetupInv, SetupAssumption, NEW f \in Flows, DiscoveredConnected(f)
    PROVE  SetupInv'
<1> DEFINE g == flow[f].source
           r == [flow[f] EXCEPT !.pc = "confirm", !.source = None]
<1>1. f \in InProgress /\ flow[f] \in FlowRecords /\ FlowOK(flow[f]) /\ flow[f].pc = "connect"
  BY DEF DiscoveredConnected, At, InProgress, SetupInv, SetupTypeOK, FlowsOK
<1>2. entry' = entry /\ EnvironmentTyped'
  BY DEF DiscoveredConnected, OnlyFlows, OnlyFlow, EnvironmentTyped, SetupInv, SetupTypeOK
<1>3. CASE Ends(f)
  BY <1>2, <1>3, FlowEnds
<1>4. CASE Moves(f, "record") \/ Moves(f, "confirm")
  BY <1>1, <1>2, <1>4, FlowGoesOn
<1>5. CASE /\ g \in InProgress
           /\ flow' = [flow EXCEPT ![f].pc = "confirm", ![f].source = None, ![g] = None]
  <2>1. r \in FlowRecords
    BY <1>1 DEF FlowRecords
  <2>2. /\ r.pc = "confirm" /\ r.kind = flow[f].kind /\ r.subject = flow[f].subject
        /\ r.target = flow[f].target /\ r.free = flow[f].free /\ r.uid = flow[f].uid
        /\ r.ids = flow[f].ids
    BY <1>1 DEF FlowRecords
  <2>3. /\ FlowsTyped' /\ flow'[f] \in {r, None}
        /\ \A x \in Flows \ {f} : flow'[x] \in {flow[x], None}
    BY <1>5, <2>1 DEF FlowsTyped, SetupInv, SetupTypeOK, InProgress
  <2> HIDE DEF r, g
  <2>4. FlowOK(r) /\ r.uid = None
    BY <1>1, <2>2 DEF FlowOK
  <2>5. f \in InProgress' => flow'[f] = r
    BY <2>3 DEF InProgress
  <2>6. f \in InProgress' => FlowOK(flow'[f]) /\ flow'[f].uid = None
    BY <2>4, <2>5
  <2> QED
    BY <1>2, <2>3, <2>6, FlowMoves
<1>6. CASE BackToForm(f)
  BY <1>1, <1>2, <1>6, FlowShowsForm
<1> QED
  BY <1>3, <1>4, <1>5, <1>6 DEF DiscoveredConnected

LEMMA FormSubmitted ==
    ASSUME SetupInv, SetupAssumption, NEW f \in Flows, NEW t \in Targets,
           SubmitManual(f, t) \/ SubmitReconfigure(f, t)
    PROVE  SetupInv'
<1>1. /\ f \in InProgress /\ FlowOK(flow[f]) /\ flow[f].pc = "form"
      /\ OnlyFlows
  BY DEF SubmitManual, SubmitReconfigure, At, InProgress, SetupInv, SetupTypeOK, FlowsOK
<1>2. entry' = entry /\ EnvironmentTyped'
  BY <1>1 DEF OnlyFlows, OnlyFlow, EnvironmentTyped, SetupInv, SetupTypeOK
<1>3. CASE flow' = [flow EXCEPT ![f] = None]
  BY <1>2, <1>3, FlowEnds DEF Ends
<1>4. CASE /\ flow[f].kind = "user" /\ ~UsedByOther(t, None)
           /\ flow' = [flow EXCEPT ![f] = [flow[f] EXCEPT !.pc = "manual_connect",
                                               !.target = t, !.free = "yes"]]
  <2>1. flow[f].subject = None
    BY <1>1, <1>4 DEF FlowOK
  <2> QED
    BY <1>1, <1>4, <2>1, Submitted, ZenonT(60)
<1>5. CASE /\ flow[f].kind = "reconfigure" /\ ~UsedByOther(t, flow[f].subject)
           /\ flow' = [flow EXCEPT ![f] = [flow[f] EXCEPT !.pc = "retarget_connect",
                                               !.target = t, !.free = "yes"]]
  BY <1>1, <1>5, Submitted, ZenonT(60)
<1> QED
  BY <1>3, <1>4, <1>5 DEF SubmitManual, SubmitReconfigure

\* A flow begins, at a form.
LEMMA FlowBegins ==
    ASSUME SetupInv, SetupAssumption, NEW f \in Flows,
           UserStarts(f) \/ \E e \in Entries : ReconfigureStarts(f, e)
    PROVE  SetupInv'
<1> DEFINE new(kind, e) ==
        [kind |-> kind, pc |-> "form", target |-> None, ctx |-> None, ids |-> {},
         uid |-> None, subject |-> e, source |-> None, free |-> "yes"]
<1>1. entry' = entry /\ EnvironmentTyped'
  BY DEF UserStarts, ReconfigureStarts, OnlyFlows, OnlyFlow, EnvironmentTyped,
         SetupInv, SetupTypeOK
<1>2. \A e \in Configured : e \in Entries /\ entry[e].target # None
  BY DEF SetupInv, SetupTypeOK, Configured, EntryRecords, SetupAssumption
<1>3. CASE UserStarts(f)
  <2> DEFINE r == new("user", None)
  <2>1. r \in FlowRecords
    BY NewFlow
  <2>2. FlowOK(r) /\ r.uid = None
    BY <1>2 DEF FlowOK
  <2>3. flow' = [flow EXCEPT ![f] = r]
    BY <1>3 DEF UserStarts, Starts
  <2> HIDE DEF r
  <2>4. flow'[f] = r /\ flow' = [flow EXCEPT ![f] = flow'[f]]
    BY <2>3 DEF SetupInv, SetupTypeOK
  <2>5. flow'[f] \in FlowRecords /\ FlowOK(flow'[f]) /\ flow'[f].uid = None
    BY <2>1, <2>2, <2>4
  <2> QED
    BY <1>1, <2>4, <2>5, FlowGets
<1>4. ASSUME NEW e \in Entries, ReconfigureStarts(f, e)
      PROVE  SetupInv'
  <2> DEFINE r == new("reconfigure", e)
  <2>1. r \in FlowRecords
    BY NewFlow
  <2>2. FlowOK(r) /\ r.uid = None
    BY <1>2, <1>4 DEF FlowOK, ReconfigureStarts
  <2>3. flow' = [flow EXCEPT ![f] = r]
    BY <1>4 DEF ReconfigureStarts, Starts
  <2> HIDE DEF r
  <2>4. flow'[f] = r /\ flow' = [flow EXCEPT ![f] = flow'[f]]
    BY <2>3 DEF SetupInv, SetupTypeOK
  <2>5. flow'[f] \in FlowRecords /\ FlowOK(flow'[f]) /\ flow'[f].uid = None
    BY <2>1, <2>2, <2>4
  <2> QED
    BY <1>1, <2>4, <2>5, FlowGets
<1> QED
  BY <1>3, <1>4

\* A discovered target is chosen, or prompted for.
LEMMA TargetChosen ==
    ASSUME SetupInv, SetupAssumption, NEW f \in Flows,
           \/ PromptChecked(f)
           \/ \E t \in Targets, g \in Flows \cup {None} : ChooseDiscovered(f, t, g)
    PROVE  SetupInv'
<1>1. f \in InProgress /\ flow[f] \in FlowRecords /\ FlowOK(flow[f]) /\ OnlyFlow
  BY DEF PromptChecked, ChooseDiscovered, At, InProgress, SetupInv, SetupTypeOK, FlowsOK
<1>2. CASE Ends(f) /\ UNCHANGED conflicts
  <2>1. entry' = entry /\ EnvironmentTyped'
    BY <1>1, <1>2 DEF OnlyFlow, EnvironmentTyped, SetupInv, SetupTypeOK
  <2> QED
    BY <1>2, <2>1, FlowEnds
<1>3. CASE At(f, "prompt_check") /\ StartDiscovered(f, flow[f], flow[f].target)
  <2> DEFINE rec == flow[f]
             t == flow[f].target
  <2>1. /\ t \in Targets /\ rec \in FlowRecords /\ rec.kind # "reconfigure"
        /\ rec.subject = None /\ rec.uid = None
    BY <1>1, <1>3 DEF FlowOK, At, FlowRecords
  <2>2. StartDiscovered(f, rec, t)
    BY <1>3
  <2> HIDE DEF rec, t
  <2> QED
    BY <1>1, <2>1, <2>2, Discovered
<1>4. ASSUME NEW t \in Targets, NEW g \in Flows \cup {None}, ChooseDiscovered(f, t, g)
      PROVE  SetupInv'
  <2> DEFINE rec == [flow[f] EXCEPT !.source = g]
  <2>1. rec \in FlowRecords /\ rec.kind = flow[f].kind /\ rec.subject = flow[f].subject
        /\ rec.uid = flow[f].uid
    BY <1>1 DEF FlowRecords
  <2>2. StartDiscovered(f, rec, t) /\ flow[f].pc = "form" /\ flow[f].kind = "user"
    BY <1>4 DEF ChooseDiscovered, At
  <2> HIDE DEF rec
  <2>3. rec.kind # "reconfigure" /\ rec.subject = None /\ rec.uid = None
    BY <1>1, <2>1, <2>2 DEF FlowOK
  <2> QED
    BY <1>1, <2>1, <2>2, <2>3, Discovered
<1> QED
  BY <1>2, <1>3, <1>4 DEF PromptChecked

LEMMA EntryRetargeted ==
    ASSUME SetupInv, SetupAssumption, NEW f \in Flows, UpdateEntry(f) \/ Retarget(f)
    PROVE  SetupInv'
<1> DEFINE t == flow[f].target
           e == flow[f].subject
<1>1. f \in InProgress /\ FlowOK(flow[f]) /\ flow[f].pc \in {"update", "retarget"}
  BY DEF UpdateEntry, Retarget, At, SetupInv, FlowsOK
<1>2. t \in Targets /\ (flow[f].pc = "retarget" => e \in Configured)
  BY <1>1 DEF FlowOK
<1>3. EnvironmentTyped'
  BY <1>2 DEF UpdateEntry, Retarget, EnvironmentTyped, SetupInv, SetupTypeOK
<1>4. CASE Ends(f) /\ UNCHANGED <<entry, conflicts>>
  BY <1>3, <1>4, FlowEnds
<1>5. CASE /\ e \in Configured /\ entry' = [entry EXCEPT ![e].target = t]
           /\ flow' = FlowsAfter(f, e, t)
  BY <1>2, <1>3, <1>5, EntryMoves
<1> QED
  BY <1>1, <1>2, <1>4, <1>5 DEF UpdateEntry, Retarget, At

LEMMA NothingMoves ==
    ASSUME SetupInv, EnvironmentTyped', entry' = entry, flow' = flow
    PROVE  SetupInv'
BY DEF SetupInv, SetupTypeOK, EnvironmentTyped, FlowsOK, FlowOK, FlowIdsApart,
       OneEntryPerId, Configured, InProgress

LEMMA SetupKeepsInv ==
    ASSUME SetupInv, SetupAssumption, [SetupNext]_vars
    PROVE  SetupInv'
<1>1. ASSUME NEW f \in Flows, FlowStep(f)
      PROVE  SetupInv'
  <2>1. CASE \/ ManualConnected(f) \/ CardRecorded(f) \/ PairingFails(f)
             \/ UpdateConnected(f) \/ RetargetConnected(f)
    <3>1. /\ f \in InProgress /\ entry' = entry /\ EnvironmentTyped'
      BY <2>1 DEF ManualConnected, CardRecorded, PairingFails, UpdateConnected,
                  RetargetConnected, At, OnlyFlows, OnlyFlow, EnvironmentTyped,
                  SetupInv, SetupTypeOK
    <3>2. CASE ManualConnected(f)
      BY <3>1, <3>2, FlowGoesOn, FlowShowsForm DEF ManualConnected, At
    <3>3. CASE CardRecorded(f) \/ PairingFails(f)
      BY <3>1, <3>3, FlowGoesOn DEF CardRecorded, PairingFails, At
    <3>4. CASE UpdateConnected(f)
      BY <3>1, <3>4, FlowGoesOn, FlowEnds DEF UpdateConnected, At, InProgress
    <3>5. CASE RetargetConnected(f)
      BY <3>1, <3>5, FlowGoesOn, FlowShowsForm DEF RetargetConnected, At
    <3> QED
      BY <2>1, <3>2, <3>3, <3>4, <3>5
  <2>2. CASE DiscoveredConnected(f)
    BY <2>2, DiscoveredConnectedKeepsInv
  <2>3. CASE PromptChecked(f)
    BY <2>3, TargetChosen
  <2>4. CASE \E d \in Devices, i \in Ids \cup {None} : Paired(f, d, i)
    BY <2>4, PairedKeepsInv
  <2>5. CASE \E e \in Entries : CreateEntry(f, e)
    BY <2>5, EntryCreated
  <2>6. CASE UpdateEntry(f) \/ Retarget(f)
    BY <2>6, EntryRetargeted
  <2> QED
    BY <1>1, <2>1, <2>2, <2>3, <2>4, <2>5, <2>6 DEF FlowStep
<1>2. ASSUME NEW f \in Flows, UserStep(f)
      PROVE  SetupInv'
  <2>1. CASE UserStarts(f) \/ \E e \in Entries : ReconfigureStarts(f, e)
    BY <2>1, FlowBegins
  <2>2. CASE Dismiss(f)
    <3>1. entry' = entry /\ EnvironmentTyped' /\ Ends(f)
      BY <2>2 DEF Dismiss, OnlyFlows, OnlyFlow, EnvironmentTyped, SetupInv, SetupTypeOK
    <3> QED
      BY <3>1, FlowEnds
  <2>3. CASE SubmitPairing(f)
    <3>1. f \in InProgress /\ entry' = entry /\ EnvironmentTyped'
      BY <2>3 DEF SubmitPairing, At, OnlyFlows, OnlyFlow, EnvironmentTyped,
                  SetupInv, SetupTypeOK
    <3> QED
      BY <2>3, <3>1, FlowGoesOn DEF SubmitPairing, At
  <2>4. CASE \E t \in Targets : SubmitManual(f, t) \/ SubmitReconfigure(f, t)
    BY <2>4, FormSubmitted
  <2>5. CASE \E t \in Targets, g \in Flows \cup {None} : ChooseDiscovered(f, t, g)
    BY <2>5, TargetChosen
  <2> QED
    BY <1>2, <2>1, <2>2, <2>3, <2>4, <2>5 DEF UserStep
<1>3. CASE \E f \in Flows, d \in Devices, ids \in SUBSET Ids,
             contradictory \in BOOLEAN : Announce(f, d, ids, contradictory)
  BY <1>3, Announced
<1>4. CASE \E d \in Devices, t \in Targets \cup {None} : DeviceMoves(d, t)
  <2>1. entry' = entry /\ flow' = flow /\ EnvironmentTyped'
    BY <1>4 DEF DeviceMoves, EnvironmentTyped, SetupInv, SetupTypeOK, SetupAssumption
  <2> QED
    BY <2>1, NothingMoves
<1>5. CASE \E e \in Entries : RemoveEntry(e)
  BY <1>5, EntryRemoved
<1>6. CASE UNCHANGED vars
  BY <1>6, NothingMoves DEF vars, EnvironmentTyped, SetupInv, SetupTypeOK
<1> QED
  BY <1>1, <1>2, <1>3, <1>4, <1>5, <1>6 DEF SetupNext

-----------------------------------------------------------------------------
\* The invariant of the setup flows, from which the theorems below follow.
THEOREM FlowsKeepWhatTheyChecked ==
    ASSUME SetupAssumption PROVE SetupSpec => []SetupInv
<1>1. SetupInit => SetupInv
  BY SetupStarts
<1>2. SetupInv /\ [SetupNext]_vars => SetupInv'
  BY SetupKeepsInv
<1> QED
  BY <1>1, <1>2, PTL DEF SetupSpec

(***************************************************************************)
(* No two config entries have the same unique id, however many flows pair  *)
(* at the same time (config_flow.py, async_step_pairing_confirm).          *)
(***************************************************************************)
THEOREM EntryIdsAreUnique ==
    ASSUME SetupAssumption PROVE SetupSpec => [](SetupTypeOK /\ OneEntryPerId)
<1>1. SetupInv => SetupTypeOK /\ OneEntryPerId
  BY DEF SetupInv
<1> QED
  BY <1>1, FlowsKeepWhatTheyChecked, PTL

(***************************************************************************)
(* An entry gets another's target only in a race with the flow that gave   *)
(* it to the other: every path that creates or changes an entry has        *)
(* checked the target, or found it free when it was announced.             *)
(***************************************************************************)
THEOREM ClashesAreRaces ==
    ASSUME SetupAssumption PROVE SetupSpec => OnlyRacesClash
<1>1. ASSUME SetupInv, SetupAssumption, NEW f \in InProgress, flow'[f] = None,
             NEW e \in Entries, e \in Configured => e = flow[f].subject,
             e \notin Configured => flow[f].subject = None,
             flow[f].pc # "form", UsedByOther(flow[f].target, e)
      PROVE  \E g \in InProgress :
                 flow'[g] = None /\ flow[g].target = flow[f].target /\ flow[g].free = "no"
  <2>1. f \in Flows /\ flow[f] \in FlowRecords /\ FlowOK(flow[f])
    BY <1>1 DEF InProgress, SetupInv, SetupTypeOK, FlowsOK
  <2>2. PICK x \in Configured \ {e} : entry[x].target = flow[f].target
    BY <1>1 DEF UsedByOther
  <2>3. x # flow[f].subject
    BY <1>1, <2>2 DEF Configured, SetupAssumption
  <2>4. flow[f].free # "yes"
    BY <2>1, <2>2, <2>3 DEF FlowOK
  <2>5. flow[f].free = "no"
    BY <2>1, <2>4 DEF FlowRecords
  <2> QED
    BY <1>1, <2>5
<1>2. ASSUME SetupInv, SetupAssumption, NEW e \in Entries, [SetupNext]_vars,
             entry'[e] # None, entry'[e] # entry[e], UsedByOther(entry'[e].target, e)
      PROVE  \E f \in InProgress :
                 flow'[f] = None /\ flow[f].target = entry'[e].target /\ flow[f].free = "no"
  <2>1. ASSUME NEW f \in Flows, NEW x \in Entries, CreateEntry(f, x)
        PROVE  \E g \in InProgress :
                 flow'[g] = None /\ flow[g].target = entry'[e].target /\ flow[g].free = "no"
    <3>1. /\ f \in InProgress /\ flow[f].pc = "creating" /\ flow'[f] = None
          /\ entry' = [entry EXCEPT ![x] = [target |-> flow[f].target, uid |-> flow[f].uid]]
          /\ x \notin Configured
      BY <2>1 DEF CreateEntry, At, FlowsAfter
    <3>2. e = x /\ entry'[e].target = flow[f].target
      BY <1>2, <3>1 DEF SetupInv, SetupTypeOK
    <3>3. flow[f].subject = None
      BY <1>2, <3>1 DEF SetupInv, FlowsOK, FlowOK
    <3> QED
      BY <1>1, <1>2, <3>1, <3>2, <3>3
  <2>2. ASSUME NEW f \in Flows, UpdateEntry(f) \/ Retarget(f)
        PROVE  \E g \in InProgress :
                 flow'[g] = None /\ flow[g].target = entry'[e].target /\ flow[g].free = "no"
    <3> DEFINE x == flow[f].subject
    <3>1. /\ f \in InProgress /\ flow[f].pc \in {"update", "retarget"} /\ FlowOK(flow[f])
      BY <1>2, <2>2 DEF UpdateEntry, Retarget, At, SetupInv, FlowsOK
    <3>2. /\ x \in Configured /\ flow'[f] = None
          /\ entry' = [entry EXCEPT ![x].target = flow[f].target]
      BY <1>2, <2>2, <3>1 DEF UpdateEntry, Retarget, At, FlowsAfter, FlowOK
    <3>3. x \in Entries /\ entry[x] \in EntryRecords
      BY <3>2, <1>2 DEF Configured, SetupInv, SetupTypeOK
    <3>4. e = x
      BY <1>2, <3>2 DEF SetupInv, SetupTypeOK
    <3>5. entry'[e].target = flow[f].target
      BY <1>2, <3>2, <3>3, <3>4 DEF SetupInv, SetupTypeOK, EntryRecords
    <3> QED
      BY <1>1, <1>2, <3>1, <3>2, <3>4, <3>5
  <2>3. \A x \in Entries : ~RemoveEntry(x)
    BY <1>2 DEF RemoveEntry, SetupInv, SetupTypeOK
  <2>4. entry' # entry
    BY <1>2
  <2>5. ASSUME NEW f \in Flows, FlowStep(f)
        PROVE  \/ \E x \in Entries : CreateEntry(f, x)
               \/ UpdateEntry(f) \/ Retarget(f)
    BY <2>4, <2>5, ZenonT(60)
       DEF FlowStep, ManualConnected, DiscoveredConnected, CardRecorded, PromptChecked,
           PairingFails, Paired, UpdateConnected, RetargetConnected, OnlyFlow, OnlyFlows
  <2>6. ASSUME NEW f \in Flows PROVE ~UserStep(f)
    BY <2>4, ZenonT(60)
       DEF UserStep, UserStarts, Dismiss, SubmitPairing, SubmitManual, SubmitReconfigure,
           ChooseDiscovered, ReconfigureStarts, OnlyFlow, OnlyFlows
  <2>7. \E f \in Flows : FlowStep(f)
    BY <1>2, <2>3, <2>4, <2>6 DEF SetupNext, vars, Announce, DeviceMoves, OnlyFlow
  <2> QED
    BY <2>1, <2>2, <2>5, <2>7
<1>3. SetupInv /\ SetupAssumption /\ [SetupNext]_vars =>
        [\A e \in Entries :
           LET t == entry'[e].target
           IN  entry'[e] # None /\ entry'[e] # entry[e] /\ UsedByOther(t, e)
                 => \E f \in InProgress :
                        flow'[f] = None /\ flow[f].target = t /\ flow[f].free = "no"]_vars
  BY <1>2
<1> QED
  BY <1>3, FlowsKeepWhatTheyChecked, PTL DEF SetupSpec, OnlyRacesClash

(***************************************************************************)
(* An announcement moves only an entry whose unique id it carries, although *)
(* entries come and go while the connection is tested (config_flow.py,     *)
(* _async_update_discovered_existing_entry).                               *)
(***************************************************************************)
THEOREM RetargetsAreOwn ==
    ASSUME SetupAssumption PROVE SetupSpec => RetargetsItsOwn
<1>1. ASSUME SetupInv, NEW f \in InProgress, NEW e \in Configured,
             flow[f].kind = "zeroconf", UpdateEntry(f), entry'[e] # entry[e]
      PROVE  entry[e].uid \in flow[f].ids
  <2>1. FlowOK(flow[f]) /\ flow[f].pc = "update"
    BY <1>1 DEF SetupInv, FlowsOK, UpdateEntry, At
  <2>2. /\ flow[f].subject \in Configured
        /\ entry' = [entry EXCEPT ![flow[f].subject].target = flow[f].target]
    BY <1>1 DEF UpdateEntry
  <2>3. e = flow[f].subject
    BY <1>1, <2>2 DEF SetupInv, SetupTypeOK, Configured
  <2> QED
    BY <2>1, <2>2, <2>3 DEF FlowOK
<1>2. SetupInv =>
        [\A f \in InProgress, e \in Configured :
           flow[f].kind = "zeroconf" /\ UpdateEntry(f)
               /\ entry'[e] # None /\ entry'[e] # entry[e]
               => entry[e].uid \in flow[f].ids]_vars
  BY <1>1
<1> QED
  BY <1>2, FlowsKeepWhatTheyChecked, PTL DEF SetupSpec, RetargetsItsOwn

-----------------------------------------------------------------------------
\* The discovery cache.

(***************************************************************************)
(* Appending to the queue, dropping its head and dropping an element keep  *)
(* it a sequence of callers.                                               *)
(***************************************************************************)
LEMMA QueueOps ==
    ASSUME NEW S, NEW q \in Seq(S)
    PROVE  /\ \A e \in S : Append(q, e) \in Seq(S)
           /\ q # <<>> => Tail(q) \in Seq(S)
           /\ \A i \in 1 .. Len(q) :
                  SubSeq(q, 1, i - 1) \o SubSeq(q, i + 1, Len(q)) \in Seq(S)
<1>1. \A e \in S : Append(q, e) \in Seq(S)
  OBVIOUS
<1>2. q # <<>> => Tail(q) \in Seq(S)
  OBVIOUS
<1>3. ASSUME NEW i \in 1 .. Len(q)
      PROVE  SubSeq(q, 1, i - 1) \o SubSeq(q, i + 1, Len(q)) \in Seq(S)
  <2>1. SubSeq(q, 1, i - 1) \in Seq(S) /\ SubSeq(q, i + 1, Len(q)) \in Seq(S)
    BY <1>3
  <2> QED
    BY <2>1
<1> QED
  BY <1>1, <1>2, <1>3

USE DiscoveryAssumption

LEMMA SetsAreSome == ASSUME NEW s \in SUBSET Observations PROVE s # Nil
  OBVIOUS

LEMMA UsedMemory ==
    ASSUME DiscoveryTypeOK, NEW c \in Clients, UseCached(c)
    PROVE  memory' \in SUBSET Observations
  BY DEF UseCached, Proceed, DiscoveryTypeOK

\* The types of what a flush assigns.
LEMMA FlushType ==
    ASSUME DiscoveryTypeOK, NEW w \in Writers, FlushOrReturn(w)
    PROVE  /\ queue' \in Seq(Clients \cup Writers)
           /\ dirty' \in {"clean", "dirty"}
           /\ writer' \in [Writers -> {"idle", "waiting", "resumed", "queued",
                                      "writing", "done", "failed", "aborted"}]
<1>1. Append(queue, w) \in Seq(Clients \cup Writers)
  BY QueueOps DEF DiscoveryTypeOK
<1>2. queue' \in Seq(Clients \cup Writers)
  BY <1>1 DEF FlushOrReturn, DiscoveryTypeOK
<1>3. dirty' \in {"clean", "dirty"}
  BY DEF FlushOrReturn, DiscoveryTypeOK
<1> QED
  BY <1>2, <1>3 DEF FlushOrReturn, DiscoveryTypeOK

LEMMA TypeStep == DiscoveryTypeOK /\ [DiscoveryNext]_cacheVars => DiscoveryTypeOK'
<1> SUFFICES ASSUME DiscoveryTypeOK, [DiscoveryNext]_cacheVars PROVE DiscoveryTypeOK'
  OBVIOUS
<1> USE DEF DiscoveryTypeOK, callVars, jobVars, timerVars, Clients, Writers
<1>q. /\ \A e \in Clients \cup Writers : Append(queue, e) \in Seq(Clients \cup Writers)
      /\ queue # <<>> => Tail(queue) \in Seq(Clients \cup Writers)
      /\ \A i \in 1 .. Len(queue) : SubSeq(queue, 1, i - 1) \o SubSeq(queue, i + 1, Len(queue))
             \in Seq(Clients \cup Writers)
  BY QueueOps
<1>1. ASSUME NEW c \in Clients, Ask(c) PROVE DiscoveryTypeOK'
  BY <1>q, <1>1 DEF Ask
<1>2. ASSUME NEW c \in Clients, UseCached(c) PROVE DiscoveryTypeOK'
  BY <1>q, <1>2 DEF UseCached, Proceed, Schedule, MayAcquire
<1>3. ASSUME NEW c \in Clients, BeginLoad(c) PROVE DiscoveryTypeOK'
  BY <1>q, <1>3 DEF BeginLoad, MayAcquire
<1>4. ASSUME NEW c \in Clients, EndLoad(c) PROVE DiscoveryTypeOK'
  BY <1>4 DEF EndLoad, Proceed, Schedule, Release
<1>5. ASSUME NEW w \in Writers, BeginWrite(w) PROVE DiscoveryTypeOK'
  BY <1>q, <1>5 DEF BeginWrite, MayAcquire
<1>6. ASSUME NEW w \in Writers, JobReplaces(w) PROVE DiscoveryTypeOK'
  BY <1>6 DEF JobReplaces
<1>7. ASSUME NEW w \in Writers, JobFails(w) PROVE DiscoveryTypeOK'
  BY <1>7 DEF JobFails
<1>8. CASE TimerFires
  <2>1. "save" \in Writers
    OBVIOUS
  <2> QED
    BY <1>8, <2>1, FlushType DEF TimerFires
<1>9. CASE EndSave
  BY <1>9 DEF EndSave, Release, Redirty, StopAfterSave
<1>10. CASE BeginStopping
  <2>1. queue' \in Seq(Clients \cup Writers)
    <3>1. CASE UNCHANGED queue
      BY <3>1
    <3>2. ASSUME NEW i \in 1 .. Len(queue),
                 queue' = SubSeq(queue, 1, i - 1) \o SubSeq(queue, i + 1, Len(queue))
          PROVE  queue' \in Seq(Clients \cup Writers)
      BY <1>q, <3>2
    <3> QED
      BY <1>10, <3>1, <3>2 DEF BeginStopping
  <2> QED
    BY <1>10, <2>1 DEF BeginStopping, SaveRuns
<1>11. CASE FinalWrite
  <2>1. "stop" \in Writers
    OBVIOUS
  <2>2. CASE FlushOrReturn("stop")
    BY <1>11, <2>1, <2>2, FlushType DEF FinalWrite
  <2> QED
    BY <1>11, <2>2 DEF FinalWrite
<1>12. CASE StopResumes
  <2>1. "stop" \in Writers
    OBVIOUS
  <2> QED
    BY <1>12, <2>1, FlushType DEF StopResumes
<1>13. CASE EndStop
  BY <1>13 DEF EndStop, Release, Redirty
<1>14. CASE Restart
  BY <1>14 DEF Restart
<1>15. CASE UNCHANGED cacheVars
  BY <1>15 DEF cacheVars
<1> QED
  BY <1>1, <1>2, <1>3, <1>4, <1>5, <1>6, <1>7, <1>8, <1>9, <1>10, <1>11, <1>12,
     <1>13, <1>14, <1>15 DEF DiscoveryNext, ClientStep, WriterStep

THEOREM DiscoveryTypes == DiscoverySpec => []DiscoveryTypeOK
<1>1. DiscoveryInit => DiscoveryTypeOK
  BY DEF DiscoveryInit, DiscoveryTypeOK, Clients, Writers
<1> QED
  BY <1>1, TypeStep, PTL DEF DiscoverySpec

-----------------------------------------------------------------------------

(***************************************************************************)
(* Who holds the lock is at work: the first load or one write.  Nothing    *)
(* is recorded meanwhile, so the snapshot under way is the memory.         *)
(***************************************************************************)
LockInv ==
    /\ \A c \in Clients : client[c] = "loading" => owner = c /\ memory = Nil
    /\ \A w \in Writers : writer[w] = "writing" => owner = w
    /\ \A w \in Writers : job[w] # Nil \/ outcome[w] # "none" => writer[w] = "writing"
    /\ \A w \in Writers : job[w] # Nil => job[w] = memory
    /\ \A w \in Writers : outcome[w] # "none" => job[w] = Nil
    /\ \A w \in Writers : outcome[w] = "ok" => memory = disk
    /\ \A w \in Writers : writer[w] # "idle" => memory # Nil

\* A write is only asked for when there is a memory, the timer is not set
\* again once the writer is stopping, and the final write waits for the save.
StopInv ==
    /\ timer = "set" \/ dirty = "dirty" \/ listening # "no" => memory # Nil
    /\ listening = "stopping" => timer = "none"
    /\ timer = "set" => writer["save"] = "idle"
    /\ writer["stop"] # "idle" => listening = "stopping" /\ phase = "final"
    /\ writer["stop"] \notin {"idle", "waiting"} => writer["save"] = "idle"

CacheInv == DiscoveryTypeOK /\ LockInv /\ StopInv

LEMMA LockStep == CacheInv /\ [DiscoveryNext]_cacheVars => LockInv'
<1> SUFFICES ASSUME CacheInv, [DiscoveryNext]_cacheVars PROVE LockInv'
  OBVIOUS
<1> USE DEF CacheInv, LockInv, StopInv, DiscoveryTypeOK, callVars, jobVars, timerVars,
            Clients, Writers
<1>1. ASSUME NEW c \in Clients, Ask(c) PROVE LockInv'
  BY <1>1 DEF Ask
<1>2. ASSUME NEW c \in Clients, UseCached(c) PROVE LockInv'
  <2>1. memory # Nil /\ memory' # Nil /\ client' = [client EXCEPT ![c] = "done"]
    BY <1>2, SetsAreSome, UsedMemory DEF UseCached, Proceed
  <2>2. owner = Nil /\ UNCHANGED <<disk, owner, jobVars, phase>>
    BY <1>2 DEF UseCached, MayAcquire
  <2>3. /\ \A v \in Clients : client[v] # "loading"
        /\ \A w \in Writers : writer[w] # "writing" /\ job[w] = Nil /\ outcome[w] = "none"
    BY <2>1, <2>2
  <2> QED
    BY <2>1, <2>2, <2>3
<1>3. ASSUME NEW c \in Clients, BeginLoad(c) PROVE LockInv'
  BY <1>3 DEF BeginLoad, MayAcquire
<1>4. ASSUME NEW c \in Clients, EndLoad(c) PROVE LockInv'
  BY <1>4 DEF EndLoad, Proceed, Schedule, Release
<1>5. ASSUME NEW w \in Writers, BeginWrite(w) PROVE LockInv'
  BY <1>5 DEF BeginWrite, MayAcquire
<1>6. ASSUME NEW w \in Writers, JobReplaces(w) PROVE LockInv'
  BY <1>6 DEF JobReplaces
<1>7. ASSUME NEW w \in Writers, JobFails(w) PROVE LockInv'
  BY <1>7 DEF JobFails
<1>8. CASE TimerFires
  BY <1>8 DEF TimerFires, FlushOrReturn
<1>9. CASE EndSave
  BY <1>9 DEF EndSave, Release, Redirty, StopAfterSave
<1>10. CASE BeginStopping
  BY <1>10 DEF BeginStopping
<1>11. CASE FinalWrite
  BY <1>11 DEF FinalWrite, FlushOrReturn
<1>12. CASE StopResumes
  BY <1>12 DEF StopResumes, FlushOrReturn
<1>13. CASE EndStop
  BY <1>13 DEF EndStop, Release, Redirty
<1>14. CASE Restart
  BY <1>14 DEF Restart
<1>15. CASE UNCHANGED cacheVars
  BY <1>15 DEF cacheVars
<1> QED
  BY <1>1, <1>2, <1>3, <1>4, <1>5, <1>6, <1>7, <1>8, <1>9, <1>10, <1>11, <1>12,
     <1>13, <1>14, <1>15 DEF DiscoveryNext, ClientStep, WriterStep

LEMMA StopStep == CacheInv /\ [DiscoveryNext]_cacheVars => StopInv'
<1> SUFFICES ASSUME CacheInv, [DiscoveryNext]_cacheVars PROVE StopInv'
  OBVIOUS
<1> USE DEF CacheInv, LockInv, StopInv, DiscoveryTypeOK, callVars, jobVars, timerVars,
            Clients, Writers
<1>1. ASSUME NEW c \in Clients, Ask(c) PROVE StopInv'
  BY <1>1 DEF Ask
<1>2. ASSUME NEW c \in Clients, UseCached(c) PROVE StopInv'
  <2>1. memory # Nil /\ memory' # Nil /\ client' = [client EXCEPT ![c] = "done"]
    BY <1>2, SetsAreSome, UsedMemory DEF UseCached, Proceed
  <2>2. owner = Nil /\ UNCHANGED <<disk, owner, jobVars, phase>>
    BY <1>2 DEF UseCached, MayAcquire
  <2>3. \/ UNCHANGED timerVars
        \/ listening = "stopping" /\ UNCHANGED <<timer, dirty, listening>>
        \/ /\ listening # "stopping" /\ listening' = "yes"
           /\ timer' = IF SaveRuns THEN timer ELSE "set"
    BY <1>2 DEF UseCached, Proceed, Schedule
  <2> QED
    BY <2>1, <2>2, <2>3 DEF SaveRuns
<1>3. ASSUME NEW c \in Clients, BeginLoad(c) PROVE StopInv'
  BY <1>3 DEF BeginLoad, MayAcquire
<1>4. ASSUME NEW c \in Clients, EndLoad(c) PROVE StopInv'
  BY <1>4 DEF EndLoad, Proceed, Schedule, Release
<1>5. ASSUME NEW w \in Writers, BeginWrite(w) PROVE StopInv'
  BY <1>5 DEF BeginWrite, MayAcquire
<1>6. ASSUME NEW w \in Writers, JobReplaces(w) PROVE StopInv'
  BY <1>6 DEF JobReplaces
<1>7. ASSUME NEW w \in Writers, JobFails(w) PROVE StopInv'
  BY <1>7 DEF JobFails
<1>8. CASE TimerFires
  BY <1>8 DEF TimerFires, FlushOrReturn
<1>9. CASE EndSave
  BY <1>9 DEF EndSave, Release, Redirty, StopAfterSave
<1>10. CASE BeginStopping
  BY <1>10 DEF BeginStopping
<1>11. CASE FinalWrite
  <2>1. CASE listening = "no"
    BY <1>11, <2>1 DEF FinalWrite
  <2>2. CASE listening # "no" /\ SaveRuns
    BY <1>11, <2>2 DEF FinalWrite, SaveRuns
  <2>3. CASE listening # "no" /\ ~SaveRuns
    BY <1>11, <2>3 DEF FinalWrite, FlushOrReturn, SaveRuns
  <2> QED
    BY <2>1, <2>2, <2>3
<1>12. CASE StopResumes
  BY <1>12 DEF StopResumes, FlushOrReturn
<1>13. CASE EndStop
  BY <1>13 DEF EndStop, Release, Redirty
<1>14. CASE Restart
  BY <1>14 DEF Restart
<1>15. CASE UNCHANGED cacheVars
  BY <1>15 DEF cacheVars
<1> QED
  BY <1>1, <1>2, <1>3, <1>4, <1>5, <1>6, <1>7, <1>8, <1>9, <1>10, <1>11, <1>12,
     <1>13, <1>14, <1>15 DEF DiscoveryNext, ClientStep, WriterStep

THEOREM CacheIsConsistent == DiscoverySpec => []CacheInv
<1>1. DiscoveryInit => CacheInv
  BY DEF DiscoveryInit, CacheInv, LockInv, StopInv, DiscoveryTypeOK, Clients, Writers
<1> QED
  BY <1>1, TypeStep, LockStep, StopStep, PTL DEF DiscoverySpec, CacheInv

-----------------------------------------------------------------------------

(***************************************************************************)
(* Every step of the cache is a step of the store, or none of its          *)
(* business.                                                               *)
(***************************************************************************)
LEMMA StoreStep == CacheInv /\ [DiscoveryNext]_cacheVars => [Store!StoreNext]_(Store!storeVars)
<1> SUFFICES ASSUME CacheInv, [DiscoveryNext]_cacheVars
             PROVE  Store!StoreNext \/ UNCHANGED <<memory, disk, InFlight>>
  BY DEF Store!storeVars
<1> USE DEF CacheInv, LockInv, StopInv, DiscoveryTypeOK, callVars, jobVars, timerVars,
            Clients, Writers, InFlight
<1>1. ASSUME NEW c \in Clients, Ask(c) \/ BeginLoad(c)
      PROVE  UNCHANGED <<memory, disk, InFlight>>
  BY <1>1 DEF Ask, BeginLoad
<1>2. ASSUME NEW c \in Clients, UseCached(c)
      PROVE  Store!StoreNext \/ UNCHANGED <<memory, disk, InFlight>>
  <2>1. memory # Nil /\ InFlight = Nil /\ InFlight' = Nil /\ disk' = disk
    BY <1>2 DEF UseCached, MayAcquire
  <2>2. CASE c \in Observations
    <3>1. Store!Record(c)
      BY <1>2, <2>1, <2>2 DEF UseCached, Proceed, Store!Record
    <3> QED
      BY <2>2, <3>1 DEF Store!StoreNext
  <2>3. CASE c \notin Observations
    BY <1>2, <2>1, <2>3 DEF UseCached, Proceed
  <2> QED
    BY <2>2, <2>3
<1>3. ASSUME NEW c \in Clients, EndLoad(c) PROVE Store!StoreNext
  <2>1. memory = Nil /\ InFlight = Nil /\ InFlight' = Nil /\ disk' = disk
    BY <1>3 DEF EndLoad
  <2>2. PICK content \in {disk, {}} : Proceed(c, content)
    BY <1>3 DEF EndLoad
  <2>3. CASE c \in Observations
    <3>1. Store!Record(c)
      BY <2>1, <2>2, <2>3 DEF Proceed, Store!Record
    <3> QED
      BY <2>3, <3>1 DEF Store!StoreNext
  <2>4. CASE c \notin Observations
    <3>1. Store!Load(content)
      BY <2>1, <2>2, <2>4 DEF Proceed, Store!Load
    <3> QED
      BY <2>2, <3>1 DEF Store!StoreNext
  <2> QED
    BY <2>3, <2>4
<1>4. ASSUME NEW w \in Writers, BeginWrite(w) PROVE Store!StoreNext
  <2>1. memory # Nil /\ InFlight = Nil
    BY <1>4 DEF BeginWrite, MayAcquire
  <2>2. job' = [job EXCEPT ![w] = memory] /\ UNCHANGED <<memory, disk>>
    BY <1>4 DEF BeginWrite
  <2>3. InFlight' = memory
    BY <2>1, <2>2
  <2>4. Store!Take
    BY <2>1, <2>2, <2>3 DEF Store!Take
  <2> QED
    BY <2>4 DEF Store!StoreNext
<1>5. ASSUME NEW w \in Writers, JobReplaces(w) PROVE Store!StoreNext
  <2>1. InFlight = job[w] /\ InFlight # Nil /\ InFlight' = Nil
    BY <1>5 DEF JobReplaces
  <2>2. Store!Commit
    BY <1>5, <2>1 DEF JobReplaces, Store!Commit
  <2> QED
    BY <2>2 DEF Store!StoreNext
<1>6. ASSUME NEW w \in Writers, JobFails(w) PROVE Store!StoreNext
  <2>1. InFlight # Nil /\ InFlight' = Nil
    BY <1>6 DEF JobFails
  <2>2. Store!Abandon
    BY <1>6, <2>1 DEF JobFails, Store!Abandon
  <2> QED
    BY <2>2 DEF Store!StoreNext
<1>7. CASE TimerFires \/ EndSave \/ BeginStopping \/ FinalWrite \/ StopResumes \/ EndStop
  BY <1>7 DEF TimerFires, EndSave, BeginStopping, FinalWrite, StopResumes, EndStop
<1>8. CASE Restart
  <2>1. Store!Crash
    BY <1>8 DEF Restart, Store!Crash
  <2> QED
    BY <2>1 DEF Store!StoreNext
<1>9. CASE UNCHANGED cacheVars
  BY <1>9 DEF cacheVars
<1> QED
  BY <1>1, <1>2, <1>3, <1>4, <1>5, <1>6, <1>7, <1>8, <1>9
     DEF DiscoveryNext, ClientStep, WriterStep

(***************************************************************************)
(* The discovery cache implements the snapshot store.                      *)
(***************************************************************************)
THEOREM CacheImplementsStore == DiscoverySpec => ImplementsSnapshotStore
<1>1. DiscoveryInit => Store!StoreInit
  BY DEF DiscoveryInit, Store!StoreInit, InFlight, Writers
<1> QED
  BY <1>1, StoreStep, CacheIsConsistent, PTL
     DEF DiscoverySpec, ImplementsSnapshotStore, Store!StoreSpec

-----------------------------------------------------------------------------

(***************************************************************************)
(* NothingForgotten and FinalWriteSaves rest on the same invariant: while  *)
(* the lock is held nothing is added to the memory.                        *)
(***************************************************************************)

LEMMA ForgottenStep == CacheInv /\ RecordsAreKept /\ [DiscoveryNext]_cacheVars => NothingForgotten'
<1> SUFFICES ASSUME CacheInv, RecordsAreKept, [DiscoveryNext]_cacheVars PROVE NothingForgotten'
  OBVIOUS
<1> USE DEF CacheInv, LockInv, StopInv, DiscoveryTypeOK, callVars, jobVars, timerVars,
            Clients, Writers, RecordsAreKept, NothingForgotten, Unwritten, Snapshots
<1>1. ASSUME NEW c \in Clients, Ask(c) \/ BeginLoad(c) PROVE NothingForgotten'
  BY <1>1 DEF Ask, BeginLoad
<1>2. ASSUME NEW c \in Clients, NEW content, Proceed(c, content),
             content = memory \/ content \in {disk, {}}, UNCHANGED <<disk, jobVars>>,
             memory # Nil \/ \A w \in Writers : writer[w] = "idle"
      PROVE  NothingForgotten'
  <2>1. CASE c \in Observations
    BY <1>2, <2>1 DEF Proceed, Schedule
  <2>2. CASE c \notin Observations
    BY <1>2, <2>2 DEF Proceed
  <2> QED
    BY <2>1, <2>2
<1>3. ASSUME NEW c \in Clients, UseCached(c) \/ EndLoad(c) PROVE NothingForgotten'
  BY <1>2, <1>3 DEF UseCached, EndLoad
<1>4. ASSUME NEW w \in Writers, BeginWrite(w) PROVE NothingForgotten'
  BY <1>4 DEF BeginWrite, MayAcquire
<1>5. ASSUME NEW w \in Writers, JobReplaces(w) PROVE NothingForgotten'
  BY <1>5 DEF JobReplaces
<1>6. ASSUME NEW w \in Writers, JobFails(w) PROVE NothingForgotten'
  BY <1>6 DEF JobFails
<1>7. CASE TimerFires \/ StopResumes
  BY <1>7 DEF TimerFires, StopResumes, FlushOrReturn
<1>8. CASE EndSave
  BY <1>8 DEF EndSave, Redirty, StopAfterSave
<1>9. CASE BeginStopping
  BY <1>9 DEF BeginStopping
<1>10. CASE FinalWrite
  BY <1>10 DEF FinalWrite, FlushOrReturn
<1>11. CASE EndStop
  BY <1>11 DEF EndStop, Redirty
<1>12. CASE Restart
  BY <1>12 DEF Restart
<1>13. CASE UNCHANGED cacheVars
  BY <1>13 DEF cacheVars
<1> QED
  BY <1>1, <1>3, <1>4, <1>5, <1>6, <1>7, <1>8, <1>9, <1>10, <1>11, <1>12, <1>13
     DEF DiscoveryNext, ClientStep, WriterStep

LEMMA FinalStep == CacheInv /\ RecordsAreKept /\ [DiscoveryNext]_cacheVars => FinalWriteSaves'
<1> SUFFICES ASSUME CacheInv, RecordsAreKept, [DiscoveryNext]_cacheVars PROVE FinalWriteSaves'
  OBVIOUS
<1> USE DEF CacheInv, LockInv, StopInv, DiscoveryTypeOK, callVars, jobVars, timerVars,
            Clients, Writers, RecordsAreKept, FinalWriteSaves
<1>1. ASSUME NEW c \in Clients, Ask(c) \/ BeginLoad(c) PROVE FinalWriteSaves'
  BY <1>1 DEF Ask, BeginLoad
<1>2. ASSUME NEW c \in Clients, UseCached(c) \/ EndLoad(c) PROVE FinalWriteSaves'
  BY <1>2 DEF UseCached, EndLoad, Proceed, Schedule
<1>3. ASSUME NEW w \in Writers, WriterStep(w) PROVE FinalWriteSaves'
  BY <1>3 DEF WriterStep, BeginWrite, JobReplaces, JobFails
<1>4. CASE TimerFires \/ EndSave \/ BeginStopping
  BY <1>4, SMTT(60) DEF TimerFires, EndSave, BeginStopping, FlushOrReturn, StopAfterSave
\* A clean writer without a flush has saved everything.
<1>5. ASSUME FlushOrReturn("stop"), writer["save"] = "idle",
             writer["stop"] \in {"idle", "resumed"}, memory # Nil,
             UNCHANGED <<memory, disk, late>>
      PROVE  FinalWriteSaves'
  <2>1. CASE dirty = "clean"
    <3>1. ~Unwritten /\ \A w \in Writers : job[w] = Nil
      BY <1>5 DEF Unwritten
    <3>2. Snapshots = {}
      BY <3>1 DEF Snapshots
    <3>3. memory \subseteq disk \cup late
      BY <1>5, <2>1, <3>1, <3>2 DEF NothingForgotten
    <3> QED
      BY <1>5, <3>3
  <2>2. CASE dirty # "clean"
    BY <1>5, <2>2 DEF FlushOrReturn
  <2> QED
    BY <2>1, <2>2
<1>6. CASE FinalWrite
  BY <1>5, <1>6 DEF FinalWrite, SaveRuns
<1>7. CASE StopResumes
  BY <1>5, <1>7 DEF StopResumes
<1>8. CASE EndStop
  BY <1>8 DEF EndStop
<1>9. CASE Restart
  BY <1>9 DEF Restart
<1>10. CASE UNCHANGED cacheVars
  BY <1>10 DEF cacheVars
<1> QED
  BY <1>1, <1>2, <1>3, <1>4, <1>6, <1>7, <1>8, <1>9, <1>10
     DEF DiscoveryNext, ClientStep

(***************************************************************************)
(* No observation is forgotten, at any number of calls and failures.       *)
(***************************************************************************)
THEOREM NoObservationForgotten == DiscoverySpec => []RecordsAreKept
<1>1. DiscoveryInit => RecordsAreKept
  BY DEF DiscoveryInit, RecordsAreKept, NothingForgotten, FinalWriteSaves, Writers
<1> QED
  BY <1>1, ForgottenStep, FinalStep, CacheIsConsistent, PTL DEF DiscoverySpec, RecordsAreKept

=============================================================================
