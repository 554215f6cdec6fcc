-------------------------- MODULE DiscoveryPrompts --------------------------
(***************************************************************************)
(* What the integration makes of announcements on the network: it scores   *)
(* them, keeps a record of each identity (discovery_state.py), and shows a *)
(* discovery card, unless it showed one a short while ago (config_flow.py, *)
(* async_step_zeroconf).                                                   *)
(*                                                                         *)
(* Flows run side by side and await the cache, a connection test and the   *)
(* user; what a flow does without awaiting is one step.  Time passes in    *)
(* ticks.  A restart ends the flows and leaves the records or none; how    *)
(* they are saved is the subject of DiscoveryCache, and how the flows make *)
(* and change entries that of SetupFlows.  Here an entry is a MAC address  *)
(* and a target.                                                           *)
(***************************************************************************)
EXTENDS Integers, FiniteSetsExt, Functions

CONSTANTS
  Callers,        \* flows at the same time
  Announced,      \* the announcements of the network, see Announcements
  Scanned,        \* scan results: their host, port and number of markers
  Labels,         \* the device label of a .local name
  DefaultPort,
  Before,         \* the sets of entries there may be at first
  Window,         \* DISCOVERY_PROMPT_SUPPRESS_SECONDS
  Ttl,            \* DISCOVERY_CACHE_TTL_SECONDS
  MaxRecords,     \* DISCOVERY_MAX_RECORDS
  MaxTime,
  MaxEvents,      \* announcements, user flows, scans and restarts
  Absent

Never == 0

ASSUME PromptsAssumption ==
  /\ Window \in Nat /\ Ttl \in Nat /\ Window <= Ttl
  /\ MaxRecords \in Nat \ {0} /\ MaxTime \in Nat \ {0} /\ MaxEvents \in Nat
  /\ Absent \notin Announced

VARIABLES
  now,
  records,    \* payload["records"]
  homes,      \* the config entries
  flows,      \* the flows in progress
  clashes,    \* targets with a discovery-conflict issue
  events,     \* announcements, user flows, scans and restarts so far
  calm        \* history: when each identity last had a card, Never if another
              \* result was recorded for it since

promptVars == <<now, records, homes, flows, clashes, events, calm>>

-----------------------------------------------------------------------------
(***************************************************************************)
(* An announcement has a host, which is an address or a .local name; the   *)
(* hostname and address it names beside it; the label of its service name; *)
(* whether it is of the device's service type and sounds like a DHE; its   *)
(* port; and the MAC addresses among its properties.                       *)
(***************************************************************************)
IsLocal(h) == h \in DOMAIN Labels
IsAddress(h) == h # Absent /\ ~IsLocal(h)

\* _identity_conflicts
AddressDiffers(a) == IsAddress(a.host) /\ IsAddress(a.address) /\ a.host # a.address
NameDiffers(a) == IsLocal(a.host) /\ IsLocal(a.hostname) /\ a.host # a.hostname
ServiceDiffers(a) ==
  LET h == IF a.hostname # Absent THEN a.hostname ELSE a.host
  IN IsLocal(h) /\ a.service # Absent /\ Labels[h] # a.service
Hard(a) == AddressDiffers(a) \/ NameDiffers(a)

Points(c, n) == IF c THEN n ELSE 0
Between(lo, n, hi) == IF n < lo THEN lo ELSE IF n > hi THEN hi ELSE n

\* _zeroconf_confidence
Confidence(a) ==
  Between(0, 40 + Points(a.dheService, 25) + Points(a.dheName, 10)
               + Points(IsLocal(a.hostname), 5) + Points(a.port = DefaultPort, 10)
               - Points(Hard(a), 30) - Points(AddressDiffers(a), 10)
               - Points(NameDiffers(a), 10) - Points(ServiceDiffers(a), 10), 100)
MinConfidence == 55

\* _preferred_identity_source, _identity_value
Identity(a) ==
  IF IsLocal(a.hostname) THEN a.hostname
  ELSE IF IsAddress(a.host) /\ a.address # Absent THEN a.address ELSE a.host

\* zeroconf_discovery_record
Seen(a) ==
  [key |-> <<"zeroconf", Identity(a), a.port>>, host |-> a.host, port |-> a.port,
   confidence |-> Confidence(a), hard |-> Hard(a)]

\* scan_discovery_record
Found(s) ==
  [key |-> <<"scan", s.host, s.port>>, host |-> s.host, port |-> s.port,
   confidence |-> Between(0, 35 + Between(0, 15 * s.markers, 45)
                               + Points(s.port = DefaultPort, 10), 100),
   hard |-> FALSE]

Target(r) == <<r.host, r.port>>

\* The record of each announcement.
RecordOf == [a \in Announced |-> Seen(a)]

-----------------------------------------------------------------------------
\* The records.

\* _record_cache_update; counters and the first time are only shown.
Update(r, rs, result, prompted) ==
  [target |-> Target(r), confidence |-> r.confidence, hard |-> r.hard,
   last |-> now, result |-> result,
   prompted |-> IF prompted THEN now
                ELSE IF r.key \in DOMAIN rs THEN rs[r.key].prompted ELSE Never]

\* _is_record_expired
Expired(r) == now - r.last > Ttl

\* Mutant: the youngest records are kept, whatever they are.
YoungestRank(k, rs) == rs[k].last
\* _record_retention_key: cards that suppress others outrank other
\* announcements, and those scan results, whatever their age.
Rank(k, rs) ==
  rs[k].last + MaxTime * (IF k[1] # "zeroconf" THEN 1
                          ELSE IF rs[k].result \in {"prompted", "recently_discovered"} THEN 3
                          ELSE 2)

\* _prune_payload: of equals, some.
Pruned(rs) ==
  LET fresh == {k \in DOMAIN rs : ~Expired(rs[k])}
  IN IF Cardinality(fresh) <= MaxRecords THEN {Restrict(rs, fresh)}
     ELSE {Restrict(rs, kept) : kept \in
             {s \in kSubset(MaxRecords, fresh) :
                 \A k \in s, x \in fresh \ s : Rank(k, rs) >= Rank(x, rs)}}

With(rs, r, result, prompted) ==
  [k \in DOMAIN rs \cup {r.key} |->
      IF k = r.key THEN Update(r, rs, result, prompted) ELSE rs[k]]

\* async_recent_discovery_prompt_seen
Recent(key) ==
  /\ key \in DOMAIN records
  /\ records[key].result \in {"prompted", "recently_discovered"}
  /\ records[key].prompted # Never /\ now - records[key].prompted < Window

\* cached_discovery_choices
CachedChoices ==
  {records[k].target : k \in {x \in DOMAIN records :
      /\ x[1] = "zeroconf" /\ ~Expired(records[x])
      /\ records[x].confidence >= MinConfidence /\ ~records[x].hard}}

-----------------------------------------------------------------------------
\* Flows.

Quiet == [about |-> Absent, pc |-> "none", to |-> Absent, ctx |-> Absent, result |-> "none",
          from |-> Absent, excused |-> FALSE]
Begun(f) == flows[f].pc # "none"
Key(f) == RecordOf[flows[f].about].key
Used(t) == \E e \in homes : e.target = t
Others(t, e) == \E x \in homes \ {e} : x.target = t

PromptsInit ==
  /\ now = 1 /\ records = <<>>
  /\ homes \in Before /\ flows = [f \in Callers |-> Quiet]
  /\ clashes = {} /\ events = 0 /\ calm = <<>>

Step(f, pc) == flows' = [flows EXCEPT ![f].pc = pc]
Ending(f) == flows' = [flows EXCEPT ![f] = Quiet]
Recording(f, result) == flows' = [flows EXCEPT ![f].pc = "record", ![f].result = result]
Happens == events < MaxEvents /\ events' = events + 1
Calmly == UNCHANGED <<now, records, homes, calm>>
Still == Calmly /\ UNCHANGED events

\* _async_start_discovered_setup up to the connection test.
Prepare(f, flow) ==
  /\ clashes' = clashes \ {flow.to}
  /\ flows' = [flows EXCEPT ![f] = IF Used(flow.to) THEN Quiet
                                   ELSE [flow EXCEPT !.ctx = flow.to, !.pc = "connect"]]

\* async_step_zeroconf up to its first await.  Without any entry, no earlier
\* card counts.
Arrives(f, a) ==
  LET t == Target(RecordOf[a])
      new == [Quiet EXCEPT !.about = a, !.to = t]
      same == {e \in homes : e.mac \in a.macs}
      Goes(pc, result) == flows' = [flows EXCEPT ![f] = [new EXCEPT !.pc = pc, !.result = result]]
      Conflict == Goes("record", "conflicting_identity")
  IN /\ ~Begun(f)
     /\ \A g \in Callers : flows[g].ctx # t
     /\ \/ RecordOf[a].hard /\ Conflict /\ UNCHANGED clashes
        \/ ~RecordOf[a].hard /\ RecordOf[a].confidence < MinConfidence /\ Goes("record", "low_confidence")
           /\ UNCHANGED clashes
        \/ /\ ~RecordOf[a].hard /\ RecordOf[a].confidence >= MinConfidence
           /\ \/ Cardinality(same) > 1 /\ Conflict /\ UNCHANGED clashes
              \/ /\ Cardinality(same) = 1 /\ UNCHANGED clashes
                 /\ LET e == CHOOSE x \in same : TRUE
                    IN \/ Others(t, e) /\ Conflict
                       \/ ~Others(t, e) /\ e.target # t /\ Goes("reach", "none")
              \/ same = {} /\ ~Used(t) /\ homes # {} /\ Goes("check", "none") /\ UNCHANGED clashes
              \/ same = {} /\ homes = {} /\ Prepare(f, [new EXCEPT !.excused = TRUE])
     /\ Happens /\ Calmly

\* The cache is loaded: a recent card suppresses this one.
Check(f) ==
  /\ flows[f].pc = "check"
  /\ IF Recent(Key(f)) THEN Recording(f, "recently_discovered") /\ UNCHANGED clashes
     ELSE Prepare(f, flows[f])
  /\ Still

\* The connection test of a setup; a chosen card is replaced by this flow.
Connects(f) ==
  /\ flows[f].pc = "connect"
  /\ \/ flows[f].about # Absent /\ \E result \in {"prompted", "cannot_connect"} : Recording(f, result)
     \/ flows[f].about = Absent
        /\ \/ Ending(f)
           \/ flows' = [g \in Callers |-> IF g = f THEN [flows[f] EXCEPT !.pc = "card"]
                                          ELSE IF g = flows[f].from THEN Quiet ELSE flows[g]]
  /\ UNCHANGED clashes /\ Still

\* The connection test of an entry whose device has moved.
Reaches(f) ==
  /\ flows[f].pc = "reach"
  /\ \/ /\ Recording(f, "cannot_connect") /\ UNCHANGED homes
     \/ /\ Recording(f, "updated_existing")
        /\ homes' = {IF e.mac \in flows[f].about.macs THEN [e EXCEPT !.target = flows[f].to] ELSE e :
                        e \in homes}
  /\ UNCHANGED <<now, records, clashes, events, calm>>

\* Other flows that are past the check are excused when a card is shown.
Excuse(f, pc) ==
  [g \in Callers |->
     IF g = f THEN IF pc = "none" THEN Quiet ELSE [flows[f] EXCEPT !.pc = pc]
     ELSE [flows[g] EXCEPT !.excused =
             @ \/ (flows[f].result = "prompted" /\ flows[g].about # Absent
                   /\ Key(g) = Key(f) /\ flows[g].pc \in {"connect", "record"})]]

\* async_record_discovery, and what the flow does next.
Record(f) ==
  /\ flows[f].pc = "record"
  /\ LET result == flows[f].result
         k == Key(f)
     IN /\ records' \in Pruned(With(records, RecordOf[flows[f].about], result, result = "prompted"))
        /\ flows' = Excuse(f, IF result = "prompted" THEN "card" ELSE "none")
        /\ clashes' = CASE result = "conflicting_identity" -> clashes \cup {flows[f].to}
                        [] result = "updated_existing" -> clashes \ {flows[f].to}
                        [] OTHER -> clashes
        /\ homes' = IF result = "created"
                    THEN homes \cup {[mac |-> m, target |-> flows[f].to] : m \in flows[f].about.macs}
                    ELSE homes
        /\ calm' = [x \in DOMAIN calm \cup {k} |->
                      IF x # k THEN calm[x]
                      ELSE IF result = "prompted" THEN now
                      ELSE IF result = "recently_discovered" /\ k \in DOMAIN calm THEN calm[k]
                      ELSE Never]
  /\ UNCHANGED <<now, events>>

\* The user closes the card, or goes through with the setup.
Answers(f) ==
  /\ flows[f].pc = "card"
  /\ IF flows[f].about = Absent THEN Ending(f)
     ELSE Ending(f) \/ (~Used(flows[f].to) /\ Recording(f, "created"))
  /\ UNCHANGED clashes /\ Still

\* _available_zeroconf_choices: cards in progress and cached announcements,
\* without what is configured.
Chooses(f) ==
  /\ ~Begun(f)
  /\ \E t \in CachedChoices \cup {flows[g].ctx : g \in {x \in Callers : flows[x].about # Absent}} :
        /\ t # Absent /\ ~Used(t)
        /\ LET cards == {g \in Callers : flows[g].about # Absent /\ flows[g].ctx = t}
           IN \E from \in IF cards = {} THEN {Absent} ELSE cards :
                Prepare(f, [Quiet EXCEPT !.to = t, !.from = from])
  /\ Happens /\ Calmly

-----------------------------------------------------------------------------
\* Beside the flows.

\* async_record_scan_discoveries
Scan(found) ==
  /\ found # {} /\ Cardinality(found) <= MaxRecords
  /\ LET rs == [k \in DOMAIN records \cup {Found(s).key : s \in found} |->
                  IF \E s \in found : Found(s).key = k
                  THEN Update(Found(CHOOSE s \in found : Found(s).key = k), records, "scan_found", FALSE)
                  ELSE records[k]]
     IN records' \in Pruned(rs)
  /\ Happens
  /\ UNCHANGED <<now, homes, flows, clashes, calm>>

\* Home Assistant stops and saves the records, or has none that it can read.
Restart ==
  /\ Happens
  /\ \/ UNCHANGED <<records, calm>>
     \/ records' = <<>> /\ calm' = <<>>
  /\ flows' = [f \in Callers |-> Quiet] /\ clashes' = {}
  /\ UNCHANGED <<now, homes>>

Passes ==
  /\ now < MaxTime /\ now' = now + 1
  /\ UNCHANGED <<records, homes, flows, clashes, events, calm>>

PromptsNext ==
  \/ \E f \in Callers :
        \/ \E a \in Announced : Arrives(f, a)
        \/ Check(f) \/ Connects(f) \/ Reaches(f) \/ Record(f) \/ Answers(f) \/ Chooses(f)
  \/ \E found \in SUBSET Scanned : Scan(found)
  \/ Restart \/ Passes

PromptsSpec == PromptsInit /\ [][PromptsNext]_promptVars

-----------------------------------------------------------------------------
\* Within the window, a second card for an identity is shown only if another
\* result was recorded for it since the first, if there was no entry at all
\* when its announcement came, or if both announcements had passed the check
\* before either card was recorded.  Neither other announcements and scans that
\* push records out nor a restart after the record was saved bring a second one
\* (discovery_state.py:31, 282, 656), while there is room for all identities
\* with a card.
CardsAreSpaced ==
  [][\A f \in Callers :
       /\ flows[f].pc = "record" /\ flows[f].result = "prompted" /\ flows'[f].pc = "card"
       /\ Key(f) \in DOMAIN calm /\ calm[Key(f)] # Never
       => now - calm[Key(f)] >= Window \/ flows[f].excused]_promptVars

=============================================================================
