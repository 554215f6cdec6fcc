------------------------- MODULE AppCommandsProofs -------------------------
(***************************************************************************)
(* Proofs about AppCommands, for any callers, commands, lists and bounds:  *)
(* what must not be repeated happens once, no toggle undoes what it is to  *)
(* do, and a success is true.                                              *)
(***************************************************************************)
EXTENDS AppCommands, TLAPS

Running == {"ready", "pause", "list", "toggled", "refresh", "search", "memory", "assigned"}

\* Before its write a command has nothing on its way under its name.
Unsent == {"idle", "lock", "ready", "pause", "list", "memory"}

Toggles(c) == call[c].op \in {"add", "remove", "toggle"}

\* An add or a remove, and the favourites it asks for.
Chooses(c) == call[c].op \in {"add", "remove"}
AsAsked(c, set) == (call[c].item \in set) <=> (call[c].op = "add")

Memory(c) == call[c].op \in {"set", "delete"}

(***************************************************************************)
(* A command that runs holds the lock, and waits for what its kind waits.  *)
(***************************************************************************)
StepInv ==
    /\ \A c \in Callers : pc[c] \in Running => lock = c
    /\ \A c \in Callers :
          /\ pc[c] = "list" => Chooses(c)
          /\ pc[c] \in {"toggled", "refresh"} => Toggles(c)
          /\ pc[c] = "search" => call[c].op = "search"
          /\ pc[c] \in {"memory", "assigned"} => Memory(c)
          /\ pc[c] = "pause" => call[c].op # "toggle"

(***************************************************************************)
(* What is on its way under the name of a caller is the one write, or      *)
(* search, of its command.                                                 *)
(***************************************************************************)
PacketFits(p) ==
    /\ p.cmd \in {"favorites", "memories"} <=> p.by = None
    /\ p.by # None =>
          LET c == p.by
          IN  /\ pc[c] \notin Unsent
              /\ p.cmd = "toggle" => Toggles(c) /\ p.item = call[c].item
              /\ p.cmd = "assign" => /\ Memory(c) /\ p.temp = call[c].temp
                                     /\ p.item = call[c].item
                                        \/ (p.item = None /\ call[c].op = "set")
              /\ p.cmd = "results" => call[c].op = "search" /\ p.item = call[c].item

PacketInv ==
    /\ \A k \in DOMAIN outbox : PacketFits(outbox[k])
    /\ \A k, l \in DOMAIN outbox : outbox[k].by = outbox[l].by /\ outbox[k].by # None => k = l

\* What was heard is known.
HeardInv == "memories" \in heard => known.memories # None

(***************************************************************************)
(* A raw toggle is taken at most once, and no more when it is under way.   *)
(***************************************************************************)
RawToggleInv ==
    \A c \in Callers :
        /\ pc[c] = "idle" => toggles[c] = 0
        /\ pc[c] # "idle" /\ call[c].op = "toggle" =>
              /\ toggles[c] <= 1
              /\ pc[c] \in {"lock", "ready"} => toggles[c] = 0
              /\ \A k \in DOMAIN outbox : outbox[k].by = c => toggles[c] = 0

NoOther(cmd, c) == \A k \in DOMAIN outbox : outbox[k].cmd = cmd => outbox[k].by = c

(***************************************************************************)
(* What a favourite command that is not misled knows, and what its toggle  *)
(* will find: the lists on their way are those of the device until it      *)
(* toggles, and then show what is asked for only when it is so.            *)
(***************************************************************************)
FavoritesAre(c, kind, value) ==
    kind = "favorites" =>
        IF pc[c] = "list" THEN value = device.favorites
        ELSE AsAsked(c, value) => AsAsked(c, device.favorites)

FavoriteInv ==
    \A c \in Callers \ misled : pc[c] \in {"list", "toggled", "refresh"} /\ Chooses(c) =>
        /\ NoOther("toggle", c)
        /\ \A k \in DOMAIN inbox : FavoritesAre(c, inbox[k].kind, inbox[k].value)
        /\ "favorites" \in heard => FavoritesAre(c, "favorites", known.favorites)

ToggleInv ==
    \A k \in DOMAIN outbox :
        LET c == outbox[k].by
        IN  outbox[k].cmd = "toggle" /\ c \notin misled /\ Chooses(c) =>
                /\ ~AsAsked(c, device.favorites)
                /\ \A l \in DOMAIN outbox : l < k => outbox[l].cmd # "toggle"

(***************************************************************************)
(* The same for a memory command: the lists are those of the device until  *)
(* it writes, and then show the value written only when it is so.          *)
(***************************************************************************)
MemoriesAre(c, kind, value) ==
    kind = "memories" =>
        IF pc[c] = "memory" THEN value = device.memories
        ELSE value[call[c].item] = call[c].temp => device.memories[call[c].item] = call[c].temp

MemoryInv ==
    \A c \in Callers \ misled : pc[c] \in {"memory", "assigned"} =>
        /\ NoOther("assign", c)
        /\ \A k \in DOMAIN inbox : MemoriesAre(c, inbox[k].kind, inbox[k].value)
        /\ "memories" \in heard => MemoriesAre(c, "memories", known.memories)

(***************************************************************************)
(* What a search that is not misled hears is what it searched for.         *)
(***************************************************************************)
SearchInv ==
    \A c \in Callers \ misled : pc[c] = "search" =>
        /\ NoOther("results", c)
        /\ \A k \in DOMAIN inbox : inbox[k].kind = "results" => inbox[k].value = call[c].item
        /\ "results" \in heard => known.results = call[c].item

(***************************************************************************)
(* A memory created is the one that was to be set, so that no attempt      *)
(* after it creates another one.                                           *)
(***************************************************************************)
Creates(k, c) == outbox[k].cmd = "assign" /\ outbox[k].by = c /\ outbox[k].item = None

CreateInv ==
    \A c \in Callers \ blind :
        /\ created[c] <= 1
        /\ pc[c] \in {"idle", "lock"} => created[c] = 0
        /\ \A k \in DOMAIN outbox : Creates(k, c) => created[c] = 0
        /\ pc[c] \in Running /\ created[c] # 0 =>
              device.memories[call[c].item] # None /\ NoOther("assign", c) /\ call[c].op = "set"
        /\ \A k \in DOMAIN outbox : Creates(k, c) /\ pc[c] \in Running =>
              FirstFree(device.memories, call[c].item) /\ NoOther("assign", c)

AppInv ==
    /\ AppTypeOK /\ StepInv /\ PacketInv /\ HeardInv /\ RawToggleInv
    /\ FavoriteInv /\ ToggleInv /\ MemoryInv /\ SearchInv /\ CreateInv


USE AppAssumption

-----------------------------------------------------------------------------
\* What commands, packets and reports are made of.

LEMMA CommandTypes ==
    ASSUME NEW x \in Commands
    PROVE  /\ x.op \in {"add", "remove", "toggle", "search", "set", "delete"}
           /\ x.op \in {"add", "remove", "toggle", "search"} => x.item \in Places /\ x.temp = None
           /\ x.op = "set" => x.item \in Slots /\ x.temp \in Temps
           /\ x.op = "delete" => x.item \in Slots /\ x.temp = None
<1>1. x \in AllCommands
  OBVIOUS
<1> QED
  BY <1>1 DEF AllCommands

LEMMA PacketTypes ==
    /\ \A cmd \in Kinds \cup {"toggle", "assign"}, c \in Callers \cup {None},
          i \in Places \cup Slots \cup {None}, v \in Temps \cup {None} :
             Packet(cmd, c, i, v) \in Packets
    /\ GetFavorites \in Packets /\ GetMemories \in Packets
<1>1. \A cmd \in Kinds \cup {"toggle", "assign"}, c \in Callers \cup {None},
         i \in Places \cup Slots \cup {None}, v \in Temps \cup {None} :
            Packet(cmd, c, i, v) \in Packets
  BY DEF Packet, Packets
<1> QED
  BY <1>1 DEF GetFavorites, GetMemories, Kinds

\* A caller that is not idle has a command.
LEMMA Called ==
    ASSUME AppTypeOK, NEW c \in Callers, pc[c] # "idle"
    PROVE  /\ call[c] \in Commands
           /\ call[c].op \in {"add", "remove", "toggle", "search", "set", "delete"}
           /\ call[c].op \in {"add", "remove", "toggle", "search"} =>
                  call[c].item \in Places /\ call[c].temp = None
           /\ call[c].op = "set" => call[c].item \in Slots /\ call[c].temp \in Temps
           /\ call[c].op = "delete" => call[c].item \in Slots /\ call[c].temp = None
<1>1. call[c] \in Commands
  BY DEF AppTypeOK
<1> QED
  BY <1>1, CommandTypes

LEMMA FirstTypes ==
    ASSUME AppTypeOK, NEW c \in Callers, pc[c] # "idle"
    PROVE  /\ FirstPacket(c) \in Packets /\ KindOf(c) \in Kinds
           /\ FirstWait(c) \in {"list", "toggled", "search", "memory"}
<1>1. Packet("toggle", c, call[c].item, None) \in Packets
        \/ call[c].op \notin {"add", "remove", "toggle", "search"}
  BY Called, PacketTypes
<1>2. Packet("results", c, call[c].item, None) \in Packets
        \/ call[c].op \notin {"add", "remove", "toggle", "search"}
  BY Called, PacketTypes DEF Kinds
<1> QED
  BY <1>1, <1>2, PacketTypes, Called DEF FirstPacket, KindOf, FirstWait, Kinds

LEMMA MemoryPacketTypes ==
    ASSUME AppTypeOK, NEW c \in Callers, pc[c] # "idle", Memory(c)
    PROVE  <<MemoryPacket(c), GetMemories>> \in Seq(Packets)
<1>1. call[c].item \in Slots /\ call[c].temp \in Temps \cup {None}
  BY Called DEF Memory
<1>2. MemoryPacket(c) \in Packets
  BY <1>1, PacketTypes DEF MemoryPacket
<1> QED
  BY <1>2, PacketTypes

LEMMA WrittenTypes ==
    ASSUME NEW mem \in Memories, NEW p, p.temp \in Temps \cup {None}
    PROVE  Written(mem, p) \in Memories
BY DEF Written, Memories

LEMMA ReportTypes ==
    /\ \A v \in SUBSET Places : Report("favorites", v) \in Reports
    /\ \A v \in Memories : Report("memories", v) \in Reports
    /\ \A v \in Places : Report("results", v) \in Reports
BY DEF Report, Reports

LEMMA ReportKinds ==
    ASSUME NEW r \in Reports
    PROVE  /\ r.kind \in Kinds
           /\ r.kind = "favorites" => r.value \in SUBSET Places
           /\ r.kind = "memories" => r.value \in Memories
           /\ r.kind = "results" => r.value \in Places
BY DEF Reports, Kinds

-----------------------------------------------------------------------------
\* What a step of a caller comes to.

\* The command ends.
Stops(c) ==
    /\ pc[c] \in Running
    /\ pc' = [pc EXCEPT ![c] = "ok"] \/ pc' = [pc EXCEPT ![c] = "failed"]
    /\ lock' = None /\ heard' = {} /\ listed' = "no" /\ ctx' = "none"
    /\ UNCHANGED <<device, known, session, outbox, inbox, call, attempt, drops,
                   toggles, created, misled, blind>>

\* The command is to be repeated in another session.
Repeats(c) ==
    /\ pc[c] \in Running /\ call[c].op # "toggle"
    /\ pc' = [pc EXCEPT ![c] = "pause"]
    /\ outbox' = <<>> /\ inbox' = <<>> /\ session' = "down"
    /\ attempt' = 2 /\ heard' = {} /\ listed' = "no" /\ ctx' = "none"
    /\ UNCHANGED <<device, known, lock, call, drops, toggles, created, misled, blind>>

\* The list shows that the toggle is needed.
Chose(c) ==
    /\ pc[c] = "list" /\ "favorites" \in heard
    /\ ~((call[c].item \in known.favorites) <=> (call[c].op = "add"))
    /\ outbox' = Append(outbox, Packet("toggle", c, call[c].item, None))
    /\ heard' = {} /\ pc' = [pc EXCEPT ![c] = "toggled"]
    /\ UNCHANGED <<device, known, session, inbox, lock, call, attempt, ctx, listed,
                   drops, toggles, created, misled, blind>>

\* A memory is written.
Saves(c) ==
    /\ pc[c] = "memory"
    /\ Known(call[c].item) # None \/ (call[c].op = "set" /\ CanCreate(call[c].item))
    /\ outbox' = outbox \o <<MemoryPacket(c), GetMemories>>
    /\ heard' = {} /\ pc' = [pc EXCEPT ![c] = "assigned"]
    /\ blind' = IF Reliable(c) THEN blind ELSE blind \cup {c}
    /\ UNCHANGED <<device, known, session, inbox, lock, call, attempt, ctx, listed,
                   drops, toggles, created, misled>>

LEMMA FailCases ==
    ASSUME AppTypeOK, NEW c \in Callers, pc[c] \in Running, Failing(c)
    PROVE  Stops(c) \/ Repeats(c)
<1>1. CASE MayRepeat /\ Retries(c)
  <2>1. attempt = 1
    BY <1>1 DEF MayRepeat, AppTypeOK
  <2> QED
    BY <1>1, <2>1 DEF Failing, FailsFrom, Disconnect, Retries, Go, Repeats, history
<1>2. CASE ~(MayRepeat /\ Retries(c))
  BY <1>2 DEF Failing, FailsFrom, End, Go, Stops, history
<1> QED
  BY <1>1, <1>2

LEMMA SucceedCases ==
    ASSUME NEW c \in Callers, pc[c] \in Running, Succeed(c)
    PROVE  Stops(c)
BY DEF Succeed, End, Go, Stops, history

LEMMA StepCases ==
    ASSUME AppTypeOK, NEW c \in Callers, CallerStep(c)
    PROVE  \/ TakeLock(c) \/ EndPause(c) \/ Start(c) \/ Refresh(c)
           \/ Chose(c) \/ Saves(c) \/ Stops(c) \/ Repeats(c)
<1>1. CASE Raises(c)
  <2>1. pc[c] \in Running /\ Failing(c)
    BY <1>1 DEF Raises, Running
  <2> QED
    BY <2>1, FailCases
<1>2. CASE ListCame(c)
  <2>1. pc[c] \in Running
    BY <1>2 DEF ListCame, Running
  <2>2. CASE Succeed(c)
    BY <2>1, <2>2, SucceedCases
  <2>3. CASE ~IsAsAsked(c, IsListed(c)) /\ SendToggle(c)
    <3>1. outbox' = Append(outbox, Packet("toggle", c, call[c].item, None))
      BY <2>3 DEF SendToggle, Send, AppTypeOK
    <3>2. ~((call[c].item \in known.favorites) <=> (call[c].op = "add"))
      BY <2>3 DEF IsAsAsked, IsListed
    <3> QED
      BY <1>2, <2>3, <3>1, <3>2 DEF SendToggle, Send, Go, Chose, ListCame, history
  <2> QED
    BY <1>2, <2>2, <2>3 DEF ListCame
<1>3. CASE ListLost(c)
  <2>1. pc[c] \in Running
    BY <1>3 DEF ListLost, Running
  <2> QED
    BY <1>3, <2>1, SucceedCases, FailCases DEF ListLost
<1>4. CASE ToggleAnswered(c)
  <2>1. pc[c] \in Running
    BY <1>4 DEF ToggleAnswered, Running
  <2> QED
    BY <1>4, <2>1, SucceedCases, FailCases DEF ToggleAnswered
<1>5. CASE SearchAnswered(c)
  <2>1. pc[c] \in Running
    BY <1>5 DEF SearchAnswered, Running
  <2> QED
    BY <1>5, <2>1, SucceedCases DEF SearchAnswered
<1>6. CASE MemoryAnswered(c)
  <2>1. pc[c] \in Running
    BY <1>6 DEF MemoryAnswered, Running
  <2> QED
    BY <1>6, <2>1, SucceedCases, FailCases DEF MemoryAnswered
<1>7. CASE WriteMemory(c)
  <2>1. pc[c] \in Running
    BY <1>7 DEF WriteMemory, Running
  <2>2. CASE Failing(c)
    BY <2>1, <2>2, FailCases
  <2>3. CASE ~Failing(c)
    BY <1>7, <2>3 DEF WriteMemory, Send, Go, Saves
  <2> QED
    BY <2>2, <2>3
<1> QED
  BY <1>1, <1>2, <1>3, <1>4, <1>5, <1>6, <1>7 DEF CallerStep

-----------------------------------------------------------------------------
\* Types.

LEMMA TypesInit == AppInit => AppTypeOK
<1> SUFFICES ASSUME AppInit PROVE AppTypeOK
  OBVIOUS
<1>1. device \in Devices /\ known \in Lists
  BY DEF AppInit, Lists
<1>2. outbox \in Seq(Packets) /\ inbox \in Seq(Reports)
  BY DEF AppInit
<1> QED
  BY <1>1, <1>2 DEF AppInit, AppTypeOK, Steps, Kinds

LEMMA CallerTypes ==
    ASSUME AppTypeOK, StepInv, NEW c \in Callers, CallerStep(c)
    PROVE  AppTypeOK'
<1> USE DEF AppTypeOK, client, history
<1>1. pc[c] # "idle"
  BY DEF CallerStep, TakeLock, EndPause, Raises, Start, Refresh, ListCame, ListLost,
         ToggleAnswered, SearchAnswered, WriteMemory, MemoryAnswered
<1>2. CASE TakeLock(c)
  BY <1>1, <1>2 DEF TakeLock, Go, Steps
<1>3. CASE EndPause(c)
  BY <1>1, <1>3 DEF EndPause, Go, Steps
<1>4. CASE Start(c)
  <2>1. Append(outbox, FirstPacket(c)) \in Seq(Packets) /\ FirstWait(c) \in Steps \ {"idle"}
    BY <1>1, FirstTypes DEF Steps
  <2>2. outbox' \in Seq(Packets) /\ pc' = [pc EXCEPT ![c] = FirstWait(c)]
    BY <1>4, <2>1 DEF Start, Go
  <2>3. misled' \subseteq Callers /\ listed' \in {"yes", "no"}
    BY <1>4 DEF Start, IsListed
  <2> QED
    BY <1>1, <1>4, <2>1, <2>2, <2>3 DEF Start
<1>5. CASE Refresh(c)
  <2>1. Append(outbox, GetFavorites) \in Seq(Packets)
    BY PacketTypes
  <2>2. outbox' \in Seq(Packets)
    BY <1>5, <2>1 DEF Refresh
  <2> QED
    BY <1>1, <1>5, <2>2 DEF Refresh, Go, Steps
<1>6. CASE Chose(c)
  <2>1. call[c].item \in Places
    BY <1>1, <1>6, Called DEF Chose, StepInv, Chooses
  <2>2. Packet("toggle", c, call[c].item, None) \in Packets
    BY <2>1, PacketTypes
  <2>3. outbox' \in Seq(Packets)
    BY <1>6, <2>2 DEF Chose
  <2> QED
    BY <1>1, <1>6, <2>3 DEF Chose, Steps
<1>7. CASE Saves(c)
  <2>1. outbox' \in Seq(Packets)
    BY <1>1, <1>7, MemoryPacketTypes DEF Saves, StepInv
  <2> QED
    BY <1>1, <1>7, <2>1 DEF Saves, Steps
<1>8. CASE Stops(c)
  BY <1>1, <1>8 DEF Stops, Steps
<1>9. CASE Repeats(c)
  <2>1. outbox' \in Seq(Packets) /\ inbox' \in Seq(Reports)
    BY <1>9 DEF Repeats
  <2> QED
    BY <1>1, <1>9, <2>1 DEF Repeats, Steps
<1> QED
  BY <1>2, <1>3, <1>4, <1>5, <1>6, <1>7, <1>8, <1>9, StepCases

LinkStep == Connect \/ EndSession \/ DeviceWrites \/ DeviceAnswers \/ Receive

LEMMA HeadFacts ==
    ASSUME NEW S, NEW s \in Seq(S), s # <<>>
    PROVE  /\ Head(s) \in S /\ Tail(s) \in Seq(S) /\ Head(s) = s[1] /\ 1 \in DOMAIN s
           /\ DOMAIN s \subseteq Nat \ {0} /\ DOMAIN Tail(s) \subseteq Nat \ {0}
           /\ \A k \in DOMAIN Tail(s) : k + 1 \in DOMAIN s /\ Tail(s)[k] = s[k + 1]
OBVIOUS

LEMMA CountTypes ==
    ASSUME NEW f \in [Callers -> Nat], NEW c \in Callers
    PROVE  [f EXCEPT ![c] = f[c] + 1] \in [Callers -> Nat]
OBVIOUS

LEMMA AppendTypes ==
    ASSUME NEW S, NEW s \in Seq(S), NEW x \in S
    PROVE  Append(s, x) \in Seq(S)
OBVIOUS

\* The device takes a packet or not.
LEMMA WriteTypes ==
    ASSUME AppTypeOK, PacketInv, DeviceWrites
    PROVE  AppTypeOK'
<1>0. /\ device \in Devices /\ outbox \in Seq(Packets) /\ inbox \in Seq(Reports)
      /\ toggles \in [Callers -> Nat] /\ created \in [Callers -> Nat]
  BY DEF AppTypeOK
<1> SUFFICES ASSUME NEW p, p = Head(outbox) PROVE AppTypeOK'
  OBVIOUS
<1>1. /\ p \in Packets /\ outbox' \in Seq(Packets) /\ p.cmd \in {"toggle", "assign"}
      /\ PacketFits(p)
  BY <1>0, HeadFacts DEF DeviceWrites, PacketInv
<1>2. /\ p.by \in Callers /\ pc[p.by] # "idle"
      /\ p.cmd = "toggle" => p.item \in Places
      /\ p.cmd = "assign" => p.temp \in Temps \cup {None}
  <2>1. p.by # None /\ p.by \in Callers \cup {None} /\ p.temp \in Temps \cup {None}
    BY <1>1 DEF PacketFits, Packets
  <2>2. p.by \in Callers /\ pc[p.by] # "idle"
    BY <1>1, <2>1 DEF PacketFits, Unsent
  <2>3. p.cmd = "toggle" => p.item \in Places
    BY <1>1, <2>1, <2>2, Called DEF PacketFits, Toggles
  <2> QED
    BY <2>1, <2>2, <2>3
<1>3. device' \in Devices
  <2>1. /\ device.favorites \in SUBSET Places /\ device.memories \in Memories
        /\ DOMAIN device = {"favorites", "memories"}
    BY <1>0 DEF Devices
  <2>2. p.cmd = "toggle" => Toggled(device.favorites, p.item) \in SUBSET Places
    BY <1>2, <2>1 DEF Toggled
  <2>3. p.cmd = "assign" => Written(device.memories, p) \in Memories
    BY <1>2, <2>1, WrittenTypes
  <2>4. \/ device' = device
        \/ p.cmd = "toggle" /\ device' = [device EXCEPT !.favorites = Toggled(device.favorites, p.item)]
        \/ p.cmd = "assign" /\ device' = [device EXCEPT !.memories = Written(device.memories, p)]
    BY <1>1 DEF DeviceWrites
  <2> QED
    BY <1>0, <2>1, <2>2, <2>3, <2>4 DEF Devices
<1>4. toggles' \in [Callers -> Nat] /\ created' \in [Callers -> Nat]
  <2>1. /\ toggles' = toggles \/ toggles' = [toggles EXCEPT ![p.by] = @ + 1]
        /\ created' = created \/ created' = [created EXCEPT ![p.by] = @ + 1]
    BY DEF DeviceWrites
  <2> QED
    <3>1. /\ [toggles EXCEPT ![p.by] = toggles[p.by] + 1] \in [Callers -> Nat]
          /\ [created EXCEPT ![p.by] = created[p.by] + 1] \in [Callers -> Nat]
      BY <1>0, <1>2, CountTypes
    <3> QED
      BY <1>0, <2>1, <3>1
<1>5. inbox' \in Seq(Reports)
  <2>1. device'.favorites \in SUBSET Places /\ device'.memories \in Memories
    BY <1>3 DEF Devices
  <2>2. /\ Report("favorites", device'["favorites"]) \in Reports
        /\ Report("memories", device'["memories"]) \in Reports
    BY <2>1, ReportTypes
  <2> QED
    <3>1. \/ inbox' = inbox
          \/ inbox' = Append(inbox, Report("favorites", device'["favorites"]))
          \/ inbox' = Append(inbox, Report("memories", device'["memories"]))
      BY <1>1 DEF DeviceWrites
    <3>2. /\ Append(inbox, Report("favorites", device'["favorites"])) \in Seq(Reports)
          /\ Append(inbox, Report("memories", device'["memories"])) \in Seq(Reports)
      BY <1>0, <2>2, AppendTypes
    <3> QED
      BY <1>0, <3>1, <3>2
<1> QED
  BY <1>1, <1>3, <1>4, <1>5 DEF DeviceWrites, AppTypeOK, client

LEMMA LinkTypes ==
    ASSUME AppTypeOK, PacketInv, LinkStep
    PROVE  AppTypeOK'
<1> USE DEF AppTypeOK, client, history
<1>1. CASE Connect
  <2>1. <<GetFavorites, GetMemories>> \in Seq(Packets) /\ <<>> \in Seq(Reports)
    BY PacketTypes
  <2> QED
    BY <1>1, <2>1 DEF Connect
<1>2. CASE EndSession
  <2>1. outbox' \in Seq(Packets) /\ inbox' \in Seq(Reports) /\ session' = "down"
    BY <1>2 DEF EndSession, Disconnect
  <2>2. drops' \in 0 .. MaxDrops /\ ctx' \in {"none", "own", "lost"}
    BY <1>2 DEF EndSession
  <2> QED
    BY <1>2, <2>1, <2>2 DEF EndSession
<1>3. CASE DeviceWrites
  BY <1>3, WriteTypes
<1>4. CASE DeviceAnswers
  <2> SUFFICES ASSUME NEW p, p = Head(outbox) PROVE AppTypeOK'
    OBVIOUS
  <2>1. p \in Packets /\ outbox' \in Seq(Packets) /\ p.cmd \in Kinds /\ PacketFits(p)
    BY <1>4, HeadFacts DEF DeviceAnswers, PacketInv
  <2>2. p.cmd = "results" => p.item \in Places
    <3>1. ASSUME p.cmd = "results" PROVE p.by \in Callers /\ pc[p.by] # "idle"
      BY <2>1, <3>1 DEF PacketFits, Packets, Unsent
    <3> QED
      BY <2>1, <3>1, Called DEF PacketFits, Packets
  <2>3. Report(p.cmd, IF p.cmd = "results" THEN p.item ELSE device[p.cmd]) \in Reports
    <3>1. device["favorites"] \in SUBSET Places /\ device["memories"] \in Memories
      BY DEF Devices
    <3> QED
      BY <2>1, <2>2, <3>1, ReportTypes DEF Kinds
  <2>4. inbox' \in Seq(Reports)
    BY <1>4, <2>3 DEF DeviceAnswers
  <2> QED
    BY <1>4, <2>1, <2>4 DEF DeviceAnswers
<1>5. CASE Receive
  <2> SUFFICES ASSUME NEW r, r = Head(inbox) PROVE AppTypeOK'
    OBVIOUS
  <2>1. r \in Reports /\ inbox' \in Seq(Reports)
    BY <1>5, HeadFacts DEF Receive
  <2>2. known' \in Lists
    BY <1>5, <2>1, ReportKinds DEF Receive, Lists, Kinds
  <2>3. heard' \subseteq Kinds
    BY <1>5, <2>1, ReportKinds DEF Receive
  <2> QED
    BY <1>5, <2>1, <2>2, <2>3 DEF Receive
<1> QED
  BY <1>1, <1>2, <1>3, <1>4, <1>5 DEF LinkStep

LEMMA CallTypes ==
    ASSUME AppTypeOK, NEW c \in Callers, NEW x \in Commands, Call(c, x)
    PROVE  AppTypeOK'
<1>1. x # None
  OBVIOUS
<1> QED
  BY <1>1 DEF AppTypeOK, Call, Go, Steps, history

-----------------------------------------------------------------------------
\* The lock and the steps of a command.

LEMMA StepInvStep ==
    ASSUME AppTypeOK, StepInv, [AppNext]_vars
    PROVE  StepInv'
<1>1. ASSUME NEW c \in Callers, NEW x \in Commands, Call(c, x) PROVE StepInv'
  <2>1. \A d \in Callers : /\ d # c => pc'[d] = pc[d] /\ call'[d] = call[d]
                           /\ d = c => pc'[d] = "lock"
    BY <1>1 DEF Call, Go, AppTypeOK
  <2>2. lock' = lock
    BY <1>1 DEF Call
  <2> QED
    BY <2>1, <2>2 DEF StepInv, Running, Chooses, Toggles, Memory
<1>2. ASSUME NEW c \in Callers, CallerStep(c) PROVE StepInv'
  <2>1. \A d \in Callers : d # c => pc'[d] = pc[d]
    <3>1. CASE TakeLock(c) \/ EndPause(c) \/ Start(c) \/ Refresh(c)
      BY <3>1 DEF TakeLock, EndPause, Start, Refresh, Go, AppTypeOK
    <3>2. CASE Chose(c) \/ Saves(c) \/ Stops(c) \/ Repeats(c)
      BY <3>2 DEF Chose, Saves, Stops, Repeats, AppTypeOK
    <3> QED
      BY <1>2, <3>1, <3>2, StepCases
  <2>2. call' = call
    <3>1. CASE TakeLock(c) \/ EndPause(c) \/ Start(c) \/ Refresh(c)
      BY <3>1 DEF TakeLock, EndPause, Start, Refresh
    <3>2. CASE Chose(c) \/ Saves(c) \/ Stops(c) \/ Repeats(c)
      BY <3>2 DEF Chose, Saves, Stops, Repeats
    <3> QED
      BY <1>2, <3>1, <3>2, StepCases
  <2>3. (\A d \in Callers : pc[d] \in Running => d = c) /\ (pc'[c] \in Running => lock' = c)
    <3>1. CASE TakeLock(c)
      BY <3>1 DEF TakeLock, StepInv, AppTypeOK
    <3>2. CASE EndPause(c) \/ Start(c) \/ Refresh(c)
      BY <3>2 DEF EndPause, Start, Refresh, StepInv, Running
    <3>3. CASE Chose(c) \/ Saves(c) \/ Repeats(c)
      BY <3>3 DEF Chose, Saves, Repeats, StepInv, Running
    <3>4. CASE Stops(c)
      BY <3>4 DEF Stops, StepInv, Running, AppTypeOK
    <3> QED
      BY <1>2, <3>1, <3>2, <3>3, <3>4, StepCases
  <2>4. /\ pc'[c] = "list" => Chooses(c)
        /\ pc'[c] \in {"toggled", "refresh"} => Toggles(c)
        /\ pc'[c] = "search" => call[c].op = "search"
        /\ pc'[c] \in {"memory", "assigned"} => Memory(c)
        /\ pc'[c] = "pause" => call[c].op # "toggle"
    <3>1. CASE TakeLock(c) \/ EndPause(c)
      BY <3>1 DEF TakeLock, EndPause, Go, AppTypeOK
    <3>2. CASE Start(c)
      <4>1. pc[c] # "idle" /\ pc'[c] = FirstWait(c)
        BY <3>2 DEF Start, Go, AppTypeOK
      <4> QED
        BY <4>1, Called DEF FirstWait, Chooses, Toggles, Memory
    <3>3. CASE Refresh(c)
      BY <3>3 DEF Refresh, Go, AppTypeOK, StepInv
    <3>4. CASE Chose(c)
      BY <3>4 DEF Chose, AppTypeOK, StepInv, Chooses, Toggles
    <3>5. CASE Saves(c)
      BY <3>5 DEF Saves, AppTypeOK, StepInv
    <3>6. CASE Stops(c) \/ Repeats(c)
      BY <3>6 DEF Stops, Repeats, AppTypeOK
    <3> QED
      BY <1>2, <3>1, <3>2, <3>3, <3>4, <3>5, <3>6, StepCases
  <2> QED
    BY <2>1, <2>2, <2>3, <2>4 DEF StepInv, Chooses, Toggles, Memory
<1>3. CASE LinkStep \/ UNCHANGED vars
  <2>1. UNCHANGED <<pc, call, lock>>
    BY <1>3 DEF LinkStep, Connect, EndSession, DeviceWrites, DeviceAnswers, Receive, vars, client
  <2> QED
    BY <2>1 DEF StepInv, Chooses, Toggles, Memory
<1> QED
  BY <1>1, <1>2, <1>3 DEF AppNext, LinkStep

\* A step of a command that runs is that of the lock's holder.
LEMMA OnlyOneRuns ==
    ASSUME AppTypeOK, StepInv, NEW c \in Callers, CallerStep(c)
    PROVE  /\ \A d \in Callers : pc[d] \in Running => d = c
           /\ \A d \in Callers : d # c => pc'[d] = pc[d] /\ pc'[d] \notin Running
           /\ call' = call
<1>1. pc[c] \in Running \/ (lock = None /\ TakeLock(c))
  BY DEF CallerStep, TakeLock, EndPause, Raises, Start, Refresh, ListCame, ListLost,
         ToggleAnswered, SearchAnswered, WriteMemory, MemoryAnswered, Running
<1>2. \A d \in Callers : pc[d] \in Running => d = c
  BY <1>1 DEF StepInv
<1>3. call' = call /\ \A d \in Callers : d # c => pc'[d] = pc[d]
  <2>1. CASE TakeLock(c) \/ EndPause(c) \/ Start(c) \/ Refresh(c)
    BY <2>1 DEF TakeLock, EndPause, Start, Refresh, Go, AppTypeOK
  <2>2. CASE Chose(c) \/ Saves(c) \/ Stops(c) \/ Repeats(c)
    BY <2>2 DEF Chose, Saves, Stops, Repeats, AppTypeOK
  <2> QED
    BY <2>1, <2>2, StepCases
<1> QED
  BY <1>2, <1>3

-----------------------------------------------------------------------------
\* What is on its way.

LEMMA AppendFacts ==
    ASSUME NEW S, NEW s \in Seq(S), NEW x
    PROVE  /\ DOMAIN Append(s, x) = DOMAIN s \cup {Len(s) + 1}
           /\ \A k \in DOMAIN s : Append(s, x)[k] = s[k] /\ k < Len(s) + 1
           /\ Append(s, x)[Len(s) + 1] = x
OBVIOUS

LEMMA AppendTwoFacts ==
    ASSUME NEW S, NEW s \in Seq(S), NEW x, NEW y, NEW n, n = Len(s)
    PROVE  /\ DOMAIN (s \o <<x, y>>) = DOMAIN s \cup {n + 1, n + 2}
           /\ \A k \in DOMAIN s : (s \o <<x, y>>)[k] = s[k] /\ k < n + 1
           /\ (s \o <<x, y>>)[n + 1] = x /\ (s \o <<x, y>>)[n + 2] = y
           /\ n \in Nat /\ \A k \in DOMAIN s : k \in Nat
OBVIOUS

\* Packets stay what they were after a step that changes no command, and no
\* caller with something on its way begins anew.
LEMMA FitsStays ==
    ASSUME call' = call, \A c \in Callers : pc'[c] \in Unsent => pc[c] \in Unsent,
           NEW p, PacketFits(p), p.by \in Callers \cup {None}
    PROVE  PacketFits(p)'
BY DEF PacketFits, Toggles, Memory

LEMMA NoneAreSent ==
    ASSUME AppTypeOK, PacketInv, NEW c \in Callers, pc[c] \in Unsent, NEW k \in DOMAIN outbox
    PROVE  outbox[k].by # c
<1>1. c # None
  OBVIOUS
<1> QED
  BY <1>1 DEF PacketInv, PacketFits

\* A packet is added under a name under which nothing is on its way.
LEMMA PacketAdded ==
    ASSUME AppTypeOK, PacketInv, call' = call,
           \A c \in Callers : pc'[c] \in Unsent => pc[c] \in Unsent,
           NEW p, outbox' = Append(outbox, p), PacketFits(p)',
           p.by # None => \A k \in DOMAIN outbox : outbox[k].by # p.by
    PROVE  PacketInv'
<1>1. /\ DOMAIN outbox' = DOMAIN outbox \cup {Len(outbox) + 1}
      /\ \A k \in DOMAIN outbox : outbox'[k] = outbox[k]
      /\ outbox'[Len(outbox) + 1] = p
  BY AppendFacts DEF AppTypeOK
<1>2. ASSUME NEW k \in DOMAIN outbox' PROVE PacketFits(outbox[k])'
  <2>1. CASE k \in DOMAIN outbox
    <3>1. outbox[k] \in Packets
      BY <2>1 DEF AppTypeOK
    <3> SUFFICES ASSUME NEW q, q = outbox'[k] PROVE PacketFits(q)'
      OBVIOUS
    <3>2. PacketFits(q) /\ q.by \in Callers \cup {None}
      BY <1>1, <2>1, <3>1 DEF PacketInv, Packets
    <3> QED
      BY <3>2, FitsStays
  <2>2. CASE k = Len(outbox) + 1
    BY <1>1, <2>2
  <2> QED
    BY <1>1, <2>1, <2>2
<1>3. \A k, l \in DOMAIN outbox' : outbox'[k].by = outbox'[l].by /\ outbox'[k].by # None => k = l
  BY <1>1 DEF PacketInv
<1> QED
  BY <1>2, <1>3 DEF PacketInv

\* Packets leave from the front.
LEMMA PacketsStay ==
    ASSUME AppTypeOK, PacketInv, call' = call,
           \A c \in Callers : pc'[c] \in Unsent => pc[c] \in Unsent,
           outbox' = outbox \/ (outbox # <<>> /\ outbox' = Tail(outbox))
    PROVE  PacketInv'
<1>1. \A k \in DOMAIN outbox' :
         \E j \in DOMAIN outbox : outbox'[k] = outbox[j] /\ (j = k \/ j = k + 1)
  <2>1. CASE outbox' = outbox
    BY <2>1
  <2>2. CASE outbox # <<>> /\ outbox' = Tail(outbox)
    BY <2>2, HeadFacts DEF AppTypeOK
  <2> QED
    BY <2>1, <2>2
<1>2. ASSUME NEW k \in DOMAIN outbox' PROVE PacketFits(outbox[k])'
  <2>1. PICK j \in DOMAIN outbox : outbox'[k] = outbox[j]
    BY <1>1, <1>2
  <2> SUFFICES ASSUME NEW q, q = outbox'[k] PROVE PacketFits(q)'
    OBVIOUS
  <2>2. outbox[j] \in Packets
    BY DEF AppTypeOK
  <2>3. PacketFits(q) /\ q.by \in Callers \cup {None}
    BY <2>1, <2>2 DEF PacketInv, Packets
  <2> QED
    BY <2>3, FitsStays
<1>3. ASSUME NEW k \in DOMAIN outbox', NEW l \in DOMAIN outbox',
             outbox'[k].by = outbox'[l].by, outbox'[k].by # None
      PROVE  k = l
  <2>1. CASE outbox' = outbox
    BY <1>3, <2>1 DEF PacketInv
  <2>2. CASE outbox # <<>> /\ outbox' = Tail(outbox)
    <3>1. /\ k + 1 \in DOMAIN outbox /\ outbox'[k] = outbox[k + 1]
          /\ l + 1 \in DOMAIN outbox /\ outbox'[l] = outbox[l + 1] /\ k \in Nat /\ l \in Nat
      BY <1>3, <2>2, HeadFacts DEF AppTypeOK
    <3>2. k + 1 = l + 1
      BY <1>3, <3>1 DEF PacketInv
    <3> QED
      BY <3>1, <3>2
  <2> QED
    BY <2>1, <2>2
<1> QED
  BY <1>2, <1>3 DEF PacketInv

LEMMA NothingSent ==
    ASSUME \/ outbox' = <<>>
           \/ \A k \in DOMAIN outbox' : PacketFits(outbox[k])' /\ outbox'[k].by = None
    PROVE  PacketInv'
BY DEF PacketInv

LEMMA GetFits ==
    /\ PacketFits(GetFavorites) /\ GetFavorites.by = None /\ GetFavorites.cmd = "favorites"
    /\ PacketFits(GetMemories) /\ GetMemories.by = None /\ GetMemories.cmd = "memories"
BY DEF PacketFits, GetFavorites, GetMemories, Packet

LEMMA PacketCaller ==
    ASSUME AppTypeOK, StepInv, PacketInv, NEW c \in Callers, CallerStep(c)
    PROVE  PacketInv'
<1>1. /\ call' = call /\ c # None
      /\ \A d \in Callers : d # c => pc'[d] = pc[d]
  BY OnlyOneRuns
<1>2. CASE TakeLock(c) \/ EndPause(c)
  <2>1. outbox' = outbox /\ pc[c] \in Unsent
    BY <1>2 DEF TakeLock, EndPause, Unsent, StepInv
  <2>2. CASE EndPause(c)
    <3>1. \A d \in Callers : pc'[d] \in Unsent => pc[d] \in Unsent \cup {"pause"}
      BY <1>1, <2>2 DEF EndPause
    <3> QED
      BY <1>1, <2>1, PacketsStay
  <2>3. CASE TakeLock(c)
    BY <1>1, <2>1, PacketsStay
  <2> QED
    BY <1>2, <2>2, <2>3
<1>3. CASE Start(c)
  <2>1. /\ pc[c] = "ready" /\ pc'[c] = FirstWait(c) /\ outbox' = Append(outbox, FirstPacket(c))
    BY <1>3 DEF Start, Go, AppTypeOK
  <2>2. \A d \in Callers : pc'[d] \in Unsent => pc[d] \in Unsent
    BY <1>1, <2>1 DEF Unsent
  <2>3. \A k \in DOMAIN outbox : outbox[k].by # c
    BY <2>1, NoneAreSent DEF Unsent
  <2> SUFFICES ASSUME NEW p, p = FirstPacket(c) PROVE PacketInv'
    OBVIOUS
  <2>4. PacketFits(p)' /\ p.by \in {None, c}
    <3>1. CASE p = GetFavorites \/ p = GetMemories
      BY <3>1, GetFits DEF PacketFits
    <3>2. CASE p = Packet("toggle", c, call[c].item, None) /\ call[c].op = "toggle"
      BY <1>1, <2>1, <3>2 DEF PacketFits, Packet, FirstWait, Toggles, Unsent
    <3>3. CASE p = Packet("results", c, call[c].item, None) /\ call[c].op = "search"
      BY <1>1, <2>1, <3>3 DEF PacketFits, Packet, FirstWait, Unsent
    <3> QED
      BY <3>1, <3>2, <3>3 DEF FirstPacket
  <2> QED
    BY <1>1, <2>1, <2>2, <2>3, <2>4, PacketAdded
<1>4. CASE Refresh(c)
  <2>1. /\ pc[c] = "toggled" /\ pc'[c] = "refresh" /\ outbox' = Append(outbox, GetFavorites)
    BY <1>4 DEF Refresh, Go, AppTypeOK
  <2>2. \A d \in Callers : pc'[d] \in Unsent => pc[d] \in Unsent
    BY <1>1, <2>1 DEF Unsent
  <2> SUFFICES ASSUME NEW p, p = GetFavorites PROVE PacketInv'
    OBVIOUS
  <2>3. PacketFits(p)' /\ p.by = None
    BY GetFits DEF PacketFits
  <2> QED
    BY <1>1, <2>1, <2>2, <2>3, PacketAdded
<1>5. CASE Chose(c)
  <2>1. /\ pc[c] = "list" /\ pc'[c] = "toggled" /\ Chooses(c)
        /\ outbox' = Append(outbox, Packet("toggle", c, call[c].item, None))
    BY <1>5 DEF Chose, AppTypeOK, StepInv
  <2>2. \A d \in Callers : pc'[d] \in Unsent => pc[d] \in Unsent
    BY <1>1, <2>1 DEF Unsent
  <2>3. \A k \in DOMAIN outbox : outbox[k].by # c
    BY <2>1, NoneAreSent DEF Unsent
  <2> SUFFICES ASSUME NEW p, p = Packet("toggle", c, call[c].item, None) PROVE PacketInv'
    OBVIOUS
  <2>4. PacketFits(p)' /\ p.by = c
    BY <1>1, <2>1 DEF PacketFits, Packet, Toggles, Chooses, Unsent
  <2> QED
    BY <1>1, <2>1, <2>2, <2>3, <2>4, PacketAdded
<1>6. CASE Saves(c)
  <2>1. /\ pc[c] = "memory" /\ pc'[c] = "assigned" /\ Memory(c)
        /\ Known(call[c].item) # None \/ call[c].op = "set"
        /\ outbox' = outbox \o <<MemoryPacket(c), GetMemories>>
    BY <1>6 DEF Saves, AppTypeOK, StepInv
  <2>2. \A d \in Callers : pc'[d] \in Unsent => pc[d] \in Unsent
    BY <1>1, <2>1 DEF Unsent
  <2>3. \A k \in DOMAIN outbox : outbox[k].by # c
    BY <2>1, NoneAreSent DEF Unsent
  <2> SUFFICES ASSUME NEW p, p = MemoryPacket(c), NEW q, q = GetMemories PROVE PacketInv'
    OBVIOUS
  <2>4. PacketFits(p)' /\ p.by = c /\ p.cmd = "assign"
    BY <1>1, <2>1 DEF PacketFits, MemoryPacket, Packet, Memory, Unsent
  <2>5. PacketFits(q)' /\ q.by = None
    BY GetFits DEF PacketFits
  <2> SUFFICES ASSUME NEW n, n = Len(outbox) PROVE PacketInv'
    OBVIOUS
  <2>6. /\ DOMAIN outbox' = DOMAIN outbox \cup {n + 1, n + 2}
        /\ \A k \in DOMAIN outbox : outbox'[k] = outbox[k]
        /\ outbox'[n + 1] = p /\ outbox'[n + 2] = q
    <3>1. outbox \in Seq(Packets) /\ outbox' = outbox \o <<p, q>>
      BY <2>1 DEF AppTypeOK
    <3> QED
      BY <3>1, AppendTwoFacts
  <2>7. ASSUME NEW k \in DOMAIN outbox' PROVE PacketFits(outbox[k])'
    <3> SUFFICES ASSUME NEW r, r = outbox'[k] PROVE PacketFits(r)'
      OBVIOUS
    <3>1. CASE k \in DOMAIN outbox
      <4>1. outbox[k] \in Packets /\ r = outbox[k]
        BY <2>6, <3>1 DEF AppTypeOK
      <4>2. PacketFits(r) /\ r.by \in Callers \cup {None}
        BY <3>1, <4>1 DEF PacketInv, Packets
      <4> QED
        BY <1>1, <2>2, <4>2, FitsStays
    <3>2. CASE r = p \/ r = q
      BY <2>4, <2>5, <3>2
    <3> QED
      BY <2>6, <2>7, <3>1, <3>2
  <2>8. \A k, l \in DOMAIN outbox' : outbox'[k].by = outbox'[l].by /\ outbox'[k].by # None => k = l
    BY <2>3, <2>4, <2>5, <2>6 DEF PacketInv
  <2> QED
    BY <2>7, <2>8 DEF PacketInv
<1>7. CASE Stops(c)
  <2>1. outbox' = outbox /\ \A d \in Callers : pc'[d] \in Unsent => pc[d] \in Unsent
    BY <1>1, <1>7 DEF Stops, Unsent, AppTypeOK
  <2> QED
    BY <1>1, <2>1, PacketsStay
<1>8. CASE Repeats(c)
  BY <1>8, NothingSent DEF Repeats
<1> QED
  BY <1>2, <1>3, <1>4, <1>5, <1>6, <1>7, <1>8, StepCases

LEMMA PacketStep ==
    ASSUME AppTypeOK, StepInv, PacketInv, [AppNext]_vars
    PROVE  PacketInv'
<1>1. ASSUME NEW c \in Callers, NEW x \in Commands, Call(c, x) PROVE PacketInv'
  <2>1. /\ outbox' = outbox /\ pc[c] = "idle" /\ pc'[c] = "lock"
        /\ \A d \in Callers : d # c => pc'[d] = pc[d] /\ call'[d] = call[d]
    BY <1>1 DEF Call, Go, AppTypeOK
  <2>2. \A k \in DOMAIN outbox : outbox[k].by # c /\ outbox[k].by \in Callers \cup {None}
    <3>1. \A k \in DOMAIN outbox : outbox[k] \in Packets
      BY DEF AppTypeOK
    <3> QED
      BY <2>1, <3>1, NoneAreSent DEF Unsent, Packets
  <2>3. ASSUME NEW k \in DOMAIN outbox' PROVE PacketFits(outbox[k])'
    <3> SUFFICES ASSUME NEW p, p = outbox[k] PROVE PacketFits(p)'
      BY <2>1
    <3> QED
      BY <2>1, <2>2, <2>3 DEF PacketInv, PacketFits, Toggles, Memory
  <2> QED
    BY <2>1, <2>3 DEF PacketInv
<1>2. ASSUME NEW c \in Callers, CallerStep(c) PROVE PacketInv'
  BY <1>2, PacketCaller
<1>3. CASE Connect
  <2>1. outbox' = <<GetFavorites, GetMemories>>
    BY <1>3 DEF Connect
  <2>2. ASSUME NEW k \in DOMAIN outbox' PROVE PacketFits(outbox[k])' /\ outbox'[k].by = None
    <3> SUFFICES ASSUME NEW p, p = outbox'[k] PROVE PacketFits(p)' /\ p.by = None
      OBVIOUS
    <3>1. p = GetFavorites \/ p = GetMemories
      BY <2>1
    <3> QED
      BY <3>1, GetFits DEF PacketFits
  <2> QED
    BY <2>2, NothingSent
<1>4. CASE EndSession
  BY <1>4, NothingSent DEF EndSession, Disconnect
<1>5. CASE DeviceWrites \/ DeviceAnswers \/ Receive \/ UNCHANGED vars
  <2>1. UNCHANGED <<pc, call>> /\ (outbox' = outbox \/ (outbox # <<>> /\ outbox' = Tail(outbox)))
    BY <1>5 DEF DeviceWrites, DeviceAnswers, Receive, vars, client
  <2> QED
    BY <2>1, PacketsStay
<1> QED
  BY <1>1, <1>2, <1>3, <1>4, <1>5 DEF AppNext

LEMMA HeardStep ==
    ASSUME AppTypeOK, StepInv, HeardInv, [AppNext]_vars
    PROVE  HeardInv'
<1>1. ASSUME NEW c \in Callers, CallerStep(c) PROVE HeardInv'
  <2>1. CASE TakeLock(c) \/ EndPause(c) \/ Start(c) \/ Refresh(c)
    BY <2>1 DEF TakeLock, EndPause, Start, Refresh, HeardInv
  <2>2. CASE Chose(c) \/ Saves(c) \/ Stops(c) \/ Repeats(c)
    BY <2>2 DEF Chose, Saves, Stops, Repeats, HeardInv
  <2> QED
    BY <1>1, <2>1, <2>2, StepCases
<1>2. CASE Receive
  <2> SUFFICES ASSUME NEW r, r = Head(inbox) PROVE HeardInv'
    OBVIOUS
  <2>1. r \in Reports
    BY <1>2, HeadFacts DEF Receive, AppTypeOK
  <2>2. r.kind = "memories" => r.value # None
    BY <2>1, ReportKinds
  <2>3. known \in Lists /\ known' = [known EXCEPT ![r.kind] = r.value] /\ heard' = heard \cup {r.kind}
    BY <1>2 DEF Receive, AppTypeOK
  <2> QED
    BY <2>2, <2>3 DEF HeardInv, Lists
<1>3. CASE \/ Connect \/ EndSession \/ DeviceWrites \/ DeviceAnswers \/ UNCHANGED vars
           \/ \E c \in Callers, x \in Commands : Call(c, x)
  BY <1>3 DEF Connect, EndSession, DeviceWrites, DeviceAnswers, vars, Call, client, HeardInv
<1> QED
  BY <1>1, <1>2, <1>3 DEF AppNext

-----------------------------------------------------------------------------
\* What a step adds to what is on its way, and what it leaves there.

Asks(p) == p.by = None /\ p.cmd \in {"favorites", "memories"}

\* A caller adds requests and its own write, behind what is there.
Added(c, k) ==
    /\ \A l \in DOMAIN outbox : l < k
    /\ \/ Asks(outbox'[k])
       \/ Start(c) /\ call[c].op \in {"toggle", "search"} /\ outbox'[k] = FirstPacket(c)
       \/ Chose(c) /\ outbox'[k] = Packet("toggle", c, call[c].item, None)
       \/ Saves(c) /\ outbox'[k] = MemoryPacket(c)

LEMMA CallerSends ==
    ASSUME AppTypeOK, NEW c \in Callers, CallerStep(c), NEW k \in DOMAIN outbox'
    PROVE  (k \in DOMAIN outbox /\ outbox'[k] = outbox[k]) \/ Added(c, k)
<1>0. outbox \in Seq(Packets)
  BY DEF AppTypeOK
<1>1. Asks(GetFavorites) /\ Asks(GetMemories)
  BY GetFits DEF Asks
<1>2. ASSUME NEW p, outbox' = Append(outbox, p)
      PROVE  \/ k \in DOMAIN outbox /\ outbox'[k] = outbox[k]
             \/ outbox'[k] = p /\ \A l \in DOMAIN outbox : l < k
  BY <1>0, <1>2, AppendFacts
<1>3. CASE TakeLock(c) \/ EndPause(c) \/ Stops(c) \/ Repeats(c)
  BY <1>3 DEF TakeLock, EndPause, Stops, Repeats
<1>4. CASE Start(c)
  <2>1. outbox' = Append(outbox, FirstPacket(c))
    BY <1>4 DEF Start
  <2>2. \/ FirstPacket(c) = GetFavorites \/ FirstPacket(c) = GetMemories
        \/ call[c].op \in {"toggle", "search"}
    BY DEF FirstPacket
  <2> QED
    BY <1>1, <1>2, <1>4, <2>1, <2>2 DEF Added
<1>5. CASE Refresh(c)
  BY <1>1, <1>2, <1>5 DEF Refresh, Added
<1>6. CASE Chose(c)
  <2>1. outbox' = Append(outbox, Packet("toggle", c, call[c].item, None))
    BY <1>6 DEF Chose
  <2> QED
    BY <1>2, <1>6, <2>1 DEF Added
<1>7. CASE Saves(c)
  <2> SUFFICES ASSUME NEW n, n = Len(outbox), NEW p, p = MemoryPacket(c), NEW q, q = GetMemories
               PROVE  (k \in DOMAIN outbox /\ outbox'[k] = outbox[k]) \/ Added(c, k)
    OBVIOUS
  <2>1. outbox' = outbox \o <<p, q>>
    BY <1>7 DEF Saves
  <2>2. /\ DOMAIN outbox' = DOMAIN outbox \cup {n + 1, n + 2}
        /\ \A l \in DOMAIN outbox : outbox'[l] = outbox[l] /\ l < n + 1 /\ l \in Nat
        /\ outbox'[n + 1] = p /\ outbox'[n + 2] = q /\ n \in Nat
    BY <1>0, <2>1, AppendTwoFacts
  <2> QED
    BY <1>1, <1>7, <2>2 DEF Added
<1> QED
  BY <1>3, <1>4, <1>5, <1>6, <1>7, StepCases

\* A step of the session or the device takes the first packet, or all.
LEMMA LinkKeeps ==
    ASSUME AppTypeOK, LinkStep, NEW k \in DOMAIN outbox'
    PROVE  \/ Asks(outbox'[k])
           \/ outbox' = outbox
           \/ /\ k \in Nat /\ k + 1 \in DOMAIN outbox /\ outbox'[k] = outbox[k + 1]
              /\ 1 \in DOMAIN outbox /\ k # 0
              /\ \A l \in DOMAIN outbox' : l + 1 \in DOMAIN outbox /\ outbox'[l] = outbox[l + 1] /\ l \in Nat
<1>0. outbox \in Seq(Packets)
  BY DEF AppTypeOK
<1>1. CASE Connect
  <2>1. outbox' = <<GetFavorites, GetMemories>>
    BY <1>1 DEF Connect
  <2>2. outbox'[k] = GetFavorites \/ outbox'[k] = GetMemories
    BY <2>1
  <2> QED
    BY <2>2, GetFits DEF Asks
<1>2. CASE EndSession
  BY <1>2 DEF EndSession, Disconnect
<1>3. CASE DeviceWrites \/ DeviceAnswers
  <2>1. outbox # <<>> /\ outbox' = Tail(outbox)
    BY <1>3 DEF DeviceWrites, DeviceAnswers
  <2> QED
    BY <1>0, <2>1, HeadFacts
<1>4. CASE Receive
  BY <1>4 DEF Receive
<1> QED
  BY <1>1, <1>2, <1>3, <1>4 DEF LinkStep

\* What the device does with a write.
Takes(p) ==
    \/ /\ p.cmd = "toggle"
       /\ device' = [device EXCEPT !.favorites = Toggled(@, p.item)]
       /\ toggles' = [toggles EXCEPT ![p.by] = @ + 1] /\ created' = created
    \/ /\ p.cmd = "assign"
       /\ device' = [device EXCEPT !.memories = Written(@, p)]
       /\ toggles' = toggles
       /\ created' = IF p.item = None THEN [created EXCEPT ![p.by] = @ + 1] ELSE created

LEMMA DeviceCases ==
    ASSUME AppTypeOK, PacketInv, LinkStep
    PROVE  \/ UNCHANGED <<device, toggles, created>>
           \/ /\ outbox # <<>> /\ outbox' = Tail(outbox) /\ 1 \in DOMAIN outbox
              /\ outbox[1] \in Packets /\ outbox[1].by \in Callers /\ PacketFits(outbox[1])
              /\ Takes(outbox[1])
              /\ \A k \in DOMAIN outbox' : outbox'[k].by # outbox[1].by
<1>0. outbox \in Seq(Packets)
  BY DEF AppTypeOK
<1>1. CASE DeviceWrites
  <2>1. /\ outbox # <<>> /\ outbox' = Tail(outbox) /\ 1 \in DOMAIN outbox /\ outbox[1] = Head(outbox)
        /\ outbox[1].cmd \in {"toggle", "assign"} /\ outbox[1] \in Packets
        /\ \A k \in DOMAIN outbox' : k + 1 \in DOMAIN outbox /\ outbox'[k] = outbox[k + 1] /\ k \in Nat \ {0}
    BY <1>0, <1>1, HeadFacts DEF DeviceWrites
  <2>2. PacketFits(outbox[1]) /\ outbox[1].by \in Callers
    BY <2>1 DEF PacketInv, PacketFits, Packets
  <2>3. \A k \in DOMAIN outbox' : outbox'[k].by # outbox[1].by
    <3> SUFFICES ASSUME NEW k \in DOMAIN outbox', outbox'[k].by = outbox[1].by PROVE FALSE
      OBVIOUS
    <3>1. k + 1 = 1
      BY <2>1, <2>2 DEF PacketInv
    <3> QED
      BY <2>1, <3>1
  <2>4. UNCHANGED <<device, toggles, created>> \/ Takes(outbox[1])
    BY <1>1, <2>1 DEF DeviceWrites, Takes
  <2> QED
    BY <2>1, <2>2, <2>3, <2>4
<1>2. CASE ~DeviceWrites
  BY <1>2 DEF LinkStep, Connect, EndSession, DeviceAnswers, Receive, client, history
<1> QED
  BY <1>1, <1>2

\* A list on its way was there, or is that of the device.
LEMMA LinkReports ==
    ASSUME AppTypeOK, LinkStep, NEW k \in DOMAIN inbox'
    PROVE  \/ \E j \in DOMAIN inbox : inbox'[k] = inbox[j]
           \/ inbox'[k].kind = "favorites" /\ inbox'[k].value = device'.favorites
           \/ inbox'[k].kind = "memories" /\ inbox'[k].value = device'.memories
           \/ /\ inbox'[k].kind = "results"
              /\ \E j \in DOMAIN outbox : outbox[j].cmd = "results" /\ inbox'[k].value = outbox[j].item
<1>0. outbox \in Seq(Packets) /\ inbox \in Seq(Reports)
  BY DEF AppTypeOK
<1>1. ASSUME NEW r, inbox' = inbox \/ inbox' = Append(inbox, r)
      PROVE  (\E j \in DOMAIN inbox : inbox'[k] = inbox[j]) \/ inbox'[k] = r
  BY <1>0, <1>1, AppendFacts
<1>2. CASE Connect \/ EndSession
  BY <1>2 DEF Connect, EndSession, Disconnect
<1>3. CASE DeviceWrites
  <2>1. \/ inbox' = inbox
        \/ inbox' = Append(inbox, Report("favorites", device'["favorites"]))
        \/ inbox' = Append(inbox, Report("memories", device'["memories"]))
    BY <1>3 DEF DeviceWrites
  <2> QED
    BY <1>1, <2>1 DEF Report
<1>4. CASE DeviceAnswers
  <2>1. /\ outbox[1] = Head(outbox) /\ 1 \in DOMAIN outbox /\ device' = device
        /\ Head(outbox).cmd \in Kinds
    BY <1>0, <1>4, HeadFacts DEF DeviceAnswers
  <2>2. inbox' = Append(inbox, Report(Head(outbox).cmd,
                     IF Head(outbox).cmd = "results" THEN Head(outbox).item
                     ELSE device[Head(outbox).cmd]))
    BY <1>4 DEF DeviceAnswers
  <2> QED
    BY <1>1, <2>1, <2>2 DEF Report, Kinds
<1>5. CASE Receive
  <2>1. inbox # <<>> /\ inbox' = Tail(inbox)
    BY <1>5 DEF Receive
  <2> QED
    BY <1>0, <2>1, HeadFacts
<1> QED
  BY <1>2, <1>3, <1>4, <1>5 DEF LinkStep

\* What was heard was heard before, or was on its way.
LEMMA LinkHears ==
    ASSUME AppTypeOK, LinkStep, NEW kind \in Kinds, kind \in heard'
    PROVE  \/ kind \in heard /\ known'[kind] = known[kind]
           \/ \E j \in DOMAIN inbox : inbox[j].kind = kind /\ known'[kind] = inbox[j].value
<1>1. CASE Receive
  <2> SUFFICES ASSUME NEW r, r = Head(inbox)
               PROVE  \/ kind \in heard /\ known'[kind] = known[kind]
                      \/ \E j \in DOMAIN inbox : inbox[j].kind = kind /\ known'[kind] = inbox[j].value
    OBVIOUS
  <2>1. r = inbox[1] /\ 1 \in DOMAIN inbox /\ r.kind \in Kinds
    BY <1>1, HeadFacts, ReportKinds DEF Receive, AppTypeOK
  <2>2. /\ known' = [known EXCEPT ![r.kind] = r.value] /\ heard' = heard \cup {r.kind}
        /\ DOMAIN known = Kinds
    BY <1>1 DEF Receive, AppTypeOK, Lists, Kinds
  <2>3. CASE r.kind = kind
    BY <2>1, <2>2, <2>3
  <2>4. CASE r.kind # kind
    BY <2>1, <2>2, <2>4
  <2> QED
    BY <2>3, <2>4
<1>2. CASE ~Receive
  BY <1>2 DEF LinkStep, Connect, EndSession, DeviceWrites, DeviceAnswers, client
<1> QED
  BY <1>1, <1>2

-----------------------------------------------------------------------------
\* What the steps leave alone.

LEMMA CallLeaves ==
    ASSUME AppTypeOK, NEW c \in Callers, NEW x \in Commands, Call(c, x)
    PROVE  /\ UNCHANGED <<device, known, inbox, outbox, lock, heard, toggles, created, misled, blind>>
           /\ pc[c] = "idle" /\ pc'[c] = "lock"
           /\ \A d \in Callers : d # c => pc'[d] = pc[d] /\ call'[d] = call[d]
BY DEF Call, Go, AppTypeOK, history

LEMMA LinkLeaves ==
    ASSUME LinkStep
    PROVE  UNCHANGED <<pc, call, lock, misled, blind>>
BY DEF LinkStep, Connect, EndSession, DeviceWrites, DeviceAnswers, Receive, client, history

LEMMA CallerLeaves ==
    ASSUME AppTypeOK, NEW c \in Callers, CallerStep(c)
    PROVE  /\ UNCHANGED <<device, known, toggles, created>>
           /\ inbox' = inbox \/ inbox' = <<>>
           /\ heard' = heard \/ heard' = {}
           /\ misled' = misled \/ Start(c)
           /\ blind' = blind \/ Saves(c)
           /\ pc[c] # "idle" /\ pc'[c] \notin {"idle", "lock"}
           /\ pc'[c] = "ready" => pc[c] \in {"lock", "pause"}
<1>1. CASE TakeLock(c)
  BY <1>1 DEF TakeLock, Go, AppTypeOK, history
<1>2. CASE EndPause(c)
  BY <1>2 DEF EndPause, Go, AppTypeOK, history
<1>3. CASE Start(c)
  <2>1. pc[c] = "ready" /\ pc'[c] = FirstWait(c)
    BY <1>3 DEF Start, Go, AppTypeOK
  <2> QED
    BY <1>3, <2>1 DEF Start, FirstWait
<1>4. CASE Refresh(c)
  BY <1>4 DEF Refresh, Go, AppTypeOK, history
<1>5. CASE Chose(c) \/ Saves(c)
  BY <1>5 DEF Chose, Saves, AppTypeOK
<1>6. CASE Stops(c) \/ Repeats(c)
  BY <1>6 DEF Stops, Repeats, AppTypeOK, Running
<1> QED
  BY <1>1, <1>2, <1>3, <1>4, <1>5, <1>6, StepCases

-----------------------------------------------------------------------------
\* Raw toggles.

LEMMA RawToggleStep ==
    ASSUME AppTypeOK, StepInv, PacketInv, RawToggleInv, [AppNext]_vars
    PROVE  RawToggleInv'
<1>1. ASSUME NEW c \in Callers, NEW x \in Commands, Call(c, x) PROVE RawToggleInv'
  <2>1. toggles[c] = 0
    BY <1>1, CallLeaves DEF RawToggleInv
  <2> QED
    BY <1>1, <2>1, CallLeaves DEF RawToggleInv
<1>2. ASSUME NEW c \in Callers, CallerStep(c) PROVE RawToggleInv'
  <2> SUFFICES ASSUME NEW d \in Callers
               PROVE  /\ pc'[d] = "idle" => toggles'[d] = 0
                      /\ pc'[d] # "idle" /\ call'[d].op = "toggle" =>
                            /\ toggles'[d] <= 1
                            /\ pc'[d] \in {"lock", "ready"} => toggles'[d] = 0
                            /\ \A k \in DOMAIN outbox' : outbox'[k].by = d => toggles'[d] = 0
    BY DEF RawToggleInv
  <2>1. toggles' = toggles /\ call' = call /\ (d # c => pc'[d] = pc[d])
    BY <1>2, CallerLeaves, OnlyOneRuns
  <2>2. d = c => pc'[d] # "idle" /\ pc[d] # "idle"
    BY <1>2, CallerLeaves
  <2>3. ASSUME call[d].op = "toggle", pc'[d] \in {"lock", "ready"}, d = c PROVE toggles[d] = 0
    <3>1. pc[d] \in {"lock", "pause"}
      BY <1>2, <2>3, CallerLeaves
    <3>2. pc[d] = "lock"
      BY <2>3, <3>1 DEF StepInv
    <3> QED
      BY <2>3, <3>2 DEF RawToggleInv
  <2>4. ASSUME call[d].op = "toggle", pc[d] # "idle", NEW k \in DOMAIN outbox', outbox'[k].by = d
        PROVE  toggles[d] = 0
    <3>1. CASE k \in DOMAIN outbox /\ outbox'[k] = outbox[k]
      BY <2>4, <3>1 DEF RawToggleInv
    <3>2. CASE Asks(outbox'[k])
      BY <2>4, <3>2 DEF Asks
    <3>3. CASE Start(c) /\ outbox'[k] = FirstPacket(c)
      <4>1. d = c
        BY <2>4, <3>3 DEF FirstPacket, Packet, GetFavorites, GetMemories
      <4> QED
        BY <2>4, <3>3, <4>1 DEF Start, RawToggleInv
    <3>4. CASE Chose(c) /\ outbox'[k] = Packet("toggle", c, call[c].item, None)
      BY <2>4, <3>4 DEF Chose, StepInv, Chooses, Packet
    <3>5. CASE Saves(c) /\ outbox'[k] = MemoryPacket(c)
      BY <2>4, <3>5 DEF Saves, StepInv, Memory, MemoryPacket, Packet
    <3> QED
      BY <1>2, <3>1, <3>2, <3>3, <3>4, <3>5, CallerSends DEF Added
  <2>5. CASE d # c
    BY <2>1, <2>4, <2>5 DEF RawToggleInv
  <2>6. CASE d = c
    BY <2>1, <2>2, <2>3, <2>4, <2>6 DEF RawToggleInv
  <2> QED
    BY <2>5, <2>6
<1>3. CASE LinkStep
  <2> SUFFICES ASSUME NEW d \in Callers
               PROVE  /\ pc[d] = "idle" => toggles'[d] = 0
                      /\ pc[d] # "idle" /\ call[d].op = "toggle" =>
                            /\ toggles'[d] <= 1
                            /\ pc[d] \in {"lock", "ready"} => toggles'[d] = 0
                            /\ \A k \in DOMAIN outbox' : outbox'[k].by = d => toggles'[d] = 0
    BY <1>3, LinkLeaves DEF RawToggleInv
  <2>1. ASSUME NEW k \in DOMAIN outbox', outbox'[k].by = d
        PROVE  \E j \in DOMAIN outbox : outbox[j].by = d
    <3>1. ~Asks(outbox'[k])
      BY <2>1 DEF Asks
    <3> QED
      BY <1>3, <2>1, <3>1, LinkKeeps
  <2>2. CASE toggles'[d] = toggles[d]
    BY <2>1, <2>2 DEF RawToggleInv
  <2>3. CASE toggles'[d] # toggles[d]
    <3> SUFFICES ASSUME NEW p, p = outbox[1]
                 PROVE  /\ pc[d] = "idle" => toggles'[d] = 0
                        /\ pc[d] # "idle" /\ call[d].op = "toggle" =>
                              /\ toggles'[d] <= 1
                              /\ pc[d] \in {"lock", "ready"} => toggles'[d] = 0
                              /\ \A k \in DOMAIN outbox' : outbox'[k].by = d => toggles'[d] = 0
      OBVIOUS
    <3>1. /\ 1 \in DOMAIN outbox /\ PacketFits(p) /\ Takes(p) /\ p.by \in Callers
          /\ \A k \in DOMAIN outbox' : outbox'[k].by # p.by
      BY <1>3, <2>3, DeviceCases
    <3>2. p.by = d /\ toggles'[d] = toggles[d] + 1
      BY <2>3, <3>1 DEF Takes, AppTypeOK
    <3>3. pc[d] \notin Unsent
      BY <3>1, <3>2 DEF PacketFits
    <3>4. call[d].op = "toggle" => toggles[d] = 0
      BY <3>1, <3>2, <3>3 DEF RawToggleInv, Unsent
    <3> QED
      BY <3>1, <3>2, <3>3, <3>4 DEF Unsent
  <2> QED
    BY <2>2, <2>3
<1>4. CASE UNCHANGED vars
  BY <1>4 DEF vars, client, history, RawToggleInv
<1> QED
  BY <1>1, <1>2, <1>3, <1>4 DEF AppNext, LinkStep

-----------------------------------------------------------------------------
\* Favourites.

\* Toggling what is not as asked makes it so.
LEMMA ToggledIsAsAsked ==
    ASSUME NEW c, NEW set, ~AsAsked(c, set)
    PROVE  AsAsked(c, Toggled(set, call[c].item))
BY DEF AsAsked, Toggled

\* What is on its way of a kind after a step of another part was there before.
LEMMA LinkNoOther ==
    ASSUME AppTypeOK, LinkStep, NEW c \in Callers, NEW cmd \in {"toggle", "assign", "results"},
           NoOther(cmd, c)
    PROVE  NoOther(cmd, c)'
<1> SUFFICES ASSUME NEW k \in DOMAIN outbox', outbox'[k].cmd = cmd PROVE outbox'[k].by = c
  BY DEF NoOther
<1>1. ~Asks(outbox'[k])
  BY DEF Asks
<1> QED
  BY <1>1, LinkKeeps DEF NoOther

\* The device takes a toggle from the caller only that it is asked by.
LEMMA FavoritesTaken ==
    ASSUME AppTypeOK, PacketInv, ToggleInv, LinkStep, NEW c \in Callers, c \notin misled,
           Chooses(c), NoOther("toggle", c), device'.favorites # device.favorites
    PROVE  pc[c] \notin Unsent /\ AsAsked(c, device'.favorites)
<1> SUFFICES ASSUME NEW p, p = outbox[1]
             PROVE  pc[c] \notin Unsent /\ AsAsked(c, device'.favorites)
  OBVIOUS
<1>1. 1 \in DOMAIN outbox /\ PacketFits(p) /\ Takes(p) /\ p.by \in Callers
  BY DeviceCases
<1>2. p.cmd = "toggle" /\ device'.favorites = Toggled(device.favorites, p.item)
  BY <1>1 DEF Takes, AppTypeOK, Devices
<1>3. p.by = c
  BY <1>1, <1>2 DEF NoOther
<1>4. pc[c] \notin Unsent /\ p.item = call[c].item
  BY <1>1, <1>2, <1>3 DEF PacketFits
<1>5. ~AsAsked(c, device.favorites)
  BY <1>1, <1>2, <1>3 DEF ToggleInv
<1> QED
  BY <1>2, <1>4, <1>5, ToggledIsAsAsked

LEMMA FavoriteCaller ==
    ASSUME AppTypeOK, StepInv, PacketInv, FavoriteInv, NEW d \in Callers, CallerStep(d)
    PROVE  FavoriteInv'
<1> SUFFICES ASSUME NEW c \in Callers \ misled', pc'[c] \in {"list", "toggled", "refresh"},
                    Chooses(c)'
             PROVE  /\ NoOther("toggle", c)'
                    /\ \A k \in DOMAIN inbox' : FavoritesAre(c, inbox[k].kind, inbox[k].value)'
                    /\ "favorites" \in heard' => FavoritesAre(c, "favorites", known.favorites)'
  BY DEF FavoriteInv
<1>1. c = d /\ call' = call /\ Chooses(c)
  BY OnlyOneRuns DEF Running, Chooses
<1>2. UNCHANGED <<device, known>>
  BY CallerLeaves
<1>3. CASE Start(c)
  <2>1. /\ pc'[c] = FirstWait(c) /\ heard' = {} /\ inbox' = inbox /\ pc[c] = "ready"
        /\ Settled(KindOf(c))
    BY <1>3 DEF Start, Go, AppTypeOK
  <2>2. pc'[c] = "list" /\ KindOf(c) = "favorites" /\ FirstPacket(c) = GetFavorites
    BY <1>1, <2>1 DEF FirstWait, KindOf, FirstPacket, Chooses
  <2>3. outbox' = Append(outbox, GetFavorites)
    BY <1>3, <2>2 DEF Start
  <2>4. NoOther("toggle", c)'
    <3> SUFFICES ASSUME NEW k \in DOMAIN outbox' PROVE outbox'[k].cmd # "toggle"
      BY DEF NoOther
    <3>1. \A j \in DOMAIN outbox : outbox[j].cmd # "toggle"
      BY <2>1, <2>2 DEF Settled
    <3>2. GetFavorites.cmd # "toggle"
      BY GetFits
    <3> QED
      BY <2>3, <3>1, <3>2, AppendFacts DEF AppTypeOK
  <2>5. \A k \in DOMAIN inbox' : inbox'[k].kind = "favorites" => inbox'[k].value = device.favorites
    BY <2>1, <2>2 DEF Settled
  <2> QED
    BY <1>2, <2>1, <2>2, <2>4, <2>5 DEF FavoritesAre
<1>4. ASSUME ~Start(c), pc[c] \in {"list", "toggled", "refresh"}, pc'[c] \in {"toggled", "refresh"},
             \A k \in DOMAIN outbox' :
                 outbox'[k].cmd = "toggle" => outbox'[k].by = c \/ (k \in DOMAIN outbox /\ outbox'[k] = outbox[k])
      PROVE  /\ NoOther("toggle", c)'
             /\ \A k \in DOMAIN inbox' : FavoritesAre(c, inbox[k].kind, inbox[k].value)'
             /\ "favorites" \in heard' => FavoritesAre(c, "favorites", known.favorites)'
  <2>1. c \notin misled
    BY <1>1, <1>4, CallerLeaves
  <2>2. /\ NoOther("toggle", c)
        /\ \A k \in DOMAIN inbox : FavoritesAre(c, inbox[k].kind, inbox[k].value)
        /\ "favorites" \in heard => FavoritesAre(c, "favorites", known.favorites)
    BY <1>1, <1>4, <2>1 DEF FavoriteInv
  <2>3. NoOther("toggle", c)'
    BY <1>4, <2>2 DEF NoOther
  <2>4. \A v, kind : FavoritesAre(c, kind, v) => (kind = "favorites" => (AsAsked(c, v) => AsAsked(c, device.favorites)))
    BY DEF FavoritesAre
  <2>5. inbox' = inbox \/ inbox' = <<>>
    BY <1>1, CallerLeaves
  <2>6. heard' = heard \/ heard' = {}
    BY <1>1, CallerLeaves
  <2>7. ASSUME NEW k \in DOMAIN inbox' PROVE FavoritesAre(c, inbox[k].kind, inbox[k].value)'
    <3>1. inbox' = inbox
      BY <2>5, <2>7
    <3>2. inbox'[k].kind = "favorites" => (AsAsked(c, inbox'[k].value) => AsAsked(c, device.favorites))
      BY <2>2, <2>4, <2>7, <3>1
    <3> QED
      BY <1>1, <1>2, <1>4, <3>2 DEF FavoritesAre, AsAsked
  <2>8. "favorites" \in heard' => FavoritesAre(c, "favorites", known.favorites)'
    <3>1. "favorites" \in heard' => (AsAsked(c, known.favorites) => AsAsked(c, device.favorites))
      BY <2>2, <2>4, <2>6
    <3> QED
      BY <1>1, <1>2, <1>4, <3>1 DEF FavoritesAre, AsAsked
  <2> QED
    BY <2>3, <2>7, <2>8
<1>5. CASE Refresh(c)
  <2>1. pc[c] = "toggled" /\ pc'[c] = "refresh" /\ outbox' = Append(outbox, GetFavorites)
    BY <1>5 DEF Refresh, Go, AppTypeOK
  <2>2. GetFavorites.cmd # "toggle"
    BY GetFits
  <2>3. ~Start(c)
    BY <2>1 DEF Start
  <2> QED
    BY <1>4, <2>1, <2>2, <2>3, AppendFacts DEF AppTypeOK
<1>6. CASE Chose(c)
  <2>1. /\ pc[c] = "list" /\ pc'[c] = "toggled"
        /\ outbox' = Append(outbox, Packet("toggle", c, call[c].item, None))
    BY <1>6 DEF Chose, AppTypeOK
  <2>2. Packet("toggle", c, call[c].item, None).by = c
    BY DEF Packet
  <2>3. ~Start(c)
    BY <2>1 DEF Start
  <2>4. \A k \in DOMAIN outbox' : outbox'[k].by = c \/ (k \in DOMAIN outbox /\ outbox'[k] = outbox[k])
    <3> SUFFICES ASSUME NEW p, p = Packet("toggle", c, call[c].item, None)
                 PROVE  \A k \in DOMAIN outbox' :
                            outbox'[k].by = c \/ (k \in DOMAIN outbox /\ outbox'[k] = outbox[k])
      OBVIOUS
    <3> QED
      BY <2>1, <2>2, AppendFacts DEF AppTypeOK
  <2> QED
    BY <1>4, <2>1, <2>3, <2>4
<1>7. CASE TakeLock(c) \/ EndPause(c) \/ Saves(c) \/ Stops(c) \/ Repeats(c)
  BY <1>7 DEF TakeLock, EndPause, Saves, Stops, Repeats, Go, AppTypeOK
<1> QED
  BY <1>1, <1>3, <1>5, <1>6, <1>7, StepCases

LEMMA FavoriteLink ==
    ASSUME AppTypeOK, PacketInv, FavoriteInv, ToggleInv, LinkStep
    PROVE  FavoriteInv'
<1>0. UNCHANGED <<pc, call, misled>>
  BY LinkLeaves
<1> SUFFICES ASSUME NEW c \in Callers \ misled, pc[c] \in {"list", "toggled", "refresh"}, Chooses(c)
             PROVE  /\ NoOther("toggle", c)'
                    /\ \A k \in DOMAIN inbox' : FavoritesAre(c, inbox[k].kind, inbox[k].value)'
                    /\ "favorites" \in heard' => FavoritesAre(c, "favorites", known.favorites)'
  BY <1>0 DEF FavoriteInv, Chooses
<1>1. /\ NoOther("toggle", c)
      /\ \A k \in DOMAIN inbox : FavoritesAre(c, inbox[k].kind, inbox[k].value)
      /\ "favorites" \in heard => FavoritesAre(c, "favorites", known.favorites)
  BY DEF FavoriteInv
<1>2. NoOther("toggle", c)'
  BY <1>1, LinkNoOther
<1>3. device'.favorites = device.favorites
        \/ (pc[c] # "list" /\ AsAsked(c, device'.favorites))
  BY <1>1, FavoritesTaken DEF Unsent
\* What holds of a list before holds of it after.
<1>4. ASSUME NEW kind, NEW v, FavoritesAre(c, kind, v) PROVE FavoritesAre(c, kind, v)'
  BY <1>0, <1>3, <1>4 DEF FavoritesAre, AsAsked
<1>5. ASSUME NEW k \in DOMAIN inbox' PROVE FavoritesAre(c, inbox[k].kind, inbox[k].value)'
  <2> SUFFICES ASSUME NEW kind, kind = inbox'[k].kind, NEW v, v = inbox'[k].value
               PROVE  FavoritesAre(c, kind, v)'
    OBVIOUS
  <2>1. CASE \E j \in DOMAIN inbox : inbox'[k] = inbox[j]
    BY <1>1, <1>4, <2>1
  <2>2. CASE v = device'.favorites
    BY <2>2 DEF FavoritesAre
  <2>3. CASE kind # "favorites"
    BY <2>3 DEF FavoritesAre
  <2> QED
    BY <1>5, <2>1, <2>2, <2>3, LinkReports
<1>6. ASSUME "favorites" \in heard' PROVE FavoritesAre(c, "favorites", known.favorites)'
  <2> SUFFICES ASSUME NEW v, v = known'.favorites PROVE FavoritesAre(c, "favorites", v)'
    OBVIOUS
  <2>1. \/ "favorites" \in heard /\ known'["favorites"] = known["favorites"]
        \/ \E j \in DOMAIN inbox : inbox[j].kind = "favorites" /\ known'["favorites"] = inbox[j].value
    BY <1>6, LinkHears DEF Kinds
  <2>2. FavoritesAre(c, "favorites", v)
    BY <1>1, <2>1
  <2> QED
    BY <1>4, <2>2
<1> QED
  BY <1>2, <1>5, <1>6

LEMMA ToggleCaller ==
    ASSUME AppTypeOK, StepInv, PacketInv, FavoriteInv, ToggleInv, NEW d \in Callers, CallerStep(d)
    PROVE  ToggleInv'
<1>1. call' = call /\ device' = device
  BY OnlyOneRuns, CallerLeaves
<1> SUFFICES ASSUME NEW k \in DOMAIN outbox', NEW c, c = outbox'[k].by,
                    outbox'[k].cmd = "toggle", c \notin misled', Chooses(c)
             PROVE  /\ ~AsAsked(c, device.favorites)
                    /\ \A l \in DOMAIN outbox' : l < k => outbox'[l].cmd # "toggle"
  BY <1>1 DEF ToggleInv, Chooses, AsAsked
<1>0. outbox \in Seq(Packets) /\ \A l \in DOMAIN outbox : l \in Nat
  BY DEF AppTypeOK
<1>2. CASE k \in DOMAIN outbox /\ outbox'[k] = outbox[k]
  <2>1. c \notin misled
    <3>1. CASE Start(d)
      <4>1. pc[d] \in Unsent
        BY <3>1 DEF Start, Unsent
      <4>2. c # d
        BY <1>2, <4>1, NoneAreSent
      <4> QED
        BY <3>1, <4>2 DEF Start
    <3>2. CASE ~Start(d)
      BY <3>2, CallerLeaves
    <3> QED
      BY <3>1, <3>2
  <2>2. /\ ~AsAsked(c, device.favorites)
        /\ \A l \in DOMAIN outbox : l < k => outbox[l].cmd # "toggle"
    BY <1>2, <2>1 DEF ToggleInv
  <2>3. ASSUME NEW l \in DOMAIN outbox', l < k PROVE l \in DOMAIN outbox /\ outbox'[l] = outbox[l]
    <3>1. \/ l \in DOMAIN outbox /\ outbox'[l] = outbox[l]
          \/ \A j \in DOMAIN outbox : j < l
      BY <2>3, CallerSends DEF Added
    <3>2. ~(k < l)
      <4>1. k \in Int /\ l \in Int
        <5>1. DOMAIN outbox' \subseteq Int
          BY <1>0, <3>1, CallerTypes DEF AppTypeOK
        <5> QED
          BY <5>1
      <4> QED
        BY <2>3, <4>1
    <3> QED
      BY <1>2, <3>1, <3>2
  <2> QED
    BY <2>2, <2>3
<1>3. CASE Chose(d) /\ outbox'[k] = Packet("toggle", d, call[d].item, None) /\ k \notin DOMAIN outbox
  <2> SUFFICES ASSUME NEW p, p = Packet("toggle", d, call[d].item, None)
               PROVE  /\ ~AsAsked(c, device.favorites)
                      /\ \A l \in DOMAIN outbox' : l < k => outbox'[l].cmd # "toggle"
    OBVIOUS
  <2>1. c = d
    BY <1>3 DEF Packet
  <2>2. pc[c] = "list" /\ "favorites" \in heard /\ c \notin misled /\ ~AsAsked(c, known.favorites)
    BY <1>3, <2>1 DEF Chose, AsAsked
  <2>3. NoOther("toggle", c) /\ known.favorites = device.favorites
    BY <2>1, <2>2 DEF FavoriteInv, FavoritesAre
  <2>4. \A l \in DOMAIN outbox : outbox[l].cmd # "toggle"
    BY <2>1, <2>2, <2>3, NoneAreSent DEF NoOther, Unsent
  <2>5. outbox' = Append(outbox, p)
    BY <1>3 DEF Chose
  <2>6. \A l \in DOMAIN outbox' : l = k \/ (l \in DOMAIN outbox /\ outbox'[l] = outbox[l])
    BY <1>0, <1>3, <2>5, AppendFacts
  <2>7. k \in Int
    BY <1>0, <2>5
  <2> QED
    BY <2>2, <2>3, <2>4, <2>6, <2>7
<1>4. \/ (k \in DOMAIN outbox /\ outbox'[k] = outbox[k])
      \/ (Chose(d) /\ outbox'[k] = Packet("toggle", d, call[d].item, None) /\ k \notin DOMAIN outbox)
  <2>1. ~Asks(outbox'[k])
    BY DEF Asks
  <2>2. ~(Saves(d) /\ outbox'[k] = MemoryPacket(d))
    BY DEF MemoryPacket, Packet
  <2>3. ~(Start(d) /\ call[d].op \in {"toggle", "search"} /\ outbox'[k] = FirstPacket(d))
    BY DEF FirstPacket, Packet, Chooses
  <2>4. k \in DOMAIN outbox => ~\A l \in DOMAIN outbox : l < k
    BY <1>0
  <2> QED
    BY <2>1, <2>2, <2>3, <2>4, CallerSends DEF Added
<1> QED
  BY <1>2, <1>3, <1>4

LEMMA ToggleLink ==
    ASSUME AppTypeOK, PacketInv, ToggleInv, LinkStep
    PROVE  ToggleInv'
<1>1. UNCHANGED <<pc, call, misled>>
  BY LinkLeaves
<1> SUFFICES ASSUME NEW k \in DOMAIN outbox', NEW c, c = outbox'[k].by,
                    outbox'[k].cmd = "toggle", c \notin misled, Chooses(c)
             PROVE  /\ ~AsAsked(c, device'.favorites)
                    /\ \A l \in DOMAIN outbox' : l < k => outbox'[l].cmd # "toggle"
  BY <1>1 DEF ToggleInv, Chooses, AsAsked
<1>2. ~Asks(outbox'[k])
  BY DEF Asks
<1>3. CASE outbox' = outbox
  <2>1. device' = device
    <3>1. outbox # <<>> /\ outbox \in Seq(Packets) => outbox # Tail(outbox)
      OBVIOUS
    <3> QED
      BY <1>3, <3>1, DeviceCases DEF AppTypeOK
  <2> QED
    BY <1>3, <2>1 DEF ToggleInv
<1>4. CASE /\ k \in Nat /\ k + 1 \in DOMAIN outbox /\ outbox'[k] = outbox[k + 1]
           /\ 1 \in DOMAIN outbox /\ k # 0
           /\ \A l \in DOMAIN outbox' : l + 1 \in DOMAIN outbox /\ outbox'[l] = outbox[l + 1] /\ l \in Nat
  <2>1. /\ ~AsAsked(c, device.favorites)
        /\ \A l \in DOMAIN outbox : l < k + 1 => outbox[l].cmd # "toggle"
    BY <1>4 DEF ToggleInv
  <2>2. outbox[1].cmd # "toggle"
    BY <1>4, <2>1
  <2>3. device'.favorites = device.favorites
    BY <2>2, DeviceCases DEF Takes, AppTypeOK, Devices
  <2>4. ASSUME NEW l \in DOMAIN outbox', l < k PROVE outbox'[l].cmd # "toggle"
    BY <1>4, <2>1, <2>4
  <2> QED
    BY <2>1, <2>3, <2>4
<1> QED
  BY <1>2, <1>3, <1>4, LinkKeeps

LEMMA CallKeepsFavorites ==
    ASSUME AppTypeOK, PacketInv, FavoriteInv, ToggleInv, NEW c \in Callers, NEW x \in Commands,
           Call(c, x)
    PROVE  FavoriteInv' /\ ToggleInv'
<1>1. /\ UNCHANGED <<device, known, inbox, outbox, heard, misled>>
      /\ pc[c] = "idle" /\ pc'[c] = "lock"
      /\ \A d \in Callers : d # c => pc'[d] = pc[d] /\ call'[d] = call[d]
  BY CallLeaves
<1>2. FavoriteInv'
  BY <1>1 DEF FavoriteInv, FavoritesAre, NoOther, Chooses, AsAsked
<1>3. ToggleInv'
  <2> SUFFICES ASSUME NEW k \in DOMAIN outbox, NEW d, d = outbox[k].by,
                      outbox[k].cmd = "toggle", d \notin misled, Chooses(d)'
               PROVE  /\ ~AsAsked(d, device.favorites)'
                      /\ \A l \in DOMAIN outbox : l < k => outbox[l].cmd # "toggle"
    BY <1>1 DEF ToggleInv
  <2>1. d \in Callers
    <3>1. PacketFits(outbox[k]) /\ outbox[k] \in Packets
      BY DEF PacketInv, AppTypeOK
    <3> QED
      BY <3>1 DEF PacketFits, Packets
  <2>2. d # c
    BY <1>1, NoneAreSent DEF Unsent
  <2> QED
    BY <1>1, <2>1, <2>2 DEF ToggleInv, Chooses, AsAsked
<1> QED
  BY <1>2, <1>3

LEMMA FavoriteStep ==
    ASSUME AppTypeOK, StepInv, PacketInv, FavoriteInv, ToggleInv, [AppNext]_vars
    PROVE  FavoriteInv' /\ ToggleInv'
<1>1. CASE UNCHANGED vars
  BY <1>1 DEF vars, client, history, FavoriteInv, ToggleInv, FavoritesAre, NoOther, Chooses, AsAsked
<1> QED
  BY <1>1, CallKeepsFavorites, FavoriteCaller, ToggleCaller, FavoriteLink, ToggleLink
  DEF AppNext, LinkStep

-----------------------------------------------------------------------------
\* Memories.

\* Writing a memory makes it what was asked for, or leaves it alone.
LEMMA WrittenIsAsAsked ==
    ASSUME NEW mem, NEW p, NEW i \in Slots, p.item \in {i, None}
    PROVE  /\ p.item = i \/ FirstFree(mem, i) => Written(mem, p)[i] = p.temp
           /\ p.item = None /\ ~FirstFree(mem, i) => Written(mem, p)[i] = mem[i]
BY DEF Written

\* The device takes a write from the caller only that it is asked by.
LEMMA MemoriesTaken ==
    ASSUME AppTypeOK, PacketInv, LinkStep, NEW c \in Callers, Memory(c), pc[c] # "idle",
           NoOther("assign", c), device'.memories # device.memories
    PROVE  /\ pc[c] \notin Unsent
           /\ outbox[1].cmd = "assign" /\ outbox[1].by = c /\ outbox[1].temp = call[c].temp
           /\ outbox[1].item = call[c].item \/ (outbox[1].item = None /\ call[c].op = "set")
           /\ 1 \in DOMAIN outbox /\ Takes(outbox[1]) /\ outbox' = Tail(outbox) /\ outbox # <<>>
           /\ \A k \in DOMAIN outbox' : outbox'[k].by # c
           /\ device'.memories = Written(device.memories, outbox[1])
<1>1. /\ 1 \in DOMAIN outbox /\ PacketFits(outbox[1]) /\ Takes(outbox[1])
      /\ outbox[1].by \in Callers /\ outbox' = Tail(outbox) /\ outbox # <<>>
      /\ \A k \in DOMAIN outbox' : outbox'[k].by # outbox[1].by
  BY DeviceCases
<1> SUFFICES ASSUME NEW p, p = outbox[1]
             PROVE  /\ pc[c] \notin Unsent
                    /\ p.cmd = "assign" /\ p.by = c /\ p.temp = call[c].temp
                    /\ p.item = call[c].item \/ (p.item = None /\ call[c].op = "set")
                    /\ device'.memories = Written(device.memories, p)
  BY <1>1
<1>2. p.cmd = "assign" /\ device'.memories = Written(device.memories, p)
  BY <1>1 DEF Takes, AppTypeOK, Devices
<1>3. p.by = c
  BY <1>1, <1>2 DEF NoOther
<1> QED
  BY <1>1, <1>2, <1>3 DEF PacketFits

LEMMA MemoryCaller ==
    ASSUME AppTypeOK, StepInv, PacketInv, MemoryInv, NEW d \in Callers, CallerStep(d)
    PROVE  MemoryInv'
<1> SUFFICES ASSUME NEW c \in Callers \ misled', pc'[c] \in {"memory", "assigned"}
             PROVE  /\ NoOther("assign", c)'
                    /\ \A k \in DOMAIN inbox' : MemoriesAre(c, inbox[k].kind, inbox[k].value)'
                    /\ "memories" \in heard' => MemoriesAre(c, "memories", known.memories)'
  BY DEF MemoryInv
<1>1. c = d /\ call' = call
  BY OnlyOneRuns DEF Running
<1>2. UNCHANGED <<device, known>>
  BY CallerLeaves
<1>3. CASE Start(c)
  <2>1. /\ pc'[c] = FirstWait(c) /\ heard' = {} /\ inbox' = inbox /\ pc[c] = "ready"
        /\ Settled(KindOf(c))
    BY <1>3 DEF Start, Go, AppTypeOK
  <2>2. pc'[c] = "memory" /\ KindOf(c) = "memories" /\ FirstPacket(c) = GetMemories
    BY <1>1, <2>1, Called DEF FirstWait, KindOf, FirstPacket
  <2>3. outbox' = Append(outbox, GetMemories)
    BY <1>3, <2>2 DEF Start
  <2>4. NoOther("assign", c)'
    <3> SUFFICES ASSUME NEW k \in DOMAIN outbox' PROVE outbox'[k].cmd # "assign"
      BY DEF NoOther
    <3>1. \A j \in DOMAIN outbox : outbox[j].cmd # "assign"
      BY <2>1, <2>2 DEF Settled
    <3>2. GetMemories.cmd # "assign"
      BY GetFits
    <3> QED
      BY <2>3, <3>1, <3>2, AppendFacts DEF AppTypeOK
  <2>5. \A k \in DOMAIN inbox' : inbox'[k].kind = "memories" => inbox'[k].value = device.memories
    BY <2>1, <2>2 DEF Settled
  <2> QED
    BY <1>2, <2>1, <2>2, <2>4, <2>5 DEF MemoriesAre
<1>4. CASE Saves(c)
  <2>1. /\ pc[c] = "memory" /\ pc'[c] = "assigned" /\ inbox' = inbox /\ heard' = {}
        /\ misled' = misled
    BY <1>4 DEF Saves, AppTypeOK
  <2>2. /\ NoOther("assign", c)
        /\ \A k \in DOMAIN inbox : inbox[k].kind = "memories" => inbox[k].value = device.memories
    BY <2>1 DEF MemoryInv, MemoriesAre
  <2>3. NoOther("assign", c)'
    <3> SUFFICES ASSUME NEW k \in DOMAIN outbox', outbox'[k].cmd = "assign" PROVE outbox'[k].by = c
      BY DEF NoOther
    <3>1. ~Asks(outbox'[k]) /\ ~Start(c) /\ ~Chose(c)
      BY <2>1 DEF Asks, Start, Chose
    <3>2. MemoryPacket(c).by = c
      BY DEF MemoryPacket, Packet
    <3> QED
      BY <1>1, <2>2, <3>1, <3>2, CallerSends DEF Added, NoOther
  <2> QED
    BY <1>1, <1>2, <2>1, <2>2, <2>3 DEF MemoriesAre
<1>5. CASE TakeLock(c) \/ EndPause(c) \/ Refresh(c) \/ Chose(c) \/ Stops(c) \/ Repeats(c)
  BY <1>5 DEF TakeLock, EndPause, Refresh, Chose, Stops, Repeats, Go, AppTypeOK
<1> QED
  BY <1>1, <1>3, <1>4, <1>5, StepCases

LEMMA MemoryLink ==
    ASSUME AppTypeOK, StepInv, PacketInv, MemoryInv, LinkStep
    PROVE  MemoryInv'
<1>0. UNCHANGED <<pc, call, misled>>
  BY LinkLeaves
<1> SUFFICES ASSUME NEW c \in Callers \ misled, pc[c] \in {"memory", "assigned"}
             PROVE  /\ NoOther("assign", c)'
                    /\ \A k \in DOMAIN inbox' : MemoriesAre(c, inbox[k].kind, inbox[k].value)'
                    /\ "memories" \in heard' => MemoriesAre(c, "memories", known.memories)'
  BY <1>0 DEF MemoryInv
<1>1. /\ NoOther("assign", c)
      /\ \A k \in DOMAIN inbox : MemoriesAre(c, inbox[k].kind, inbox[k].value)
      /\ "memories" \in heard => MemoriesAre(c, "memories", known.memories)
  BY DEF MemoryInv
<1>2. NoOther("assign", c)'
  BY <1>1, LinkNoOther
<1>3. Memory(c) /\ call[c].item \in Slots
  BY Called DEF StepInv, Memory
<1>4. \/ device'.memories = device.memories
      \/ /\ pc[c] # "memory"
         /\ \/ device'.memories[call[c].item] = call[c].temp
            \/ device'.memories[call[c].item] = device.memories[call[c].item]
  <2> SUFFICES ASSUME device'.memories # device.memories, NEW p, p = outbox[1]
               PROVE  /\ pc[c] # "memory"
                      /\ \/ device'.memories[call[c].item] = call[c].temp
                         \/ device'.memories[call[c].item] = device.memories[call[c].item]
    OBVIOUS
  <2>1. /\ pc[c] \notin Unsent /\ p.temp = call[c].temp /\ p.item \in {call[c].item, None}
        /\ device'.memories = Written(device.memories, p)
    BY <1>1, <1>3, MemoriesTaken
  <2>2. /\ p.item = call[c].item \/ FirstFree(device.memories, call[c].item)
               => device'.memories[call[c].item] = p.temp
        /\ p.item = None /\ ~FirstFree(device.memories, call[c].item)
               => device'.memories[call[c].item] = device.memories[call[c].item]
    BY <1>3, <2>1, WrittenIsAsAsked
  <2> QED
    BY <2>1, <2>2 DEF Unsent
\* What holds of a list before holds of it after.
<1>5. ASSUME NEW kind, NEW v, MemoriesAre(c, kind, v) PROVE MemoriesAre(c, kind, v)'
  BY <1>0, <1>4, <1>5 DEF MemoriesAre
<1>6. ASSUME NEW k \in DOMAIN inbox' PROVE MemoriesAre(c, inbox[k].kind, inbox[k].value)'
  <2> SUFFICES ASSUME NEW kind, kind = inbox'[k].kind, NEW v, v = inbox'[k].value
               PROVE  MemoriesAre(c, kind, v)'
    OBVIOUS
  <2>1. CASE \E j \in DOMAIN inbox : inbox'[k] = inbox[j]
    BY <1>1, <1>5, <2>1
  <2>2. CASE v = device'.memories
    BY <2>2 DEF MemoriesAre
  <2>3. CASE kind # "memories"
    BY <2>3 DEF MemoriesAre
  <2> QED
    BY <1>6, <2>1, <2>2, <2>3, LinkReports
<1>7. ASSUME "memories" \in heard' PROVE MemoriesAre(c, "memories", known.memories)'
  <2> SUFFICES ASSUME NEW v, v = known'.memories PROVE MemoriesAre(c, "memories", v)'
    OBVIOUS
  <2>1. \/ "memories" \in heard /\ known'["memories"] = known["memories"]
        \/ \E j \in DOMAIN inbox : inbox[j].kind = "memories" /\ known'["memories"] = inbox[j].value
    BY <1>7, LinkHears DEF Kinds
  <2>2. MemoriesAre(c, "memories", v)
    BY <1>1, <2>1
  <2> QED
    BY <1>5, <2>2
<1> QED
  BY <1>2, <1>6, <1>7

LEMMA MemoryStep ==
    ASSUME AppTypeOK, StepInv, PacketInv, MemoryInv, [AppNext]_vars
    PROVE  MemoryInv'
<1>1. ASSUME NEW c \in Callers, NEW x \in Commands, Call(c, x) PROVE MemoryInv'
  <2>1. /\ UNCHANGED <<device, known, inbox, outbox, heard, misled>>
        /\ pc'[c] = "lock"
        /\ \A d \in Callers : d # c => pc'[d] = pc[d] /\ call'[d] = call[d]
    BY <1>1, CallLeaves
  <2> QED
    BY <2>1 DEF MemoryInv, MemoriesAre, NoOther
<1>2. CASE UNCHANGED vars
  BY <1>2 DEF vars, client, history, MemoryInv, MemoriesAre, NoOther
<1> QED
  BY <1>1, <1>2, MemoryCaller, MemoryLink DEF AppNext, LinkStep

-----------------------------------------------------------------------------
\* Searches.

LEMMA SearchCaller ==
    ASSUME AppTypeOK, StepInv, PacketInv, SearchInv, NEW d \in Callers, CallerStep(d)
    PROVE  SearchInv'
<1> SUFFICES ASSUME NEW c \in Callers \ misled', pc'[c] = "search"
             PROVE  /\ NoOther("results", c)'
                    /\ \A k \in DOMAIN inbox' : inbox'[k].kind = "results" => inbox'[k].value = call'[c].item
                    /\ "results" \in heard' => known'.results = call'[c].item
  BY DEF SearchInv
<1>1. c = d /\ call' = call
  BY OnlyOneRuns DEF Running
<1>2. Start(c)
  <2>1. CASE TakeLock(c) \/ EndPause(c) \/ Refresh(c) \/ Chose(c) \/ Saves(c) \/ Stops(c) \/ Repeats(c)
    BY <2>1 DEF TakeLock, EndPause, Refresh, Chose, Saves, Stops, Repeats, Go, AppTypeOK
  <2> QED
    BY <1>1, <2>1, StepCases
<1>3. /\ pc'[c] = FirstWait(c) /\ heard' = {} /\ inbox' = inbox /\ pc[c] = "ready"
      /\ Settled(KindOf(c))
  BY <1>2 DEF Start, Go, AppTypeOK
<1>4. KindOf(c) = "results" /\ FirstPacket(c) = Packet("results", c, call[c].item, None)
  BY <1>3, Called DEF FirstWait, KindOf, FirstPacket
<1>5. outbox' = Append(outbox, FirstPacket(c))
  BY <1>2 DEF Start
<1>6. NoOther("results", c)'
  <2> SUFFICES ASSUME NEW p, p = FirstPacket(c), NEW k \in DOMAIN outbox', outbox'[k].cmd = "results"
               PROVE  outbox'[k].by = c
    BY DEF NoOther
  <2>1. \A j \in DOMAIN outbox : outbox[j].cmd # "results"
    BY <1>3, <1>4 DEF Settled
  <2>2. p.by = c
    BY <1>4 DEF Packet
  <2>3. (k \in DOMAIN outbox /\ outbox'[k] = outbox[k]) \/ outbox'[k] = p
    BY <1>5, AppendFacts DEF AppTypeOK
  <2> QED
    BY <2>1, <2>2, <2>3
<1>7. \A k \in DOMAIN inbox' : inbox'[k].kind # "results"
  BY <1>3, <1>4 DEF Settled
<1> QED
  BY <1>3, <1>6, <1>7

LEMMA SearchLink ==
    ASSUME AppTypeOK, StepInv, PacketInv, SearchInv, LinkStep
    PROVE  SearchInv'
<1>0. UNCHANGED <<pc, call, misled>>
  BY LinkLeaves
<1> SUFFICES ASSUME NEW c \in Callers \ misled, pc[c] = "search"
             PROVE  /\ NoOther("results", c)'
                    /\ \A k \in DOMAIN inbox' : inbox'[k].kind = "results" => inbox'[k].value = call[c].item
                    /\ "results" \in heard' => known'.results = call[c].item
  BY <1>0 DEF SearchInv
<1>1. /\ NoOther("results", c)
      /\ \A k \in DOMAIN inbox : inbox[k].kind = "results" => inbox[k].value = call[c].item
      /\ "results" \in heard => known.results = call[c].item
  BY DEF SearchInv
<1>2. \A j \in DOMAIN outbox : outbox[j].cmd = "results" => outbox[j].item = call[c].item
  BY <1>1 DEF NoOther, PacketInv, PacketFits
<1>3. ASSUME NEW k \in DOMAIN inbox', inbox'[k].kind = "results" PROVE inbox'[k].value = call[c].item
  BY <1>1, <1>2, <1>3, LinkReports
<1>4. ASSUME "results" \in heard' PROVE known'["results"] = call[c].item
  <2>1. \/ "results" \in heard /\ known'["results"] = known["results"]
        \/ \E j \in DOMAIN inbox : inbox[j].kind = "results" /\ known'["results"] = inbox[j].value
    BY <1>4, LinkHears DEF Kinds
  <2> QED
    BY <1>1, <2>1
<1> QED
  BY <1>1, <1>3, <1>4, LinkNoOther

LEMMA SearchStep ==
    ASSUME AppTypeOK, StepInv, PacketInv, SearchInv, [AppNext]_vars
    PROVE  SearchInv'
<1>1. ASSUME NEW c \in Callers, NEW x \in Commands, Call(c, x) PROVE SearchInv'
  <2>1. /\ UNCHANGED <<device, known, inbox, outbox, heard, misled>>
        /\ pc'[c] = "lock"
        /\ \A d \in Callers : d # c => pc'[d] = pc[d] /\ call'[d] = call[d]
    BY <1>1, CallLeaves
  <2> QED
    BY <2>1 DEF SearchInv, NoOther
<1>2. CASE UNCHANGED vars
  BY <1>2 DEF vars, client, history, SearchInv, NoOther
<1> QED
  BY <1>1, <1>2, SearchCaller, SearchLink DEF AppNext, LinkStep

-----------------------------------------------------------------------------
\* Memories created.

\* In a list without a hole the slot in which a memory may be created is the
\* first free one (_can_create_temperature_memory).
LEMMA CreatesInFirstFree ==
    ASSUME NEW mem \in Memories, Packed(mem), known.memories = mem, NEW i \in Slots,
           Known(i) = None, CanCreate(i)
    PROVE  FirstFree(mem, i)
<1>1. \A j \in Slots : Known(j) = mem[j]
  BY DEF Known
<1>2. Slots \subseteq Nat
  BY DEF Slots
<1>3. ASSUME NEW j \in Slots, j < i PROVE mem[j] # None
  <2>1. Seen # {} /\ i - 1 \in Seen
    BY <1>2, <1>3 DEF CanCreate
  <2>2. i - 1 \in Slots /\ mem[i - 1] # None
    BY <1>1, <2>1 DEF Seen
  <2>3. j = i - 1 \/ j < i - 1
    BY <1>2, <1>3
  <2> QED
    BY <2>2, <2>3 DEF Packed
<1> QED
  BY <1>1, <1>3 DEF FirstFree

\* A memory command that creates one by a list it may rely on has created none
\* before, and will create the one asked for.
LEMMA CreatesTheAskedFor ==
    ASSUME AppTypeOK, StepInv, PacketInv, HeardInv, MemoryInv, CreateInv,
           NEW c \in Callers \ blind, Saves(c), Reliable(c), MemoryPacket(c).item = None
    PROVE  created[c] = 0 /\ FirstFree(device.memories, call[c].item) /\ NoOther("assign", c)
<1>1. /\ pc[c] = "memory" /\ "memories" \in heard /\ c \notin misled /\ Packed(device.memories)
  BY DEF Saves, Reliable
<1>2. NoOther("assign", c) /\ known.memories = device.memories
  BY <1>1 DEF MemoryInv, MemoriesAre
<1>3. call[c].item \in Slots
  BY <1>1, Called DEF StepInv, Memory
<1>4. Known(call[c].item) = None /\ CanCreate(call[c].item)
  <2>1. call[c].item # None
    BY <1>3
  <2> QED
    BY <2>1 DEF MemoryPacket, Packet, Saves
<1>5. device.memories \in Memories
  BY DEF AppTypeOK, Devices
<1>6. FirstFree(device.memories, call[c].item)
  BY <1>1, <1>2, <1>3, <1>4, <1>5, CreatesInFirstFree
<1>7. created[c] = 0
  BY <1>1, <1>6 DEF CreateInv, FirstFree, Running
<1> QED
  BY <1>2, <1>6, <1>7

LEMMA CreateCaller ==
    ASSUME AppTypeOK, StepInv, PacketInv, HeardInv, MemoryInv, CreateInv,
           NEW d \in Callers, CallerStep(d)
    PROVE  CreateInv'
<1>1. call' = call /\ device' = device /\ created' = created /\ d # None
  BY OnlyOneRuns, CallerLeaves
<1> SUFFICES ASSUME NEW c \in Callers \ blind'
             PROVE  /\ created[c] <= 1
                    /\ pc'[c] \in {"idle", "lock"} => created[c] = 0
                    /\ \A k \in DOMAIN outbox' : Creates(k, c)' => created[c] = 0
                    /\ pc'[c] \in Running /\ created[c] # 0 =>
                          device.memories[call[c].item] # None /\ NoOther("assign", c)' /\ call[c].op = "set"
                    /\ \A k \in DOMAIN outbox' : Creates(k, c)' /\ pc'[c] \in Running =>
                          FirstFree(device.memories, call[c].item) /\ NoOther("assign", c)'
  BY <1>1 DEF CreateInv
<1>2. c \notin blind
  <2>1. CASE Saves(d)
    BY <2>1 DEF Saves
  <2> QED
    BY <2>1, CallerLeaves
<1>3. /\ created[c] <= 1
      /\ pc[c] \in {"idle", "lock"} => created[c] = 0
      /\ \A k \in DOMAIN outbox : Creates(k, c) => created[c] = 0
      /\ pc[c] \in Running /\ created[c] # 0 =>
            device.memories[call[c].item] # None /\ NoOther("assign", c) /\ call[c].op = "set"
      /\ \A k \in DOMAIN outbox : Creates(k, c) /\ pc[c] \in Running =>
            FirstFree(device.memories, call[c].item) /\ NoOther("assign", c)
  BY <1>2 DEF CreateInv
\* What is added that creates a memory is the write of this step.
<1>4. ASSUME NEW k \in DOMAIN outbox', Creates(k, c)'
      PROVE  \/ k \in DOMAIN outbox /\ Creates(k, c)
             \/ c = d /\ Saves(c) /\ Reliable(c) /\ MemoryPacket(c).item = None
  <2>1. CASE k \in DOMAIN outbox /\ outbox'[k] = outbox[k]
    BY <1>4, <2>1 DEF Creates
  <2>2. CASE Saves(d) /\ outbox'[k] = MemoryPacket(d)
    <3>1. MemoryPacket(d).by = d
      BY DEF MemoryPacket, Packet
    <3>2. c = d /\ MemoryPacket(d).item = None
      BY <1>4, <2>2, <3>1 DEF Creates
    <3>3. Reliable(c)
      BY <2>2, <3>2 DEF Saves
    <3> QED
      BY <2>2, <3>2, <3>3
  <2>3. CASE Start(d) /\ call[d].op \in {"toggle", "search"} /\ outbox'[k] = FirstPacket(d)
    BY <1>4, <2>3 DEF Creates, FirstPacket, Packet
  <2>4. CASE outbox'[k] = Packet("toggle", d, call[d].item, None) \/ Asks(outbox'[k])
    BY <1>4, <2>4 DEF Creates, Asks, Packet
  <2> QED
    BY <2>1, <2>2, <2>3, <2>4, CallerSends DEF Added
<1>5. ASSUME NoOther("assign", c), c = d PROVE NoOther("assign", c)'
  <2> SUFFICES ASSUME NEW k \in DOMAIN outbox', outbox'[k].cmd = "assign" PROVE outbox'[k].by = c
    BY DEF NoOther
  <2>1. MemoryPacket(d).by = d
    BY DEF MemoryPacket, Packet
  <2>2. CASE Start(d) /\ call[d].op \in {"toggle", "search"} /\ outbox'[k] = FirstPacket(d)
    BY <2>2 DEF FirstPacket, Packet
  <2>3. CASE outbox'[k] = Packet("toggle", d, call[d].item, None)
    BY <2>3 DEF Packet
  <2> QED
    BY <1>5, <2>1, <2>2, <2>3, CallerSends DEF Added, NoOther, Asks
<1>6. CASE c # d
  <2>1. pc'[c] = pc[c] /\ pc'[c] \notin Running
    BY <1>6, OnlyOneRuns
  <2> QED
    BY <1>3, <1>4, <1>6, <2>1
<1>7. CASE c = d
  <2>1. pc'[c] \notin {"idle", "lock"}
    BY <1>7, CallerLeaves
  <2>2. pc[c] \in Running \/ pc[c] = "lock"
    BY <1>7 DEF CallerStep, TakeLock, EndPause, Raises, Start, Refresh, ListCame, ListLost,
         ToggleAnswered, SearchAnswered, WriteMemory, MemoryAnswered, Running
  <2>3. pc'[c] \in Running /\ created[c] # 0 =>
           device.memories[call[c].item] # None /\ NoOther("assign", c)' /\ call[c].op = "set"
    BY <1>3, <1>5, <1>7, <2>2
  <2>4. ASSUME NEW k \in DOMAIN outbox', Creates(k, c)'
        PROVE  created[c] = 0 /\ FirstFree(device.memories, call[c].item) /\ NoOther("assign", c)'
    <3>1. CASE k \in DOMAIN outbox /\ Creates(k, c)
      <4>1. pc[c] \notin Unsent
        BY <3>1, NoneAreSent DEF Creates
      <4>2. pc[c] \in Running
        BY <2>2, <4>1 DEF Unsent
      <4> QED
        BY <1>3, <1>5, <1>7, <3>1, <4>2
    <3>2. CASE Saves(c) /\ Reliable(c) /\ MemoryPacket(c).item = None
      BY <1>2, <1>5, <1>7, <3>2, CreatesTheAskedFor
    <3> QED
      BY <1>4, <2>4, <3>1, <3>2
  <2> QED
    BY <1>3, <2>1, <2>3, <2>4
<1> QED
  BY <1>6, <1>7

LEMMA CreateLink ==
    ASSUME AppTypeOK, StepInv, PacketInv, CreateInv, LinkStep
    PROVE  CreateInv'
<1>0. UNCHANGED <<pc, call, blind>>
  BY LinkLeaves
<1> SUFFICES ASSUME NEW c \in Callers \ blind
             PROVE  /\ created'[c] <= 1
                    /\ pc[c] \in {"idle", "lock"} => created'[c] = 0
                    /\ \A k \in DOMAIN outbox' : Creates(k, c)' => created'[c] = 0
                    /\ pc[c] \in Running /\ created'[c] # 0 =>
                          device'.memories[call[c].item] # None /\ NoOther("assign", c)' /\ call[c].op = "set"
                    /\ \A k \in DOMAIN outbox' : Creates(k, c)' /\ pc[c] \in Running =>
                          FirstFree(device'.memories, call[c].item) /\ NoOther("assign", c)'
  BY <1>0 DEF CreateInv
<1>1. /\ created[c] <= 1
      /\ pc[c] \in {"idle", "lock"} => created[c] = 0
      /\ \A k \in DOMAIN outbox : Creates(k, c) => created[c] = 0
      /\ pc[c] \in Running /\ created[c] # 0 =>
            device.memories[call[c].item] # None /\ NoOther("assign", c) /\ call[c].op = "set"
      /\ \A k \in DOMAIN outbox : Creates(k, c) /\ pc[c] \in Running =>
            FirstFree(device.memories, call[c].item) /\ NoOther("assign", c)
  BY DEF CreateInv
<1>2. ASSUME NEW k \in DOMAIN outbox', Creates(k, c)' PROVE \E j \in DOMAIN outbox : Creates(j, c)
  <2>1. ~Asks(outbox'[k])
    BY <1>2 DEF Asks, Creates
  <2> QED
    BY <1>2, <2>1, LinkKeeps DEF Creates
<1>3. CASE created'[c] # created[c]
  <2> SUFFICES ASSUME NEW p, p = outbox[1]
               PROVE  /\ created'[c] <= 1
                      /\ pc[c] \in {"idle", "lock"} => created'[c] = 0
                      /\ \A k \in DOMAIN outbox' : ~Creates(k, c)'
                      /\ pc[c] \in Running =>
                            device'.memories[call[c].item] # None /\ NoOther("assign", c)' /\ call[c].op = "set"
    OBVIOUS
  <2>1. /\ 1 \in DOMAIN outbox /\ PacketFits(p) /\ Takes(p) /\ p.by \in Callers
        /\ \A k \in DOMAIN outbox' : outbox'[k].by # p.by
    BY <1>3, DeviceCases
  <2>2. p.by = c /\ p.cmd = "assign" /\ p.item = None /\ created'[c] = created[c] + 1
    BY <1>3, <2>1 DEF Takes, AppTypeOK
  <2>3. device'.memories = Written(device.memories, p)
    BY <2>1, <2>2 DEF Takes, AppTypeOK, Devices
  <2>4. created[c] = 0 /\ Creates(1, c)
    BY <1>1, <2>1, <2>2 DEF Creates
  <2>5. pc[c] \notin Unsent /\ p.temp = call[c].temp /\ Memory(c)
    BY <2>1, <2>2 DEF PacketFits
  <2>6. call[c].item \in Slots /\ (call[c].op = "set" => call[c].temp # None)
    BY <2>5, Called DEF Memory, Unsent
  <2>7. call[c].op = "set"
    BY <2>1, <2>2, <2>6 DEF PacketFits
  <2>8. ASSUME pc[c] \in Running PROVE device'.memories[call[c].item] # None /\ NoOther("assign", c)'
    <3>1. FirstFree(device.memories, call[c].item) /\ NoOther("assign", c)
      BY <1>1, <2>1, <2>4, <2>8
    <3>2. device'.memories[call[c].item] = p.temp
      BY <2>2, <2>3, <2>6, <3>1, WrittenIsAsAsked
    <3> QED
      BY <2>5, <2>6, <2>7, <3>1, <3>2, LinkNoOther
  <2> QED
    BY <2>1, <2>2, <2>4, <2>5, <2>7, <2>8 DEF Creates, Unsent
<1>4. CASE created'[c] = created[c]
  <2>1. ASSUME pc[c] \in Running, created[c] # 0
        PROVE  device'.memories[call[c].item] # None /\ NoOther("assign", c)' /\ call[c].op = "set"
    <3>1. device.memories[call[c].item] # None /\ NoOther("assign", c) /\ call[c].op = "set"
      BY <1>1, <2>1
    <3>2. call[c].item \in Slots /\ call[c].temp # None /\ pc[c] # "idle"
      BY <2>1, <3>1, Called DEF Running
    <3>3. CASE device'.memories # device.memories
      <4> SUFFICES ASSUME NEW p, p = outbox[1] PROVE device'.memories[call[c].item] # None
        BY <3>1, LinkNoOther
      <4>1. /\ p.cmd = "assign" /\ p.by = c /\ p.temp = call[c].temp
            /\ p.item = call[c].item \/ p.item = None
            /\ Takes(p) /\ device'.memories = Written(device.memories, p)
        BY <3>1, <3>2, <3>3, MemoriesTaken DEF Memory
      <4>2. p.item # None
        BY <1>4, <4>1 DEF Takes, AppTypeOK
      <4> QED
        BY <3>2, <4>1, <4>2, WrittenIsAsAsked
    <3> QED
      BY <3>1, <3>3, LinkNoOther
  <2>2. ASSUME NEW k \in DOMAIN outbox', Creates(k, c)', pc[c] \in Running
        PROVE  FirstFree(device'.memories, call[c].item) /\ NoOther("assign", c)'
    <3>1. PICK j \in DOMAIN outbox : Creates(j, c)
      BY <1>2, <2>2
    <3>2. FirstFree(device.memories, call[c].item) /\ NoOther("assign", c)
      BY <1>1, <2>2, <3>1
    <3>3. Memory(c) /\ pc[c] # "idle"
      BY <2>2, <3>1 DEF PacketInv, PacketFits, Creates, Running
    <3>4. device'.memories = device.memories
      <4> SUFFICES ASSUME device'.memories # device.memories PROVE FALSE
        OBVIOUS
      <4>1. outbox'[k].by # c
        BY <3>2, <3>3, MemoriesTaken
      <4> QED
        BY <2>2, <4>1 DEF Creates
    <3> QED
      BY <3>2, <3>4, LinkNoOther
  <2> QED
    BY <1>1, <1>2, <1>4, <2>1, <2>2
<1> QED
  BY <1>3, <1>4

LEMMA CreateStep ==
    ASSUME AppTypeOK, StepInv, PacketInv, HeardInv, MemoryInv, CreateInv, [AppNext]_vars
    PROVE  CreateInv'
<1>1. ASSUME NEW c \in Callers, NEW x \in Commands, Call(c, x) PROVE CreateInv'
  <2>1. /\ UNCHANGED <<device, outbox, created, blind>>
        /\ pc[c] = "idle" /\ pc'[c] = "lock"
        /\ \A d \in Callers : d # c => pc'[d] = pc[d] /\ call'[d] = call[d]
    BY <1>1, CallLeaves
  <2> SUFFICES ASSUME NEW d \in Callers \ blind
               PROVE  /\ created[d] <= 1
                      /\ pc'[d] \in {"idle", "lock"} => created[d] = 0
                      /\ \A k \in DOMAIN outbox : Creates(k, d) => created[d] = 0
                      /\ pc'[d] \in Running /\ created[d] # 0 =>
                            device.memories[call'[d].item] # None /\ NoOther("assign", d) /\ call'[d].op = "set"
                      /\ \A k \in DOMAIN outbox : Creates(k, d) /\ pc'[d] \in Running =>
                            FirstFree(device.memories, call'[d].item) /\ NoOther("assign", d)
    BY <2>1 DEF CreateInv, Creates, NoOther
  <2>2. CASE d = c
    BY <2>1, <2>2 DEF CreateInv, Running
  <2>3. CASE d # c
    BY <2>1, <2>3 DEF CreateInv
  <2> QED
    BY <2>2, <2>3
<1>2. CASE UNCHANGED vars
  BY <1>2 DEF vars, client, history, CreateInv, Creates, NoOther
<1> QED
  BY <1>1, <1>2, CreateCaller, CreateLink DEF AppNext, LinkStep

-----------------------------------------------------------------------------
\* The invariant, and what follows from it.

LEMMA AppInvInit == AppInit => AppInv
<1> SUFFICES ASSUME AppInit PROVE AppInv
  OBVIOUS
<1>1. \A c \in Callers : pc[c] = "idle" /\ toggles[c] = 0 /\ created[c] = 0
  BY DEF AppInit
<1>2. outbox = <<>> /\ inbox = <<>> /\ heard = {}
  BY DEF AppInit
<1>3. StepInv /\ PacketInv /\ HeardInv
  BY <1>1, <1>2 DEF StepInv, PacketInv, HeardInv, Running
<1>4. RawToggleInv /\ FavoriteInv /\ ToggleInv
  BY <1>1, <1>2 DEF RawToggleInv, FavoriteInv, ToggleInv
<1>5. MemoryInv /\ SearchInv /\ CreateInv
  BY <1>1, <1>2 DEF MemoryInv, SearchInv, CreateInv, Running
<1> QED
  BY <1>3, <1>4, <1>5, TypesInit DEF AppInv

LEMMA AppInvStep == AppInv /\ [AppNext]_vars => AppInv'
<1> SUFFICES ASSUME AppInv, [AppNext]_vars PROVE AppInv'
  OBVIOUS
<1>1. AppTypeOK'
  <2>1. CASE UNCHANGED vars
    BY <2>1 DEF AppInv, AppTypeOK, vars, client, history
  <2> QED
    BY <2>1, CallTypes, CallerTypes, LinkTypes DEF AppInv, AppNext, LinkStep
<1>2. StepInv' /\ PacketInv' /\ HeardInv' /\ RawToggleInv'
  BY StepInvStep, PacketStep, HeardStep, RawToggleStep DEF AppInv
<1>3. FavoriteInv' /\ ToggleInv' /\ MemoryInv' /\ SearchInv' /\ CreateInv'
  BY FavoriteStep, MemoryStep, SearchStep, CreateStep DEF AppInv
<1> QED
  BY <1>1, <1>2, <1>3 DEF AppInv

LEMMA AppInvAlways == AppSpec => []AppInv
BY AppInvInit, AppInvStep, PTL DEF AppSpec

(***************************************************************************)
(* Types: every list, packet and report is of its kind.                    *)
(***************************************************************************)
THEOREM AppTypeCorrect == AppSpec => []AppTypeOK
<1>1. AppInv => AppTypeOK
  BY DEF AppInv
<1> QED
  BY <1>1, AppInvAlways, PTL

(***************************************************************************)
(* A raw toggle is taken once, and a memory that is set by a list of the   *)
(* caller's own is created once, however often commands are repeated and   *)
(* answers lost (client_radio_commands.py:186,                             *)
(* client_temperature_memory_commands.py).                                 *)
(***************************************************************************)
THEOREM WhatIsSentHappensOnce == AppSpec => []HappensOnce
<1>1. AppInv => HappensOnce
  <2> SUFFICES ASSUME AppInv PROVE HappensOnce
    OBVIOUS
  <2>1. \A c \in Callers : toggles[c] \in Nat /\ (call[c] # None => pc[c] # "idle")
    BY DEF AppInv, AppTypeOK
  <2>2. ToggledOnce
    BY <2>1 DEF AppInv, RawToggleInv, ToggledOnce
  <2>3. CreatedOnce
    BY DEF AppInv, CreateInv, CreatedOnce
  <2> QED
    BY <2>2, <2>3 DEF HappensOnce
<1> QED
  BY <1>1, AppInvAlways, PTL

(***************************************************************************)
(* A toggle the device takes does what its command asks for, whatever was  *)
(* lost or repeated, if the attempt was not misled (wait_for_or_refresh).  *)
(***************************************************************************)
THEOREM TogglesDoAsAsked == AppSpec => TogglesAsAsked
<1>1. AppInv /\ [AppNext]_vars =>
         [\A c \in Callers :
             toggles'[c] > toggles[c] /\ c \notin misled =>
                 /\ call[c].op = "add" => call[c].item \notin device.favorites
                 /\ call[c].op = "remove" => call[c].item \in device.favorites]_vars
  <2> SUFFICES ASSUME AppInv, [AppNext]_vars, NEW c \in Callers,
                      toggles'[c] > toggles[c], c \notin misled
               PROVE  /\ call[c].op = "add" => call[c].item \notin device.favorites
                      /\ call[c].op = "remove" => call[c].item \in device.favorites
    OBVIOUS
  <2>1. AppTypeOK /\ PacketInv /\ ToggleInv
    BY DEF AppInv
  <2>2. toggles' # toggles
    BY <2>1 DEF AppTypeOK
  <2>3. LinkStep
    <3>1. \A d \in Callers, x \in Commands : ~Call(d, x)
      BY <2>1, <2>2, CallLeaves
    <3>2. \A d \in Callers : ~CallerStep(d)
      BY <2>1, <2>2, CallerLeaves
    <3> QED
      BY <2>2, <3>1, <3>2 DEF AppNext, LinkStep, vars, history
  <2> SUFFICES ASSUME NEW p, p = outbox[1]
               PROVE  /\ call[c].op = "add" => call[c].item \notin device.favorites
                      /\ call[c].op = "remove" => call[c].item \in device.favorites
    OBVIOUS
  <2>4. 1 \in DOMAIN outbox /\ Takes(p) /\ p.by \in Callers /\ PacketFits(p)
    BY <2>1, <2>2, <2>3, DeviceCases
  <2>5. p.cmd = "toggle" /\ p.by = c
    BY <2>1, <2>2, <2>4 DEF Takes, AppTypeOK
  <2>6. Chooses(c) => ~AsAsked(c, device.favorites)
    BY <2>1, <2>4, <2>5 DEF ToggleInv
  <2> QED
    BY <2>6 DEF Chooses, AsAsked
<1> QED
  BY <1>1, AppInvAlways, PTL DEF AppSpec, TogglesAsAsked

(***************************************************************************)
(* A command that succeeds after it was confirmed left the device as       *)
(* asked, and a search found what it searched for, if not misled           *)
(* (wait_for_generation_change).                                           *)
(***************************************************************************)
THEOREM SuccessStaysTrue == AppSpec => SuccessIsTrue
<1>1. AppInv /\ [AppNext]_vars =>
         [\A c \in Callers :
             /\ pc[c] \in {"toggled", "refresh", "assigned", "search"} /\ pc'[c] = "ok"
             /\ c \notin misled
             => /\ call[c].op = "add" => call[c].item \in device.favorites
                /\ call[c].op = "remove" => call[c].item \notin device.favorites
                /\ call[c].op \in {"set", "delete"} =>
                       device.memories[call[c].item] = call[c].temp
                /\ pc[c] = "search" => known.results = call[c].item]_vars
  <2> SUFFICES ASSUME AppInv, [AppNext]_vars, NEW c \in Callers,
                      pc[c] \in {"toggled", "refresh", "assigned", "search"}, pc'[c] = "ok",
                      c \notin misled
               PROVE  /\ call[c].op = "add" => call[c].item \in device.favorites
                      /\ call[c].op = "remove" => call[c].item \notin device.favorites
                      /\ call[c].op \in {"set", "delete"} =>
                             device.memories[call[c].item] = call[c].temp
                      /\ pc[c] = "search" => known.results = call[c].item
    OBVIOUS
  <2>1. AppTypeOK /\ StepInv /\ FavoriteInv /\ MemoryInv /\ SearchInv /\ HeardInv
    BY DEF AppInv
  <2>2. CallerStep(c)
    <3>1. \A d \in Callers, x \in Commands : ~Call(d, x)
      BY <2>1, CallLeaves
    <3>2. ~LinkStep /\ ~UNCHANGED vars
      BY LinkLeaves DEF vars, client
    <3>3. \A d \in Callers : CallerStep(d) => d = c
      BY <2>1, OnlyOneRuns
    <3> QED
      BY <3>1, <3>2, <3>3 DEF AppNext, LinkStep
  <2>3. ~FailsFrom(c)
    BY <2>1 DEF FailsFrom, End, Go, AppTypeOK
  <2>4. \/ ToggleAnswered(c) /\ Confirmed(c)
        \/ SearchAnswered(c)
        \/ MemoryAnswered(c) /\ MemoryConfirmed(c)
    <3>1. ~(TakeLock(c) \/ EndPause(c) \/ Start(c) \/ ListCame(c) \/ ListLost(c))
      BY DEF TakeLock, EndPause, Start, ListCame, ListLost
    <3>2. ~Refresh(c) /\ ~WriteMemory(c)
      BY <2>1 DEF Refresh, WriteMemory, Go, AppTypeOK
    <3> QED
      BY <2>2, <2>3, <3>1, <3>2 DEF CallerStep, Raises, Failing, ToggleAnswered, MemoryAnswered
  <2>5. CASE ToggleAnswered(c) /\ Confirmed(c)
    <3>1. pc[c] \in {"toggled", "refresh"} /\ "favorites" \in heard /\ Toggles(c)
      BY <2>1, <2>5 DEF ToggleAnswered, StepInv
    <3>2. Chooses(c) => AsAsked(c, known.favorites)
      BY <2>5 DEF Confirmed, IsAsAsked, IsListed, Chooses, AsAsked
    <3>3. Chooses(c) => AsAsked(c, device.favorites)
      BY <2>1, <3>1, <3>2 DEF FavoriteInv, FavoritesAre
    <3> QED
      BY <3>1, <3>3 DEF Chooses, AsAsked, Toggles
  <2>6. CASE SearchAnswered(c)
    <3>1. pc[c] = "search" /\ "results" \in heard /\ call[c].op = "search"
      BY <2>1, <2>6 DEF SearchAnswered, StepInv
    <3> QED
      BY <2>1, <3>1 DEF SearchInv
  <2>7. CASE MemoryAnswered(c) /\ MemoryConfirmed(c)
    <3>1. pc[c] = "assigned" /\ "memories" \in heard /\ Memory(c)
      BY <2>1, <2>7 DEF MemoryAnswered, StepInv
    <3>2. known.memories[call[c].item] = call[c].temp
      BY <2>1, <2>7, <3>1 DEF MemoryConfirmed, Known, HeardInv
    <3>3. device.memories[call[c].item] = call[c].temp
      BY <2>1, <3>1, <3>2 DEF MemoryInv, MemoriesAre
    <3> QED
      BY <3>1, <3>3 DEF Memory
  <2> QED
    BY <2>4, <2>5, <2>6, <2>7
<1> QED
  BY <1>1, AppInvAlways, PTL DEF AppSpec, SuccessIsTrue

=============================================================================
