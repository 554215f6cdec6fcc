---------------------------- MODULE AppCommands ----------------------------
(***************************************************************************)
(* Commands to the apps of the DHE that a list it sends back confirms:     *)
(* favourites of radio and weather (client_radio_commands.py,              *)
(* client_weather_commands.py), searches, and temperature memories         *)
(* (client_temperature_memory_commands.py).                                *)
(*                                                                         *)
(* The DHE adds and removes a favourite by the same command, a toggle, and *)
(* creates a memory for every assignment without an id, so that a command  *)
(* repeated after a lost answer may undo or redo what was done.  An answer *)
(* is recognised by a generation counter that any list of its kind         *)
(* advances, whichever request it answers (flow_helpers.py).               *)
(*                                                                         *)
(* Each caller makes one command.  Commands run one at a time, in any      *)
(* order; the session may be lost at any time with what is in transit; the *)
(* device handles packets in order, may ignore a write, may report a list  *)
(* unasked after a write, and answers at its own pace.  The lists change   *)
(* in no other way.                                                        *)
(***************************************************************************)
EXTENDS Integers, FiniteSets, Sequences

CONSTANTS
    Callers,
    Commands,       \* the commands a caller may make
    Places,         \* stations and locations
    Temps,          \* temperatures of a memory
    MaxSlots,       \* TEMPERATURE_MEMORY_MAX_SLOTS
    StartDevices,   \* the lists in the device at first
    MaxDrops,       \* sessions lost without a command asking for it
    MaxPackets,     \* packets on their way to the device
    MaxReports,     \* reports on their way back
    None

Slots == 0 .. MaxSlots - 1
Memories == [Slots -> Temps \cup {None}]
Devices == [favorites : SUBSET Places, memories : Memories]

\* add, remove and toggle name a place, search looks for one, set writes a
\* temperature to a slot, delete empties it.
AllCommands ==
    [op : {"add", "remove", "toggle", "search"}, item : Places, temp : {None}]
        \cup [op : {"set"}, item : Slots, temp : Temps]
        \cup [op : {"delete"}, item : Slots, temp : {None}]

ASSUME AppAssumption ==
    /\ Commands \subseteq AllCommands /\ StartDevices \subseteq Devices
    /\ None \notin Callers /\ None \notin Temps
    /\ None \notin Places /\ None \notin Slots /\ None \notin Commands
    /\ None \notin Memories
    /\ MaxSlots \in Nat \ {0} /\ MaxDrops \in Nat /\ MaxPackets \in Nat
    /\ MaxReports \in Nat

VARIABLES
    device,     \* the favourites and the memories in the device
    known,      \* the lists the client has; memories are None before the first
    session,    \* "up" when there is a session (_ctx)
    outbox,     \* packets on their way to the device
    inbox,      \* lists on their way to the client
    lock,       \* the caller that holds _command_lock
    pc,         \* where each caller is
    call,       \* the command each caller makes
    \* Of the caller that holds the lock:
    attempt,    \* its attempt
    ctx,        \* "own" while the session it began with lives
    heard,      \* the kinds of lists received since it took the generation
    listed,     \* is_favorite by the list it had before
    drops,      \* sessions lost so far
    toggles,    \* history: toggles the device took, per caller
    created,    \* history: memories the device created, per caller
    misled,     \* history: callers whose attempt began before earlier ones settled
    blind       \* history: callers that wrote a memory by a list not to be relied on

client == <<known, lock, pc, call, attempt, ctx, heard, listed>>
history == <<toggles, created, misled, blind>>
vars == <<device, client, session, outbox, inbox, drops, history>>

Kinds == {"favorites", "memories", "results"}

Packet(cmd, c, item, temp) == [cmd |-> cmd, by |-> c, item |-> item, temp |-> temp]
GetFavorites == Packet("favorites", None, None, None)
GetMemories == Packet("memories", None, None, None)

AppInit ==
    /\ device \in StartDevices
    /\ known = [favorites |-> {}, memories |-> None, results |-> None]
    /\ session = "down" /\ outbox = <<>> /\ inbox = <<>>
    /\ lock = None
    /\ pc = [c \in Callers |-> "idle"] /\ call = [c \in Callers |-> None]
    /\ attempt = 1 /\ ctx = "none" /\ heard = {} /\ listed = "no" /\ drops = 0
    /\ toggles = [c \in Callers |-> 0] /\ created = [c \in Callers |-> 0]
    /\ misled = {} /\ blind = {}

-----------------------------------------------------------------------------
\* The session, the device and the lists it sends.

\* A session reads all lists before it is ready (_request_initial_values).
Connect ==
    /\ session = "down"
    /\ session' = "up"
    /\ outbox' = <<GetFavorites, GetMemories>> /\ inbox' = <<>>
    /\ UNCHANGED <<device, client, drops, history>>

Disconnect ==
    session' = "down" /\ outbox' = <<>> /\ inbox' = <<>>

\* A caller that waits for a list goes on waiting.
EndSession ==
    /\ session = "up" /\ drops < MaxDrops
    /\ drops' = drops + 1
    /\ Disconnect
    /\ ctx' = IF ctx = "own" THEN "lost" ELSE ctx
    /\ UNCHANGED <<device, known, lock, pc, call, attempt, heard, listed,
                   history>>

Toggled(set, x) == (set \ {x}) \cup ({x} \ set)

FirstFree(mem, i) == mem[i] = None /\ \A j \in Slots : j < i => mem[j] # None

\* A memory written without an id takes the first free slot.
Written(mem, p) ==
    [i \in Slots |-> IF IF p.item # None THEN i = p.item ELSE FirstFree(mem, i)
                     THEN p.temp ELSE mem[i]]

Report(kind, value) == [kind |-> kind, value |-> value]

DeviceWrites ==
    /\ outbox # <<>> /\ Head(outbox).cmd \in {"toggle", "assign"}
    /\ outbox' = Tail(outbox) /\ Len(inbox) < MaxReports
    /\ LET p == Head(outbox)
           kind == IF p.cmd = "toggle" THEN "favorites" ELSE "memories"
       IN  \/ /\ device' = IF p.cmd = "toggle"
                           THEN [device EXCEPT !.favorites = Toggled(@, p.item)]
                           ELSE [device EXCEPT !.memories = Written(@, p)]
              /\ toggles' = IF p.cmd = "toggle" THEN [toggles EXCEPT ![p.by] = @ + 1]
                            ELSE toggles
              /\ created' = IF p.cmd = "assign" /\ p.item = None
                            THEN [created EXCEPT ![p.by] = @ + 1] ELSE created
              /\ inbox' \in {inbox, Append(inbox, Report(kind, device'[kind]))}
           \/ UNCHANGED <<device, toggles, created, inbox>>
    /\ UNCHANGED <<client, session, drops, misled, blind>>

DeviceAnswers ==
    /\ outbox # <<>> /\ Head(outbox).cmd \in Kinds /\ Len(inbox) < MaxReports
    /\ outbox' = Tail(outbox)
    /\ LET p == Head(outbox)
       IN  inbox' = Append(inbox, Report(p.cmd, IF p.cmd = "results" THEN p.item
                                                ELSE device[p.cmd]))
    /\ UNCHANGED <<device, client, session, drops, history>>

\* The handler of each list stores it and advances its generation.
Receive ==
    /\ inbox # <<>>
    /\ inbox' = Tail(inbox)
    /\ known' = [known EXCEPT ![Head(inbox).kind] = Head(inbox).value]
    /\ heard' = heard \cup {Head(inbox).kind}
    /\ UNCHANGED <<device, session, outbox, lock, pc, call, attempt, ctx, listed,
                   drops, history>>

-----------------------------------------------------------------------------
\* Running a command (client_command_runner.py).

Go(c, to) == pc' = [pc EXCEPT ![c] = to]

Call(c, cmd) ==
    /\ pc[c] = "idle"
    /\ Go(c, "lock")
    /\ call' = [call EXCEPT ![c] = cmd]
    /\ UNCHANGED <<device, known, session, outbox, inbox, lock, attempt, ctx, heard,
                   listed, drops, history>>

TakeLock(c) ==
    /\ pc[c] = "lock" /\ lock = None
    /\ lock' = c /\ attempt' = 1
    /\ Go(c, "ready")
    /\ UNCHANGED <<device, known, session, outbox, inbox, call, ctx, heard, listed,
                   drops, history>>

\* Taking the generations and sending; a session that is gone cannot be sent to.
Send(packets) ==
    /\ ctx # "lost" /\ session = "up" /\ Len(outbox) + Len(packets) <= MaxPackets
    /\ outbox' = outbox \o packets
    /\ heard' = {}

KindOf(c) ==
    IF call[c].op \in {"add", "remove", "toggle"} THEN "favorites"
    ELSE IF call[c].op = "search" THEN "results" ELSE "memories"

FirstPacket(c) ==
    IF call[c].op \in {"add", "remove"} THEN GetFavorites
    ELSE IF call[c].op = "toggle" THEN Packet("toggle", c, call[c].item, None)
    ELSE IF call[c].op = "search" THEN Packet("results", c, call[c].item, None)
    ELSE GetMemories

FirstWait(c) ==
    IF call[c].op \in {"add", "remove"} THEN "list"
    ELSE IF call[c].op = "toggle" THEN "toggled"
    ELSE IF call[c].op = "search" THEN "search" ELSE "memory"

\* Nothing of an earlier command is on its way that changes the list of this
\* kind, or shows another one than the device has.
Settled(kind) ==
    /\ \A k \in DOMAIN outbox :
          /\ kind = "favorites" => outbox[k].cmd # "toggle"
          /\ kind = "memories" => outbox[k].cmd # "assign"
          /\ kind = "results" => outbox[k].cmd # "results"
    /\ \A k \in DOMAIN inbox :
          inbox[k].kind = kind => kind # "results" /\ inbox[k].value = device[kind]

IsListed(c) == IF call[c].item \in known.favorites THEN "yes" ELSE "no"

Start(c) ==
    /\ pc[c] = "ready"
    /\ ctx' = "own" /\ session = "up" /\ Len(outbox) < MaxPackets
    /\ outbox' = Append(outbox, FirstPacket(c))
    /\ heard' = {}
    /\ listed' = IsListed(c)
    /\ Go(c, FirstWait(c))
    /\ misled' = IF Settled(KindOf(c)) THEN misled \ {c} ELSE misled \cup {c}
    /\ UNCHANGED <<device, known, session, inbox, lock, call, attempt, drops,
                   toggles, created, blind>>

End(c, how) ==
    /\ Go(c, how) /\ lock' = None /\ ctx' = "none" /\ heard' = {} /\ listed' = "no"
    /\ UNCHANGED <<known, call, attempt>>

\* COMMAND_RETRY_ATTEMPTS
MayRepeat == attempt < 2

\* Mutant: toggles are repeated as well.
AllRetry(c) == TRUE

\* _run_command_without_reconnect_retry for the raw toggle
Retries(c) == call[c].op # "toggle"

\* The operation raised: no session, no answer, or not the one expected.
FailsFrom(c) ==
    IF MayRepeat /\ Retries(c)
    THEN /\ Disconnect /\ attempt' = attempt + 1
         /\ Go(c, "pause") /\ ctx' = "none" /\ heard' = {} /\ listed' = "no"
         /\ UNCHANGED <<known, lock, call>>
    ELSE /\ End(c, "failed")
         /\ UNCHANGED <<session, outbox, inbox>>

Failing(c) ==
    FailsFrom(c) /\ UNCHANGED <<device, drops, history>>

EndPause(c) ==
    /\ pc[c] = "pause"
    /\ Go(c, "ready")
    /\ UNCHANGED <<device, known, session, outbox, inbox, lock, call, attempt, ctx,
                   heard, listed, drops, history>>

Succeed(c) ==
    /\ End(c, "ok")
    /\ UNCHANGED <<device, session, outbox, inbox, drops, history>>

-----------------------------------------------------------------------------
\* Favourites.

SendToggle(c) ==
    /\ Send(<<Packet("toggle", c, call[c].item, None)>>)
    /\ Go(c, "toggled")
    /\ UNCHANGED <<device, known, session, inbox, lock, call, attempt, ctx, listed,
                   drops, history>>

IsAsAsked(c, favorite) == (favorite = "yes") = (call[c].op = "add")

\* The list came: an add or a remove toggles only what is not as asked.
ListCame(c) ==
    /\ pc[c] = "list" /\ "favorites" \in heard
    /\ IF IsAsAsked(c, IsListed(c)) THEN Succeed(c) ELSE SendToggle(c)

\* Mutant: without a list the command toggles all the same.
TrustingListLost(c) ==
    /\ pc[c] = "list"
    /\ IF call[c].op = "add" /\ listed = "yes" THEN Succeed(c) ELSE SendToggle(c)

\* Without a list an add trusts the one it had, but never toggles.
ListLost(c) ==
    /\ pc[c] = "list"
    /\ IF call[c].op = "add" /\ listed = "yes" THEN Succeed(c) ELSE Failing(c)

\* wait_for_or_refresh: without a list after the toggle one is asked for.
Refresh(c) ==
    /\ pc[c] = "toggled"
    /\ ctx # "lost" /\ session = "up" /\ Len(outbox) < MaxPackets
    /\ outbox' = Append(outbox, GetFavorites)
    /\ Go(c, "refresh")
    /\ UNCHANGED <<device, known, session, inbox, lock, call, attempt, ctx, heard,
                   listed, drops, history>>

\* Mutant: any list confirms.
CarelessConfirmed(c) == TRUE

\* The list shows what was asked for; a raw toggle asks for nothing.
Confirmed(c) == call[c].op = "toggle" \/ IsAsAsked(c, IsListed(c))

ToggleAnswered(c) ==
    /\ pc[c] \in {"toggled", "refresh"} /\ "favorites" \in heard
    /\ IF Confirmed(c) THEN Succeed(c) ELSE Failing(c)

-----------------------------------------------------------------------------
\* Searches.

\* Results came since the search was sent.
SearchAnswered(c) ==
    /\ pc[c] = "search" /\ "results" \in heard
    /\ Succeed(c)

-----------------------------------------------------------------------------
\* Temperature memories.

Known(i) == IF known.memories = None THEN None ELSE known.memories[i]
Seen == {i \in Slots : Known(i) # None}

\* _can_create_temperature_memory
CanCreate(i) ==
    /\ Cardinality(Seen) < MaxSlots
    /\ IF Seen = {} THEN i = 0 ELSE i - 1 \in Seen /\ \A x \in Seen : x < i

\* No slot is free before one that is not.
Packed(mem) == \A i, j \in Slots : i < j /\ mem[j] # None => mem[i] # None

Reliable(c) == "memories" \in heard /\ c \notin misled /\ Packed(device.memories)

\* The list came or did not: what is known of the memories decides.
MemoryPacket(c) ==
    LET i == call[c].item
    IN  Packet("assign", c, IF Known(i) # None THEN i ELSE None, call[c].temp)

WriteMemory(c) ==
    /\ pc[c] = "memory"
    /\ LET i == call[c].item
       IN  IF Known(i) # None \/ (call[c].op = "set" /\ CanCreate(i))
           THEN /\ Send(<<MemoryPacket(c), GetMemories>>)
                /\ Go(c, "assigned")
                /\ blind' = IF Reliable(c) THEN blind ELSE blind \cup {c}
                /\ UNCHANGED <<device, known, session, inbox, lock, call, attempt,
                               ctx, listed, drops, toggles, created, misled>>
           ELSE Failing(c)

MemoryConfirmed(c) == Known(call[c].item) = call[c].temp

MemoryAnswered(c) ==
    /\ pc[c] = "assigned" /\ "memories" \in heard
    /\ IF MemoryConfirmed(c) THEN Succeed(c) ELSE Failing(c)

\* No session comes, a send fails, or the last wait ends without a list.
Raises(c) ==
    /\ \/ pc[c] \in {"ready", "toggled", "refresh", "search", "memory", "assigned"}
       \/ pc[c] = "list" /\ "favorites" \in heard
    /\ Failing(c)

CallerStep(c) ==
    \/ TakeLock(c) \/ Start(c) \/ EndPause(c) \/ Raises(c)
    \/ ListCame(c) \/ ListLost(c) \/ Refresh(c) \/ ToggleAnswered(c)
    \/ SearchAnswered(c) \/ WriteMemory(c) \/ MemoryAnswered(c)

AppNext ==
    \/ \E c \in Callers, cmd \in Commands : Call(c, cmd)
    \/ \E c \in Callers : CallerStep(c)
    \/ Connect \/ EndSession \/ DeviceWrites \/ DeviceAnswers \/ Receive

AppSpec == AppInit /\ [][AppNext]_vars

-----------------------------------------------------------------------------

Steps == {"idle", "lock", "ready", "pause", "list", "toggled", "refresh", "search",
          "memory", "assigned", "ok", "failed"}

Packets == [cmd : Kinds \cup {"toggle", "assign"}, by : Callers \cup {None},
            item : Places \cup Slots \cup {None}, temp : Temps \cup {None}]

Reports == [kind : {"favorites"}, value : SUBSET Places]
               \cup [kind : {"memories"}, value : Memories]
               \cup [kind : {"results"}, value : Places]

Lists == [favorites : SUBSET Places, memories : Memories \cup {None},
          results : Places \cup {None}]

AppTypeOK ==
    /\ device \in Devices /\ known \in Lists /\ session \in {"up", "down"}
    /\ outbox \in Seq(Packets) /\ inbox \in Seq(Reports)
    /\ lock \in Callers \cup {None} /\ pc \in [Callers -> Steps]
    /\ call \in [Callers -> Commands \cup {None}]
    /\ \A c \in Callers : pc[c] = "idle" <=> call[c] = None
    /\ attempt \in {1, 2} /\ ctx \in {"none", "own", "lost"} /\ heard \subseteq Kinds
    /\ listed \in {"yes", "no"} /\ drops \in 0 .. MaxDrops
    /\ toggles \in [Callers -> Nat] /\ created \in [Callers -> Nat]
    /\ misled \subseteq Callers /\ blind \subseteq Callers

(***************************************************************************)
(* The device never takes the toggle of an add for a favourite it has, nor *)
(* that of a remove for one it has not (docs/entities.md:65-66), whatever  *)
(* answers are lost or late and whatever is retried, if no toggle of an    *)
(* earlier command was on its way when the attempt began, nor a list older *)
(* than what the device had taken (wait_for_or_refresh).                   *)
(***************************************************************************)
TogglesAsAsked ==
    [][\A c \in Callers :
          toggles'[c] > toggles[c] /\ c \notin misled =>
              /\ call[c].op = "add" => call[c].item \notin device.favorites
              /\ call[c].op = "remove" => call[c].item \in device.favorites]_vars

(***************************************************************************)
(* A raw toggle reaches the device at most once: it is never sent again    *)
(* after a lost answer (_run_command_without_reconnect_retry).             *)
(***************************************************************************)
ToggledOnce == \A c \in Callers : call[c] # None /\ call[c].op = "toggle" => toggles[c] <= 1

(***************************************************************************)
(* Setting a memory, also when the attempt is repeated, creates no second  *)
(* memory, unless an attempt wrote without a list of its own               *)
(* (_refresh_temperature_memories goes on without one), while a write of   *)
(* another command was on its way, or with a free slot before the last one *)
(* (_can_create_temperature_memory).                                       *)
(***************************************************************************)
CreatedOnce == \A c \in Callers \ blind : created[c] <= 1

(***************************************************************************)
(* What must not be repeated happens once, whatever is sent again          *)
(* (client_radio_commands.py:186, client_temperature_memory_commands.py).  *)
(***************************************************************************)
HappensOnce == ToggledOnce /\ CreatedOnce

(***************************************************************************)
(* Unless what earlier commands left on its way misled it, a command that  *)
(* ends well after what it wrote was confirmed left the device as asked,   *)
(* and a search that succeeds found what it searched for and not what an   *)
(* earlier one did (wait_for_generation_change).                           *)
(***************************************************************************)
SuccessIsTrue ==
    [][\A c \in Callers :
          /\ pc[c] \in {"toggled", "refresh", "assigned", "search"} /\ pc'[c] = "ok"
          /\ c \notin misled
          => /\ call[c].op = "add" => call[c].item \in device.favorites
             /\ call[c].op = "remove" => call[c].item \notin device.favorites
             /\ call[c].op \in {"set", "delete"} =>
                    device.memories[call[c].item] = call[c].temp
             /\ pc[c] = "search" => known.results = call[c].item]_vars

=============================================================================
