------------------------------ MODULE MemorySlots ------------------------------
(***************************************************************************)
(* The temperature memories: what the client knows of them                 *)
(* (client_runtime_app.py), the commands that set, rename and delete one   *)
(* (client_temperature_memory_commands.py), and of each the number, the    *)
(* name and the button that show it (number.py, text.py, button.py).       *)
(*                                                                         *)
(* A memory has a temperature and a name, and the device is only told both *)
(* together.  To change one, a command sends the other as the client knows *)
(* it, after it has asked for the list.  It goes on when any report about  *)
(* memories has come, or none in time.                                     *)
(***************************************************************************)
EXTENDS DeviceLink

CONSTANTS
  MaxSlot,       \* the last slot
  Heats, Names,
  DefaultTemp,   \* DEFAULT_NEW_TEMPERATURE_MEMORY_C
  DefaultName    \* DEFAULT_TEMPERATURE_MEMORY_NAMES

ASSUME MemoryAssumption ==
  /\ MaxSlot \in Nat /\ DefaultTemp \in Heats /\ DefaultName \in Names
  /\ Nil \notin Heats /\ Nil \notin Names

VARIABLES
  memory,    \* the device: each slot's memory, or Nil
  cached,    \* _last_measurements and _last_measurement_attributes of the slots
  fullList,    \* _temperature_memory_full_list_seen
  numbers, texts, buttons,   \* the entities of each slot
  touched    \* history: slots changed at the device since the holder of the
             \* lock has asked for the list

memoryVars == <<memory, cached, fullList, numbers, texts, buttons, touched, linkVars>>
slotViews == <<numbers, texts, buttons>>

SlotIds == 0 .. MaxSlot
Memory == [temp : Heats, name : Names]
InCache(s) == cached[s] # Nil

Temp(m) == IF m = Nil THEN Nil ELSE m.temp
Name(m) == IF m = Nil THEN Nil ELSE m.name

-----------------------------------------------------------------------------
\* The entities: _handle_measurement_update of number, text and button.

SlotsHear(told) ==
  /\ numbers' = [s \in SlotIds |-> IF s \notin told THEN numbers[s]
                               ELSE [value |-> Temp(cached'[s]), available |-> live]]
  /\ texts' = [s \in SlotIds |-> IF s \notin told THEN texts[s]
                             ELSE [value |-> Name(cached'[s]), available |-> live]]
  /\ buttons' = [s \in SlotIds |-> IF s \notin told THEN buttons[s]
                               ELSE [seen |-> cached'[s] # Nil, available |-> live /\ cached'[s] # Nil]]

\* _handle_availability_update
SlotsLive(now) ==
  /\ numbers' = [s \in SlotIds |-> [numbers[s] EXCEPT !.available = now]]
  /\ texts' = [s \in SlotIds |-> [texts[s] EXCEPT !.available = now]]
  /\ buttons' = [s \in SlotIds |-> [buttons[s] EXCEPT !.available = now /\ buttons[s].seen]]

\* async_added_to_hass: number and name are restored or have no value.
SlotsInit ==
  /\ LinkInit
  /\ memory \in [SlotIds -> Memory \cup {Nil}]
  /\ \A s \in SlotIds : memory[s] # Nil => \A x \in 0 .. s : memory[x] # Nil
  /\ cached = [s \in SlotIds |-> Nil] /\ fullList = FALSE /\ touched = {}
  /\ \E restored \in {[temp |-> DefaultTemp, name |-> DefaultName], Nil} :
        /\ numbers = [s \in SlotIds |-> [value |-> Temp(restored), available |-> FALSE]]
        /\ texts = [s \in SlotIds |-> [value |-> Name(restored), available |-> FALSE]]
  /\ buttons = [s \in SlotIds |-> [seen |-> FALSE, available |-> FALSE]]

-----------------------------------------------------------------------------
\* The session and the device.

OpenSlots == Opens(<<memory>>) /\ UNCHANGED <<memory, cached, fullList, slotViews, touched>>

SlotsProved ==
  /\ Proves
  /\ IF live THEN UNCHANGED slotViews ELSE SlotsLive(TRUE)
  /\ UNCHANGED <<memory, cached, fullList, touched>>

DropSlots == Drops /\ UNCHANGED <<memory, cached, fullList, slotViews, touched>>

SlotsGraceOver == Expires /\ SlotsLive(FALSE) /\ UNCHANGED <<memory, cached, fullList, touched>>

\* Somebody changes a memory at the device.
ChangeSlot(s) ==
  /\ Twists
  /\ \E m \in (Memory \cup {Nil}) \ {memory[s]} : memory' = [memory EXCEPT ![s] = m]
  /\ touched' = touched \cup {s}
  /\ UNCHANGED <<cached, fullList, slotViews>>

\* It reports a memory that the client has otherwise.
ReportSlot(s) ==
  /\ cached[s] # memory[s]
  /\ Announces([x \in {s} |-> memory[s]])
  /\ UNCHANGED <<memory, cached, fullList, slotViews, touched>>

\* _handle_temperature_memory_value: a list, one memory, or that one is gone.
\* The entities hear of what is new, and of everything that is cleared, which
\* includes what the first list does not have.
Cleared(r) == {s \in DOMAIN r : r[s] = Nil /\ (InCache(s) \/ ~fullList \/ DOMAIN r # SlotIds)}

SlotHeard ==
  /\ reports # <<>>
  /\ LET r == Head(reports)
     IN /\ cached' = [s \in SlotIds |-> IF s \in DOMAIN r THEN r[s] ELSE cached[s]]
        /\ fullList' = (fullList \/ DOMAIN r = SlotIds)
        /\ SlotsHear({s \in DOMAIN r : r[s] # Nil /\ cached[s] # r[s]} \cup Cleared(r))
  /\ reports' = Tail(reports)
  /\ job' = [u \in Users |->
                IF job[u].pc \in {"asked", "wrote", "checks"}
                THEN [job[u] EXCEPT !.news = TRUE, !.listed = @ \/ DOMAIN Head(reports) = SlotIds]
                ELSE job[u]]
  /\ UNCHANGED <<memory, touched, link, live, line, twists>>

-----------------------------------------------------------------------------
\* Commands.

SlotOrder(op, s, temp, name) ==
  [op |-> op, slot |-> s, temp |-> temp, name |-> name,
   news |-> FALSE, listed |-> FALSE, stale |-> FALSE]

\* async_set_native_value, async_set_value, async_press
OrderSlot(u) ==
  /\ \E s \in SlotIds :
        \/ \E t \in Heats : live /\ Orders(u, SlotOrder("set", s, t, Nil))
        \/ \E n \in Names : Orders(u, SlotOrder("rename", s, Nil, n))
        \/ live /\ Orders(u, SlotOrder("delete", s, Nil, Nil))
  /\ UNCHANGED <<memory, cached, fullList, slotViews, touched>>

\* The list is sent, or the device stays silent.
Answers == reports' = reports \/ (Len(reports) < MaxUnheard /\ reports' = Append(reports, memory))

\* _refresh_temperature_memories.  `stale' and `listed' are history: a report
\* was under way before, and will count as the answer; the list has come since.
AskList(u) ==
  /\ job[u].pc = "ready" /\ Usable /\ HasLock(u)
  /\ job' = [job EXCEPT ![u].pc = "asked", ![u].news = FALSE, ![u].listed = FALSE,
                         ![u].stale = reports # <<>>]
  /\ touched' = {} /\ Answers
  /\ UNCHANGED <<link, live, line, twists, memory, cached, fullList, slotViews>>

\* _temperature_memory_payload: the other half as the client has it.
Payload(u) ==
  LET s == job[u].slot
  IN CASE job[u].op = "set"    -> [temp |-> job[u].temp,
                                   name |-> IF InCache(s) THEN cached[s].name ELSE DefaultName]
       [] job[u].op = "rename" -> [temp |-> IF InCache(s) THEN cached[s].temp ELSE DefaultTemp,
                                   name |-> job[u].name]

\* _can_create_temperature_memory: the one after the last that is known.
Creatable(s) == \A x \in SlotIds : (x = s - 1 => InCache(x)) /\ (x >= s => ~InCache(x))

\* What the command may do now: write what exists or can be created, delete what
\* exists.
Possible(u) == InCache(job[u].slot) \/ (job[u].op # "delete" /\ Creatable(job[u].slot))

\* The device adds a new memory after the last one; it knows nothing of a slot
\* that is empty.
Stored(u, s) ==
  IF job[u].op = "delete" THEN [memory EXCEPT ![s] = Nil]
  ELSE IF InCache(s) THEN [memory EXCEPT ![s] = IF @ = Nil THEN Nil ELSE Payload(u)]
  ELSE [i \in SlotIds |->
           IF memory[i] = Nil /\ \A j \in SlotIds : j < i => memory[j] # Nil
           THEN Payload(u) ELSE memory[i]]

\* Mutant: a memory that the client knows is written without waiting for the
\* list.
HastyToWrite(u) == job[u].pc = "asked" \/ (job[u].pc = "ready" /\ InCache(job[u].slot))
ReadyToWrite(u) == job[u].pc = "asked"

\* The answer has come, or not in time.
WriteSlot(u) ==
  /\ ReadyToWrite(u) /\ Possible(u) /\ HasLock(u)
  /\ job' = [job EXCEPT ![u].pc = "wrote", ![u].news = FALSE]
  /\ memory' \in {memory, Stored(u, job[u].slot)}
  /\ UNCHANGED <<cached, fullList, slotViews, touched, link, live, reports, line, twists>>

\* The list is asked for again.
CheckSlot(u) ==
  /\ job[u].pc = "wrote" /\ Goes(u, "checks") /\ Answers
  /\ UNCHANGED <<link, live, line, twists, memory, cached, fullList, slotViews, touched>>

SlotConfirmed(u) ==
  LET m == cached[job[u].slot]
  IN CASE job[u].op = "set"    -> job[u].news /\ Temp(m) = job[u].temp
       [] job[u].op = "rename" -> job[u].news /\ Name(m) = job[u].name
       [] job[u].op = "delete" -> m = Nil

SlotSet(u) ==
  /\ job[u].pc = "checks" /\ SlotConfirmed(u) /\ Ends(u)
  /\ LET s == job[u].slot
     IN /\ numbers' = IF job[u].op = "set"
                     THEN [numbers EXCEPT ![s] = [value |-> job[u].temp, available |-> TRUE]]
                     ELSE numbers
        /\ texts' = IF job[u].op = "rename"
                   THEN [texts EXCEPT ![s] = [value |-> job[u].name, available |-> TRUE]]
                   ELSE texts
  /\ UNCHANGED <<memory, cached, fullList, buttons, touched>>

\* A packet cannot be sent, or the command is refused or not confirmed.
SlotTrouble(u) ==
  \/ job[u].pc = "ready"
  \/ job[u].pc = "asked"
  \/ job[u].pc = "wrote"
  \/ job[u].pc = "checks" /\ ~SlotConfirmed(u)
Troubles == {"ready", "asked", "wrote", "checks"}

RetrySlot(u) ==
  /\ SlotTrouble(u) /\ Repeats(u, Troubles)
  /\ UNCHANGED <<memory, cached, fullList, slotViews, touched>>

SlotFails(u) ==
  /\ SlotTrouble(u) /\ Fails(u, Troubles) /\ Ends(u)
  /\ numbers' = IF job[u].op = "set" THEN [numbers EXCEPT ![job[u].slot].available = live] ELSE numbers
  /\ texts' = IF job[u].op = "rename" THEN [texts EXCEPT ![job[u].slot].available = live] ELSE texts
  /\ UNCHANGED <<memory, cached, fullList, buttons, touched>>

MemoryNext ==
  \/ OpenSlots \/ SlotsProved \/ DropSlots \/ SlotsGraceOver \/ SlotHeard
  \/ \E s \in SlotIds : ChangeSlot(s) \/ ReportSlot(s)
  \/ \E u \in Users :
        \/ OrderSlot(u) \/ AskList(u) \/ WriteSlot(u) \/ CheckSlot(u)
        \/ SlotSet(u) \/ RetrySlot(u) \/ SlotFails(u)

MemorySpec == SlotsInit /\ [][MemoryNext]_memoryVars

-----------------------------------------------------------------------------
\* Properties.

Renames(u, s) ==
  /\ job[u].pc # "wrote" /\ job'[u].pc = "wrote" /\ memory[s] # Nil /\ memory'[s] # Nil
  /\ job[u].op = "set" /\ memory'[s].name # memory[s].name
Retunes(u, s) ==
  /\ job[u].pc # "wrote" /\ job'[u].pc = "wrote" /\ memory[s] # Nil /\ memory'[s] # Nil
  /\ job[u].op = "rename" /\ memory'[s].temp # memory[s].temp

\* A command that sets a memory's temperature leaves its name alone, and one
\* that renames it its temperature, once the list it has asked for has come;
\* unless a report that was under way before was taken for it, or the memory
\* was changed at the device meanwhile.  A report of another memory, which
\* counts as the answer too, is not enough
\* (client_temperature_memory_commands.py:87).
OtherHalfIsKept ==
  [][\A u \in Users, s \in SlotIds :
        Renames(u, s) \/ Retunes(u, s) => ~job[u].listed \/ job[u].stale \/ s \in touched]_memoryVars

=============================================================================
