---------------------------- MODULE DHECommands ----------------------------
(***************************************************************************)
(* Commands that write values of the DHE (client_commands.py), the runner  *)
(* that gives each write the command lock and two attempts                 *)
(* (client_command_runner.py), and the one pending write future that a     *)
(* report of the device completes (client.py, client_runtime.py).          *)
(*                                                                         *)
(* A price is two values of the device, written one after the other, each  *)
(* under its own hold of the lock; when a write fails, what was attempted  *)
(* is written back.  Other commands write one value.  Each caller makes    *)
(* one command.  The session may be lost at any time, with all packets in  *)
(* transit; the device handles packets in order, may ignore a write, and   *)
(* answers at its own pace, so that a wait may end before the answer       *)
(* comes.  Prices change in no other way.                                  *)
(***************************************************************************)
EXTENDS Integers, Sequences

CONSTANTS
    PriceCallers,   \* callers that set a price
    ValueCallers,   \* callers that write one other value
    Prices,         \* prices: records of euros and cents
    StartPrice,     \* the price in the device at first
    MaxDrops,       \* sessions lost without a command asking for it
    MaxPackets,     \* packets on their way to the device
    MaxReports,     \* reports on their way back
    None

Components == {"euros", "cents"}
Ids == Components \cup {"other"}
Callers == PriceCallers \cup ValueCallers

\* What a command writes and a component is worth.
Numbers == {p.euros : p \in Prices} \cup {p.cents : p \in Prices}

ASSUME CommandAssumption ==
    /\ None \notin Callers /\ None \notin Numbers /\ None \notin Ids
    /\ PriceCallers \cap ValueCallers = {}
    /\ Prices \subseteq [Components -> Nat] /\ StartPrice \in Prices
    /\ MaxDrops \in Nat /\ MaxPackets \in Nat /\ MaxReports \in Nat

VARIABLES
    device,     \* the values in the device
    cache,      \* _last_measurements
    session,    \* "up" when there is a session (_ctx)
    outbox,     \* packets on their way to the device
    inbox,      \* reports on their way to the client
    lock,       \* the caller that holds _command_lock
    waiting,    \* the callers that wait for it
    pending,    \* the pending write future: its value, expectation and owner
    pc,         \* where each caller is
    mode,       \* "forward", "rollback", or "broken": a rollback write failed
    target,     \* the value each caller is to write to each id
    old,        \* the values it writes back, None when unknown
    current,    \* the id it is writing
    attempt,    \* the attempt of that write
    drops,      \* sessions lost so far
    alone,      \* history: the price command that runs, or ran, without another
    before,     \* history: the price before it, None when the cache is not exact
                \* or a write of an earlier command is still on its way
    premature   \* history: an older report confirmed what the device had not taken

transit == <<session, outbox, inbox>>
history == <<alone, before, premature>>
calls   == <<pc, mode, target, old, current, attempt>>
vars == <<device, cache, transit, lock, waiting, pending, calls, drops, history>>

Active == {"lock", "ready", "wait", "failed", "pause", "cancelled"}
Ended == {"ok", "rejected", "torn", "gone"}

NoPending == [id |-> None, value |-> None, owner |-> None]

Assign(i, v) == [cmd |-> "assign", id |-> i, value |-> v]
Get(i) == [cmd |-> "get", id |-> i, value |-> None]

Values(p) == [i \in Ids |-> IF i = "other" THEN p.euros ELSE p[i]]

CommandInit ==
    /\ device = Values(StartPrice)
    /\ cache \in {device, [i \in Ids |-> None]}
    /\ session = "up" /\ outbox = <<>> /\ inbox = <<>>
    /\ lock = None /\ waiting = <<>> /\ pending = NoPending
    /\ pc = [c \in Callers |-> "idle"] /\ mode = [c \in Callers |-> "forward"]
    /\ target = [c \in Callers |-> device] /\ old = [c \in Callers |-> cache]
    /\ current = [c \in Callers |-> "other"] /\ attempt = [c \in Callers |-> 1]
    /\ drops = 0 /\ alone = None /\ before = None /\ premature = "no"

-----------------------------------------------------------------------------
\* The session, the device and the reports.

Clear == outbox' = <<>> /\ inbox' = <<>>

\* Each session begins with a read of the values; that of the price matters.
Connect ==
    /\ session = "down"
    /\ session' = "up"
    /\ outbox' = <<Get("euros"), Get("cents")>> /\ inbox' = <<>>
    /\ UNCHANGED <<device, cache, lock, waiting, pending, calls, drops, history>>

\* A lost session fails the pending future (_handle_transport_reconnect),
\* stop() cancels it (_cleanup_runtime_session).
EndSession(how) ==
    /\ session = "up" /\ drops < MaxDrops
    /\ drops' = drops + 1
    /\ session' = "down" /\ Clear
    /\ pending' = NoPending
    /\ pc' = IF pending.owner = None THEN pc ELSE [pc EXCEPT ![pending.owner] = how]
    /\ UNCHANGED <<device, cache, lock, waiting, mode, target, old, current,
                   attempt, history>>

\* The device takes a write or ignores it; what it reports is sent in order.
DeviceAssigns ==
    /\ outbox # <<>> /\ Head(outbox).cmd = "assign" /\ Len(inbox) < MaxReports
    /\ outbox' = Tail(outbox)
    /\ LET p == Head(outbox)
       IN  \/ /\ device' = [device EXCEPT ![p.id] = p.value]
              /\ inbox' = Append(inbox, [id |-> p.id, value |-> p.value])
           \/ UNCHANGED <<device, inbox>>
    /\ UNCHANGED <<cache, session, lock, waiting, pending, calls, drops, history>>

DeviceAnswers ==
    /\ outbox # <<>> /\ Head(outbox).cmd = "get" /\ Len(inbox) < MaxReports
    /\ outbox' = Tail(outbox)
    /\ LET i == Head(outbox).id
       IN  inbox' = Append(inbox, [id |-> i, value |-> device[i]])
    /\ UNCHANGED <<device, cache, session, lock, waiting, pending, calls, drops,
                   history>>

\* The device has not handled the write of i yet, or did not take it.
Untrue(i) ==
    device[i] # pending.value \/ \E k \in DOMAIN outbox : outbox[k] = Assign(i, pending.value)

\* _maybe_complete_write_future: a future is confirmed by the expected value.
Completes(r) == pending.id = r.id /\ pending.value = r.value

\* _handle_measurement
Receive ==
    /\ inbox # <<>>
    /\ inbox' = Tail(inbox)
    /\ LET r == Head(inbox)
       IN  /\ cache' = [cache EXCEPT ![r.id] = r.value]
           /\ IF Completes(r)
              THEN /\ pending' = NoPending
                   /\ pc' = [pc EXCEPT ![pending.owner] = "confirmed"]
                   /\ premature' = IF pending.owner = alone /\ Untrue(r.id)
                                   THEN "yes" ELSE premature
              ELSE UNCHANGED <<pending, pc, premature>>
    /\ UNCHANGED <<device, session, outbox, lock, waiting, mode, target, old,
                   current, attempt, drops, alone, before>>

-----------------------------------------------------------------------------
\* One write: write_odb_value in _run_command_with_reconnect_retry.

\* Asking for the lock to write i.
AskLock(c, i) ==
    /\ pc' = [pc EXCEPT ![c] = "lock"]
    /\ current' = [current EXCEPT ![c] = i]
    /\ waiting' = Append(waiting, c)

TakeLock(c) ==
    /\ pc[c] = "lock" /\ lock = None /\ waiting # <<>> /\ Head(waiting) = c
    /\ lock' = c /\ waiting' = Tail(waiting)
    /\ pc' = [pc EXCEPT ![c] = "ready"]
    /\ attempt' = [attempt EXCEPT ![c] = 1]
    /\ UNCHANGED <<device, cache, transit, pending, mode, target, old, current,
                   drops, history>>

\* Mutant: the lock is kept.
WrongUnlock == UNCHANGED lock

Unlock == lock' = None

\* The value a write is to leave: the new one, or what was there before.
Wanted(c) == IF mode[c] = "forward" THEN target[c][current[c]] ELSE old[c][current[c]]

\* The future is made before the packet is sent; the wait asks for a readback.
SendWrite(c) ==
    /\ pc[c] = "ready" /\ session = "up"
    /\ Len(outbox) + 2 <= MaxPackets
    /\ pending' = [id |-> current[c], value |-> Wanted(c), owner |-> c]
    /\ outbox' = outbox \o <<Assign(current[c], Wanted(c)), Get(current[c])>>
    /\ pc' = [pc EXCEPT ![c] = "wait"]
    /\ UNCHANGED <<device, cache, session, inbox, lock, waiting, mode, target, old,
                   current, attempt, drops, history>>

\* Mutant: a write that is given up leaves its future behind.
WrongClearPending == UNCHANGED pending

\* on_error
ClearPending == pending' = NoPending

\* No session came, sending failed, no confirmation came in time, or the
\* session was lost.  The first time whatever session there is is dropped.
AttemptFails(c) ==
    /\ pc[c] \in {"ready", "wait", "failed"} /\ attempt[c] = 1
    /\ ClearPending
    /\ session' = "down" /\ Clear
    /\ attempt' = [attempt EXCEPT ![c] = 2]
    /\ pc' = [pc EXCEPT ![c] = "pause"]
    /\ UNCHANGED <<device, cache, lock, waiting, mode, target, old, current, drops,
                   history>>

EndPause(c) ==
    /\ pc[c] = "pause"
    /\ pc' = [pc EXCEPT ![c] = "ready"]
    /\ UNCHANGED <<device, cache, transit, lock, waiting, pending, mode, target, old,
                   current, attempt, drops, history>>

End(c, how) == pc' = [pc EXCEPT ![c] = how] /\ UNCHANGED <<current, waiting>>

-----------------------------------------------------------------------------
\* A price: _set_price and _rollback_price_components.

Idle(c) == pc[c] \notin Active \cup {"confirmed"}

\* No write of i is on its way to the device.
Quiet(i) == \A k \in DOMAIN outbox : ~(outbox[k].cmd = "assign" /\ outbox[k].id = i)

Call(c, p) ==
    /\ pc[c] = "idle"
    /\ target' = [target EXCEPT ![c] = Values(p)]
    /\ AskLock(c, IF c \in PriceCallers THEN "euros" ELSE "other")
    /\ IF c \in PriceCallers
       THEN /\ old' = [old EXCEPT ![c] = cache]
            /\ alone' = IF \A d \in PriceCallers : Idle(d) THEN c ELSE None
            /\ before' = IF \A i \in Components : cache[i] = device[i] /\ Quiet(i)
                         THEN [i \in Components |-> device[i]] ELSE None
            /\ premature' = "no"
       ELSE UNCHANGED <<old, history>>
    /\ UNCHANGED <<device, cache, transit, lock, pending, mode, attempt, drops>>

WriteDone(c) ==
    /\ pc[c] = "confirmed"
    /\ Unlock
    /\ IF current[c] = "euros" /\ mode[c] = "forward"
       THEN AskLock(c, "cents")
       ELSE IF mode[c] # "forward" /\ current[c] = "cents" /\ old[c]["euros"] # None
       THEN AskLock(c, "euros")
       ELSE End(c, CASE mode[c] = "forward" -> "ok"
                     [] mode[c] = "rollback" -> "rejected"
                     [] OTHER -> "torn")
    /\ UNCHANGED <<device, cache, transit, pending, mode, target, old, attempt,
                   drops, history>>

\* Mutant: what failed is taken for not written.
LateRollback(c, i) == IF i = "cents" /\ old[c]["euros"] # None THEN "euros" ELSE None

\* The first value to write back when the write of i failed: that of i, which
\* may have been written, when it is known.
FirstRollback(c, i) ==
    IF i = "cents" /\ old[c]["cents"] # None THEN "cents"
    ELSE IF i \in Components /\ old[c]["euros"] # None THEN "euros"
    ELSE None

WriteFails(c) ==
    /\ pc[c] \in {"ready", "wait", "failed"} /\ attempt[c] = 2
    /\ ClearPending
    /\ Unlock
    /\ LET next == IF mode[c] = "forward" THEN FirstRollback(c, current[c])
                   ELSE IF current[c] = "cents" /\ old[c]["euros"] # None THEN "euros"
                   ELSE None
       IN  /\ mode' = [mode EXCEPT ![c] = IF mode[c] = "forward" THEN "rollback" ELSE "broken"]
           /\ IF next # None THEN AskLock(c, next)
              ELSE End(c, IF mode[c] = "forward" THEN "rejected" ELSE "torn")
    /\ UNCHANGED <<device, cache, transit, target, old, attempt, drops, history>>

\* stop() cancelled the future: nothing is written back.
Cancelled(c) ==
    /\ pc[c] = "cancelled"
    /\ Unlock
    /\ End(c, "gone")
    /\ UNCHANGED <<device, cache, transit, pending, mode, target, old, attempt,
                   drops, history>>

CallerStep(c) ==
    \/ TakeLock(c) \/ SendWrite(c) \/ AttemptFails(c) \/ EndPause(c)
    \/ WriteDone(c) \/ WriteFails(c) \/ Cancelled(c)

CommandNext ==
    \/ \E c \in Callers, p \in Prices : Call(c, p)
    \/ \E c \in Callers : CallerStep(c)
    \/ Connect \/ \E how \in {"failed", "cancelled"} : EndSession(how)
    \/ DeviceAssigns \/ DeviceAnswers \/ Receive

CommandSpec == CommandInit /\ [][CommandNext]_vars

\* Callers go on, and waits and pauses end, whatever the device does.
FairCommandSpec ==
    /\ CommandSpec
    /\ \A c \in Callers :
          /\ WF_vars(TakeLock(c)) /\ WF_vars(EndPause(c)) /\ WF_vars(WriteDone(c))
          /\ WF_vars(AttemptFails(c) \/ WriteFails(c)) /\ WF_vars(Cancelled(c))

-----------------------------------------------------------------------------

Reports == [id : Ids, value : Numbers]
Packets == [cmd : {"assign"}, id : Ids, value : Numbers] \cup {Get(i) : i \in Ids}

CommandTypeOK ==
    /\ device \in [Ids -> Numbers] /\ cache \in [Ids -> Numbers \cup {None}]
    /\ session \in {"up", "down"}
    /\ outbox \in Seq(Packets) /\ inbox \in Seq(Reports)
    /\ lock \in Callers \cup {None} /\ waiting \in Seq(Callers)
    /\ pending \in [id : Ids, value : Numbers, owner : Callers] \cup {NoPending}
    /\ pc \in [Callers -> {"idle", "confirmed"} \cup Active \cup Ended]
    /\ mode \in [Callers -> {"forward", "rollback", "broken"}]
    /\ target \in [Callers -> [Ids -> Numbers]]
    /\ old \in [Callers -> [Ids -> Numbers \cup {None}]]
    /\ current \in [Callers -> Ids] /\ attempt \in [Callers -> {1, 2}]
    /\ drops \in 0 .. MaxDrops
    /\ alone \in PriceCallers \cup {None}
    /\ before \in [Components -> Numbers] \cup {None} /\ premature \in {"no", "yes"}

(***************************************************************************)
(* The pending future is that of the write under way: its owner holds the  *)
(* command lock and waits for just this value, so no report confirms a     *)
(* write that was given up, nor another caller's; and no caller waits for  *)
(* a future that is gone (_new_write_future, on_error).                    *)
(***************************************************************************)
PendingIsOwn ==
    /\ pending.owner # None =>
          /\ lock = pending.owner /\ pc[pending.owner] = "wait"
          /\ pending.id = current[pending.owner]
          /\ pending.value = Wanted(pending.owner)
    /\ \A c \in Callers : pc[c] = "wait" => pending.owner = c

(***************************************************************************)
(* A price command that ran without another one leaves a whole price in    *)
(* the device: the one it set when it reports success, the one that was    *)
(* there when it reports that the write failed (_set_price), provided that *)
(* the cache held that one, that no write an earlier command gave up was   *)
(* still on its way, and that no older report, still on its way when the   *)
(* write was sent, confirmed what the device had not taken.                *)
(***************************************************************************)
PriceIsWhole ==
    alone # None /\ before # None /\ premature = "no" =>
        \A i \in Components :
            /\ pc[alone] = "ok" => device[i] = target[alone][i]
            /\ pc[alone] = "rejected" => device[i] = before[i]

(***************************************************************************)
(* Every command ends, whatever happens to the session and to the answers, *)
(* and gives the lock to the next one (_run_command_with_reconnect_retry). *)
(***************************************************************************)
CommandEnds == \A c \in Callers : pc[c] = "lock" ~> pc[c] \in Ended

=============================================================================
