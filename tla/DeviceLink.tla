------------------------------ MODULE DeviceLink ------------------------------
(***************************************************************************)
(* What every entity that gives commands has to do with: the session, the  *)
(* client's availability, the reports on their way, and the command lock   *)
(* with the callers that wait for it.  A module about entities EXTENDS     *)
(* this one and adds to each action what the entities make of it.          *)
(*                                                                         *)
(* A job is what a user's command does: "ready" to go on under the lock,   *)
(* "wait" for an answer, "lost" when the session is dropped meanwhile, or  *)
(* what its module adds.  DHEClientSession has the session in detail, and  *)
(* DHECommands the wait and the retry.                                     *)
(***************************************************************************)
EXTENDS Integers, Sequences

CONSTANTS
  Users,
  MaxUnheard,     \* reports on their way
  MaxTwists,      \* changes at the device and losses of the session
  Nil

ASSUME LinkAssumption ==
  /\ MaxUnheard \in Nat \ {0} /\ MaxTwists \in Nat
  /\ Nil \notin Users \cup Nat

VARIABLES
  link,      \* "down", "opening" or "up"
  live,      \* client.available
  reports,   \* on their way
  line,      \* _command_lock: its holder first, then who waits for it
  job,       \* what each user's command does
  twists     \* changes at the device and losses of the session so far

linkVars == <<link, live, reports, line, job, twists>>

Unbegun == [pc |-> "idle"]
Ended == [pc |-> "done"]

\* Some users give no command.
LinkInit ==
  /\ link = "down" /\ live = FALSE /\ reports = <<>>
  /\ line = <<>> /\ job \in [Users -> {Unbegun, Ended}] /\ twists = 0

-----------------------------------------------------------------------------
\* The session.

\* A new session asks for every value; these are the answers.
Opens(answers) ==
  /\ link = "down" /\ link' = "opening" /\ reports' = answers
  /\ UNCHANGED <<live, line, job, twists>>

\* A first answer has shown it to work.
Proves ==
  /\ link = "opening" /\ link' = "up" /\ live' = TRUE
  /\ UNCHANGED <<reports, line, job, twists>>

\* It is dropped; whoever waits for an answer learns of it.
Drops ==
  /\ link # "down" /\ link' = "down" /\ reports' = <<>>
  /\ twists < MaxTwists /\ twists' = twists + 1
  /\ job' = [u \in Users |-> [job[u] EXCEPT !.pc = IF @ = "wait" THEN "lost" ELSE @]]
  /\ UNCHANGED <<live, line>>

\* The grace period ends.
Expires ==
  /\ link # "up" /\ live /\ live' = FALSE
  /\ UNCHANGED <<link, reports, line, job, twists>>

\* Something is changed at the device.
Twists ==
  /\ twists < MaxTwists /\ twists' = twists + 1
  /\ UNCHANGED <<link, live, reports, line, job>>

Announces(r) ==
  /\ link # "down" /\ Len(reports) < MaxUnheard /\ reports' = Append(reports, r)
  /\ UNCHANGED <<link, live, line, job, twists>>

-----------------------------------------------------------------------------
\* Commands.

HasLock(u) == line # <<>> /\ Head(line) = u

\* What f says, and g of what f does not say.
Over(f, g) == [i \in DOMAIN f \cup DOMAIN g |-> IF i \in DOMAIN f THEN f[i] ELSE g[i]]

\* A command asks for the lock.
Orders(u, command) ==
  /\ job[u].pc = "idle"
  /\ job' = [job EXCEPT ![u] = Over([pc |-> "ready", attempt |-> 1], command)]
  /\ line' = Append(line, u)
  /\ UNCHANGED <<link, live, reports, twists>>

\* _ensure_session
Usable == link # "down" /\ live

\* The holder of the lock goes on.
Goes(u, pc) ==
  /\ HasLock(u) /\ job' = [job EXCEPT ![u].pc = pc]

\* The first attempt fails: _force_reconnect.
Repeats(u, pcs) ==
  /\ HasLock(u) /\ job[u].pc \in pcs /\ job[u].attempt = 1
  /\ job' = [job EXCEPT ![u].pc = "ready", ![u].attempt = 2]
  /\ link' = "down" /\ reports' = <<>>
  /\ UNCHANGED <<live, line, twists>>

\* The second one fails too.
Fails(u, pcs) ==
  /\ HasLock(u) /\ job[u].pc \in pcs /\ job[u].attempt = 2

\* The command ends, well or not.
Ends(u) ==
  /\ HasLock(u) /\ job' = [job EXCEPT ![u] = Ended] /\ line' = Tail(line)
  /\ UNCHANGED <<link, live, reports, twists>>

=============================================================================
