--------------------------- MODULE SnapshotStore ---------------------------
(***************************************************************************)
(* What the discovery cache (discovery_state.py) promises of its file.     *)
(* The process collects observations in memory and now and then replaces   *)
(* the file by a snapshot.  One snapshot is under way at a time, it is     *)
(* what the memory held when it was taken, and nothing was recorded while  *)
(* it was written, so the file is never replaced by an older state than    *)
(* the one it holds.  A crash keeps the file and loses the memory.         *)
(***************************************************************************)
EXTENDS FiniteSets

CONSTANTS Observations, Nil

VARIABLES
    memory,     \* the observations in memory, Nil before the first load
    stored,     \* the observations in the file
    snapshot    \* the snapshot being written, or Nil

storeVars == <<memory, stored, snapshot>>

StoreInit == memory = Nil /\ stored = {} /\ snapshot = Nil

\* The first load takes the file as it is, or nothing when it is unreadable.
Load(content) ==
    /\ memory = Nil
    /\ content \in {stored, {}}
    /\ memory' = content
    /\ UNCHANGED <<stored, snapshot>>

\* A load that was asked for by an observation records it at once.
Record(o) ==
    /\ snapshot = Nil
    /\ \/ memory # Nil /\ memory' = memory \cup {o}
       \/ /\ memory = Nil
          /\ \E content \in {stored, {}} : memory' = content \cup {o}
    /\ UNCHANGED <<stored, snapshot>>

Take ==
    /\ memory # Nil /\ snapshot = Nil
    /\ snapshot' = memory
    /\ UNCHANGED <<memory, stored>>

Commit ==
    /\ snapshot # Nil
    /\ stored' = snapshot /\ snapshot' = Nil
    /\ UNCHANGED memory

Abandon ==
    /\ snapshot # Nil
    /\ snapshot' = Nil
    /\ UNCHANGED <<memory, stored>>

Crash ==
    /\ memory' = Nil /\ snapshot' = Nil
    /\ UNCHANGED stored

StoreNext ==
    \/ \E o \in Observations : Record(o)
    \/ Load(stored) \/ Load({})
    \/ Take \/ Commit \/ Abandon \/ Crash

StoreSpec == StoreInit /\ [][StoreNext]_storeVars

=============================================================================
