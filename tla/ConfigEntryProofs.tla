-------------------------- MODULE ConfigEntryProofs --------------------------
(***************************************************************************)
(* What is proved of the config entry: the token kept for it               *)
(* (TokenStorage), and its setup, its target and its repair issues         *)
(* (EntryRepairs).  The two share no state.                                *)
(***************************************************************************)
EXTENDS TokenStorage, EntryRepairs, TLAPS

(***************************************************************************)
(* A busy task waits for a file; without this the types are not inductive. *)
(***************************************************************************)
BusyWithFile ==
    /\ \A m \in Migrations : mpc[m] # "idle" => cur[m] \in Files
    /\ \A r \in Resets : rpc[r] # "idle" => rcur[r] \in Files

TypeInv == TokenTypeOK /\ BusyWithFile

\* The end of a migration's file, with or without a next one.
LEMMA ReadNextType ==
    ASSUME TypeInv, NEW m \in Migrations, NEW kept \in SUBSET Files,
           NEW found \in Tokens \cup {None}, ReadNext(m, kept, found),
           UNCHANGED <<file, diskVars, resetVars, orphans, latest, dead, wiped>>
    PROVE  TypeInv'
<1> USE DEF TypeInv, BusyWithFile, TokenTypeOK, entryVars, diskVars, resetVars
<1>1. ASSUME NEW f \in todo[m], MoveOn(m, "reading", f, todo[m] \ {f}),
             keep' = [keep EXCEPT ![m] = kept], tok' = [tok EXCEPT ![m] = found],
             UNCHANGED <<src, outdated, entryVars>>
      PROVE  TypeInv'
  BY <1>1 DEF MoveOn
<1>2. CASE MigrationEnds(m) /\ UNCHANGED entryVars
  BY <1>2 DEF MigrationEnds, MoveOn
<1>3. CASE /\ MigrationEnds(m)
           /\ token' = IF token = None THEN found ELSE token
           /\ marker' = kept \cup marker
           /\ deferred' = TRUE
  BY <1>3 DEF MigrationEnds, MoveOn
<1> QED
  BY <1>1, <1>2, <1>3 DEF ReadNext

\* Every step leaves every variable in its type.
LEMMA TypeStep == TypeInv /\ [TokenNext]_vars => TypeInv'
<1> SUFFICES ASSUME TypeInv, [TokenNext]_vars PROVE TypeInv'
  OBVIOUS
<1> USE DEF TypeInv, BusyWithFile, TokenTypeOK, entryVars, diskVars, resetVars, migrationVars
<1>1. ASSUME NEW m \in Migrations, MigrationBegins(m) PROVE TypeInv'
  BY <1>1, SMTT(60) DEF MigrationBegins, MoveOn, TokensIn
<1>2. ASSUME NEW m \in Migrations, MigrationDeletes(m) PROVE TypeInv'
  BY <1>2 DEF MigrationDeletes
<1>3. ASSUME NEW m \in Migrations, MigrationReads(m) PROVE TypeInv'
  BY <1>3 DEF MigrationReads
<1>4. ASSUME NEW m \in Migrations, RetireNext(m) PROVE TypeInv'
  <2>1. ASSUME NEW f \in todo[m], MoveOn(m, "retiring", f, todo[m] \ {f}),
               UNCHANGED <<src, keep, tok, outdated, marker>>
        PROVE  TypeInv'
    BY <1>4, <2>1 DEF RetireNext, MoveOn
  <2>2. CASE MigrationEnds(m) /\ marker' = {}
    BY <1>4, <2>2 DEF RetireNext, MigrationEnds, MoveOn
  <2> QED
    BY <1>4, <2>1, <2>2 DEF RetireNext
<1>5. ASSUME NEW m \in Migrations, ReadDone(m) PROVE TypeInv'
  <2>1. CASE /\ MoveOn(m, "clearing", cur[m], todo[m])
             /\ UNCHANGED <<src, keep, tok, outdated, entryVars>>
    BY <1>5, <2>1 DEF ReadDone, MoveOn
  <2>2. CASE /\ IsToken(got[m])
             /\ ReadNext(m, keep[m] \cup {cur[m]},
                         IF tok[m] = None THEN got[m] ELSE tok[m])
    <3>1. keep[m] \cup {cur[m]} \in SUBSET Files
      BY <1>5 DEF ReadDone
    <3>2. (IF tok[m] = None THEN got[m] ELSE tok[m]) \in Tokens \cup {None}
      BY <2>2 DEF IsToken
    <3> QED
      BY <1>5, <2>2, <3>1, <3>2, ReadNextType DEF ReadDone
  <2> QED
    BY <1>5, <2>1, <2>2 DEF ReadDone
<1>6. ASSUME NEW m \in Migrations, ClearDone(m) PROVE TypeInv'
  <2>1. keep[m] \in SUBSET Files /\ tok[m] \in Tokens \cup {None}
    OBVIOUS
  <2> QED
    BY <1>6, <2>1, ReadNextType DEF ClearDone
<1>7. ASSUME NEW m \in Migrations, MigrationFails(m) PROVE TypeInv'
  BY <1>7 DEF MigrationFails, Leaves, MigrationEnds, MoveOn
<1>7a. ASSUME NEW m \in Migrations, MigrationGivesUp(m) PROVE TypeInv'
  BY <1>7a DEF MigrationGivesUp, MigrationEnds, MoveOn
<1>8. ASSUME NEW f \in Files, OrphanDeletes(f) PROVE TypeInv'
  BY <1>8 DEF OrphanDeletes
<1>9. ASSUME NEW r \in Resets, ResetBegins(r) PROVE TypeInv'
  <2>1. Owned \subseteq Files /\ outdated' \in [Migrations -> BOOLEAN]
    BY <1>9 DEF ResetBegins, Outdate, Owned
  <2>2. CASE token' = None /\ marker' = {} /\ deferred' = FALSE /\ UNCHANGED resetVars
             /\ dead' = dead \cup ({token} \cap Tokens)
    BY <1>9, <2>1, <2>2 DEF ResetBegins
  <2>3. ASSUME NEW f \in Owned,
               rpc' = [rpc EXCEPT ![r] = "deleting"], rcur' = [rcur EXCEPT ![r] = f],
               revoked' = [revoked EXCEPT ![r] = TokensIn(Owned) \cup ({token} \cap Tokens)],
               resetSources' = Owned, UNCHANGED <<deleted, rewritten, entryVars, dead>>
        PROVE  TypeInv'
    <3>1. TokensIn(Owned) \cup ({token} \cap Tokens) \in SUBSET Tokens
      BY DEF TokensIn
    <3> QED
      BY <1>9, <2>1, <2>3, <3>1 DEF ResetBegins
  <2> QED
    BY <1>9, <2>2, <2>3 DEF ResetBegins
<1>10. ASSUME NEW r \in Resets, ResetDeletes(r) PROVE TypeInv'
  BY <1>10 DEF ResetDeletes
<1>11. ASSUME NEW r \in Resets, ResetNext(r) PROVE TypeInv'
  <2> DEFINE done == deleted[r] \cup {rcur[r]}
  <2>1. done \in SUBSET Files
    BY <1>11 DEF ResetNext
  <2>2. CASE /\ token' = TokenAfter(r) /\ marker' = {} /\ deferred' = FALSE
             /\ dead' = dead \cup revoked[r] /\ wiped' = TRUE
             /\ ResetEnds(r, done)
    BY <1>11, <2>1, <2>2 DEF ResetNext, ResetEnds, TokenAfter
  <2>3. ASSUME NEW f \in resetSources \ done,
               rpc' = [rpc EXCEPT ![r] = "deleting"], rcur' = [rcur EXCEPT ![r] = f],
               deleted' = [deleted EXCEPT ![r] = done],
               UNCHANGED <<entryVars, resetSources, rewritten, revoked, dead, wiped>>
        PROVE  TypeInv'
    BY <1>11, <2>1, <2>3 DEF ResetNext
  <2> QED
    BY <1>11, <2>2, <2>3 DEF ResetNext
<1>12. ASSUME NEW r \in Resets, ResetFails(r) PROVE TypeInv'
  BY <1>12 DEF ResetFails, Leaves, ResetEnds
<1>13. ASSUME NEW t \in Tokens, Save(t) PROVE TypeInv'
  BY <1>13 DEF Save
<1>14. CASE Persist
  BY <1>14 DEF Persist
<1>15. CASE Restart
  BY <1>15 DEF Restart
<1>16. CASE UNCHANGED vars
  BY <1>16 DEF vars
<1> QED
  BY <1>1, <1>2, <1>3, <1>4, <1>5, <1>6, <1>7, <1>7a, <1>8, <1>9, <1>10, <1>11, <1>12,
     <1>13, <1>14, <1>15, <1>16 DEF TokenNext, MigrationStep, ResetStep

-----------------------------------------------------------------------------
(***************************************************************************)
(* Why a revoked token cannot return.  Its copies are in files the entry   *)
(* lists (CopiesKnown); a reset takes over every file with a token it      *)
(* revokes (ResetOwns) and deletes them all before it ends; a migration    *)
(* that is not outdated runs without any reset (FreshMigration), and what  *)
(* it read is then still alive and still in the files it keeps.            *)
(***************************************************************************)
Holds(f, t) == file[f] \in Tokens /\ file[f] = t

FilesDistinct ==
    /\ \A f, g \in Files : Holds(f, file[g]) => f = g
    /\ \A f \in Files : file[f] \notin dead

CopiesKnown ==
    \A f \in Files : /\ Holds(f, token) => f \in marker
                     /\ Holds(f, diskToken) => f \in diskMarker

ResetOwns ==
    \A r \in Resets :
        IF rpc[r] = "idle"
          THEN ~rewritten[r] /\ deleted[r] = {}
          ELSE /\ \A f \in deleted[r] : file[f] = None
               /\ rpc[r] = "deleted" => file[rcur[r]] = None
               /\ \A f \in Files : file[f] \in revoked[r] => f \in resetSources
               /\ rewritten[r] => /\ token \notin revoked[r]
                                 /\ \A f \in Files : ~Holds(f, token)
               /\ ~rewritten[r] => latest = None

\* What a migration found is alive, and its copies are in the files it keeps.
Found(m) ==
    /\ got[m] \notin dead /\ tok[m] \notin dead
    /\ \A f \in Files : /\ Holds(f, got[m]) => f = cur[m]
                        /\ Holds(f, tok[m]) => f \in keep[m]

\* A migration that retires files will have deleted the token's copies.
Retires(m) ==
    /\ token # None
    /\ \A f \in Files : Holds(f, token) => f \in todo[m] \cup {cur[m]}
    /\ mpc[m] = "retired" => file[cur[m]] = None

FreshMigration ==
    \A m \in Migrations :
        IF mpc[m] = "idle"
          THEN tok[m] = None /\ keep[m] = {}
          ELSE ~outdated[m] =>
                 /\ \A r \in Resets : rpc[r] = "idle"
                 /\ Found(m)
                 /\ mpc[m] \in {"retiring", "retired"} => Retires(m)

ResetInv == /\ FilesDistinct /\ CopiesKnown /\ ResetOwns /\ FreshMigration
            /\ NoResurrection /\ SavedTokenStays

(***************************************************************************)
(* Why a crash finds a token.  A file with a token is deleted only when a  *)
(* token is on disk, or a reset is newer than the one on disk (Backed).    *)
(***************************************************************************)
Backed == wiped \/ diskToken # None

DeletesBacked ==
    /\ ~wiped /\ diskToken # None => token # None
    /\ token # None /\ marker # {} /\ ~deferred => Backed
    /\ \A m \in Migrations :
         /\ mpc[m] \in {"retiring", "retired"} => Backed
         /\ mpc[m] = "clearing" => file[cur[m]] \notin Tokens
         /\ mpc[m] = "read" => file[cur[m]] \in {got[m], None}
    /\ \A r \in Resets : rpc[r] # "idle" => Backed
    /\ \A f \in orphans : file[f] \notin Tokens \/ Backed

CrashInv == DeletesBacked /\ CrashKeepsAToken

-----------------------------------------------------------------------------
\* Every step keeps what makes a reset final.
LEMMA ResetStepInv == TypeInv /\ ResetInv /\ [TokenNext]_vars => ResetInv'
<1> SUFFICES ASSUME TypeInv, ResetInv, [TokenNext]_vars PROVE ResetInv'
  OBVIOUS
<1> USE TokenAssumption DEF TypeInv, BusyWithFile, TokenTypeOK, entryVars, diskVars,
       resetVars, migrationVars
<1>1. ASSUME NEW m \in Migrations, MigrationBegins(m) PROVE ResetInv'
  <2>1. ResetOwns'
    BY <1>1 DEF ResetInv, ResetOwns, FilesDistinct, Holds, MigrationBegins,
       TokensIn, ActiveResets
  <2>2. FreshMigration'
    BY <1>1 DEF ResetInv, FreshMigration, CopiesKnown, Found, Retires, Holds,
       MigrationBegins, MoveOn, ActiveResets, ImportSurvived
  <2> QED
    BY <1>1, <2>1, <2>2 DEF ResetInv, MigrationBegins, FilesDistinct, CopiesKnown,
       NoResurrection, SavedTokenStays, Holds
<1>2. ASSUME NEW m \in Migrations, MigrationDeletes(m) PROVE ResetInv'
  <2>1. FilesDistinct'
    BY <1>2 DEF ResetInv, FilesDistinct, Holds, MigrationDeletes
  <2>2. CopiesKnown'
    BY <1>2 DEF ResetInv, CopiesKnown, Holds, MigrationDeletes
  <2>3. ResetOwns'
    BY <1>2 DEF ResetInv, ResetOwns, Holds, MigrationDeletes
  <2>4. FreshMigration'
    BY <1>2 DEF ResetInv, FreshMigration, Found, Retires, Holds, MigrationDeletes
  <2> QED
    BY <1>2, <2>1, <2>2, <2>3, <2>4 DEF ResetInv, MigrationDeletes, NoResurrection,
       SavedTokenStays
<1>3. ASSUME NEW m \in Migrations, MigrationReads(m) PROVE ResetInv'
  <2>1. FreshMigration'
    BY <1>3 DEF ResetInv, FreshMigration, FilesDistinct, Found, Retires, Holds,
       MigrationReads
  <2> QED
    BY <1>3, <2>1 DEF ResetInv, MigrationReads, FilesDistinct, CopiesKnown,
       ResetOwns, NoResurrection, SavedTokenStays, Holds
<1>4. ASSUME NEW m \in Migrations, MigrationGivesUp(m) PROVE ResetInv'
  <2>1. FreshMigration'
    BY <1>4 DEF ResetInv, FreshMigration, Found, Retires, Holds, MigrationGivesUp,
       MigrationEnds, MoveOn
  <2> QED
    BY <1>4, <2>1 DEF ResetInv, MigrationGivesUp, FilesDistinct, CopiesKnown,
       ResetOwns, NoResurrection, SavedTokenStays, Holds
<1>5. ASSUME NEW m \in Migrations, RetireNext(m) PROVE ResetInv'
  <2>1. CopiesKnown'
    BY <1>5 DEF ResetInv, CopiesKnown, FreshMigration, Holds, Found, Retires,
       RetireNext, MigrationEnds, MoveOn
  <2>2. FreshMigration'
    BY <1>5 DEF ResetInv, FreshMigration, Found, Retires, Holds, RetireNext,
       MigrationEnds, MoveOn
  <2> QED
    BY <1>5, <2>1, <2>2 DEF ResetInv, RetireNext, FilesDistinct, ResetOwns,
       NoResurrection, SavedTokenStays, Holds
<1>6. ASSUME NEW m \in Migrations, ReadDone(m) PROVE ResetInv'
  <2>1. CopiesKnown'
    BY <1>6 DEF ResetInv, CopiesKnown, FreshMigration, Holds, Found, Retires,
       ReadDone, ReadNext, IsToken, MigrationEnds, MoveOn
  <2>2. ResetOwns'
    BY <1>6 DEF ResetInv, ResetOwns, FreshMigration, Holds, Found, Retires,
       ReadDone, ReadNext, IsToken, MigrationEnds, MoveOn
  <2>3. FreshMigration'
    BY <1>6 DEF ResetInv, FreshMigration, FilesDistinct, Found, Retires, Holds,
       ReadDone, ReadNext, IsToken, MigrationEnds, MoveOn
  <2>4. NoResurrection'
    BY <1>6 DEF ResetInv, NoResurrection, FreshMigration, Found, Retires, Holds,
       ReadDone, ReadNext, IsToken, MigrationEnds, MoveOn
  <2>5. SavedTokenStays'
    BY <1>6 DEF ResetInv, SavedTokenStays, ReadDone, ReadNext, MigrationEnds, MoveOn
  <2> QED
    BY <1>6, <2>1, <2>2, <2>3, <2>4, <2>5 DEF ResetInv, ReadDone, FilesDistinct,
       Holds
<1>7. ASSUME NEW m \in Migrations, ClearDone(m) PROVE ResetInv'
  <2>1. CopiesKnown'
    BY <1>7 DEF ResetInv, CopiesKnown, FreshMigration, Holds, Found, Retires,
       ClearDone, ReadNext, MigrationEnds, MoveOn
  <2>2. ResetOwns'
    BY <1>7 DEF ResetInv, ResetOwns, FreshMigration, Holds, Found, Retires,
       ClearDone, ReadNext, MigrationEnds, MoveOn
  <2>3. FreshMigration'
    BY <1>7 DEF ResetInv, FreshMigration, FilesDistinct, Found, Retires, Holds,
       ClearDone, ReadNext, MigrationEnds, MoveOn
  <2>4. NoResurrection'
    BY <1>7 DEF ResetInv, NoResurrection, FreshMigration, Found, Retires, Holds,
       ClearDone, ReadNext, MigrationEnds, MoveOn
  <2>5. SavedTokenStays'
    BY <1>7 DEF ResetInv, SavedTokenStays, ClearDone, ReadNext, MigrationEnds,
       MoveOn
  <2> QED
    BY <1>7, <2>1, <2>2, <2>3, <2>4, <2>5 DEF ResetInv, ClearDone, FilesDistinct,
       Holds
<1>8. ASSUME NEW m \in Migrations, MigrationFails(m) PROVE ResetInv'
  <2>1. FreshMigration'
    BY <1>8 DEF ResetInv, FreshMigration, Found, Retires, Holds, MigrationFails,
       MigrationEnds, MoveOn
  <2> QED
    BY <1>8, <2>1 DEF ResetInv, MigrationFails, FilesDistinct, CopiesKnown,
       ResetOwns, NoResurrection, SavedTokenStays, Holds
<1>9. ASSUME NEW f \in Files, OrphanDeletes(f) PROVE ResetInv'
  <2>1. FilesDistinct'
    BY <1>9 DEF ResetInv, FilesDistinct, Holds, OrphanDeletes
  <2>2. CopiesKnown'
    BY <1>9 DEF ResetInv, CopiesKnown, Holds, OrphanDeletes
  <2>3. ResetOwns'
    BY <1>9 DEF ResetInv, ResetOwns, Holds, OrphanDeletes
  <2>4. FreshMigration'
    BY <1>9 DEF ResetInv, FreshMigration, Found, Retires, Holds, OrphanDeletes
  <2> QED
    BY <1>9, <2>1, <2>2, <2>3, <2>4 DEF ResetInv, OrphanDeletes, NoResurrection,
       SavedTokenStays
<1>10. ASSUME NEW r \in Resets, ResetBegins(r) PROVE ResetInv'
  <2>1. FilesDistinct'
    BY <1>10 DEF ResetInv, FilesDistinct, CopiesKnown, Holds, ResetBegins, Owned
  <2>2. CopiesKnown'
    BY <1>10 DEF ResetInv, CopiesKnown, Holds, ResetBegins
  <2>3. ResetOwns'
    BY <1>10, SMTT(60) DEF ResetInv, ResetOwns, FilesDistinct, CopiesKnown, Holds,
       ResetBegins, Owned, TokensIn
  <2>4. FreshMigration'
    BY <1>10 DEF ResetInv, FreshMigration, Found, Retires, Holds, ResetBegins,
       Outdate
  <2>5. NoResurrection'
    BY <1>10 DEF ResetInv, NoResurrection, ResetBegins
  <2>6. SavedTokenStays'
    BY <1>10 DEF ResetInv, SavedTokenStays, ResetBegins
  <2> QED
    BY <2>1, <2>2, <2>3, <2>4, <2>5, <2>6 DEF ResetInv
<1>11. ASSUME NEW r \in Resets, ResetDeletes(r) PROVE ResetInv'
  <2>1. FilesDistinct'
    BY <1>11 DEF ResetInv, FilesDistinct, Holds, ResetDeletes
  <2>2. CopiesKnown'
    BY <1>11 DEF ResetInv, CopiesKnown, Holds, ResetDeletes
  <2>3. ResetOwns'
    BY <1>11 DEF ResetInv, ResetOwns, Holds, ResetDeletes
  <2>4. FreshMigration'
    BY <1>11 DEF ResetInv, FreshMigration, Found, Retires, Holds, ResetDeletes
  <2> QED
    BY <1>11, <2>1, <2>2, <2>3, <2>4 DEF ResetInv, ResetDeletes, NoResurrection,
       SavedTokenStays
<1>12. ASSUME NEW r \in Resets, ResetNext(r) PROVE ResetInv'
  <2>1. FilesDistinct'
    BY <1>12 DEF ResetInv, FilesDistinct, ResetOwns, Holds, ResetNext
  <2>2. CopiesKnown'
    BY <1>12 DEF ResetInv, CopiesKnown, ResetOwns, Holds, ResetNext, TokenAfter
  <2>3. ResetOwns'
    <3> DEFINE done == deleted[r] \cup {rcur[r]}
    <3>1. \A f \in done : file[f] = None /\ f \in Files
      BY <1>12 DEF ResetNext, ResetInv, ResetOwns
    <3>2. CASE /\ resetSources \subseteq done
               /\ token' = TokenAfter(r) /\ ResetEnds(r, done)
      <4>1. \A f \in Files, q \in Resets :
              rpc[q] # "idle" /\ file[f] \in revoked[q] => file[f] # None
        OBVIOUS
      <4>2. \A q \in Resets \ {r} : rpc[q] # "idle" =>
              \A f \in Files : file[f] \notin revoked[q]
        BY <1>12, <3>1, <3>2, <4>1 DEF ResetNext, ResetInv, ResetOwns
      <4> QED
        BY <1>12, <3>2, <4>2 DEF ResetNext, ResetInv, ResetOwns, ResetEnds, TokenAfter, Holds
    <3>3. ASSUME NEW f \in resetSources \ done,
                 rpc' = [rpc EXCEPT ![r] = "deleting"], rcur' = [rcur EXCEPT ![r] = f],
                 deleted' = [deleted EXCEPT ![r] = done],
                 UNCHANGED <<entryVars, resetSources, rewritten, revoked, dead, wiped>>
          PROVE  ResetOwns'
      BY <1>12, <3>1, <3>3 DEF ResetNext, ResetInv, ResetOwns, Holds
    <3> QED
      BY <1>12, <3>2, <3>3 DEF ResetNext
  <2>4. FreshMigration'
    BY <1>12 DEF ResetInv, FreshMigration, Found, Retires, Holds, ResetNext,
       ResetEnds
  <2>5. NoResurrection'
    BY <1>12 DEF ResetInv, NoResurrection, ResetOwns, Holds, ResetNext, TokenAfter
  <2>6. SavedTokenStays'
    BY <1>12 DEF ResetInv, SavedTokenStays, ResetOwns, Holds, ResetNext, TokenAfter
  <2> QED
    BY <2>1, <2>2, <2>3, <2>4, <2>5, <2>6 DEF ResetInv
<1>13. ASSUME NEW r \in Resets, ResetFails(r) PROVE ResetInv'
  <2>1. ResetOwns'
    BY <1>13 DEF ResetInv, ResetOwns, Holds, ResetFails, ResetEnds, ActiveResets
  <2>2. FreshMigration'
    BY <1>13 DEF ResetInv, FreshMigration, Found, Retires, Holds, ResetFails,
       ResetEnds
  <2> QED
    BY <1>13, <2>1, <2>2 DEF ResetInv, ResetFails, FilesDistinct, CopiesKnown,
       NoResurrection, SavedTokenStays, Holds
<1>14. ASSUME NEW t \in Tokens, Save(t) PROVE ResetInv'
  <2>1. CopiesKnown'
    BY <1>14 DEF ResetInv, CopiesKnown, Holds, Save, NewToken
  <2>2. ResetOwns'
    BY <1>14 DEF ResetInv, ResetOwns, Holds, Save, NewToken
  <2>3. FreshMigration'
    BY <1>14 DEF ResetInv, FreshMigration, Found, Retires, Holds, Save, NewToken
  <2>4. NoResurrection'
    BY <1>14 DEF ResetInv, NoResurrection, Save, NewToken
  <2>5. SavedTokenStays'
    BY <1>14 DEF ResetInv, SavedTokenStays, Save
  <2> QED
    BY <1>14, <2>1, <2>2, <2>3, <2>4, <2>5 DEF ResetInv, Save, FilesDistinct, Holds
<1>15. CASE Persist
  <2>1. CopiesKnown'
    BY <1>15 DEF ResetInv, CopiesKnown, Holds, Persist
  <2> QED
    BY <1>15, <2>1 DEF ResetInv, Persist, FilesDistinct, ResetOwns, FreshMigration,
       NoResurrection, SavedTokenStays, Holds, Found, Retires
<1>16. CASE Restart
  <2>1. FilesDistinct'
    BY <1>16 DEF ResetInv, FilesDistinct, Holds, Restart
  <2>2. CopiesKnown'
    BY <1>16 DEF ResetInv, CopiesKnown, Holds, Restart
  <2>3. ResetOwns'
    BY <1>16 DEF ResetInv, ResetOwns, Holds, Restart
  <2>4. FreshMigration'
    BY <1>16 DEF ResetInv, FreshMigration, Found, Retires, Holds, Restart
  <2>5. NoResurrection'
    BY <1>16 DEF ResetInv, NoResurrection, FilesDistinct, Holds, Restart
  <2>6. SavedTokenStays'
    BY <1>16 DEF ResetInv, SavedTokenStays, Restart
  <2> QED
    BY <2>1, <2>2, <2>3, <2>4, <2>5, <2>6 DEF ResetInv
<1>17. CASE UNCHANGED vars
  BY <1>17 DEF vars, ResetInv, FilesDistinct, Holds, CopiesKnown, ResetOwns,
     FreshMigration, Found, Retires, NoResurrection, SavedTokenStays
<1> QED
  BY <1>1, <1>2, <1>3, <1>4, <1>5, <1>6, <1>7, <1>8, <1>9, <1>10, <1>11, <1>12,
     <1>13, <1>14, <1>15, <1>16, <1>17 DEF TokenNext, MigrationStep, ResetStep

\* Every step keeps what makes a crash harmless.
LEMMA CrashStep == TypeInv /\ CrashInv /\ [TokenNext]_vars => CrashInv'
<1> SUFFICES ASSUME TypeInv, CrashInv, [TokenNext]_vars PROVE CrashInv'
  OBVIOUS
<1> USE TokenAssumption DEF TypeInv, BusyWithFile, TokenTypeOK, entryVars, diskVars,
       resetVars, migrationVars
<1>1. ASSUME NEW m \in Migrations, MigrationBegins(m) PROVE CrashInv'
  <2>1. DeletesBacked'
    BY <1>1 DEF CrashInv, DeletesBacked, Backed, MigrationBegins, MoveOn,
       ImportSurvived
  <2>2. CrashKeepsAToken'
    BY <1>1 DEF CrashInv, CrashKeepsAToken, MigrationBegins
  <2> QED
    BY <2>1, <2>2 DEF CrashInv
<1>2. ASSUME NEW m \in Migrations, MigrationDeletes(m) PROVE CrashInv'
  <2>1. DeletesBacked'
    BY <1>2 DEF CrashInv, DeletesBacked, Backed, MigrationDeletes
  <2>2. CrashKeepsAToken'
    BY <1>2 DEF CrashInv, CrashKeepsAToken, DeletesBacked, Backed, MigrationDeletes
  <2> QED
    BY <2>1, <2>2 DEF CrashInv
<1>3. ASSUME NEW m \in Migrations, MigrationReads(m) PROVE CrashInv'
  <2>1. DeletesBacked'
    BY <1>3 DEF CrashInv, DeletesBacked, Backed, MigrationReads
  <2>2. CrashKeepsAToken'
    BY <1>3 DEF CrashInv, CrashKeepsAToken, MigrationReads
  <2> QED
    BY <2>1, <2>2 DEF CrashInv
<1>4. ASSUME NEW m \in Migrations, MigrationGivesUp(m) PROVE CrashInv'
  <2>1. DeletesBacked'
    BY <1>4 DEF CrashInv, DeletesBacked, Backed, MigrationGivesUp, MigrationEnds,
       MoveOn
  <2>2. CrashKeepsAToken'
    BY <1>4 DEF CrashInv, CrashKeepsAToken, MigrationGivesUp
  <2> QED
    BY <2>1, <2>2 DEF CrashInv
<1>5. ASSUME NEW m \in Migrations, RetireNext(m) PROVE CrashInv'
  <2>1. DeletesBacked'
    BY <1>5, SMTT(60) DEF CrashInv, DeletesBacked, Backed, RetireNext, MigrationEnds, MoveOn
  <2>2. CrashKeepsAToken'
    BY <1>5 DEF CrashInv, CrashKeepsAToken, RetireNext
  <2> QED
    BY <2>1, <2>2 DEF CrashInv
<1>6. ASSUME NEW m \in Migrations, ReadDone(m) PROVE CrashInv'
  <2>1. DeletesBacked'
    BY <1>6 DEF CrashInv, DeletesBacked, Backed, ReadDone, IsToken, ReadNext,
       MigrationEnds, MoveOn
  <2>2. CrashKeepsAToken'
    BY <1>6 DEF CrashInv, CrashKeepsAToken, ReadDone
  <2> QED
    BY <2>1, <2>2 DEF CrashInv
<1>7. ASSUME NEW m \in Migrations, ClearDone(m) PROVE CrashInv'
  <2>1. DeletesBacked'
    BY <1>7 DEF CrashInv, DeletesBacked, Backed, ClearDone, ReadNext, MigrationEnds,
       MoveOn
  <2>2. CrashKeepsAToken'
    BY <1>7 DEF CrashInv, CrashKeepsAToken, ClearDone
  <2> QED
    BY <2>1, <2>2 DEF CrashInv
<1>8. ASSUME NEW m \in Migrations, MigrationFails(m) PROVE CrashInv'
  <2>1. DeletesBacked'
    BY <1>8 DEF CrashInv, DeletesBacked, Backed, MigrationFails, Leaves,
       MigrationEnds, MoveOn
  <2>2. CrashKeepsAToken'
    BY <1>8 DEF CrashInv, CrashKeepsAToken, MigrationFails
  <2> QED
    BY <2>1, <2>2 DEF CrashInv
<1>9. ASSUME NEW f \in Files, OrphanDeletes(f) PROVE CrashInv'
  <2>1. DeletesBacked'
    BY <1>9 DEF CrashInv, DeletesBacked, Backed, OrphanDeletes
  <2>2. CrashKeepsAToken'
    BY <1>9 DEF CrashInv, CrashKeepsAToken, DeletesBacked, Backed, OrphanDeletes
  <2> QED
    BY <2>1, <2>2 DEF CrashInv
<1>10. ASSUME NEW r \in Resets, ResetBegins(r) PROVE CrashInv'
  <2>1. DeletesBacked'
    BY <1>10 DEF CrashInv, DeletesBacked, Backed, ResetBegins
  <2>2. CrashKeepsAToken'
    BY <1>10 DEF CrashInv, CrashKeepsAToken, DeletesBacked, Backed, ResetBegins
  <2> QED
    BY <2>1, <2>2 DEF CrashInv
<1>11. ASSUME NEW r \in Resets, ResetDeletes(r) PROVE CrashInv'
  <2>1. DeletesBacked'
    BY <1>11 DEF CrashInv, DeletesBacked, Backed, ResetDeletes
  <2>2. CrashKeepsAToken'
    BY <1>11 DEF CrashInv, CrashKeepsAToken, DeletesBacked, Backed, ResetDeletes
  <2> QED
    BY <2>1, <2>2 DEF CrashInv
<1>12. ASSUME NEW r \in Resets, ResetNext(r) PROVE CrashInv'
  <2>1. DeletesBacked'
    BY <1>12 DEF CrashInv, DeletesBacked, Backed, ResetNext, ResetEnds
  <2>2. CrashKeepsAToken'
    BY <1>12 DEF CrashInv, CrashKeepsAToken, DeletesBacked, Backed, ResetNext
  <2> QED
    BY <2>1, <2>2 DEF CrashInv
<1>13. ASSUME NEW r \in Resets, ResetFails(r) PROVE CrashInv'
  <2>1. DeletesBacked'
    BY <1>13 DEF CrashInv, DeletesBacked, Backed, ResetFails, Leaves, ResetEnds
  <2>2. CrashKeepsAToken'
    BY <1>13 DEF CrashInv, CrashKeepsAToken, ResetFails
  <2> QED
    BY <2>1, <2>2 DEF CrashInv
<1>14. ASSUME NEW t \in Tokens, Save(t) PROVE CrashInv'
  <2>1. DeletesBacked'
    BY <1>14 DEF CrashInv, DeletesBacked, Backed, Save
  <2>2. CrashKeepsAToken'
    BY <1>14 DEF CrashInv, CrashKeepsAToken, Save
  <2> QED
    BY <2>1, <2>2 DEF CrashInv
<1>15. CASE Persist
  <2>1. DeletesBacked'
    BY <1>15 DEF CrashInv, DeletesBacked, Backed, Persist
  <2>2. CrashKeepsAToken'
    BY <1>15 DEF CrashInv, CrashKeepsAToken, DeletesBacked, Backed, Persist
  <2> QED
    BY <2>1, <2>2 DEF CrashInv
<1>16. CASE Restart
  <2>1. DeletesBacked'
    BY <1>16 DEF CrashInv, DeletesBacked, Backed, Restart
  <2>2. CrashKeepsAToken'
    BY <1>16 DEF CrashInv, CrashKeepsAToken, Restart
  <2> QED
    BY <2>1, <2>2 DEF CrashInv
<1>17. CASE UNCHANGED vars
  BY <1>17 DEF vars, CrashInv, DeletesBacked, Backed, CrashKeepsAToken
<1> QED
  BY <1>1, <1>2, <1>3, <1>4, <1>5, <1>6, <1>7, <1>8, <1>9, <1>10, <1>11, <1>12,
     <1>13, <1>14, <1>15, <1>16, <1>17 DEF TokenNext, MigrationStep, ResetStep

-----------------------------------------------------------------------------
\* All three invariants hold once the entry is loaded.
LEMMA TokenInitInv == TokenInit => TypeInv /\ ResetInv /\ CrashInv
<1> SUFFICES ASSUME TokenInit PROVE TypeInv /\ ResetInv /\ CrashInv
  OBVIOUS
<1> USE TokenAssumption DEF TokenInit
<1>1. TypeInv
  BY DEF TypeInv, BusyWithFile, TokenTypeOK
<1>2. ResetInv
  BY DEF ResetInv, FilesDistinct, CopiesKnown, ResetOwns, FreshMigration, Holds,
     NoResurrection, SavedTokenStays
<1>3. CrashInv
  BY DEF CrashInv, DeletesBacked, Backed, CrashKeepsAToken
<1> QED
  BY <1>1, <1>2, <1>3

\* They hold in every reachable state.
LEMMA TokenInvariants == TokenSpec => [](TypeInv /\ ResetInv /\ CrashInv)
<1>1. TypeInv /\ ResetInv /\ CrashInv /\ [TokenNext]_vars
        => (TypeInv /\ ResetInv /\ CrashInv)'
  BY TypeStep, ResetStepInv, CrashStep
<1> QED
  BY TokenInitInv, <1>1, PTL DEF TokenSpec

(***************************************************************************)
(* Token, files and the tasks' local values have their types, whatever     *)
(* migrations and resets do at the same time.                              *)
(***************************************************************************)
THEOREM TokenTypeCorrect == TokenSpec => []TokenTypeOK
<1>1. TypeInv /\ ResetInv /\ CrashInv => TokenTypeOK
  BY DEF TypeInv
<1> QED
  BY TokenInvariants, <1>1, PTL

(***************************************************************************)
(* A token that a reset revoked never becomes the entry's token again      *)
(* (async_clear_token against async_migrate_legacy_token_files).           *)
(***************************************************************************)
THEOREM ResetIsFinal == TokenSpec => []NoResurrection
<1>1. TypeInv /\ ResetInv /\ CrashInv => NoResurrection
  BY DEF ResetInv
<1> QED
  BY TokenInvariants, <1>1, PTL

(***************************************************************************)
(* A token that pairing saved stays until the next reset begins: neither   *)
(* an older reset nor a migration takes it away (async_save_token).        *)
(***************************************************************************)
THEOREM SavedTokenKept == TokenSpec => []SavedTokenStays
<1>1. TypeInv /\ ResetInv /\ CrashInv => SavedTokenStays
  BY DEF ResetInv
<1> QED
  BY TokenInvariants, <1>1, PTL

(***************************************************************************)
(* Unless a reset asked for it, a crash at any point finds a token on      *)
(* disk: a source is deleted only after the import has survived a restart. *)
(***************************************************************************)
THEOREM CrashIsSafe == TokenSpec => []CrashKeepsAToken
<1>1. TypeInv /\ ResetInv /\ CrashInv => CrashKeepsAToken
  BY DEF CrashInv
<1> QED
  BY TokenInvariants, <1>1, PTL

-----------------------------------------------------------------------------
(***************************************************************************)
(* The life of the entry and its repair issues.                            *)
(*                                                                         *)
(* While the setup lock is held the entry says so; the client's callbacks  *)
(* are registered from the end of a setup to the end of an unload.         *)
(***************************************************************************)
Setting == {"probe", "migrate", "platforms"}
Unloading == {"unload", "stop"}

StagesMatch ==
    /\ setup.pc \in Setting <=> entry.state = "setup"
    /\ setup.pc \in Unloading <=> entry.state = "unloading"
    /\ Registered => entry.state \in {"loaded", "unloading", "stuck", "gone"}
    /\ setup.pc \in Unloading \/ entry.state = "loaded" => Registered
    /\ cleanup # "none" => Registered
    /\ setup.pc = "probe" => setup.primary \in Targets
    /\ setup.pc = "migrate" => setup.reached \in Targets

USE EntryAssumption DEF IssueTypes, Fixable, Connectivity

\* The types and the stages of the first setup.
LEMMA EntryInitTypes == EntryInit => EntryTypeOK /\ StagesMatch
<1> SUFFICES ASSUME EntryInit PROVE EntryTypeOK /\ StagesMatch
  OBVIOUS
<1> USE DEF EntryInit
<1>1. entry.state = "setup" /\ entry.data \in Targets /\ entry.options = Nil
  OBVIOUS
<1>2. setup = [pc |-> "probe", primary |-> entry.data, reached |-> Nil, next |-> Nil]
  BY DEF Idle
<1>3. EntryTypeOK
  <2>1. entry \in [state : {"setup", "retry", "loaded", "unloading", "off", "stuck", "gone"},
                   data : Targets, options : Targets \cup {Nil}]
    OBVIOUS
  <2>2. setup \in [pc : {"none", "probe", "migrate", "platforms", "unload", "stop"},
                   primary : Targets \cup {Nil}, reached : Targets \cup {Nil},
                   next : {"setup", "off", "gone", Nil}]
    BY <1>1, <1>2
  <2>3. watch \in [active : IssueTypes \cup {Nil}, asked : BOOLEAN]
    BY DEF Unheard
  <2>4. /\ listeners \in 0 .. MaxPending /\ reloads \in 0 .. MaxPending
        /\ changes \in 0 .. MaxChanges
    OBVIOUS
  <2>5. /\ runtime \in Runtimes \cup {Nil} /\ client \in Clients \cup {Nil}
        /\ issues \subseteq IssueTypes
    OBVIOUS
  <2>6. /\ overlooked \in BOOLEAN /\ cleanup \in {"none", "waiting", "deleting"}
        /\ fix \in {"none", "form", "pairing", "reload"}
    BY Zenon
  <2> QED
    BY <2>1, <2>2, <2>3, <2>4, <2>5, <2>6
       DEF EntryTypeOK, HassTypeOK, ShownTypeOK, TasksTypeOK
<1>4. StagesMatch
  BY <1>1, <1>2 DEF StagesMatch, Registered, Setting, Unloading
<1> QED
  BY <1>3, <1>4

\* What the diagnostics callback makes of the client's diagnostics c.
LEMMA HearTypes ==
    ASSUME EntryTypeOK, NEW c \in Clients, Hear(c)
    PROVE  /\ client' = c /\ issues' \subseteq IssueTypes
           /\ watch' \in [active : IssueTypes \cup {Nil}, asked : BOOLEAN]
           /\ cleanup' \in {"none", "waiting", "deleting"}
<1> USE DEF EntryTypeOK, HassTypeOK, ShownTypeOK
<1>1. client' = c /\ Wanted(c) \in IssueTypes \cup {Nil}
  BY DEF Hear, Wanted, AuthIssue, ConnectivityIssue
<1>2. CASE c.state = "connected"
  <2>1. AllClear
    BY <1>2 DEF Hear
  <2>2. cleanup' = cleanup \/ cleanup' = "waiting"
    BY <2>1, Zenon DEF AllClear, ScheduleCleanup
  <2>3. watch' = [active |-> Nil, asked |-> TRUE] /\ issues' = {}
    BY <2>1 DEF AllClear
  <2> QED
    BY <1>1, <2>2, <2>3
<1>3. CASE c.state # "connected" /\ Wanted(c) # Nil
  <2>1. Show(Wanted(c)) /\ cleanup' = cleanup
    BY <1>3 DEF Hear
  <2>2. watch' = [active |-> Wanted(c), asked |-> FALSE]
    BY <2>1 DEF Show
  <2>3. issues' \subseteq issues \cup {Wanted(c)}
    BY <2>1 DEF Show, Created
  <2> QED
    BY <1>1, <1>3, <2>1, <2>2, <2>3
<1>4. CASE c.state # "connected" /\ Wanted(c) = Nil
  <2>1. Withdraw /\ cleanup' = cleanup
    BY <1>4 DEF Hear
  <2>2. watch' \in [active : IssueTypes \cup {Nil}, asked : BOOLEAN]
    BY <2>1 DEF Withdraw
  <2>3. issues' \subseteq issues
    BY <2>1 DEF Withdraw
  <2> QED
    BY <1>1, <2>1, <2>2, <2>3
<1> QED
  BY <1>2, <1>3, <1>4

\* Diagnostics that say the device refused the token say so twice.
Refusal(c) == c.state = "auth_failed" => c.auth

(***************************************************************************)
(* A step of the client changes nothing but its diagnostics and, through   *)
(* the callback, what is shown.                                            *)
(***************************************************************************)
LEMMA ClientSteps ==
    ASSUME EntryTypeOK, ClientStep, Registered => Refusal(client)
    PROVE  /\ UNCHANGED <<entry, setup, runtime, fix, listeners, reloads, changes, overlooked>>
           /\ \/ \E c \in Clients : Hear(c) /\ Refusal(c) /\ Registered
              \/ GraceEnds \/ Cleans
<1> USE DEF elsewhere, hass, tasks, ClientIs, Registered, Refusal
<1>0. Registered => client \in Clients
  BY DEF EntryTypeOK, ShownTypeOK
<1> USE DEF Clients, Running, Trying, Reasons
<1>1. CASE Opens
  <2> DEFINE c == [client EXCEPT !.state = "initializing"]
  <2>1. c \in Clients /\ Refusal(c)
    BY <1>0, <1>1 DEF Opens
  <2> QED
    BY <1>1, <2>1, Zenon DEF Opens
<1>2. CASE Connects
  <2> DEFINE c == [NewClient EXCEPT !.state = "connected"]
  <2>1. c \in Clients /\ Refusal(c)
    BY DEF NewClient
  <2> QED
    BY <1>2, <2>1, Zenon DEF Connects
<1>3. CASE Loses
  <2>1. PICK r \in Reasons :
          Hear([client EXCEPT !.state = "reconnecting", !.reason = r,
                              !.outage = IF @ = "no" THEN "grace" ELSE @])
    BY <1>3, Zenon DEF Loses
  <2> DEFINE c == [client EXCEPT !.state = "reconnecting", !.reason = r,
                                 !.outage = IF @ = "no" THEN "grace" ELSE @]
  <2>2. c \in Clients /\ Refusal(c) /\ Hear(c)
    BY <1>0, <1>3, <2>1 DEF Loses
  <2> HIDE DEF c
  <2> QED
    BY <1>3, <2>2, Zenon DEF Loses
<1>4. CASE Pauses
  <2> DEFINE c == [client EXCEPT !.state = "paused", !.reason = "other"]
  <2>1. c \in Clients /\ Refusal(c)
    BY <1>0, <1>4 DEF Pauses
  <2> QED
    BY <1>4, <2>1, Zenon DEF Pauses
<1>5. CASE AuthFails
  <2> DEFINE c == [client EXCEPT !.state = "auth_failed", !.auth = TRUE, !.reason = "auth"]
  <2>1. c \in Clients /\ Refusal(c)
    BY <1>0, <1>5 DEF AuthFails
  <2> QED
    BY <1>5, <2>1, Zenon DEF AuthFails
<1>6. CASE Notifies
  BY <1>0, <1>6, Zenon DEF Notifies
<1>7. CASE Restarts
  <2> DEFINE c == [client EXCEPT !.state = "stopping"]
  <2>1. c \in Clients /\ Refusal(c)
    BY <1>0, <1>7 DEF Restarts
  <2> QED
    BY <1>7, <2>1, Zenon DEF Restarts
<1>8. CASE Restarted
  <2> DEFINE c == [client EXCEPT !.state = "stopped"]
  <2>1. c \in Clients /\ Refusal(c)
    BY <1>0, <1>8 DEF Restarted
  <2> QED
    BY <1>8, <2>1, Zenon DEF Restarted
<1>9. CASE GraceEnds \/ Cleans
  BY <1>9, Zenon DEF GraceEnds, Cleans
<1> QED
  BY <1>1, <1>2, <1>3, <1>4, <1>5, <1>6, <1>7, <1>8, <1>9 DEF ClientStep

(***************************************************************************)
(* What each step leaves alone: the client and the repair flow do not      *)
(* touch the setup, the changes of the entry do not touch what is shown.   *)
(***************************************************************************)
LEMMA HassStep ==
    ASSUME EntryTypeOK, StagesMatch, EntryNext, Registered => Refusal(client)
    PROVE  HassTypeOK'
<1> USE DEF HassTypeOK, hass, others, quiet, tasks, Idle
<1>0. HassTypeOK /\ Target \in Targets /\ Signature \in Signatures
  BY DEF EntryTypeOK, Target, Signature, Signatures
<1>a. BeginSetup /\ runtime' \in Runtimes \cup {Nil} => HassTypeOK'
  BY <1>0 DEF BeginSetup
<1>b. ASSUME NEW next \in {"setup", "off", "gone"}, BeginUnload(next), UNCHANGED runtime
      PROVE  HassTypeOK'
  BY <1>0, <1>b DEF BeginUnload
<1>c. ASSUME NEW next \in {"setup", "off", "gone"}, Starts(next), UNCHANGED runtime
      PROVE  HassTypeOK'
  BY <1>0, <1>a, <1>b, <1>c DEF Starts
<1>1. CASE ClientStep
  BY <1>0, <1>1, ClientSteps
<1>2. CASE Retry
  BY <1>0, <1>a, <1>2 DEF Retry
<1>3. CASE Unreachable \/ PlatformsFail \/ Loaded
  BY <1>0, <1>3 DEF Unreachable, PlatformsFail, Loaded
<1>4. CASE Probed
  BY <1>0, <1>4 DEF Probed
<1>5. CASE Migrated
  <2>1. setup.reached \in Targets
    BY <1>5 DEF Migrated, StagesMatch
  <2> QED
    BY <1>0, <1>5, <2>1 DEF Migrated, Runtimes
<1>6. CASE Reload \/ UserReload \/ Disable \/ FixReloads
  BY <1>c, <1>6 DEF Reload, UserReload, Disable, FixReloads
<1>7. CASE RemoveEntry \/ UnloadFails
  BY <1>0, <1>b, <1>7 DEF RemoveEntry, UnloadFails, Removed
<1>8. CASE StopsClient
  BY <1>0, <1>8 DEF StopsClient
<1>9. CASE Unloaded
  BY <1>0, <1>a, <1>9 DEF Unloaded, Removed
<1>10. CASE TokenSaved \/ FixOpens \/ FixSubmits \/ Fixed \/ FixFails
  BY <1>0, <1>10 DEF TokenSaved, FixOpens, FixSubmits, Fixed, FixFails
<1>11. CASE Listens
  <2>1. UNCHANGED <<entry, setup>>
    BY <1>11 DEF Listens
  <2>2. \/ UNCHANGED runtime
        \/ runtime' = IF runtime = Nil THEN Nil ELSE [runtime EXCEPT !.signature = Signature]
    BY <1>11, Zenon DEF Listens
  <2>3. runtime' \in Runtimes \cup {Nil}
    BY <1>0, <2>2 DEF Runtimes
  <2> QED
    BY <1>0, <2>1, <2>3
<1>12. ASSUME NEW flow \in {"options", "announced"}, NEW t \in Targets, Retarget(flow, t)
       PROVE  HassTypeOK'
  BY <1>0, <1>12 DEF Retarget
<1> QED
  BY <1>1, <1>2, <1>3, <1>4, <1>5, <1>6, <1>7, <1>8, <1>9, <1>10, <1>11, <1>12
     DEF EntryNext, LoadStep, ChangeStep, FixStep

LEMMA ShownStep ==
    ASSUME EntryTypeOK, StagesMatch, EntryNext, Registered => Refusal(client)
    PROVE  ShownTypeOK' /\ (Registered' => Refusal(client'))
<1> USE DEF ShownTypeOK, quiet, shown, Registered
<1>0. ShownTypeOK
  BY DEF EntryTypeOK
<1>a. ASSUME NEW c \in Clients, Hear(c), Refusal(c)
      PROVE  ShownTypeOK' /\ Refusal(client')
  BY <1>a, HearTypes
<1>b. UNCHANGED <<client, watch, cleanup>> /\ issues' \subseteq IssueTypes
        => ShownTypeOK' /\ (Registered' => Refusal(client'))
  BY <1>0 DEF Refusal
<1>1. CASE ClientStep /\ ~GraceEnds /\ ~Cleans
  BY <1>1, <1>a, ClientSteps
<1>2. CASE GraceEnds
  <2>1. /\ client \in Clients /\ client' = [client EXCEPT !.outage = "late"]
        /\ UNCHANGED <<issues, watch, cleanup>>
    BY <1>0, <1>2 DEF GraceEnds
  <2> QED
    BY <1>0, <2>1 DEF Clients, Refusal
<1>3. CASE Cleans
  <2>1. UNCHANGED <<client, watch>> /\ issues' \in {issues, {}}
        /\ cleanup' \in {"deleting", "none"}
    BY <1>3 DEF Cleans
  <2> QED
    BY <1>0, <2>1 DEF Refusal
<1>4. CASE \/ Retry \/ Probed \/ Migrated \/ PlatformsFail \/ Reload \/ UserReload \/ Disable
           \/ FixOpens \/ FixSubmits \/ FixFails \/ FixReloads \/ ChangeStep
  BY <1>0, <1>4, <1>b
     DEF Retry, Probed, Migrated, PlatformsFail, Reload, UserReload, Disable, FixOpens,
         FixSubmits, FixFails, FixReloads, ChangeStep, TokenSaved, Listens, Retarget
<1>5. CASE Unreachable
  BY <1>0, <1>5, <1>b DEF Unreachable
<1>6. CASE Loaded
  <2>1. client' = NewClient /\ issues' = {} /\ watch' = Unheard /\ cleanup' = "waiting"
    BY <1>6 DEF Loaded
  <2> QED
    BY <2>1 DEF NewClient, Unheard, Clients, Running, Trying, Refusal
<1>7. CASE RemoveEntry \/ UnloadFails \/ Fixed
  BY <1>0, <1>7, <1>b DEF RemoveEntry, UnloadFails, Removed, Fixed
<1>8. CASE StopsClient
  <2>1. Registered
    BY <1>8 DEF StopsClient, StagesMatch, Unloading
  <2> DEFINE c == [client EXCEPT !.state = "stopping"]
  <2>2. c \in Clients /\ Refusal(c) /\ Hear(c)
    BY <1>0, <1>8, <2>1 DEF StopsClient, Clients, Refusal
  <2> HIDE DEF c
  <2> QED
    BY <1>a, <2>2
<1>9. CASE Unloaded
  <2>1. client' = Nil /\ cleanup' = "none" /\ watch' = Unheard /\ issues' \in {issues, {}}
    BY <1>9 DEF Unloaded, Removed
  <2> QED
    BY <1>0, <2>1 DEF Unheard
<1> QED
  BY <1>1, <1>2, <1>3, <1>4, <1>5, <1>6, <1>7, <1>8, <1>9
     DEF EntryNext, LoadStep, FixStep

LEMMA CountsStep ==
    ASSUME EntryTypeOK, EntryNext, Registered => Refusal(client) PROVE TasksTypeOK'
<1> USE DEF hass, others, quiet, tasks
<1>0. TasksTypeOK /\ MaxPending \in Nat /\ MaxChanges \in Nat
  BY DEF EntryTypeOK
<1>a. UNCHANGED <<fix, listeners, changes>> /\ reloads' \in 0 .. MaxPending
        /\ overlooked' \in BOOLEAN => TasksTypeOK'
  BY <1>0, Zenon DEF TasksTypeOK
<1>b. ASSUME NEW next \in {"setup", "off"}, Starts(next) PROVE overlooked' \in BOOLEAN
  BY <1>0, <1>b, Zenon DEF TasksTypeOK, Starts, BeginSetup, BeginUnload
<1>c. reloads \in 0 .. MaxPending /\ listeners \in 0 .. MaxPending /\ changes \in 0 .. MaxChanges
        /\ overlooked \in BOOLEAN
  BY <1>0 DEF TasksTypeOK
<1>1. CASE ClientStep
  BY <1>0, <1>1, ClientSteps, Zenon DEF TasksTypeOK
<1>2. CASE \/ Retry \/ Unreachable \/ Probed \/ Migrated \/ PlatformsFail \/ Loaded
           \/ UnloadFails \/ StopsClient
  <2>1. UNCHANGED <<fix, listeners, changes, reloads>> /\ overlooked' \in {overlooked, FALSE}
    BY <1>2, Zenon DEF Retry, Unreachable, Probed, Migrated, PlatformsFail, Loaded,
                       UnloadFails, StopsClient, BeginSetup
  <2> QED
    BY <1>a, <1>c, <2>1, Zenon
<1>3. CASE Reload
  <2>1. reloads' = reloads - 1 /\ reloads > 0 /\ Starts("setup")
        /\ UNCHANGED <<fix, listeners, changes>>
    BY <1>3 DEF Reload
  <2>2. reloads' \in 0 .. MaxPending
    BY <1>0, <1>c, <2>1
  <2> QED
    BY <1>a, <1>b, <2>1, <2>2
<1>4. CASE UserReload \/ Disable \/ RemoveEntry \/ Unloaded
  <2>1. UNCHANGED <<fix, listeners, changes, reloads>>
    BY <1>4, Zenon DEF UserReload, Disable, RemoveEntry, Unloaded
  <2>2. overlooked' \in BOOLEAN
    BY <1>4, <1>b, <1>c, Zenon
       DEF UserReload, Disable, RemoveEntry, Unloaded, BeginSetup, BeginUnload
  <2> QED
    BY <1>a, <1>c, <2>1, <2>2
<1>5. CASE TokenSaved
  <2>1. UNCHANGED <<fix, reloads, changes, overlooked>> /\ Update
    BY <1>5, Zenon DEF TokenSaved
  <2>2. listeners' \in 0 .. MaxPending
    BY <1>0, <1>c, <2>1 DEF Update
  <2> QED
    BY <1>0, <2>1, <2>2, Zenon DEF TasksTypeOK
<1>6. CASE Listens
  <2>1. /\ UNCHANGED <<fix, changes, overlooked>> /\ listeners > 0 /\ listeners' = listeners - 1
        /\ reloads' = reloads \/ (reloads < MaxPending /\ reloads' = reloads + 1)
    BY <1>6, Zenon DEF Listens
  <2>2. listeners' \in 0 .. MaxPending /\ reloads' \in 0 .. MaxPending
    BY <1>0, <1>c, <2>1
  <2> QED
    BY <1>0, <2>1, <2>2, Zenon DEF TasksTypeOK
<1>7. ASSUME NEW flow \in {"options", "announced"}, NEW t \in Targets, Retarget(flow, t)
      PROVE  TasksTypeOK'
  <2>1. /\ UNCHANGED fix /\ Update /\ changes < MaxChanges /\ changes' = changes + 1
        /\ reloads' = reloads \/ (reloads < MaxPending /\ reloads' = reloads + 1)
    BY <1>7, Zenon DEF Retarget
  <2>2. listeners' \in 0 .. MaxPending /\ reloads' \in 0 .. MaxPending
        /\ changes' \in 0 .. MaxChanges
    BY <1>0, <1>c, <2>1 DEF Update
  <2>3. overlooked' \in BOOLEAN
    BY <1>7, Zenon DEF Retarget
  <2> QED
    BY <1>0, <2>1, <2>2, <2>3, Zenon DEF TasksTypeOK
<1>8. CASE FixOpens \/ FixSubmits \/ Fixed \/ FixFails \/ FixReloads
  <2>1. UNCHANGED <<listeners, changes, reloads>>
    BY <1>8, Zenon DEF FixOpens, FixSubmits, Fixed, FixFails, FixReloads
  <2>2. fix' \in {"none", "form", "pairing", "reload"}
    BY <1>8 DEF FixOpens, FixSubmits, Fixed, FixFails, FixReloads
  <2>3. overlooked' \in BOOLEAN
    BY <1>8, <1>b, <1>c, Zenon DEF FixOpens, FixSubmits, Fixed, FixFails, FixReloads
  <2> QED
    BY <1>c, <2>1, <2>2, <2>3, Zenon DEF TasksTypeOK
<1> QED
  BY <1>1, <1>2, <1>3, <1>4, <1>5, <1>6, <1>7, <1>8
     DEF EntryNext, LoadStep, ChangeStep, FixStep

\* The stages go with the setup lock.
LEMMA StagesStep ==
    ASSUME EntryTypeOK, EntryTypeOK', StagesMatch, EntryNext, Registered => Refusal(client)
    PROVE  StagesMatch'
<1> USE DEF StagesMatch, Setting, Unloading, hass, others, quiet, shown, tasks, Idle
<1>0. HassTypeOK /\ Target \in Targets /\ (Registered <=> client \in Clients)
      /\ (Registered' <=> client' \in Clients)
  BY DEF EntryTypeOK, HassTypeOK, ShownTypeOK, Target, Registered
<1>a. ASSUME BeginSetup, ~Registered', cleanup' = "none" PROVE StagesMatch'
  BY <1>0, <1>a DEF BeginSetup, HassTypeOK
<1>b. ASSUME NEW next, BeginUnload(next), entry.state = "loaded",
             UNCHANGED <<client, cleanup>>
      PROVE  StagesMatch'
  <2>1. entry'.state = "unloading" /\ setup'.pc = "unload"
    BY <1>0, <1>b DEF BeginUnload, HassTypeOK
  <2> QED
    BY <1>0, <1>b, <2>1 DEF Registered
<1>c. ASSUME NEW next, Starts(next), Free, UNCHANGED <<client, cleanup>>
      PROVE  StagesMatch'
  <2>1. CASE entry.state = "loaded"
    BY <1>b, <1>c, <2>1 DEF Starts
  <2>2. CASE entry.state \in {"retry", "off"} /\ BeginSetup
    BY <1>0, <1>a, <1>c, <2>2
  <2>3. CASE UNCHANGED <<entry, setup>>
    BY <1>c, <2>3 DEF Registered
  <2> QED
    BY <1>c, <2>1, <2>2, <2>3 DEF Starts
<1>1. CASE ClientStep
  <2>1. UNCHANGED <<entry, setup>> /\ (Registered' <=> Registered)
    BY <1>0, <1>1, ClientSteps, HearTypes
       DEF GraceEnds, Cleans, Registered, Clients, elsewhere
  <2>2. cleanup' # "none" => Registered
    BY <1>1, ClientSteps, Zenon DEF GraceEnds, Cleans
  <2> QED
    BY <1>0, <2>1, <2>2
<1>2. CASE Retry
  BY <1>0, <1>2, <1>a DEF Retry, Registered
<1>3. CASE Unreachable \/ PlatformsFail
  <2>1. /\ setup.pc \in Setting /\ entry'.state \in {"retry", "off"} /\ setup'.pc = "none"
        /\ UNCHANGED <<client, cleanup>>
    BY <1>0, <1>3 DEF Unreachable, PlatformsFail, HassTypeOK
  <2> QED
    BY <1>0, <2>1 DEF Registered
<1>4. CASE Probed \/ Migrated
  <2>1. /\ setup.pc \in Setting /\ setup'.pc \in {"migrate", "platforms"}
        /\ setup'.pc = "migrate" => setup'.reached \in Targets
        /\ UNCHANGED <<entry, client, cleanup>>
    BY <1>0, <1>4 DEF Probed, Migrated, HassTypeOK
  <2> QED
    BY <1>0, <2>1 DEF Registered
<1>5. CASE Loaded
  <2>1. entry'.state = "loaded" /\ setup'.pc = "none" /\ Registered'
    BY <1>0, <1>5 DEF Loaded, HassTypeOK, NewClient, Clients, Running, Trying
  <2> QED
    BY <2>1
<1>6. CASE Reload \/ UserReload \/ Disable \/ FixReloads
  BY <1>6, <1>c DEF Reload, UserReload, Disable, FixReloads, Free
<1>7. CASE RemoveEntry
  <2>1. CASE entry.state = "loaded"
    BY <1>b, <1>7, <2>1 DEF RemoveEntry
  <2>2. CASE entry.state # "loaded"
    <3>1. entry'.state = "gone" /\ setup'.pc = "none" /\ UNCHANGED <<client, cleanup>>
      BY <1>0, <1>7, <2>2 DEF RemoveEntry, Removed, HassTypeOK
    <3> QED
      BY <3>1 DEF Registered
  <2> QED
    BY <2>1, <2>2
<1>8. CASE UnloadFails
  <2>1. /\ entry'.state \in {"gone", "stuck"} /\ setup'.pc = "none"
        /\ UNCHANGED <<client, cleanup>>
    BY <1>0, <1>8 DEF UnloadFails, Removed, HassTypeOK
  <2> QED
    BY <2>1 DEF Registered
<1>9. CASE StopsClient
  <2>1. /\ setup.pc = "unload" /\ setup'.pc = "stop" /\ UNCHANGED entry
        /\ client' = [client EXCEPT !.state = "stopping"]
    BY <1>0, <1>9 DEF StopsClient, HassTypeOK, Hear
  <2>2. Registered /\ Registered'
    BY <1>0, <2>1 DEF Clients
  <2> QED
    BY <2>1, <2>2
<1>10. CASE Unloaded
  <2>1. ~Registered' /\ cleanup' = "none"
    BY <1>10 DEF Unloaded, Registered
  <2>2. \/ BeginSetup
        \/ entry'.state \in {"gone", "off"} /\ setup'.pc = "none"
    BY <1>0, <1>10 DEF Unloaded, Removed, HassTypeOK
  <2> QED
    BY <1>a, <2>1, <2>2
<1>11. CASE TokenSaved \/ Listens \/ FixOpens \/ FixSubmits \/ Fixed \/ FixFails
  BY <1>11 DEF TokenSaved, Listens, FixOpens, FixSubmits, Fixed, FixFails, Registered
<1>12. ASSUME NEW flow \in {"options", "announced"}, NEW t \in Targets, Retarget(flow, t)
       PROVE  StagesMatch'
  <2>1. entry'.state = entry.state /\ UNCHANGED <<setup, client, cleanup>>
    BY <1>0, <1>12 DEF Retarget, HassTypeOK
  <2> QED
    BY <2>1 DEF Registered
<1> QED
  BY <1>1, <1>2, <1>3, <1>4, <1>5, <1>6, <1>7, <1>8, <1>9, <1>10, <1>11, <1>12
     DEF EntryNext, LoadStep, ChangeStep, FixStep

EntryInv == EntryTypeOK /\ StagesMatch /\ (Registered => Refusal(client))

LEMMA EntryInvStep == EntryInv /\ [EntryNext]_allVars => EntryInv'
<1> SUFFICES ASSUME EntryInv, [EntryNext]_allVars PROVE EntryInv'
  OBVIOUS
<1> USE DEF EntryInv
<1>1. CASE EntryNext
  <2>1. EntryTypeOK' /\ (Registered' => Refusal(client'))
    BY <1>1, HassStep, ShownStep, CountsStep DEF EntryTypeOK
  <2> QED
    BY <1>1, <2>1, StagesStep
<1>2. CASE UNCHANGED allVars
  <2>1. HassTypeOK' /\ ShownTypeOK' /\ TasksTypeOK'
    BY <1>2 DEF allVars, hass, shown, tasks, EntryTypeOK, HassTypeOK, ShownTypeOK, TasksTypeOK
  <2>2. StagesMatch' /\ (Registered' => Refusal(client'))
    BY <1>2 DEF allVars, hass, shown, StagesMatch, Registered, Refusal
  <2> QED
    BY <2>1, <2>2 DEF EntryTypeOK
<1> QED
  BY <1>1, <1>2

LEMMA EntryInvariant == EntrySpec => []EntryInv
<1>1. EntryInit => EntryInv
  BY EntryInitTypes DEF EntryInit, EntryInv, Registered
<1> QED
  BY <1>1, EntryInvStep, PTL DEF EntrySpec

(***************************************************************************)
(* The entry, its client's diagnostics and what is shown for it keep their *)
(* types: an issue is always one of the four that can be created.          *)
(***************************************************************************)
THEOREM EntryTypeCorrect == EntrySpec => []EntryTypeOK
<1>1. EntryInv => EntryTypeOK
  BY DEF EntryInv
<1> QED
  BY <1>1, EntryInvariant, PTL

(***************************************************************************)
(* Issues.  While the client is connected the callback takes none for      *)
(* active; while the device refuses the token of a loaded entry, the one   *)
(* it takes for active can be repaired.                                    *)
(***************************************************************************)
ActiveInv ==
    /\ ClientIs({"connected"}) => watch.active = Nil
    /\ ClientIs({"auth_failed"}) /\ entry.state = "loaded" => watch.active \in Fixable

IssueInv == IssuesAreJustified /\ IssueIsRight /\ ActiveInv

\* What the callback shows for c is right, of an entry that is not gone.
LEMMA HearIsRight ==
    ASSUME EntryInv, IssueInv, NEW c \in Clients, Hear(c), Refusal(c),
           UNCHANGED <<entry, fix>>
    PROVE  IssueInv'
<1> USE DEF IssueInv, IssuesAreJustified, IssueIsRight, ActiveInv, ClientIs, Refusal
<1>0. client' = c /\ Registered' /\ watch' \in [active : IssueTypes \cup {Nil}, asked : BOOLEAN]
  BY HearTypes DEF EntryInv, Registered
<1>1. CASE c.state = "connected"
  <2>1. issues' = {} /\ watch'.active = Nil
    BY <1>1 DEF Hear, AllClear
  <2> QED
    BY <1>0, <1>1, <2>1
<1>2. CASE c.state # "connected" /\ Wanted(c) # Nil
  <2>1. /\ watch'.active = Wanted(c)
        /\ issues' = IF watch.active = Wanted(c) THEN issues ELSE Created(Wanted(c))
    BY <1>2 DEF Hear, Show
  <2>2. c.state = "auth_failed" => Wanted(c) \in Fixable
    BY DEF Wanted, AuthIssue
  <2>3. entry.state = "gone" => issues' = {}
    BY <2>1 DEF Created
  <2>4. entry.state = "loaded" =>
          issues' = {watch'.active} \/ (issues' = {} /\ fix = "reload")
    BY <1>2, <2>1 DEF Created
  <2> QED
    BY <1>0, <1>2, <2>1, <2>2, <2>3, <2>4
<1>3. CASE c.state # "connected" /\ Wanted(c) = Nil
  <2>1. c.state # "auth_failed"
    BY <1>3 DEF Wanted, AuthIssue
  <2>2. Withdraw
    BY <1>3 DEF Hear
  <2>3. \/ watch.active \in Connectivity /\ watch'.active = Nil /\ issues' = {}
        \/ watch'.active = watch.active /\ issues' = issues
    BY <2>2 DEF Withdraw
  <2> QED
    BY <1>0, <1>3, <2>1, <2>3
<1> QED
  BY <1>1, <1>2, <1>3

\* Every step keeps the issues right.
LEMMA IssueStep ==
    ASSUME EntryInv, EntryInv', IssueInv, [EntryNext]_allVars PROVE IssueInv'
<1> USE DEF hass, others, quiet, shown, tasks
<1>0. HassTypeOK /\ HassTypeOK' /\ ShownTypeOK /\ StagesMatch /\ StagesMatch'
  BY DEF EntryInv, EntryTypeOK
<1>a. ASSUME UNCHANGED <<client, watch>>, issues' \in {issues, {}},
             entry'.state # "loaded",
             entry'.state = "gone" => issues' = {} \/ entry.state = "gone"
      PROVE  IssueInv'
  BY <1>a DEF IssueInv, IssuesAreJustified, IssueIsRight, ActiveInv, ClientIs, Registered
<1>b. ASSUME UNCHANGED <<client, watch, issues>>, entry'.state = entry.state,
             fix' = fix \/ fix # "reload"
      PROVE  IssueInv'
  BY <1>b DEF IssueInv, IssuesAreJustified, IssueIsRight, ActiveInv, ClientIs, Registered
<1>c. ASSUME NEW next, Starts(next), UNCHANGED <<client, watch, issues>>
      PROVE  IssueInv'
  <2>1. \/ entry'.state \in {"setup", "unloading"}
        \/ entry.state # "loaded" /\ entry' = entry
    BY <1>0, <1>c DEF Starts, BeginSetup, BeginUnload, HassTypeOK
  <2> QED
    BY <1>a, <1>c, <2>1
<1>1. CASE ClientStep /\ ~GraceEnds /\ ~Cleans
  BY <1>1, ClientSteps, HearIsRight DEF EntryInv
<1>2. CASE GraceEnds
  <2>1. client \in Clients /\ client' = [client EXCEPT !.outage = "late"]
        /\ UNCHANGED <<issues, watch, entry, fix>>
    BY <1>0, <1>2 DEF GraceEnds, ShownTypeOK, Registered, elsewhere
  <2>2. client'.state = client.state /\ Registered /\ Registered'
    BY <2>1 DEF Clients, Registered
  <2> QED
    BY <2>1, <2>2 DEF IssueInv, IssuesAreJustified, IssueIsRight, ActiveInv, ClientIs
<1>3. CASE Cleans
  <2>1. /\ UNCHANGED <<client, watch, entry, fix>> /\ Registered
        /\ IF client.state = "connected" THEN issues' = {} ELSE issues' = issues
    BY <1>0, <1>3 DEF Cleans, StagesMatch, elsewhere
  <2> QED
    BY <2>1 DEF IssueInv, IssuesAreJustified, IssueIsRight, ActiveInv, ClientIs, Registered
<1>4. CASE Retry \/ PlatformsFail
  <2>1. entry'.state \in {"setup", "off"} /\ UNCHANGED <<client, watch, issues>>
    BY <1>0, <1>4 DEF Retry, PlatformsFail, BeginSetup, HassTypeOK
  <2> QED
    BY <1>a, <2>1
<1>5. CASE \/ Probed \/ Migrated \/ TokenSaved \/ Listens
           \/ FixOpens \/ FixSubmits \/ FixFails
  <2>1. UNCHANGED <<client, watch, issues, entry>> /\ (fix' = fix \/ fix # "reload")
    BY <1>5 DEF Probed, Migrated, TokenSaved, Listens, FixOpens, FixSubmits, FixFails
  <2> QED
    BY <1>b, <2>1
<1>6. CASE Unreachable
  <2>1. entry'.state = "retry" /\ UNCHANGED client /\ ~Registered
    BY <1>0, <1>6 DEF Unreachable, HassTypeOK, StagesMatch, Setting
  <2> QED
    BY <2>1 DEF IssueInv, IssuesAreJustified, IssueIsRight, ActiveInv, ClientIs, Registered
<1>7. CASE Loaded
  <2>1. client' = NewClient /\ issues' = {} /\ watch' = Unheard
    BY <1>7 DEF Loaded
  <2> QED
    BY <2>1 DEF NewClient, Unheard, IssueInv, IssuesAreJustified, IssueIsRight, ActiveInv,
                ClientIs
<1>8. CASE Reload \/ UserReload \/ Disable \/ FixReloads
  BY <1>8, <1>c DEF Reload, UserReload, Disable, FixReloads
<1>9. CASE RemoveEntry \/ UnloadFails
  <2>1. /\ UNCHANGED <<client, watch>> /\ issues' \in {issues, {}}
        /\ \/ entry'.state \in {"unloading", "stuck"}
           \/ entry'.state = "gone" /\ issues' = {}
    BY <1>0, <1>9 DEF RemoveEntry, UnloadFails, BeginUnload, Removed, HassTypeOK
  <2> QED
    BY <1>a, <2>1
<1>10. CASE StopsClient
  <2>1. client \in Clients /\ UNCHANGED <<entry, fix>>
    BY <1>0, <1>10 DEF StopsClient, StagesMatch, Unloading, ShownTypeOK, Registered
  <2> DEFINE c == [client EXCEPT !.state = "stopping"]
  <2>2. c \in Clients /\ Refusal(c) /\ Hear(c)
    BY <1>10, <2>1 DEF StopsClient, Clients, Refusal
  <2> HIDE DEF c
  <2> QED
    BY <2>1, <2>2, HearIsRight
<1>11. CASE Unloaded
  <2>1. client' = Nil /\ entry'.state \in {"setup", "off", "gone"} /\ issues' \in {issues, {}}
        /\ (entry'.state = "gone" => issues' = {})
    BY <1>0, <1>11 DEF Unloaded, BeginSetup, Removed, HassTypeOK
  <2> QED
    BY <2>1 DEF IssueInv, IssuesAreJustified, IssueIsRight, ActiveInv, ClientIs, Registered
<1>12. ASSUME NEW flow \in {"options", "announced"}, NEW t \in Targets, Retarget(flow, t)
       PROVE  IssueInv'
  <2>1. entry'.state = entry.state /\ UNCHANGED <<client, watch, issues, fix>>
    BY <1>0, <1>12 DEF Retarget, HassTypeOK
  <2> QED
    BY <1>b, <2>1
<1>13. CASE Fixed
  <2>1. UNCHANGED <<client, watch, entry>> /\ issues' = {}
        /\ (entry.state = "loaded" => fix' = "reload")
    BY <1>13 DEF Fixed
  <2> QED
    BY <2>1 DEF IssueInv, IssuesAreJustified, IssueIsRight, ActiveInv, ClientIs, Registered
<1>14. CASE UNCHANGED allVars
  BY <1>14, <1>b DEF allVars
<1> QED
  BY <1>1, <1>2, <1>3, <1>4, <1>5, <1>6, <1>7, <1>8, <1>9, <1>10, <1>11, <1>12, <1>13, <1>14
     DEF EntryNext, LoadStep, ChangeStep, FixStep

LEMMA IssueInvariant == EntrySpec => []IssueInv
<1>1. EntryInit => IssueInv
  BY DEF EntryInit, IssueInv, IssuesAreJustified, IssueIsRight, ActiveInv, ClientIs, Registered
<1>2. EntryInv /\ EntryInv' /\ IssueInv /\ [EntryNext]_allVars => IssueInv'
  BY IssueStep
<1> QED
  BY <1>1, <1>2, EntryInvariant, PTL DEF EntrySpec

(***************************************************************************)
(* No issue outlives its reason: none is shown for an entry that was       *)
(* removed, nor while the device is connected, whatever was created before *)
(* or is on its way (async_create_repair_issue, _handle_diagnostic_update, *)
(* async_remove_entry).                                                    *)
(***************************************************************************)
THEOREM NoStaleIssue == EntrySpec => []IssuesAreJustified
<1>1. IssueInv => IssuesAreJustified
  BY DEF IssueInv
<1> QED
  BY <1>1, IssueInvariant, PTL

(***************************************************************************)
(* A loaded entry shows the issue that the callback takes for active, and  *)
(* one that can be repaired while the device refuses the token; only an    *)
(* entry about to be reloaded by a repair may show none                    *)
(* (_async_register_reauth_trigger, PairingRequiredRepairFlow).            *)
(***************************************************************************)
THEOREM ActiveIssueIsShown == EntrySpec => []IssueIsRight
<1>1. IssueInv => IssueIsRight
  BY DEF IssueInv
<1> QED
  BY <1>1, IssueInvariant, PTL

(***************************************************************************)
(* The target.  As long as no reload is waiting and no form changed the    *)
(* target during a setup, a setup is for the target the entry names, and   *)
(* what a loaded entry names differs from the signature the listener       *)
(* compares only while a listener has not run yet.                         *)
(***************************************************************************)
Named(s) == {s[1], IF s[2] = Nil THEN s[1] ELSE s[2]}

UpToDate ==
    /\ setup.pc = "probe" => setup.primary = Target
    /\ setup.pc = "migrate" => setup.reached \in Named(Signature)
    /\ setup.pc = "platforms" =>
           runtime.target \in Named(Signature) /\ runtime.signature = Signature
    /\ entry.state = "loaded" =>
           /\ runtime.target \in Named(runtime.signature)
           /\ runtime.signature = Signature \/ listeners > 0

RunInv ==
    /\ entry.state = "loaded" \/ setup.pc = "platforms" => runtime # Nil
    /\ reloads = 0 /\ ~overlooked => UpToDate

LEMMA RunStep ==
    ASSUME EntryInv, EntryInv', RunInv, [EntryNext]_allVars PROVE RunInv'
<1> USE DEF RunInv, hass, others, quiet, tasks, Idle
<1>0. /\ HassTypeOK /\ HassTypeOK' /\ StagesMatch /\ StagesMatch'
      /\ listeners \in Nat /\ reloads \in Nat
  BY DEF EntryInv, EntryTypeOK, TasksTypeOK
<1>a. ASSUME BeginSetup PROVE RunInv'
  <2>1. /\ entry'.state = "setup" /\ entry'.data = entry.data /\ entry'.options = entry.options
        /\ setup'.pc = "probe" /\ setup'.primary = Target
    BY <1>0, <1>a DEF BeginSetup, HassTypeOK
  <2> QED
    BY <2>1 DEF UpToDate, Target
<1>b. ASSUME entry'.state \notin {"loaded", "setup"} PROVE RunInv'
  BY <1>0, <1>b DEF UpToDate, StagesMatch, Setting
<1>c. ASSUME NEW next, Starts(next), Free PROVE RunInv'
  <2>1. CASE entry.state = "loaded"
    BY <1>0, <1>b, <1>c, <2>1 DEF Starts, BeginUnload, HassTypeOK
  <2>2. CASE entry.state # "loaded" /\ UNCHANGED entry
    BY <1>0, <1>b, <1>c, <2>2 DEF Free, StagesMatch, Setting
  <2> QED
    BY <1>a, <1>c, <2>1, <2>2 DEF Starts
<1>d. ASSUME UNCHANGED <<entry, setup, runtime, reloads, overlooked>>,
             listeners' \in Nat, listeners > 0 => listeners' > 0
      PROVE  RunInv'
  BY <1>d DEF UpToDate, Target, Signature
<1>1. CASE ClientStep
  BY <1>0, <1>1, <1>d, ClientSteps DEF EntryInv
<1>2. CASE Retry
  BY <1>2, <1>a DEF Retry
<1>3. CASE Unreachable \/ PlatformsFail
  BY <1>0, <1>3, <1>b DEF Unreachable, PlatformsFail, HassTypeOK
<1>4. CASE Probed
  <2>1. /\ setup.pc = "probe" /\ setup'.pc = "migrate"
        /\ setup'.reached \in {setup.primary, entry.data}
        /\ UNCHANGED <<entry, runtime, listeners, reloads, overlooked>>
    BY <1>0, <1>4 DEF Probed, HassTypeOK
  <2> QED
    BY <1>0, <2>1 DEF UpToDate, Named, Target, Signature, StagesMatch, Setting
<1>5. CASE Migrated
  <2>1. /\ setup.pc = "migrate" /\ setup'.pc = "platforms"
        /\ runtime' = [target |-> setup.reached, signature |-> Signature]
        /\ UNCHANGED <<entry, listeners, reloads, overlooked>>
    BY <1>0, <1>5 DEF Migrated, HassTypeOK
  <2>2. runtime' # Nil
    BY <1>0, <2>1 DEF Runtimes, Signature, Signatures, HassTypeOK, StagesMatch
  <2> QED
    BY <1>0, <2>1, <2>2 DEF UpToDate, Named, Target, Signature, StagesMatch, Setting
<1>6. CASE Loaded
  <2>1. /\ setup.pc = "platforms" /\ setup'.pc = "none"
        /\ UNCHANGED <<runtime, listeners, reloads, overlooked>>
        /\ entry'.data = entry.data /\ entry'.options = entry.options
    BY <1>0, <1>6 DEF Loaded, HassTypeOK
  <2> QED
    BY <1>0, <2>1 DEF UpToDate, Target, Signature
<1>7. CASE Reload \/ UserReload \/ Disable \/ FixReloads
  BY <1>7, <1>c DEF Reload, UserReload, Disable, FixReloads
<1>8. CASE RemoveEntry \/ UnloadFails
  BY <1>0, <1>8, <1>b DEF RemoveEntry, UnloadFails, BeginUnload, Removed, HassTypeOK
<1>9. CASE StopsClient
  BY <1>0, <1>9, <1>b DEF StopsClient, StagesMatch, Unloading
<1>10. CASE Unloaded
  <2>1. BeginSetup \/ entry'.state \in {"gone", "off"}
    BY <1>0, <1>10 DEF Unloaded, Removed, HassTypeOK
  <2> QED
    BY <1>a, <1>b, <2>1
<1>11. CASE TokenSaved
  BY <1>0, <1>11, <1>d DEF TokenSaved, Update
<1>12. CASE Listens
  <2>1. CASE runtime # Nil /\ runtime.signature = Signature
    BY <1>0, <1>12, <2>1 DEF Listens, UpToDate, Target, Signature
  <2>2. CASE ~(runtime # Nil /\ runtime.signature = Signature)
    <3>1. /\ reloads' = reloads + 1 /\ UNCHANGED <<entry, setup>>
          /\ runtime' = IF runtime = Nil THEN Nil ELSE [runtime EXCEPT !.signature = Signature]
      BY <1>12, <2>2, Zenon DEF Listens
    <3>2. runtime # Nil => runtime' # Nil
      BY <1>0, <3>1 DEF HassTypeOK, Runtimes, Signature, Signatures
    <3> QED
      BY <1>0, <3>1, <3>2
  <2> QED
    BY <2>1, <2>2
<1>13. ASSUME NEW flow \in {"options", "announced"}, NEW t \in Targets, Retarget(flow, t)
       PROVE  RunInv'
  <2>1. entry'.state = entry.state /\ UNCHANGED <<setup, runtime>>
    BY <1>0, <1>13 DEF Retarget, HassTypeOK
  <2>2. CASE Registered
    <3>1. setup.pc \notin Setting
      BY <1>0, <2>2 DEF StagesMatch
    <3>2. listeners' = listeners + 1 /\ UNCHANGED reloads
      BY <1>13, <2>2 DEF Retarget, Update
    <3>3. overlooked' <=> overlooked
      BY <1>13, <3>1, Zenon DEF Retarget, Setting
    <3> QED
      BY <1>0, <2>1, <3>1, <3>2, <3>3 DEF UpToDate, Setting
  <2>3. CASE ~Registered
    <3>1. entry.state # "loaded"
      BY <1>0, <2>3 DEF StagesMatch
    <3>2. CASE setup.pc \in Setting
      <4>1. overlooked' \/ reloads' = reloads + 1
        BY <1>13, <2>3, <3>2 DEF Retarget, Setting
      <4> QED
        BY <1>0, <2>1, <3>1, <4>1
    <3>3. CASE setup.pc \notin Setting
      BY <2>1, <3>1, <3>3 DEF UpToDate, Setting
    <3> QED
      BY <3>2, <3>3
  <2> QED
    BY <2>2, <2>3
<1>14. CASE FixOpens \/ FixSubmits \/ Fixed \/ FixFails
  BY <1>0, <1>14, <1>d DEF FixOpens, FixSubmits, Fixed, FixFails
<1>15. CASE UNCHANGED allVars
  BY <1>0, <1>15, <1>d DEF allVars
<1> QED
  BY <1>1, <1>2, <1>3, <1>4, <1>5, <1>6, <1>7, <1>8, <1>9, <1>10, <1>11, <1>12, <1>13, <1>14,
     <1>15
     DEF EntryNext, LoadStep, ChangeStep, FixStep

(***************************************************************************)
(* A loaded entry with no listener and no reload outstanding runs for a    *)
(* target it names, whatever forms, announcements, failed probes and       *)
(* reloads came before: the signature kept in runtime_data loses no change *)
(* (_async_update_listener, async_setup_entry).  The exception, a form     *)
(* that ends while the entry is being set up, is part of the property.     *)
(***************************************************************************)
THEOREM ReloadsFollowChanges == EntrySpec => []RunsItsTarget
<1>1. EntryInit => RunInv
  BY DEF EntryInit, RunInv, UpToDate, Target
<1>2. EntryInv /\ EntryInv' /\ RunInv /\ [EntryNext]_allVars => RunInv'
  BY RunStep
<1>3. EntryInv /\ RunInv => RunsItsTarget
  BY DEF EntryInv, EntryTypeOK, TasksTypeOK, RunInv, UpToDate, RunsItsTarget, Named,
         Signature, Target
<1> QED
  BY <1>1, <1>2, <1>3, EntryInvariant, PTL DEF EntrySpec

=============================================================================
