---------------------------- MODULE TokenStorage ----------------------------
(***************************************************************************)
(* Where the pairing token of one config entry is kept (token_storage.py): *)
(* in the entry's data, and in legacy token files, which are migrated into *)
(* the entry and removed only by a later Home Assistant process.  Resets   *)
(* (async_clear_token), migrations and token writes run as tasks of one    *)
(* event loop; file I/O runs in executor threads, so every file operation  *)
(* is a step of its own between the step that asks for it and the one that *)
(* goes on.  Home Assistant writes the entry to disk at some later time; a *)
(* crash or restart loses what was not written and all that the process    *)
(* kept in memory.                                                         *)
(*                                                                         *)
(* generation and write_revision are only compared with their value when a *)
(* task began, so the model keeps, for each task, whether they moved since *)
(* ("outdated", "rewritten"); active_resets counts the running resets.     *)
(* The order in which a task visits its files is left open.                *)
(***************************************************************************)
EXTENDS FiniteSets

CONSTANTS
    Files,        \* names of legacy token files
    Tokens,       \* well-formed tokens
    Migrations,   \* identities of running migrations
    Resets,       \* identities of running resets
    Malformed,    \* the content of an unusable token file
    None

ASSUME TokenAssumption ==
    /\ None \notin Files \cup Tokens
    /\ Malformed \notin Tokens /\ Malformed # None

VARIABLES
    file,           \* content of each legacy file, None when absent
    token,          \* the token in the entry's data
    marker,         \* the legacy files listed in the entry's data
    diskToken,      \* the entry's data as last written to disk
    diskMarker,
    deferred,       \* the entry is in _PENDING_MIGRATIONS
    resetSources,   \* reset_sources
    rpc,            \* where each reset waits
    rcur,           \* the file it has deleted
    deleted,        \* the files it deleted before
    rewritten,      \* a token was saved since it began
    mpc,            \* where each migration waits
    src,            \* the files it registered
    todo,           \* the files still to do
    cur,            \* the file it has read or deleted
    got,            \* what it has read
    keep,           \* the files that hold a token
    tok,            \* the first token found
    outdated,       \* a reset began since it began
    orphans,        \* files a cancelled task still has deleted by a thread
    latest,         \* history: the token saved since the last reset began
    revoked,        \* history: the tokens each running reset is to revoke
    dead,           \* history: tokens revoked by a reset that succeeded
    wiped           \* history: a reset is newer than the token on disk

entryVars     == <<token, marker, deferred>>
diskVars      == <<diskToken, diskMarker>>
resetVars     == <<resetSources, rpc, rcur, deleted, rewritten, revoked>>
migrationVars == <<mpc, src, todo, cur, got, keep, tok, outdated>>
vars == <<file, entryVars, diskVars, resetVars, migrationVars, orphans, latest,
          dead, wiped>>

ActiveResets == {r \in Resets : rpc[r] # "idle"}

TokenTypeOK ==
    /\ file \in [Files -> Tokens \cup {None, Malformed}]
    /\ token \in Tokens \cup {None} /\ diskToken \in Tokens \cup {None}
    /\ marker \subseteq Files /\ diskMarker \subseteq Files
    /\ deferred \in BOOLEAN /\ wiped \in BOOLEAN
    /\ resetSources \subseteq Files /\ orphans \subseteq Files
    /\ rpc \in [Resets -> {"idle", "deleting", "deleted"}]
    /\ rcur \in [Resets -> Files \cup {None}]
    /\ deleted \in [Resets -> SUBSET Files]
    /\ rewritten \in [Resets -> BOOLEAN]
    /\ revoked \in [Resets -> SUBSET Tokens]
    /\ mpc \in [Migrations -> {"idle", "reading", "read", "clearing", "cleared",
                               "retiring", "retired"}]
    /\ src \in [Migrations -> SUBSET Files]
    /\ todo \in [Migrations -> SUBSET Files]
    /\ cur \in [Migrations -> Files \cup {None}]
    /\ got \in [Migrations -> Tokens \cup {None, Malformed}]
    /\ keep \in [Migrations -> SUBSET Files]
    /\ tok \in [Migrations -> Tokens \cup {None}]
    /\ outdated \in [Migrations -> BOOLEAN]
    /\ latest \in Tokens \cup {None} /\ dead \subseteq Tokens

\* The entry was loaded from disk.  The legacy files of different devices
\* hold different tokens; the entry's own may still be in one it lists.
TokenInit ==
    /\ file \in [Files -> Tokens \cup {None, Malformed}]
    /\ token \in Tokens \cup {None}
    /\ marker \in SUBSET Files
    /\ \A f, g \in Files : file[f] \in Tokens /\ file[f] = file[g] => f = g
    /\ \A f \in Files : file[f] \in Tokens /\ file[f] = token => f \in marker
    /\ marker # {} => token # None
    /\ token # None \/ \E f \in Files : file[f] \in Tokens
    /\ diskToken = token /\ diskMarker = marker
    /\ deferred = FALSE
    /\ resetSources = {}
    /\ rpc = [r \in Resets |-> "idle"]
    /\ rcur = [r \in Resets |-> None]
    /\ deleted = [r \in Resets |-> {}]
    /\ rewritten = [r \in Resets |-> FALSE]
    /\ revoked = [r \in Resets |-> {}]
    /\ mpc = [m \in Migrations |-> "idle"]
    /\ src = [m \in Migrations |-> {}]
    /\ todo = [m \in Migrations |-> {}]
    /\ cur = [m \in Migrations |-> None]
    /\ got = [m \in Migrations |-> None]
    /\ keep = [m \in Migrations |-> {}]
    /\ tok = [m \in Migrations |-> None]
    /\ outdated = [m \in Migrations |-> FALSE]
    /\ orphans = {}
    /\ latest = None /\ dead = {} /\ wiped = FALSE

-----------------------------------------------------------------------------
(* Migration of legacy files into the entry.                               *)

\* Migration m waits at "at" for file f, with the files "rest" still to do.
MoveOn(m, at, f, rest) ==
    /\ mpc' = [mpc EXCEPT ![m] = at]
    /\ cur' = [cur EXCEPT ![m] = f]
    /\ todo' = [todo EXCEPT ![m] = rest]
    /\ got' = [got EXCEPT ![m] = None]

MigrationEnds(m) ==
    /\ MoveOn(m, "idle", None, {})
    /\ src' = [src EXCEPT ![m] = {}]
    /\ keep' = [keep EXCEPT ![m] = {}]
    /\ tok' = [tok EXCEPT ![m] = None]
    /\ outdated' = [outdated EXCEPT ![m] = FALSE]

\* The tokens in files fs.
TokensIn(fs) == {file[f] : f \in fs} \cap Tokens

(***************************************************************************)
(* The operators named Wrong... are mistakes a change of the code could    *)
(* make; no specification uses them.  Each shows that a property can fail. *)
(***************************************************************************)
\* Files are retired by the process that imported them.
WrongImportSurvived == token # None /\ marker # {}

\* The token and the marker were loaded from disk, not set by this process.
ImportSurvived == token # None /\ marker # {} /\ ~deferred

\* token_is_well_formed
IsToken(content) == content \in Tokens

(***************************************************************************)
(* async_migrate_legacy_token_files up to its first await.  A migration    *)
(* that meets a running reset hands its files to it and ends.  When the    *)
(* import has survived a restart, the files are retired.                   *)
(***************************************************************************)
MigrationBegins(m) ==
    /\ mpc[m] = "idle"
    /\ \E fs \in SUBSET Files : \E f \in fs :
         /\ marker \subseteq fs
         /\ IF ActiveResets # {}
              THEN /\ resetSources' = resetSources \cup fs
                   /\ revoked' = [r \in Resets |->
                        IF rpc[r] = "idle" THEN {} ELSE revoked[r] \cup TokensIn(fs)]
                   /\ UNCHANGED migrationVars
              ELSE /\ MoveOn(m, IF ImportSurvived THEN "retiring" ELSE "reading",
                             f, fs \ {f})
                   /\ src' = [src EXCEPT ![m] = fs]
                   /\ UNCHANGED <<keep, tok, outdated, resetSources, revoked>>
    /\ UNCHANGED <<file, entryVars, diskVars, rpc, rcur, deleted, rewritten, orphans,
                   latest, dead, wiped>>

\* The executor thread removes the file migration m waits for.
MigrationDeletes(m) ==
    /\ mpc[m] \in {"retiring", "clearing"}
    /\ file' = [file EXCEPT ![cur[m]] = None]
    /\ mpc' = [mpc EXCEPT ![m] = IF mpc[m] = "retiring" THEN "retired" ELSE "cleared"]
    /\ UNCHANGED <<entryVars, diskVars, resetVars, src, todo, cur, got, keep, tok,
                   outdated, orphans, latest, dead, wiped>>

\* The executor thread reads the file migration m waits for.
MigrationReads(m) ==
    /\ mpc[m] = "reading"
    /\ mpc' = [mpc EXCEPT ![m] = "read"]
    /\ got' = [got EXCEPT ![m] = file[cur[m]]]
    /\ UNCHANGED <<file, entryVars, diskVars, resetVars, src, todo, cur, keep, tok,
                   outdated, orphans, latest, dead, wiped>>

\* A task that goes on after a reset began changes nothing any more.
MigrationGivesUp(m) ==
    /\ mpc[m] \in {"read", "cleared", "retired"} /\ outdated[m]
    /\ MigrationEnds(m)
    /\ UNCHANGED <<file, entryVars, diskVars, resetVars, orphans, latest, dead, wiped>>

\* One source is retired; after the last one the marker is removed.
RetireNext(m) ==
    /\ mpc[m] = "retired" /\ ~outdated[m]
    /\ \/ /\ \E f \in todo[m] : MoveOn(m, "retiring", f, todo[m] \ {f})
          /\ UNCHANGED <<src, keep, tok, outdated, marker>>
       \/ /\ todo[m] = {}
          /\ MigrationEnds(m)
          /\ marker' = {}
    /\ UNCHANGED <<file, token, deferred, diskVars, resetVars, orphans, latest, dead,
                   wiped>>

(***************************************************************************)
(* The next file is read; after the last one the first token found becomes *)
(* the entry's, unless it has one by now, and the files are remembered.    *)
(***************************************************************************)
ReadNext(m, kept, found) ==
    \/ /\ \E f \in todo[m] : MoveOn(m, "reading", f, todo[m] \ {f})
       /\ keep' = [keep EXCEPT ![m] = kept]
       /\ tok' = [tok EXCEPT ![m] = found]
       /\ UNCHANGED <<src, outdated, entryVars>>
    \/ /\ todo[m] = {} /\ kept = {}
       /\ MigrationEnds(m) /\ UNCHANGED entryVars
    \/ /\ todo[m] = {} /\ kept # {}
       /\ MigrationEnds(m)
       /\ token' = IF token = None THEN found ELSE token
       /\ marker' = kept \cup marker
       /\ deferred' = TRUE

\* A file was read: a token is kept, anything else is deleted.
ReadDone(m) ==
    /\ mpc[m] = "read" /\ ~outdated[m]
    /\ \/ /\ ~IsToken(got[m])
          /\ MoveOn(m, "clearing", cur[m], todo[m])
          /\ UNCHANGED <<src, keep, tok, outdated, entryVars>>
       \/ /\ IsToken(got[m])
          /\ ReadNext(m, keep[m] \cup {cur[m]},
                      IF tok[m] = None THEN got[m] ELSE tok[m])
    /\ UNCHANGED <<file, diskVars, resetVars, orphans, latest, dead, wiped>>

ClearDone(m) ==
    /\ mpc[m] = "cleared" /\ ~outdated[m]
    /\ ReadNext(m, keep[m], tok[m])
    /\ UNCHANGED <<file, diskVars, resetVars, orphans, latest, dead, wiped>>

\* A thread that was asked to delete file f may still do it.
Leaves(f) == orphans' \in {orphans, orphans \cup {f}}

\* File I/O fails, or the task is cancelled.
MigrationFails(m) ==
    /\ mpc[m] # "idle"
    /\ IF mpc[m] \in {"retiring", "clearing"} THEN Leaves(cur[m]) ELSE UNCHANGED orphans
    /\ MigrationEnds(m)
    /\ UNCHANGED <<file, entryVars, diskVars, resetVars, latest, dead, wiped>>

OrphanDeletes(f) ==
    /\ f \in orphans
    /\ orphans' = orphans \ {f}
    /\ file' = [file EXCEPT ![f] = None]
    /\ UNCHANGED <<entryVars, diskVars, resetVars, migrationVars, latest, dead, wiped>>

-----------------------------------------------------------------------------
(* Resets and writes of the token.                                         *)

\* owned_legacy_token_paths
Owned == marker \cup resetSources \cup UNION {src[m] : m \in Migrations}

\* Running migrations are not told.
WrongOutdate == UNCHANGED outdated

\* Migrations that run while a reset begins are outdated.
Outdate == outdated' = [m \in Migrations |-> mpc[m] # "idle"]

\* Reset r ends; the last reset to end forgets the sources it has deleted.
ResetEnds(r, done) ==
    /\ resetSources' = IF ActiveResets \subseteq {r} THEN resetSources \ done
                                                     ELSE resetSources
    /\ rpc' = [rpc EXCEPT ![r] = "idle"]
    /\ rcur' = [rcur EXCEPT ![r] = None]
    /\ deleted' = [deleted EXCEPT ![r] = {}]
    /\ rewritten' = [rewritten EXCEPT ![r] = FALSE]
    /\ revoked' = [revoked EXCEPT ![r] = {}]

\* async_clear_token up to its first await.
ResetBegins(r) ==
    /\ rpc[r] = "idle"
    /\ Outdate
    /\ latest' = None /\ wiped' = TRUE
    /\ \/ /\ Owned = {}
          /\ token' = None /\ marker' = {} /\ deferred' = FALSE
          /\ dead' = dead \cup ({token} \cap Tokens)
          /\ UNCHANGED resetVars
       \/ \E f \in Owned :
          /\ rpc' = [rpc EXCEPT ![r] = "deleting"]
          /\ rcur' = [rcur EXCEPT ![r] = f]
          /\ revoked' = [revoked EXCEPT ![r] =
                           TokensIn(Owned) \cup ({token} \cap Tokens)]
          /\ resetSources' = Owned
          /\ UNCHANGED <<deleted, rewritten, entryVars, dead>>
    /\ UNCHANGED <<file, diskVars, mpc, src, todo, cur, got, keep, tok, orphans>>

ResetDeletes(r) ==
    /\ rpc[r] = "deleting"
    /\ file' = [file EXCEPT ![rcur[r]] = None]
    /\ rpc' = [rpc EXCEPT ![r] = "deleted"]
    /\ UNCHANGED <<entryVars, diskVars, resetSources, rcur, deleted, rewritten,
                   revoked, migrationVars, orphans, latest, dead, wiped>>

\* The token is cleared even if a new one has been saved meanwhile.
WrongTokenAfter(r) == None

\* The entry's token after reset r: one that was saved meanwhile stays.
TokenAfter(r) == IF rewritten[r] THEN token ELSE None

(***************************************************************************)
(* async_clear_token goes on: it deletes until no source is left, also of  *)
(* those that were added meanwhile, and then clears the entry.             *)
(***************************************************************************)
ResetNext(r) ==
    LET done == deleted[r] \cup {rcur[r]} IN
    /\ rpc[r] = "deleted"
    /\ \/ /\ resetSources \subseteq done
          /\ token' = TokenAfter(r) /\ marker' = {} /\ deferred' = FALSE
          /\ dead' = dead \cup revoked[r]
          /\ wiped' = TRUE
          /\ ResetEnds(r, done)
       \/ \E f \in resetSources \ done :
          /\ rpc' = [rpc EXCEPT ![r] = "deleting"]
          /\ rcur' = [rcur EXCEPT ![r] = f]
          /\ deleted' = [deleted EXCEPT ![r] = done]
          /\ UNCHANGED <<entryVars, resetSources, rewritten, revoked, dead, wiped>>
    /\ UNCHANGED <<file, diskVars, migrationVars, orphans, latest>>

\* Deleting a file fails, or the task is cancelled.
ResetFails(r) ==
    /\ rpc[r] # "idle"
    /\ IF rpc[r] = "deleting" THEN Leaves(rcur[r]) ELSE UNCHANGED orphans
    /\ ResetEnds(r, deleted[r])
    /\ UNCHANGED <<file, entryVars, diskVars, migrationVars, latest, dead, wiped>>

\* A token nobody has seen before: pairing always yields a new one.
NewToken(t) ==
    /\ t \notin dead /\ t # token /\ t # diskToken
    /\ \A f \in Files : file[f] # t
    /\ \A r \in Resets : t \notin revoked[r]
    /\ \A m \in Migrations : got[m] # t /\ tok[m] # t

\* async_save_token
Save(t) ==
    /\ NewToken(t)
    /\ token' = t
    /\ deferred' = (deferred \/ marker # {})
    /\ rewritten' = [r \in Resets |-> rpc[r] # "idle"]
    /\ latest' = t
    /\ UNCHANGED <<file, marker, diskVars, resetSources, rpc, rcur, deleted, revoked,
                   migrationVars, orphans, dead, wiped>>

-----------------------------------------------------------------------------
(* Home Assistant writes the entry to disk, crashes and starts again.      *)

Persist ==
    /\ diskToken' = token /\ diskMarker' = marker
    /\ wiped' = (wiped /\ token = None)
    /\ UNCHANGED <<file, entryVars, resetVars, migrationVars, orphans, latest, dead>>

\* A token that was revoked, but not on disk, is back.
Restart ==
    /\ token' = diskToken /\ marker' = diskMarker /\ deferred' = FALSE
    /\ resetSources' = {}
    /\ rpc' = [r \in Resets |-> "idle"]
    /\ rcur' = [r \in Resets |-> None]
    /\ deleted' = [r \in Resets |-> {}]
    /\ rewritten' = [r \in Resets |-> FALSE]
    /\ revoked' = [r \in Resets |-> {}]
    /\ mpc' = [m \in Migrations |-> "idle"]
    /\ src' = [m \in Migrations |-> {}]
    /\ todo' = [m \in Migrations |-> {}]
    /\ cur' = [m \in Migrations |-> None]
    /\ got' = [m \in Migrations |-> None]
    /\ keep' = [m \in Migrations |-> {}]
    /\ tok' = [m \in Migrations |-> None]
    /\ outdated' = [m \in Migrations |-> FALSE]
    /\ orphans' = {}
    /\ latest' = IF diskToken = latest THEN latest ELSE None
    /\ dead' = dead \ {diskToken}
    /\ UNCHANGED <<file, diskVars, wiped>>

MigrationStep(m) ==
    \/ MigrationBegins(m) \/ MigrationDeletes(m) \/ MigrationReads(m)
    \/ MigrationGivesUp(m) \/ RetireNext(m) \/ ReadDone(m) \/ ClearDone(m)
    \/ MigrationFails(m)

ResetStep(r) ==
    ResetBegins(r) \/ ResetDeletes(r) \/ ResetNext(r) \/ ResetFails(r)

TokenNext ==
    \/ \E m \in Migrations : MigrationStep(m)
    \/ \E f \in Files : OrphanDeletes(f)
    \/ \E r \in Resets : ResetStep(r)
    \/ \E t \in Tokens : Save(t)
    \/ Persist \/ Restart

TokenSpec == TokenInit /\ [][TokenNext]_vars

-----------------------------------------------------------------------------

(***************************************************************************)
(* A reset is final: a token it revoked, in the entry or in a legacy file, *)
(* never becomes the entry's token again, whatever migrations were reading *)
(* or began meanwhile, short of a restart before the reset was on disk     *)
(* (async_clear_token, _async_migrate_legacy_token_stores).                *)
(***************************************************************************)
NoResurrection == token \notin dead

(***************************************************************************)
(* A token that pairing saved stays the entry's token until another reset  *)
(* begins: no older reset and no migration takes it away                   *)
(* (write_revision).                                                       *)
(***************************************************************************)
SavedTokenStays == latest # None => token = latest

(***************************************************************************)
(* Migration never loses the pairing: as long as no reset asked for it,    *)
(* after a crash at any point a token is left on disk, in the entry or in  *)
(* a legacy file ("remove sources only after a persisted migration         *)
(* reload").                                                               *)
(***************************************************************************)
CrashKeepsAToken ==
    wiped \/ diskToken # None \/ \E f \in Files : file[f] \in Tokens

(***************************************************************************)
(* A legacy file leaves the entry's list only once it is deleted: one that *)
(* was dropped while it exists would survive the next reset and be         *)
(* imported again (test_overlapping_migrations_preserve_current_token_and_ *)
(* pending_sources in tests/test_token_storage.py).                        *)
(***************************************************************************)
SourcesStayKnown ==
    [][Restart \/ \A f \in marker \ marker' : file[f] = None]_vars

=============================================================================
