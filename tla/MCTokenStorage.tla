--------------------------- MODULE MCTokenStorage ---------------------------
(***************************************************************************)
(* Files, tokens and tasks are interchangeable.  At most MaxBusy of the    *)
(* migrations, resets and left-over deletions are under way at a time, so  *)
(* that every pair of them overlaps in every order.                        *)
(***************************************************************************)
EXTENDS TokenStorage, Integers, TLC

CONSTANT MaxBusy

Symmetry == Permutations(Files) \cup Permutations(Tokens)
              \cup Permutations(Migrations) \cup Permutations(Resets)

FewBusy ==
    Cardinality({m \in Migrations : mpc[m] # "idle"})
      + Cardinality(ActiveResets) + Cardinality(orphans) <= MaxBusy

=============================================================================
