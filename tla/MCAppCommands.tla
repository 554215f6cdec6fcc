--------------------------- MODULE MCAppCommands ---------------------------
(***************************************************************************)
(* Favourite commands on one of the places, searches for any, and memory   *)
(* commands that write one temperature to the first slot, which may hold   *)
(* another one at first.  The callers differ in nothing but their names.   *)
(***************************************************************************)
EXTENDS AppCommands, TLC

Favorite == CHOOSE p \in Places : TRUE

MCCommands == {x \in AllCommands : \/ x.op = "search"
                                   \/ x.item \in {Favorite, 0} /\ x.temp # 2}

MCStartDevices ==
    [favorites : {{}, {Favorite}},
     memories : {[i \in Slots |-> None], [i \in Slots |-> IF i = 0 THEN 2 ELSE None]}]

CallerSymmetry == Permutations(Callers)

=============================================================================
