--------------------------- MODULE MCDHECommands ---------------------------
(***************************************************************************)
(* Two prices that differ in both components.                              *)
(***************************************************************************)
EXTENDS DHECommands, TLC

MCStartPrice == [euros |-> 0, cents |-> 0]

MCPrices == {MCStartPrice, [euros |-> 1, cents |-> 1]}

=============================================================================
