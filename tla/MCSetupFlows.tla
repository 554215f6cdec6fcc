---------------------------- MODULE MCSetupFlows ----------------------------
(***************************************************************************)
(* Two devices, the first with two MAC addresses (WLAN and Bluetooth), and *)
(* two flows at a time.                                                    *)
(***************************************************************************)
EXTENDS SetupFlows, TLC

CONSTANTS d1, d2, wlan1, bluetooth1, wlan2

MCOwner == (wlan1 :> d1) @@ (bluetooth1 :> d1) @@ (wlan2 :> d2)

NameSymmetry == Permutations(Flows) \cup Permutations(Entries) \cup Permutations(Targets)

=============================================================================
