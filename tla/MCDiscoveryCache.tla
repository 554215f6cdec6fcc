-------------------------- MODULE MCDiscoveryCache --------------------------
(***************************************************************************)
(* Three observations, one reader, two failing file operations.            *)
(***************************************************************************)
EXTENDS DiscoveryCache, TLC

=============================================================================
