------------------------------ MODULE MCPrompts ------------------------------
(***************************************************************************)
(* The two occasions on which the user is asked for something, which TLC   *)
(* looks at one at a time; `scene' chooses, and the other rests in an      *)
(* initial state.                                                          *)
(*   pairing  the device asks for a confirmation of the pairing            *)
(*   cards    Home Assistant shows a discovery card: announcements of one  *)
(*            device at two addresses, of one that contradicts itself and  *)
(*            of one that is hardly a DHE, beside a scan                   *)
(***************************************************************************)
EXTENDS PairingHandshake, DiscoveryPrompts, TLC

MCPort == 8443

MCUsual ==
  [host |-> "ip1", hostname |-> "a.local", address |-> "ip1", service |-> "A",
   dheService |-> TRUE, dheName |-> TRUE, port |-> MCPort, macs |-> {"m1"}]

MCAnnounced ==
  {MCUsual,
   [MCUsual EXCEPT !.host = "ip2", !.address = "ip2"],
   [MCUsual EXCEPT !.host = "b.local", !.service = Absent],
   [MCUsual EXCEPT !.host = "ip3", !.address = "ip3", !.hostname = Absent, !.port = 1,
                   !.dheService = FALSE, !.dheName = FALSE, !.macs = {}]}

MCScanned == {[host |-> "ip3", port |-> MCPort, markers |-> 2]}
MCLabels == ("a.local" :> "A") @@ ("b.local" :> "B")
MCBefore == {{}, {[mac |-> "m0", target |-> <<"ip9", MCPort>>]}}

VARIABLE scene

MCInit ==
  /\ scene \in {"pairing", "cards"}
  /\ PairingInit /\ PromptsInit
  /\ scene # "cards" => homes = {}

\* Nothing more happens on the network.
MCRest ==
  /\ scene = "cards"
  /\ now = MaxTime /\ events = MaxEvents /\ \A f \in Callers : ~Begun(f)
  /\ UNCHANGED <<vars, promptVars, scene>>

MCNext ==
  \/ scene = "pairing" /\ PairingNext /\ UNCHANGED <<promptVars, scene>>
  \/ scene = "cards" /\ PromptsNext /\ UNCHANGED <<vars, scene>>
  \/ MCRest

MCSpec == MCInit /\ [][MCNext]_<<vars, promptVars, scene>>

\* Tokens and flows are only compared with each other.
Symmetry == Permutations(Tokens) \cup Permutations(Callers)

=============================================================================
