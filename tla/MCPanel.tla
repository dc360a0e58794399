--------------------------------- MODULE MCPanel ---------------------------------
(* Instances of Panel for TLC. *)
EXTENDS Panel, TLC

CONSTANTS c1, c2, u1, u2
MCStart == (c1 :> "discovery_done") @@ (c2 :> "proposal_sent")
MCRole  == (u1 :> "comercial") @@ (u2 :> "client_user")
MCFirst == [lead |-> "contacted", service |-> "running", client |-> "discovery_done"]
=============================================================================
