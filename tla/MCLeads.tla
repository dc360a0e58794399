-------------------------------- MODULE MCLeads --------------------------------
(***************************************************************************)
(* Small instances of Leads for TLC.                                       *)
(***************************************************************************)
EXTENDS Leads, TLC

CONSTANTS ana, bea, caro

MCRole2 == ana :> "admin" @@ bea :> "comercial"
MCRole3 == ana :> "admin" @@ bea :> "comercial" @@ caro :> "consultor"
=============================================================================
