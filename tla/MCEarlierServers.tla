-------------------------- MODULE MCEarlierServers --------------------------
(***************************************************************************)
(* The instance of EarlierServers for TLC.                                 *)
(***************************************************************************)
EXTENDS EarlierServers, TLC

CONSTANTS c1, c2, a

Packets == (c1 :> <<a, NL>>) @@ (c2 :> <<NUL, NL>>)
=============================================================================
