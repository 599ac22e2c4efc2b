---------------------------- MODULE MCThreading ----------------------------
(***************************************************************************)
(* An instance of Threading for TLC.                                       *)
(***************************************************************************)
EXTENDS Threading

(* Less than a second, and seconds with milliseconds left over.            *)
SomeWaits == {999, 1500}
=============================================================================
