--------------------------- MODULE MCNackTransport ---------------------------
(***************************************************************************)
(* NackTransport around the wrap-around of the numbers, and away from it   *)
(* where every loss has to be recovered.                                   *)
(***************************************************************************)
EXTENDS NackTransport
=============================================================================
