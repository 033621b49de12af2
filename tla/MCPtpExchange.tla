--------------------------- MODULE MCPtpExchange ---------------------------
(***************************************************************************)
(* A small instance of PtpExchange: two sequence ids, so that requests     *)
(* wrap around; messages four ticks apart, so that times of different      *)
(* messages cannot be mistaken for jitter.                                 *)
(***************************************************************************)
EXTENDS PtpExchange

MCGaps    == {4}
MCResidue == {0}
=============================================================================
