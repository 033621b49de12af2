-------------------------- MODULE MCPtpClockStats --------------------------
(***************************************************************************)
(* A small instance of PtpClockStats: a history one or two longer than the *)
(* sample size, so that windows fill, are averaged and evict; offsets of   *)
(* both signs and zero; delays far enough apart to open and shut the gate. *)
(***************************************************************************)
EXTENDS PtpClockStats

MCOffsets == {-3, 0, 4}
MCDelays  == {1, 2, 6}
=============================================================================
