----------------------------- MODULE MCPtpSync -----------------------------
(***************************************************************************)
(* A small instance of PtpSync: a second of four, so that an offset of     *)
(* three is more than half of one and an offset of one is not; delays far  *)
(* enough apart to open and shut the gate of the statistics.               *)
(***************************************************************************)
EXTENDS PtpSync

MCOffsets == {-3, 1, 3}
MCDelays  == {1, 4}
=============================================================================
