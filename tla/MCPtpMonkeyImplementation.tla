--------------------- MODULE MCPtpMonkeyImplementation ---------------------
(***************************************************************************)
(* A small instance of PtpMonkeyImplementation: this machine and two       *)
(* masters in two domains, delay requests sent to the master, and enough   *)
(* clock objects for every identity to be forgotten and met again.         *)
(***************************************************************************)
EXTENDS PtpMonkeyImplementation

CONSTANTS self, master1, master2

MCIds     == {self, master1, master2}
MCDomains == {0, 1}
=============================================================================
