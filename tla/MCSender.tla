------------------------------ MODULE MCSender ------------------------------
(***************************************************************************)
(* A small instance of Sender: management messages between the delay       *)
(* requests, a master that asks for a slower rate than the configured one, *)
(* two requests under way, and room for two timestamps, so that it can run *)
(* out.                                                                    *)
(***************************************************************************)
EXTENDS Sender

CONSTANT get

MCMessages == {get}
MCGap      == [rate \in {0, 1, 127} |-> IF rate = 0 THEN 1 ELSE 2]
=============================================================================
