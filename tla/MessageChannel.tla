--------------------------- MODULE MessageChannel ---------------------------
(***************************************************************************)
(* What the queue of management messages between PtpMonkey::Send and the   *)
(* Sender promises: messages are handed over once each, in the order they  *)
(* were accepted in.  It is a promise to one caller of Send at a time.     *)
(* After two calls have overlapped nothing is promised any more.           *)
(***************************************************************************)
EXTENDS Naturals, Sequences

CONSTANT Messages   (* what can be sent                                    *)

VARIABLES
  accepted,         (* the messages Send has returned for, in order        *)
  handed,           (* the messages the Sender has taken, in order         *)
  misused           (* two calls of Send have overlapped                   *)

channel == <<accepted, handed, misused>>

ChannelInit == accepted = <<>> /\ handed = <<>> /\ misused = FALSE

Accept(m) ==
  /\ accepted' = Append(accepted, m)
  /\ UNCHANGED <<handed, misused>>

Hand ==
  /\ Len(handed) < Len(accepted)
  /\ handed' = Append(handed, accepted[Len(handed) + 1])
  /\ UNCHANGED <<accepted, misused>>

Anything == misused'

ChannelNext == (\E m \in Messages : Accept(m)) \/ Hand \/ Anything

ChannelSpec == ChannelInit /\ [][ChannelNext]_channel
=============================================================================
