--------------------------- MODULE PtpClockStats ---------------------------
(***************************************************************************)
(* The statistics of PtpStats on their own, fed with every sequence of     *)
(* samples, resyncs and resets: what the windows promise whatever is       *)
(* measured.  PtpExchange feeds them what the protocol measures.           *)
(***************************************************************************)
EXTENDS PtpStats

CONSTANTS
  Offsets,       (* offsets a delay response may yield                     *)
  Delays         (* path delays a delay response may yield                 *)

ASSUME SamplesAssumption ==
  /\ Offsets \subseteq Int
  /\ Delays \subseteq Int

StatsNext ==
  \/ \E o \in Offsets, d \in Delays : AddSample(o, d)
  \/ ResyncToMaster
  \/ ClearStats

StatsSpec == StatsInit /\ [][StatsNext]_statsVars
-----------------------------------------------------------------------------
(* MIN and MAX are the least and the greatest value of a long enough window *)
(* that holds no zero, the value the loop takes for "not set yet".         *)
MinMaxReference ==
  \A w \in {m_offset, m_delay} :
    LET values == Seqs!ToSet(w.lstValues)
    IN  Len(w.lstValues) >= SampleSize /\ 0 \notin values =>
          /\ Least(w) \in values /\ \A v \in values : Least(w) <= v
          /\ Greatest(w) \in values /\ \A v \in values : v <= Greatest(w)

(* The mean that replaces the offset of a delayed response, however often  *)
(* it is fed back into the window it is the mean of, never leaves the      *)
(* range of the offsets that were measured.                                *)
OffsetsWithinMeasured ==
  \A v \in Seqs!ToSet(m_offset.lstValues) :
    (\E o \in Offsets : o <= v) /\ (\E o \in Offsets : v <= o)
=============================================================================
