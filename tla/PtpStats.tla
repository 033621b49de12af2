------------------------------ MODULE PtpStats ------------------------------
(***************************************************************************)
(* The statistics of a PtpV2Clock (source/ptpclock.cpp): the two sliding   *)
(* windows, of path delays and of clock offsets, that every answered delay *)
(* request feeds, the delay gate between them, and the two resets.         *)
(*                                                                         *)
(* Times are integers of nanoseconds.  A window is the record              *)
(*   [lstValues, dTotal, bSet, SET]                                        *)
(* of the code's struct stats.  stat[CURRENT], [MEAN], [MIN], [MAX] and    *)
(* [SD] are recomputed by every push and zeroed by ClearStats, so they are *)
(* operators on the window; stat[SET] is a field because no push writes    *)
(* it.  The code recomputes the sum of a full window to be free of the     *)
(* rounding of the running sum dTotal; in exact arithmetic the two are the *)
(* same number, which is what RunningTotal says.                           *)
(***************************************************************************)
EXTENDS Integers, Sequences

CONSTANTS
  SampleSize,    (* m_nSampleSize                                          *)
  HistorySize    (* STATS_HISTORY_SIZE                                     *)

(***************************************************************************)
(* A sample size of 0 or 1 makes SD a division of zero by zero, converted  *)
(* to an integer: undefined behaviour that this module leaves out.         *)
(***************************************************************************)
ASSUME StatsAssumption ==
  /\ SampleSize \in Nat /\ SampleSize >= 2
  /\ HistorySize \in Nat \ {0}

Seqs == INSTANCE SequencesExt

VARIABLES m_offset, m_delay

statsVars == <<m_offset, m_delay>>

Windows == [lstValues : Seq(Int), dTotal : Int, bSet : BOOLEAN, SET : Int]

EmptyWindow == [lstValues |-> <<>>, dTotal |-> 0, bSet |-> FALSE, SET |-> 0]
-----------------------------------------------------------------------------
(* What is read off a window. *)

\* C++ integer division by a positive n: towards zero.
Quotient(a, n) == IF a >= 0 THEN a \div n ELSE -((-a) \div n)

\* Faulty: the mean divides by the degrees of freedom of the deviation.
Mean_DegreesOfFreedom(w) ==
  LET n == Len(w.lstValues)
  IN  IF n <= 1 THEN w.dTotal ELSE Quotient(w.dTotal, n - 1)

\* stat[MEAN]
Mean(w) == IF w.lstValues = <<>> THEN 0 ELSE Quotient(w.dTotal, Len(w.lstValues))

\* stat[MIN] and stat[MAX]: a zero in the accumulator counts as "not set yet".
Least(w) ==
  Seqs!FoldLeft(LAMBDA acc, v : IF acc = 0 \/ acc > v THEN v ELSE acc, 0, w.lstValues)

\* Faulty: the greatest value starts from zero.
Greatest_FromZero(w) ==
  Seqs!FoldLeft(LAMBDA acc, v : IF acc < v THEN v ELSE acc, 0, w.lstValues)

Greatest(w) ==
  Seqs!FoldLeft(LAMBDA acc, v : IF acc = 0 \/ acc < v THEN v ELSE acc, 0, w.lstValues)

Total(w) == Seqs!FoldLeft(+, 0, w.lstValues)

\* n^2 times the sum of the squared deviations from the mean, n = Len(lstValues).
Scatter(w) ==
  LET n == Len(w.lstValues)
  IN  Seqs!FoldLeft(LAMBDA acc, v : acc + (n * v - w.dTotal) * (n * v - w.dTotal),
                    0, w.lstValues)

\* d < stat[MEAN] + stat[SD], where SD is the sample deviation rounded down and
\* is still zero in a window shorter than SampleSize.
BelowMeanPlusSD(d, w) ==
  LET n    == Len(w.lstValues)
      over == d - Mean(w)
  IN  \/ over < 0
      \/ /\ n >= SampleSize
         /\ (over + 1) * (over + 1) * n * n * (n - 1) <= Scatter(w)
-----------------------------------------------------------------------------
\* Faulty: the history may grow one value too long.
DoStats_LongHistory(w, v) ==
  LET pushed == Append(w.lstValues, v)
      over   == Len(pushed) > HistorySize + 1
  IN  [w EXCEPT !.lstValues = IF over THEN Tail(pushed) ELSE pushed,
                !.dTotal    = @ + v - (IF over THEN Head(pushed) ELSE 0),
                !.bSet      = @ \/ Len(pushed) >= SampleSize]

\* Faulty: the evicted value stays in the running sum.
DoStats_KeepsEvicted(w, v) ==
  LET pushed == Append(w.lstValues, v)
      values == IF Len(pushed) > HistorySize THEN Tail(pushed) ELSE pushed
  IN  [w EXCEPT !.lstValues = values,
                !.dTotal    = @ + v,
                !.bSet      = @ \/ Len(values) >= SampleSize]

(* PtpV2Clock::DoStats. *)
DoStats(w, v) ==
  LET pushed == Append(w.lstValues, v)
      over   == Len(pushed) > HistorySize
      values == IF over THEN Tail(pushed) ELSE pushed
  IN  [w EXCEPT !.lstValues = values,
                !.dTotal    = @ + v - (IF over THEN Head(pushed) ELSE 0),
                !.bSet      = @ \/ Len(values) >= SampleSize]

(* The gate of DelayResponseTo: the offset that enters the window, once the *)
(* delay d has entered its own, is the measured one or the mean so far.     *)
Gated(o, d, delayWindow) ==
  IF \/ Len(m_offset.lstValues) < SampleSize
     \/ BelowMeanPlusSD(d, delayWindow)
  THEN o
  ELSE Mean(m_offset)

\* Faulty: the offset of a delayed response is dropped, not replaced.
AddSample_DropsDelayed(o, d) ==
  /\ m_delay'  = DoStats(m_delay, d)
  /\ m_offset' = IF Gated(o, d, m_delay') = o THEN DoStats(m_offset, o) ELSE m_offset

(* The statistics part of PtpV2Clock::DelayResponseTo. *)
AddSample(o, d) ==
  /\ m_delay'  = DoStats(m_delay, d)
  /\ m_offset' = DoStats(m_offset, Gated(o, d, m_delay'))

(* PtpV2Clock::ResyncToMaster *)
ResyncToMaster ==
  /\ m_offset' = [m_offset EXCEPT !.bSet = FALSE]
  /\ m_delay'  = [m_delay EXCEPT !.bSet = FALSE]

\* Faulty: clearing forgets the flag that the statistics are complete.
ClearStats_KeepsFlag ==
  /\ m_offset' = [EmptyWindow EXCEPT !.bSet = m_offset.bSet]
  /\ m_delay'  = [EmptyWindow EXCEPT !.bSet = m_delay.bSet]

(* PtpV2Clock::ClearStats *)
ClearStats ==
  /\ m_offset' = EmptyWindow
  /\ m_delay'  = EmptyWindow

(* PtpV2Clock::IsSynced *)
IsSynced == m_offset.bSet

StatsInit ==
  /\ m_offset = EmptyWindow
  /\ m_delay  = EmptyWindow
-----------------------------------------------------------------------------
(* Both windows hold integers and a flag, and no more than the history.    *)
StatsTypeOK ==
  /\ m_offset \in Windows /\ Len(m_offset.lstValues) <= HistorySize
  /\ m_delay  \in Windows /\ Len(m_delay.lstValues) <= HistorySize

(* DelayResponseTo tests the length of the offset window to decide whether *)
(* the mean and deviation of the delay window may be used, and a reader    *)
(* takes IsSynced (the flag of the offsets) to speak for both: right only  *)
(* while the two windows are filled, emptied and flagged together.         *)
WindowsInStep ==
  /\ Len(m_offset.lstValues) = Len(m_delay.lstValues)
  /\ m_offset.bSet = m_delay.bSet

(* A clock reports itself synced only with at least SampleSize values to   *)
(* average, whatever resets and resyncs came before.                       *)
SyncedNeedsSamples ==
  IsSynced => /\ Len(m_offset.lstValues) >= SampleSize
              /\ Len(m_delay.lstValues) >= SampleSize

(* The sum kept incrementally, through pushes, evictions and resets, is    *)
(* the sum of the values in the window, so the mean is theirs.             *)
RunningTotal ==
  /\ m_offset.dTotal = Total(m_offset)
  /\ m_delay.dTotal  = Total(m_delay)

(* The four together are inductive. *)
StatsInv == StatsTypeOK /\ WindowsInStep /\ SyncedNeedsSamples /\ RunningTotal
=============================================================================
