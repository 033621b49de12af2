------------------------------ MODULE PtpSync ------------------------------
(***************************************************************************)
(* The daemon that steers the system clock (sync/src/ptpsync.cpp): what    *)
(* TrySyncToPtp does with the statistics of the local clock.               *)
(*                                                                         *)
(* Two threads call it: the context, for every Delay_Resp to this machine, *)
(* and the application, at the end of every Run.  Nothing protects the     *)
(* fields they share, so a call is cut where one may come between the      *)
(* other's test and use: the load and the store of the counter, the        *)
(* snapshot of the offset, and each of the methods it tries in turn.       *)
(*                                                                         *)
(* The offset is what the exchange measured: any of Offsets.  The slope of *)
(* the regression counts only as steep (more than 0.2 ppm) or not.  The    *)
(* kernel may refuse to set the clock or to tell its frequency.            *)
(***************************************************************************)
EXTENDS PtpClockStats

CONSTANTS
  Second,              (* a second                                         *)
  CrashLimit,          (* the largest offset that is 500 ms rounded down   *)
  MinSampleSize        (* m_nMinSamplSize                                  *)

ASSUME SyncAssumption ==
  /\ Second \in Nat \ {0}
  /\ CrashLimit \in Nat
  /\ MinSampleSize \in Nat /\ MinSampleSize >= 2

VARIABLES
  registered,      (* GetLocalClock is not null                            *)
  m_steep,         (* the slope m_c of the offsets is steep                *)
  m_nPtpSamples,   (* calls since it was set to zero                       *)
  m_bPtpLock,      (* what IsPtpFrequencyLocked returns                    *)
  call,            (* where the call of each thread is, and its locals     *)
  fresh,           (* history: a sample was made since the clock was set   *)
  disturbed        (* history: since m_nPtpSamples was set to zero a call  *)
                   (* overlapped another or found no local clock           *)

vars == <<m_offset, m_delay, registered, m_steep, m_nPtpSamples, m_bPtpLock, call,
          fresh, disturbed>>

Threads == {"context", "app"}
Other(t) == IF t = "context" THEN "app" ELSE "context"

Steps == {"idle", "Load", "Store", "HardCrash", "Wait", "AdjustFrequency", "AdjustTime"}

(* Only whether the counter is above 1 and below MinSampleSize matters: it *)
(* stops at one above, and nothing else is changed by that.                *)
Counts == 0 .. MinSampleSize + 1
Counted(n) == IF n <= MinSampleSize THEN n + 1 ELSE n

At(step) == [at |-> step, samples |-> 0, offset |-> 0, steep |-> FALSE]
Idle     == At("idle")

Alone(t) == call[Other(t)] = Idle

Goto(t, step) == call' = [call EXCEPT ![t].at = step]
Return(t)     == call' = [call EXCEPT ![t] = Idle]
-----------------------------------------------------------------------------
(* What is read off the statistics. *)

\* stat[CURRENT] of the offsets
Current == IF m_offset.lstValues = <<>> THEN 0
           ELSE m_offset.lstValues[Len(m_offset.lstValues)]

\* stat[SD] of the offsets, rounded down
Deviation ==
  LET n == Len(m_offset.lstValues)
  IN  IF n < SampleSize THEN 0
      ELSE CHOOSE s \in 0 .. Scatter(m_offset) :
             /\ s * s * n * n * (n - 1) <= Scatter(m_offset)
             /\ (s + 1) * (s + 1) * n * n * (n - 1) > Scatter(m_offset)

Larger(a, b)  == IF a >= b THEN a ELSE b
Smaller(a, b) == IF a <= b THEN a ELSE b
Magnitude(a)  == IF a >= 0 THEN a ELSE -a

\* Faulty: the bounds of the band are taken the wrong way round.
Clamped_Swapped(offset) ==
  Larger(Mean(m_offset) + Deviation, Smaller(Mean(m_offset) - Deviation, offset))

\* The offset AdjustTime corrects: within a deviation of the mean.
Clamped(offset) ==
  Larger(Mean(m_offset) - Deviation, Smaller(Mean(m_offset) + Deviation, offset))

\* Split of timeutils.cpp: the nanoseconds are never negative.
Split(ts) ==
  LET sec == Quotient(ts, Second)
  IN  [sec |-> sec, nano |-> IF ts > 0 THEN ts - sec * Second ELSE sec * Second - ts]

\* The fields AdjustTime hands to clock_adjtime for a step of ts.
Timeval(ts) ==
  LET s == Split(ts)
  IN  IF s.nano < 0 THEN [sec |-> s.sec - 1, nano |-> s.nano + Second] ELSE s

\* "The value of a timeval is the sum of its fields."
Value(tv) == tv.sec * Second + tv.nano

TooFar(offset) == Magnitude(offset) > CrashLimit
-----------------------------------------------------------------------------
(* Run has created the PtpMonkey, and is about to call TrySyncToPtp.       *)
Init ==
  /\ StatsInit
  /\ registered = FALSE
  /\ m_steep = FALSE
  /\ m_nPtpSamples = 0
  /\ m_bPtpLock = FALSE
  /\ call = [t \in Threads |-> IF t = "app" THEN At("Load") ELSE Idle]
  /\ fresh = FALSE
  /\ disturbed = FALSE

Begin(t) ==
  /\ call[t] = Idle
  /\ call' = [call EXCEPT ![t] = At("Load")]
  /\ disturbed' = (disturbed \/ ~Alone(t))

(* The first message of this machine's identity registers its clock.       *)
LocalClock ==
  /\ ~registered /\ call["context"] = Idle
  /\ registered' = TRUE
  /\ UNCHANGED <<statsVars, m_steep, m_nPtpSamples, m_bPtpLock, call, fresh, disturbed>>

(* A Delay_Resp makes a sample or measures nothing; the event handler is   *)
(* called in both cases.                                                   *)
ClockTimeCalculated ==
  /\ registered
  /\ Begin("context")
  /\ \/ /\ \E o \in Offsets, d \in Delays : AddSample(o, d)
        /\ m_steep' \in IF Len(m_offset'.lstValues) >= SampleSize THEN BOOLEAN ELSE {m_steep}
        /\ fresh' = TRUE
     \/ UNCHANGED <<statsVars, m_steep, fresh>>
  /\ UNCHANGED <<registered, m_nPtpSamples, m_bPtpLock>>

(* Run of a PtpMonkey that is running, on the same address.  A change of   *)
(* domain forgets the local clock; the context is not in a call then,      *)
(* which would use the pointer that has become null.                       *)
Run(newDomain) ==
  /\ Begin("app")
  /\ IF newDomain
     THEN /\ call["context"] = Idle
          /\ ClearStats
          /\ registered' = FALSE
          /\ m_steep' = FALSE
     ELSE UNCHANGED <<statsVars, registered, m_steep>>
  /\ UNCHANGED <<m_nPtpSamples, m_bPtpLock, fresh>>
-----------------------------------------------------------------------------
(* The steps of TrySyncToPtp. *)

Load(t) ==
  /\ call[t].at = "Load"
  /\ call' = [call EXCEPT ![t].at = "Store", ![t].samples = m_nPtpSamples]
  /\ UNCHANGED <<statsVars, registered, m_steep, m_nPtpSamples, m_bPtpLock, fresh, disturbed>>

(* The counter is stored; without a local clock that is all, with one its  *)
(* offset and slope are read.                                              *)
Store(t) ==
  /\ call[t].at = "Store"
  /\ m_nPtpSamples' = Counted(call[t].samples)
  /\ IF registered
     THEN /\ call' = [call EXCEPT ![t] = [at |-> "HardCrash", samples |-> 0,
                                          offset |-> Current, steep |-> m_steep]]
          /\ UNCHANGED disturbed
     ELSE /\ Return(t)
          /\ disturbed' = TRUE
  /\ UNCHANGED <<statsVars, registered, m_steep, m_bPtpLock, fresh>>

\* ResetLocalClockStats
ResetLocalClockStats == ClearStats /\ m_steep' = FALSE

\* The counter starts again, and with it what it says of the calls before.
StartCounting(t) ==
  /\ m_nPtpSamples' = 0
  /\ disturbed' = ~Alone(t)

Crashes(t) == m_nPtpSamples > 1 /\ TooFar(call[t].offset)

\* The kernel does as it is told, or refuses.
SetClock == fresh' \in {FALSE, fresh}

\* Faulty: the statistics survive the step of the clock.
HardCrash_KeepsStats(t) ==
  /\ call[t].at = "HardCrash"
  /\ IF Crashes(t)
     THEN /\ SetClock
          /\ StartCounting(t)
          /\ m_bPtpLock' = FALSE
          /\ Return(t)
          /\ UNCHANGED <<statsVars, m_steep>>
     ELSE /\ Goto(t, "Wait")
          /\ UNCHANGED <<statsVars, m_steep, m_nPtpSamples, m_bPtpLock, fresh, disturbed>>
  /\ UNCHANGED registered

(* Far off, the clock is set, and everything starts again, even if the     *)
(* kernel refused.                                                         *)
HardCrash(t) ==
  /\ call[t].at = "HardCrash"
  /\ IF Crashes(t)
     THEN /\ SetClock
          /\ ResetLocalClockStats
          /\ StartCounting(t)
          /\ m_bPtpLock' = FALSE
          /\ Return(t)
     ELSE /\ Goto(t, "Wait")
          /\ UNCHANGED <<statsVars, m_steep, m_nPtpSamples, m_bPtpLock, fresh, disturbed>>
  /\ UNCHANGED registered

(* "need more samples" *)
Wait(t) ==
  /\ call[t].at = "Wait"
  /\ IF ~m_bPtpLock /\ m_nPtpSamples < MinSampleSize THEN Return(t)
                                                     ELSE Goto(t, "AdjustFrequency")
  /\ UNCHANGED <<statsVars, registered, m_steep, m_nPtpSamples, m_bPtpLock, fresh, disturbed>>

\* Faulty: a frequency that cannot be read ends the call.
AdjustFrequency_Returns(t) ==
  /\ call[t].at = "AdjustFrequency"
  /\ \/ /\ ~m_bPtpLock /\ call[t].steep
        /\ ResetLocalClockStats
        /\ StartCounting(t)
        /\ Return(t)
     \/ /\ IF ~m_bPtpLock /\ call[t].steep THEN Return(t) ELSE Goto(t, "AdjustTime")
        /\ UNCHANGED <<statsVars, m_steep, m_nPtpSamples, disturbed>>
  /\ UNCHANGED <<registered, m_bPtpLock, fresh>>

(* A steep slope is corrected until there is a lock, if the kernel tells   *)
(* the frequency; otherwise the time is adjusted.                          *)
AdjustFrequency(t) ==
  /\ call[t].at = "AdjustFrequency"
  /\ \/ /\ ~m_bPtpLock /\ call[t].steep
        /\ ResetLocalClockStats
        /\ StartCounting(t)
        /\ Return(t)
     \/ /\ Goto(t, "AdjustTime")
        /\ UNCHANGED <<statsVars, m_steep, m_nPtpSamples, disturbed>>
  /\ UNCHANGED <<registered, m_bPtpLock, fresh>>

\* Faulty: the counter goes on under a lock.
AdjustTime_KeepsCount(t) ==
  /\ call[t].at = "AdjustTime"
  /\ m_bPtpLock' = TRUE
  /\ SetClock
  /\ Return(t)
  /\ UNCHANGED <<statsVars, registered, m_steep, m_nPtpSamples, disturbed>>

(* The lock is reported before the kernel is asked.                        *)
AdjustTime(t) ==
  /\ call[t].at = "AdjustTime"
  /\ StartCounting(t)
  /\ m_bPtpLock' = TRUE
  /\ SetClock
  /\ Return(t)
  /\ UNCHANGED <<statsVars, registered, m_steep>>

TrySyncToPtp(t) ==
  Load(t) \/ Store(t) \/ HardCrash(t) \/ Wait(t) \/ AdjustFrequency(t) \/ AdjustTime(t)

Next ==
  \/ LocalClock
  \/ ClockTimeCalculated
  \/ \E newDomain \in BOOLEAN : Run(newDomain)
  \/ \E t \in Threads : TrySyncToPtp(t)

(* A call that has begun is carried on with: its thread is scheduled.      *)
Spec == Init /\ [][Next]_vars /\ \A t \in Threads : WF_vars(TrySyncToPtp(t))
-----------------------------------------------------------------------------
(* The statistics are well formed, and so are the calls.                   *)
SyncTypeOK ==
  /\ StatsTypeOK
  /\ registered \in BOOLEAN /\ m_steep \in BOOLEAN
  /\ m_nPtpSamples \in Counts
  /\ m_bPtpLock \in BOOLEAN
  /\ call \in [Threads -> [at : Steps, samples : Counts, offset : Int, steep : BOOLEAN]]
  /\ fresh \in BOOLEAN /\ disturbed \in BOOLEAN

(* Once IsPtpFrequencyLocked says so it says so for ever, however far off  *)
(* the master is measured: AdjustTime has set the counter to zero, the     *)
(* next call makes it one, HardCrash wants more and AdjustTime comes       *)
(* again.  Only overlapping calls, or calls that found no local clock, let *)
(* the counter get past one under a lock.                                  *)
LockIsFinal == [][m_bPtpLock /\ ~m_bPtpLock' => disturbed]_vars

(* HardCrash sets the clock by an offset that was measured after the clock *)
(* was last set, never twice by the same one, unless calls overlapped or   *)
(* the counter does not tell.                                              *)
CrashOnFreshSample ==
  \A t \in Threads :
    call[t].at = "HardCrash" /\ Crashes(t) /\ ~disturbed => fresh

(* AdjustTime does not step the clock by more than the largest offset of   *)
(* the window, although the band it keeps to may be wider than that.       *)
StepWithinMeasured ==
  \A t \in Threads :
    LET step == Value(Timeval(-Clamped(call[t].offset)))
    IN  call[t].at = "AdjustTime" /\ ~disturbed /\ step # 0 =>
          \E v \in Seqs!ToSet(m_offset.lstValues) : Magnitude(step) <= Magnitude(v)

(* Waiting for more samples ends: while responses keep coming to a local   *)
(* clock, the daemon acts on them, and counts anew, again and again,       *)
(* whatever the kernel refuses and however the two threads overlap.        *)
WaitEnds ==
  []<>(call["context"].at = "Load") /\ <>[]registered => []<>(m_nPtpSamples = 0)

(* What the comment in AdjustTime says ("The value of a timeval is the sum *)
(* of its fields, but the field tv_usec must always be non-negative"): the *)
(* fields handed to clock_adjtime are the correction.                      *)
TimevalIsTheCorrection ==
  \A t \in Threads :
    LET correction == -Clamped(call[t].offset)
    IN  call[t].at = "AdjustTime" =>
          /\ Value(Timeval(correction)) = correction
          /\ Timeval(correction).nano \in 0 .. Second - 1
=============================================================================
