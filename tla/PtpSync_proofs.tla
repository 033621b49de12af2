--------------------------- MODULE PtpSync_proofs ---------------------------
(***************************************************************************)
(* For every sample size, every history and all measured offsets: the lock *)
(* of the sync daemon is final, a hard crash is never repeated, a step is  *)
(* no larger than what was measured, and the daemon uses the statistics in *)
(* no other way than their own specification allows.                       *)
(***************************************************************************)
EXTENDS PtpSync, PtpStats_proofs

\* Until it is disturbed only one thread is in a call.
Separate == ~disturbed => \A t \in Threads : call[t] # Idle => Alone(t)

\* Under an undisturbed lock the counter is zero, and one in the rest of a call.
LockedCount ==
  ~disturbed /\ m_bPtpLock =>
    /\ m_nPtpSamples <= 1
    /\ (\A t \in Threads : call[t].at \in {"idle", "Load", "Store"}) => m_nPtpSamples = 0
    /\ \A t \in Threads : call[t].at = "Store" => call[t].samples = 0

\* An undisturbed call decides by the offset there is.
Deciding == {"HardCrash", "Wait", "AdjustFrequency", "AdjustTime"}

SnapshotIsCurrent ==
  ~disturbed => \A t \in Threads : call[t].at \in Deciding => call[t].offset = Current

\* Whatever set the clock either took the lock or emptied the windows.
UsedOffsets == ~fresh => m_bPtpLock \/ Current = 0

SyncInv ==
  StatsInv /\ SyncTypeOK /\ Separate /\ LockedCount /\ SnapshotIsCurrent /\ UsedOffsets

(* The steps that set the counter to zero are the last of their call.      *)
Restarts(t) ==
  /\ m_nPtpSamples' = 0
  /\ disturbed' = ~Alone(t)
  /\ call' = [call EXCEPT ![t] = Idle]
-----------------------------------------------------------------------------
(* The two threads are each other's other. *)
LEMMA TwoThreads ==
  ASSUME NEW t \in Threads
  PROVE  Other(t) \in Threads /\ Other(t) # t /\ \A u \in Threads : u = t \/ u = Other(t)
  BY DEF Threads, Other

LEMMA IdleCall ==
  /\ Idle \in [at : Steps, samples : Counts, offset : Int, steep : BOOLEAN]
  /\ Idle.at = "idle" /\ Idle.samples = 0 /\ Idle.offset = 0
  BY SyncAssumption DEF Idle, At, Steps, Counts

LEMMA CountedCounts ==
  ASSUME NEW n \in Counts
  PROVE  Counted(n) \in Counts /\ (n = 0 => Counted(n) = 1)
  BY SyncAssumption DEF Counts, Counted

(* The current offset is a number, and zero in an empty window. *)
LEMMA CurrentType ==
  ASSUME StatsInv
  PROVE  Current \in Int
  <1>1. m_offset.lstValues \in Seq(Int)
    BY DEF StatsInv, StatsTypeOK, Windows
  <1>. QED BY <1>1 DEF Current

LEMMA ClearedCurrent ==
  ASSUME ClearStats
  PROVE  Current' = 0
  BY DEF ClearStats, EmptyWindow, Current

LEMMA SameStats ==
  ASSUME StatsInv, UNCHANGED statsVars
  PROVE  StatsInv' /\ Current' = Current
  BY DEF statsVars, StatsInv, StatsTypeOK, WindowsInStep, SyncedNeedsSamples, IsSynced,
         RunningTotal, Current

LEMMA RestartTypes ==
  ASSUME NEW t \in Threads, SyncTypeOK, Restarts(t)
  PROVE  /\ call' \in [Threads -> [at : Steps, samples : Counts, offset : Int, steep : BOOLEAN]]
         /\ m_nPtpSamples' \in Counts /\ disturbed' \in BOOLEAN
  <1>1. call \in [Threads -> [at : Steps, samples : Counts, offset : Int, steep : BOOLEAN]]
    BY DEF SyncTypeOK
  <1>2. call' \in [Threads -> [at : Steps, samples : Counts, offset : Int, steep : BOOLEAN]]
    BY <1>1, IdleCall DEF Restarts
  <1>3. disturbed' \in BOOLEAN
    BY DEF Restarts
  <1>4. m_nPtpSamples' \in Counts
    BY SyncAssumption DEF Restarts, Counts
  <1>. QED BY <1>2, <1>3, <1>4

(* When a call restarts the counter and returns, what the invariant says   *)
(* of undisturbed calls holds again, whatever came before.                 *)
LEMMA RestartInv ==
  ASSUME NEW t \in Threads, SyncTypeOK, Restarts(t)
  PROVE  Separate' /\ LockedCount' /\ SnapshotIsCurrent'
  <1>1. call \in [Threads -> [at : Steps, samples : Counts, offset : Int, steep : BOOLEAN]]
    BY DEF SyncTypeOK
  <1>2. call'[t] = Idle /\ call'[Other(t)] = call[Other(t)]
    BY <1>1, TwoThreads DEF Restarts
  <1>3. ASSUME ~disturbed'
        PROVE  \A u \in Threads : call'[u] = Idle
    <2>1. call[Other(t)] = Idle
      BY <1>3 DEF Restarts, Alone
    <2>. QED BY <2>1, <1>2, TwoThreads
  <1>4. Separate'
    BY <1>3 DEF Separate
  <1>5. LockedCount'
    BY <1>3, IdleCall DEF LockedCount, Restarts
  <1>6. SnapshotIsCurrent'
    BY <1>3, IdleCall DEF SnapshotIsCurrent, Deciding
  <1>. QED BY <1>4, <1>5, <1>6
-----------------------------------------------------------------------------
LEMMA SyncInitInv == Init => SyncInv
  <1>. SUFFICES ASSUME Init PROVE SyncInv
    OBVIOUS
  <1>1. StatsInv
    BY StatsInitInv DEF Init
  <1>2. SyncTypeOK
    <2>1. call \in [Threads -> [at : Steps, samples : Counts, offset : Int, steep : BOOLEAN]]
      BY SyncAssumption DEF Init, Idle, At, Steps, Counts
    <2>2. StatsTypeOK
      BY <1>1 DEF StatsInv
    <2>3. m_nPtpSamples \in Counts
      BY SyncAssumption DEF Init, Counts
    <2>. QED BY <2>1, <2>2, <2>3 DEF SyncTypeOK, Init
  <1>3. Separate
    BY DEF Init, Separate, Alone, Other, Threads, Idle, At
  <1>4. Current = 0
    BY DEF Init, StatsInit, EmptyWindow, Current
  <1>5. SnapshotIsCurrent
    BY DEF Init, SnapshotIsCurrent, Deciding, Idle, At, Threads
  <1>. QED BY <1>1, <1>2, <1>3, <1>4, <1>5
           DEF SyncInv, Init, LockedCount, UsedOffsets

LEMMA LocalClockInv ==
  ASSUME SyncInv, LocalClock
  PROVE  SyncInv'
  <1>1. StatsInv' /\ Current' = Current
    BY SameStats DEF SyncInv, LocalClock
  <1>. QED BY <1>1 DEF SyncInv, SyncTypeOK, StatsInv, Separate, Alone, LockedCount,
                       SnapshotIsCurrent, UsedOffsets, LocalClock

(* A call that begins disturbs the other thread's, if that is in one.      *)
LEMMA BeginInv ==
  ASSUME NEW t \in Threads, SyncInv, Begin(t),
         UNCHANGED <<m_nPtpSamples, m_bPtpLock>>
  PROVE  /\ call' \in [Threads -> [at : Steps, samples : Counts, offset : Int, steep : BOOLEAN]]
         /\ disturbed' \in BOOLEAN
         /\ Separate' /\ LockedCount' /\ SnapshotIsCurrent'
  <1>1. call \in [Threads -> [at : Steps, samples : Counts, offset : Int, steep : BOOLEAN]]
    BY DEF SyncInv, SyncTypeOK
  <1>2. call' = [call EXCEPT ![t] = At("Load")]
    BY DEF Begin
  <1>3. call'[t] = At("Load") /\ call'[Other(t)] = call[Other(t)]
    BY <1>1, <1>2, TwoThreads DEF Begin
  <1>4. call'[t] \in [at : Steps, samples : Counts, offset : Int, steep : BOOLEAN]
    BY <1>3, SyncAssumption DEF At, Steps, Counts
  <1>5. call' \in [Threads -> [at : Steps, samples : Counts, offset : Int, steep : BOOLEAN]]
    BY <1>1, <1>2, <1>3, <1>4
  <1>6. disturbed' \in BOOLEAN
    BY DEF Begin, SyncInv, SyncTypeOK
  <1>7. call'[t].at = "Load"
    BY <1>3 DEF At
  <1>8. ASSUME ~disturbed'
        PROVE  ~disturbed /\ call[t] = Idle /\ call[Other(t)] = Idle /\ call'[Other(t)] = Idle
    BY <1>3, <1>8 DEF Begin, Alone
  <1>9. Separate'
    BY <1>8, TwoThreads DEF Separate, Alone
  <1>10. LockedCount'
    <2>. SUFFICES ASSUME ~disturbed', m_bPtpLock'
                  PROVE  /\ m_nPtpSamples' = 0
                         /\ \A u \in Threads : call'[u].at # "Store"
      BY DEF LockedCount
    <2>1. \A u \in Threads : call[u] = Idle
      BY <1>8, TwoThreads
    <2>2. m_nPtpSamples = 0
      BY <1>8, <2>1, IdleCall DEF SyncInv, LockedCount
    <2>. QED BY <2>2, <1>7, <1>8, IdleCall, TwoThreads
  <1>11. SnapshotIsCurrent'
    BY <1>7, <1>8, IdleCall, TwoThreads DEF SnapshotIsCurrent, Deciding
  <1>. QED BY <1>5, <1>6, <1>9, <1>10, <1>11

LEMMA ClockTimeCalculatedInv ==
  ASSUME SyncInv, ClockTimeCalculated
  PROVE  SyncInv'
  <1>1. /\ call' \in [Threads -> [at : Steps, samples : Counts, offset : Int, steep : BOOLEAN]]
        /\ disturbed' \in BOOLEAN
        /\ Separate' /\ LockedCount' /\ SnapshotIsCurrent'
    BY BeginInv DEF ClockTimeCalculated, Threads
  <1>2. StatsInv' /\ m_steep' \in BOOLEAN /\ fresh' \in BOOLEAN /\ UsedOffsets'
    <2>1. CASE UNCHANGED <<statsVars, m_steep, fresh>>
      BY <2>1, SameStats DEF SyncInv, SyncTypeOK, UsedOffsets, ClockTimeCalculated
    <2>2. ASSUME NEW o \in Offsets, NEW d \in Delays, AddSample(o, d),
                 m_steep' \in IF Len(m_offset'.lstValues) >= SampleSize THEN BOOLEAN
                              ELSE {m_steep},
                 fresh' = TRUE
          PROVE  StatsInv' /\ m_steep' \in BOOLEAN /\ fresh' \in BOOLEAN /\ UsedOffsets'
      <3>1. StatsInv'
        BY <2>2, AddSampleInv, SamplesAssumption DEF SyncInv
      <3>. QED BY <3>1, <2>2 DEF UsedOffsets, SyncInv, SyncTypeOK
    <2>. QED BY <2>1, <2>2 DEF ClockTimeCalculated
  <1>. QED BY <1>1, <1>2 DEF SyncInv, SyncTypeOK, StatsInv, ClockTimeCalculated

LEMMA RunInv ==
  ASSUME SyncInv, NEW newDomain \in BOOLEAN, Run(newDomain)
  PROVE  SyncInv'
  <1>1. /\ call' \in [Threads -> [at : Steps, samples : Counts, offset : Int, steep : BOOLEAN]]
        /\ disturbed' \in BOOLEAN
        /\ Separate' /\ LockedCount' /\ SnapshotIsCurrent'
    BY BeginInv DEF Run, Threads
  <1>2. StatsInv' /\ m_steep' \in BOOLEAN /\ registered' \in BOOLEAN /\ UsedOffsets'
    <2>1. CASE newDomain
      BY <2>1, ClearStatsInv, ClearedCurrent DEF Run, UsedOffsets
    <2>2. CASE ~newDomain
      BY <2>2, SameStats DEF SyncInv, SyncTypeOK, UsedOffsets, Run
    <2>. QED BY <2>1, <2>2
  <1>. QED BY <1>1, <1>2 DEF SyncInv, SyncTypeOK, StatsInv, Run
-----------------------------------------------------------------------------
LEMMA LoadInv ==
  ASSUME SyncInv, NEW t \in Threads, Load(t)
  PROVE  SyncInv'
  <1>1. call \in [Threads -> [at : Steps, samples : Counts, offset : Int, steep : BOOLEAN]]
    BY DEF SyncInv, SyncTypeOK
  <1>2. call' = [call EXCEPT ![t] = [call[t] EXCEPT !.at = "Store", !.samples = m_nPtpSamples]]
    BY DEF Load
  <1>3. /\ call'[t] = [call[t] EXCEPT !.at = "Store", !.samples = m_nPtpSamples]
        /\ call'[Other(t)] = call[Other(t)]
    BY <1>1, <1>2, TwoThreads
  <1>4. /\ call'[t] \in [at : Steps, samples : Counts, offset : Int, steep : BOOLEAN]
        /\ call'[t].at = "Store" /\ call'[t].samples = m_nPtpSamples
    <2>1. m_nPtpSamples \in Counts
      BY DEF SyncInv, SyncTypeOK
    <2>2. "Store" \in Steps
      BY DEF Steps
    <2>3. call[t] \in [at : Steps, samples : Counts, offset : Int, steep : BOOLEAN]
      BY <1>1
    <2>. QED BY <1>3, <2>1, <2>2, <2>3
  <1>5. call' \in [Threads -> [at : Steps, samples : Counts, offset : Int, steep : BOOLEAN]]
    BY <1>1, <1>2, <1>3, <1>4
  <1>6. StatsInv' /\ Current' = Current
    BY SameStats DEF SyncInv, Load
  <1>7. ASSUME ~disturbed PROVE call[Other(t)] = Idle
    BY <1>7, IdleCall DEF SyncInv, Separate, Alone, Load
  <1>8. Separate'
    BY <1>3, <1>7, TwoThreads DEF Separate, Alone, Load
  <1>9. LockedCount'
    <2>1. UNCHANGED <<m_nPtpSamples, m_bPtpLock, disturbed>>
      BY DEF Load
    <2>2. ASSUME ~disturbed, m_bPtpLock
          PROVE  m_nPtpSamples = 0 /\ \A u \in Threads :
                            call'[u].at = "Store" => call'[u].samples = 0
      <3>1. m_nPtpSamples = 0
        BY <2>2, <1>7, IdleCall, TwoThreads DEF SyncInv, LockedCount, Load
      <3>. QED BY <2>2, <3>1, <1>3, <1>4, <1>7, IdleCall, TwoThreads
    <2>. QED BY <2>1, <2>2 DEF LockedCount
  <1>10. SnapshotIsCurrent'
    BY <1>3, <1>4, <1>6, <1>7, IdleCall, TwoThreads DEF SnapshotIsCurrent, Deciding, Load
  <1>. QED BY <1>5, <1>6, <1>8, <1>9, <1>10
           DEF SyncInv, SyncTypeOK, StatsInv, UsedOffsets, Load

LEMMA StoreInv ==
  ASSUME SyncInv, NEW t \in Threads, Store(t)
  PROVE  SyncInv'
  <1>1. call \in [Threads -> [at : Steps, samples : Counts, offset : Int, steep : BOOLEAN]]
    BY DEF SyncInv, SyncTypeOK
  <1>2. StatsInv' /\ Current' = Current
    BY SameStats DEF SyncInv, Store
  <1>3. call[t].samples \in Counts /\ m_nPtpSamples' \in Counts
    BY <1>1, CountedCounts DEF Store
  <1>4. CASE registered
    <2>1. /\ call' = [call EXCEPT ![t] = [at |-> "HardCrash", samples |-> 0,
                                          offset |-> Current, steep |-> m_steep]]
          /\ UNCHANGED disturbed
      BY <1>4 DEF Store
    <2>2. /\ call'[t] = [at |-> "HardCrash", samples |-> 0,
                         offset |-> Current, steep |-> m_steep]
          /\ call'[Other(t)] = call[Other(t)]
      BY <1>1, <2>1, TwoThreads
    <2>3. call'[t] \in [at : Steps, samples : Counts, offset : Int, steep : BOOLEAN]
      BY <2>2, CurrentType, SyncAssumption DEF SyncInv, SyncTypeOK, Steps, Counts
    <2>4. call' \in [Threads -> [at : Steps, samples : Counts, offset : Int, steep : BOOLEAN]]
      BY <1>1, <2>1, <2>2, <2>3
    <2>5. ASSUME ~disturbed PROVE call[Other(t)] = Idle
      BY <2>5, IdleCall DEF SyncInv, Separate, Alone, Store
    <2>6. Separate'
      BY <2>1, <2>2, <2>5, TwoThreads DEF Separate, Alone
    <2>7. LockedCount'
      <3>. SUFFICES ASSUME ~disturbed, m_bPtpLock
                    PROVE  /\ m_nPtpSamples' = 1
                           /\ call'[t].at = "HardCrash"
                           /\ call'[Other(t)].at = "idle"
        BY <2>1, TwoThreads DEF LockedCount, Store
      <3>1. call[t].samples = 0
        BY DEF SyncInv, LockedCount, Store
      <3>. QED BY <3>1, <1>3, <2>2, <2>5, IdleCall, CountedCounts DEF Store
    <2>8. SnapshotIsCurrent'
      BY <1>2, <2>1, <2>2, <2>5, IdleCall, TwoThreads DEF SnapshotIsCurrent, Deciding
    <2>. QED BY <1>2, <1>3, <2>1, <2>4, <2>6, <2>7, <2>8
             DEF SyncInv, SyncTypeOK, StatsInv, UsedOffsets, Store
  <1>5. CASE ~registered
    <2>1. call' = [call EXCEPT ![t] = Idle] /\ disturbed' = TRUE
      BY <1>5 DEF Store, Return
    <2>2. call' \in [Threads -> [at : Steps, samples : Counts, offset : Int, steep : BOOLEAN]]
      BY <1>1, <2>1, IdleCall
    <2>. QED BY <1>2, <1>3, <2>1, <2>2
             DEF SyncInv, SyncTypeOK, StatsInv, Separate, LockedCount, SnapshotIsCurrent,
                 UsedOffsets, Store
  <1>. QED BY <1>4, <1>5

(* A step to a later place of the same call, with nothing else changed.    *)
LEMMA GotoInv ==
  ASSUME SyncInv, NEW t \in Threads, NEW step \in Steps, Goto(t, step),
         call[t].at \in {"HardCrash", "Wait", "AdjustFrequency"},
         step \in {"Wait", "AdjustFrequency", "AdjustTime"},
         UNCHANGED <<statsVars, registered, m_steep, m_nPtpSamples, m_bPtpLock, fresh, disturbed>>
  PROVE  SyncInv'
  <1>1. call \in [Threads -> [at : Steps, samples : Counts, offset : Int, steep : BOOLEAN]]
    BY DEF SyncInv, SyncTypeOK
  <1>2. call' = [call EXCEPT ![t] = [call[t] EXCEPT !.at = step]]
    BY DEF Goto
  <1>3. call'[t] = [call[t] EXCEPT !.at = step] /\ call'[Other(t)] = call[Other(t)]
    BY <1>1, <1>2, TwoThreads
  <1>4. /\ call'[t] \in [at : Steps, samples : Counts, offset : Int, steep : BOOLEAN]
        /\ call'[t].at = step
    BY <1>1, <1>3
  <1>5. call' \in [Threads -> [at : Steps, samples : Counts, offset : Int, steep : BOOLEAN]]
    BY <1>1, <1>2, <1>3, <1>4
  <1>6. StatsInv' /\ Current' = Current
    BY SameStats DEF SyncInv
  <1>7. ASSUME ~disturbed PROVE call[Other(t)] = Idle
    BY <1>7, IdleCall DEF SyncInv, Separate, Alone
  <1>8. Separate'
    BY <1>3, <1>7, TwoThreads DEF Separate, Alone
  <1>9. LockedCount'
    <2>1. ASSUME ~disturbed, m_bPtpLock
          PROVE  m_nPtpSamples <= 1 /\ \A u \in Threads : call'[u].at # "Store"
      <3>1. m_nPtpSamples <= 1
        BY <2>1 DEF SyncInv, LockedCount
      <3>. QED BY <2>1, <3>1, <1>3, <1>4, <1>7, IdleCall, TwoThreads
    <2>. QED BY <2>1, <1>4 DEF LockedCount
  <1>10. SnapshotIsCurrent'
    <2>1. ASSUME ~disturbed PROVE call'[t].offset = Current
      <3>1. call[t].offset = Current
        BY <2>1 DEF SyncInv, SnapshotIsCurrent, Deciding
      <3>2. call'[t].offset = call[t].offset
        BY <1>1, <1>3
      <3>. QED BY <3>1, <3>2
    <2>. QED BY <1>3, <1>6, <1>7, <2>1, IdleCall, TwoThreads DEF SnapshotIsCurrent, Deciding
  <1>. QED BY <1>5, <1>6, <1>8, <1>9, <1>10
           DEF SyncInv, SyncTypeOK, StatsInv, UsedOffsets

LEMMA HardCrashInv ==
  ASSUME SyncInv, NEW t \in Threads, HardCrash(t)
  PROVE  SyncInv'
  <1>1. CASE Crashes(t)
    <2>1. /\ Restarts(t) /\ ClearStats
          /\ UNCHANGED registered /\ m_steep' = FALSE /\ m_bPtpLock' = FALSE
          /\ fresh' \in {FALSE, fresh}
      BY <1>1 DEF HardCrash, Restarts, ResetLocalClockStats, StartCounting, Return, SetClock
    <2>. QED BY <2>1, RestartTypes, ClearStatsInv, ClearedCurrent, RestartInv
             DEF SyncInv, SyncTypeOK, StatsInv, UsedOffsets
  <1>2. CASE ~Crashes(t)
    <2>1. /\ Goto(t, "Wait")
          /\ UNCHANGED <<statsVars, registered, m_steep, m_nPtpSamples, m_bPtpLock,
                         fresh, disturbed>>
      BY <1>2 DEF HardCrash
    <2>2. call[t].at = "HardCrash" /\ "Wait" \in Steps
      BY DEF HardCrash, Steps
    <2>. QED BY <2>1, <2>2, GotoInv
  <1>. QED BY <1>1, <1>2

LEMMA WaitInv ==
  ASSUME SyncInv, NEW t \in Threads, Wait(t)
  PROVE  SyncInv'
  <1>1. CASE ~m_bPtpLock /\ m_nPtpSamples < MinSampleSize
    <2>1. call \in [Threads -> [at : Steps, samples : Counts, offset : Int, steep : BOOLEAN]]
      BY DEF SyncInv, SyncTypeOK
    <2>2. call' = [call EXCEPT ![t] = Idle]
      BY <1>1 DEF Wait, Return
    <2>3. /\ call' \in [Threads -> [at : Steps, samples : Counts, offset : Int, steep : BOOLEAN]]
          /\ call'[t] = Idle /\ call'[Other(t)] = call[Other(t)]
      BY <2>1, <2>2, IdleCall, TwoThreads
    <2>4. StatsInv' /\ Current' = Current
      BY SameStats DEF SyncInv, Wait
    <2>5. Separate' /\ LockedCount'
      BY <1>1, <2>3, TwoThreads DEF SyncInv, Separate, Alone, LockedCount, Wait
    <2>6. SnapshotIsCurrent'
      BY <2>3, <2>4, IdleCall, TwoThreads DEF SyncInv, SnapshotIsCurrent, Deciding, Wait
    <2>. QED BY <2>3, <2>4, <2>5, <2>6
             DEF SyncInv, SyncTypeOK, StatsInv, UsedOffsets, Wait
  <1>2. CASE ~(~m_bPtpLock /\ m_nPtpSamples < MinSampleSize)
    <2>1. /\ Goto(t, "AdjustFrequency") /\ call[t].at = "Wait"
          /\ UNCHANGED <<statsVars, registered, m_steep, m_nPtpSamples, m_bPtpLock,
                         fresh, disturbed>>
      BY <1>2 DEF Wait
    <2>2. "AdjustFrequency" \in Steps
      BY DEF Steps
    <2>. QED BY <2>1, <2>2, GotoInv
  <1>. QED BY <1>1, <1>2

LEMMA AdjustFrequencyInv ==
  ASSUME SyncInv, NEW t \in Threads, AdjustFrequency(t)
  PROVE  SyncInv'
  <1>1. CASE /\ ResetLocalClockStats /\ StartCounting(t) /\ Return(t)
             /\ UNCHANGED <<registered, m_bPtpLock, fresh>>
    <2>1. Restarts(t) /\ ClearStats /\ m_steep' = FALSE
      BY <1>1 DEF Restarts, ResetLocalClockStats, StartCounting, Return
    <2>. QED BY <1>1, <2>1, RestartTypes, ClearStatsInv, ClearedCurrent, RestartInv
             DEF SyncInv, SyncTypeOK, StatsInv, UsedOffsets
  <1>2. CASE /\ Goto(t, "AdjustTime")
             /\ UNCHANGED <<statsVars, registered, m_steep, m_nPtpSamples, m_bPtpLock,
                            fresh, disturbed>>
    <2>1. call[t].at = "AdjustFrequency" /\ "AdjustTime" \in Steps
      BY DEF AdjustFrequency, Steps
    <2>. QED BY <1>2, <2>1, GotoInv
  <1>. QED BY <1>1, <1>2 DEF AdjustFrequency

LEMMA AdjustTimeInv ==
  ASSUME SyncInv, NEW t \in Threads, AdjustTime(t)
  PROVE  SyncInv'
  <1>1. /\ Restarts(t) /\ m_bPtpLock' = TRUE /\ fresh' \in {FALSE, fresh}
        /\ UNCHANGED <<statsVars, registered, m_steep>>
    BY DEF AdjustTime, Restarts, StartCounting, Return, SetClock
  <1>2. StatsInv'
    BY <1>1, SameStats DEF SyncInv
  <1>. QED BY <1>1, <1>2, RestartTypes, RestartInv
           DEF SyncInv, SyncTypeOK, StatsInv, UsedOffsets
-----------------------------------------------------------------------------
(* The invariant that ties the lock, the counter, the calls under way and  *)
(* the offsets not yet used to one another.                                *)
THEOREM SyncInvariant == Spec => []SyncInv
  <1>1. SyncInv /\ [Next]_vars => SyncInv'
    <2>. SUFFICES ASSUME SyncInv, [Next]_vars
                  PROVE  SyncInv'
      OBVIOUS
    <2>1. CASE LocalClock
      BY <2>1, LocalClockInv
    <2>2. CASE ClockTimeCalculated
      BY <2>2, ClockTimeCalculatedInv
    <2>3. ASSUME NEW newDomain \in BOOLEAN, Run(newDomain)
          PROVE  SyncInv'
      BY <2>3, RunInv
    <2>4. ASSUME NEW t \in Threads, TrySyncToPtp(t)
          PROVE  SyncInv'
      BY <2>4, LoadInv, StoreInv, HardCrashInv, WaitInv, AdjustFrequencyInv, AdjustTimeInv
         DEF TrySyncToPtp
    <2>5. CASE UNCHANGED vars
      <3>1. StatsInv' /\ Current' = Current
        BY <2>5, SameStats DEF vars, statsVars, SyncInv
      <3>. QED BY <2>5, <3>1 DEF vars, SyncInv, SyncTypeOK, StatsInv, Separate, Alone,
                   LockedCount, SnapshotIsCurrent, UsedOffsets
    <2>. QED BY <2>1, <2>2, <2>3, <2>4, <2>5 DEF Next
  <1>. QED BY <1>1, SyncInitInv, PTL DEF Spec

(* The statistics and the calls stay well formed. *)
THEOREM SyncTypeCorrect == Spec => []SyncTypeOK
  BY SyncInvariant, PTL DEF SyncInv

(* The clock is never set twice by the same offset: without a lock the     *)
(* windows are empty or hold what was measured since, and with one an      *)
(* undisturbed counter keeps HardCrash from acting.                        *)
THEOREM CrashesAreFresh == Spec => []CrashOnFreshSample
  <1>1. SyncInv => CrashOnFreshSample
    <2>. SUFFICES ASSUME SyncInv, NEW t \in Threads, call[t].at = "HardCrash",
                         Crashes(t), ~disturbed, ~fresh
                  PROVE  FALSE
      BY DEF CrashOnFreshSample, SyncInv, SyncTypeOK
    <2>1. call[t].offset = Current
      BY DEF SyncInv, SnapshotIsCurrent, Deciding
    <2>2. Current # 0
      BY <2>1, SyncAssumption DEF Crashes, TooFar, Magnitude
    <2>3. m_bPtpLock
      BY <2>2 DEF SyncInv, UsedOffsets
    <2>4. m_nPtpSamples <= 1
      BY <2>3 DEF SyncInv, LockedCount
    <2>. QED BY <2>4, SyncAssumption DEF Crashes, SyncInv, SyncTypeOK, Counts
  <1>. QED BY <1>1, SyncInvariant, PTL

(* A reported lock is for ever, for every offset, unless calls overlap or  *)
(* find no local clock.                                                    *)
THEOREM LockStays == Spec => LockIsFinal
  <1>1. SyncInv /\ [Next]_vars => [m_bPtpLock /\ ~m_bPtpLock' => disturbed]_vars
    <2>. SUFFICES ASSUME SyncInv, Next, m_bPtpLock, ~disturbed
                  PROVE  m_bPtpLock'
      BY DEF SyncInv, SyncTypeOK
    <2>1. m_nPtpSamples <= 1 /\ m_nPtpSamples \in Counts
      BY DEF SyncInv, LockedCount, SyncTypeOK
    <2>2. ASSUME NEW t \in Threads, HardCrash(t)
          PROVE  m_bPtpLock'
      <3>1. ~Crashes(t)
        BY <2>1, SyncAssumption DEF Crashes, Counts
      <3>. QED BY <2>2, <3>1 DEF HardCrash
    <2>3. CASE LocalClock \/ ClockTimeCalculated \/ \E newDomain \in BOOLEAN : Run(newDomain)
      BY <2>3 DEF LocalClock, ClockTimeCalculated, Run
    <2>4. ASSUME NEW t \in Threads, \/ Load(t) \/ Store(t) \/ Wait(t)
                                     \/ AdjustFrequency(t) \/ AdjustTime(t)
          PROVE  m_bPtpLock'
      BY <2>4 DEF Load, Store, Wait, AdjustFrequency, AdjustTime
    <2>. QED BY <2>2, <2>3, <2>4 DEF Next, TrySyncToPtp
  <1>. QED BY <1>1, SyncInvariant, PTL DEF Spec, LockIsFinal
-----------------------------------------------------------------------------
(* How far AdjustTime steps. *)

(* The deviation of a window is a natural number: the largest s whose      *)
(* square fits is one of the numbers that the definition chooses among.    *)
LEMMA DeviationType ==
  ASSUME StatsInv
  PROVE  Deviation \in Nat
  <1>. DEFINE n == Len(m_offset.lstValues)
              k == n * n * (n - 1)
              scatter == Scatter(m_offset)
              Scaled(s) == s * s * n * n * (n - 1)
              Fits(s) == Scaled(s) <= scatter
              TooLarge == {s \in Nat : ~Fits(s + 1)}
  <1>1. m_offset \in Windows /\ n \in Nat
    BY DEF StatsInv, StatsTypeOK, Windows
  <1>2. scatter \in Nat
    BY <1>1, ScatterType
  <1>3. CASE n < SampleSize
    BY <1>3 DEF Deviation
  <1>4. CASE ~(n < SampleSize)
    <2>1. n >= 2
      BY <1>1, <1>4, StatsAssumption
    <2>. HIDE DEF n, scatter
    <2>2. k \in Nat \ {0}
      BY <1>1, <2>1
    <2>3. \A s \in Nat : Scaled(s) = s * s * k
      BY <1>1
    <2>. HIDE DEF k, Scaled
    <2>4. \A s \in Nat : s <= s * s /\ s * s \in Nat
      OBVIOUS
    <2>5. \A s \in Nat : s * s <= s * s * k
      BY <2>2, <2>4
    <2>6. \A s \in Nat : s * s * k >= s
      BY <2>2, <2>4, <2>5
    <2>7. \A s \in Nat : Fits(s) => s <= scatter
      BY <1>2, <2>2, <2>3, <2>4, <2>6
    <2>8. Fits(0)
      <3>1. 0 * 0 * k = 0
        BY <2>2
      <3>. QED BY <1>2, <2>3, <3>1
    <2>. HIDE DEF Fits
    <2>9. scatter \in TooLarge
      BY <1>2, <2>7
    <2>10. PICK least \in TooLarge : \A s \in TooLarge : least <= s
      BY <2>9, LeastNatural
    <2>11. Fits(least)
      <3>1. CASE least = 0
        BY <2>8, <3>1
      <3>2. CASE least # 0
        <4>1. least - 1 \in Nat /\ least - 1 \notin TooLarge
          BY <2>10, <3>2
        <4>. QED BY <4>1
      <3>. QED BY <3>1, <3>2
    <2>12. least \in 0 .. scatter /\ ~Fits(least + 1)
      BY <1>2, <2>7, <2>11
    <2>13. \A s \in 0 .. scatter :
             Fits(s) /\ ~Fits(s + 1) <=> Scaled(s) <= scatter /\ Scaled(s + 1) > scatter
      <3>1. \A s \in 0 .. scatter : s + 1 \in Nat /\ (s + 1) * (s + 1) * k \in Int
        BY <1>2, <2>2
      <3>2. \A s \in 0 .. scatter : Scaled(s + 1) \in Int
        BY <2>3, <3>1
      <3>. QED BY <1>2, <3>2 DEF Fits
    <2>14. Deviation = CHOOSE s \in 0 .. scatter :
                         Scaled(s) <= scatter /\ Scaled(s + 1) > scatter
      BY <1>4 DEF Deviation, n, scatter, Scaled
    <2>15. Deviation \in 0 .. scatter
      BY <2>11, <2>12, <2>13, <2>14
    <2>. QED BY <1>2, <2>15
  <1>. QED BY <1>3, <1>4

(* What is clamped lies between the mean and the offset.                   *)
LEMMA ClampedBetween ==
  ASSUME StatsInv, NEW lo \in Int, NEW hi \in Int, NEW offset \in Int,
         lo <= Mean(m_offset), Mean(m_offset) <= hi, lo <= offset, offset <= hi
  PROVE  Clamped(offset) \in Int /\ lo <= Clamped(offset) /\ Clamped(offset) <= hi
  <1>1. Mean(m_offset) \in Int
    BY MeanType DEF StatsInv, StatsTypeOK
  <1>. QED BY <1>1, DeviationType DEF Clamped, Larger, Smaller

(* The fields that AdjustTime hands on are worth the correction, or, when  *)
(* the clock is to be set back, its whole seconds less the rest: never     *)
(* further from zero than the correction.                                  *)
LEMMA TimevalMagnitude ==
  ASSUME NEW ts \in Int
  PROVE  Value(Timeval(ts)) \in Int /\ Magnitude(Value(Timeval(ts))) <= Magnitude(ts)
  <1>. DEFINE q == Magnitude(ts) \div Second
              r == Magnitude(ts) - Second * q
  <1>1. Magnitude(ts) \in Nat /\ Second \in Nat \ {0}
    BY SyncAssumption DEF Magnitude
  <1>2. q \in Nat /\ r \in 0 .. Second - 1 /\ Magnitude(ts) = Second * q + r
    <2>1. \A x \in Nat, n \in Nat \ {0} :
            x \div n \in Int /\ n * (x \div n) <= x /\ x < n * (x \div n + 1)
      OBVIOUS
    <2>2. q \in Int /\ Second * q <= Magnitude(ts) /\ Magnitude(ts) < Second * (q + 1)
      BY <1>1, <2>1
    <2>. HIDE DEF q
    <2>3. Second * (q + 1) = Second * q + Second /\ Second * q \in Int
      BY <1>1, <2>2
    <2>4. r \in 0 .. Second - 1 /\ Magnitude(ts) = Second * q + r
      BY <1>1, <2>2, <2>3
    <2>5. Second * 0 < Second * (q + 1)
      BY <1>1, <2>2
    <2>6. q \in Nat
      BY <1>1, <2>2, <2>5
    <2>. QED BY <2>4, <2>6
  <1>3. q * Second = Second * q /\ q * Second \in Nat
    <2>. HIDE DEF q
    <2>. QED BY <1>1, <1>2
  <1>. HIDE DEF q, r
  <1>4. CASE ts > 0
    <2>1. Quotient(ts, Second) = q
      BY <1>4 DEF Quotient, Magnitude, q
    <2>2. ts - q * Second = r
      BY <1>2, <1>3, <1>4 DEF Magnitude
    <2>3. Timeval(ts) = [sec |-> q, nano |-> r]
      BY <1>2, <1>4, <2>1, <2>2 DEF Timeval, Split
    <2>4. Value(Timeval(ts)) = q * Second + r
      BY <2>3 DEF Value
    <2>. QED BY <1>2, <1>3, <2>4 DEF Magnitude
  <1>5. CASE ~(ts > 0)
    <2>1. Quotient(ts, Second) = -q
      <3>1. CASE ts = 0
        BY <3>1, <1>1 DEF Quotient, Magnitude, q
      <3>2. CASE ts # 0
        BY <3>2, <1>5 DEF Quotient, Magnitude, q
      <3>. QED BY <3>1, <3>2
    <2>2. (-q) * Second = -(q * Second)
      BY <1>1, <1>2
    <2>3. (-q) * Second - ts = r
      <3>1. ts = -Magnitude(ts)
        BY <1>5 DEF Magnitude
      <3>2. r \in Int
        BY <1>2
      <3>. QED BY <1>1, <1>2, <1>3, <2>2, <3>1, <3>2
    <2>4. Timeval(ts) = [sec |-> -q, nano |-> r]
      BY <1>2, <1>5, <2>1, <2>3 DEF Timeval, Split
    <2>5. Value(Timeval(ts)) = -(q * Second) + r
      BY <2>2, <2>4 DEF Value
    <2>. QED BY <1>2, <1>3, <2>5 DEF Magnitude
  <1>. QED BY <1>4, <1>5

(* An undisturbed AdjustTime has the last value of the window for offset,  *)
(* and a mean of that window: both, and with them what lies between, are   *)
(* no larger than the largest value.                                       *)
THEOREM StepsStayWithinMeasured == Spec => []StepWithinMeasured
  <1>1. SyncInv => StepWithinMeasured
    <2>. SUFFICES ASSUME SyncInv, NEW t \in Threads, call[t].at = "AdjustTime", ~disturbed,
                         Value(Timeval(-Clamped(call[t].offset))) # 0
                  PROVE  \E v \in Seqs!ToSet(m_offset.lstValues) :
                           Magnitude(Value(Timeval(-Clamped(call[t].offset)))) <= Magnitude(v)
      BY DEF StepWithinMeasured
    <2>. DEFINE values == m_offset.lstValues
                n == Len(values)
                clamped == Clamped(Current)
                step == Value(Timeval(-clamped))
    <2>1. call[t].offset = Current
      BY DEF SyncInv, SnapshotIsCurrent, Deciding
    <2>2. StatsInv /\ m_offset \in Windows /\ m_offset.dTotal = Total(m_offset)
      BY DEF SyncInv, StatsInv, StatsTypeOK, RunningTotal
    <2>3. values \in Seq(Int) /\ n \in Nat
      BY <2>2 DEF Windows
    <2>4. values # <<>>
      <3>. SUFFICES ASSUME values = <<>>
                    PROVE  FALSE
        OBVIOUS
      <3>1. Current = 0 /\ Mean(m_offset) = 0
        BY DEF Current, Mean
      <3>2. clamped = 0
        <4>1. 0 <= Mean(m_offset) /\ Mean(m_offset) <= 0 /\ 0 <= Current /\ Current <= 0
          BY <3>1
        <4>2. 0 \in Int /\ Current \in Int
          BY <3>1
        <4>3. clamped \in Int /\ 0 <= clamped /\ clamped <= 0
          BY <2>2, <4>1, <4>2, ClampedBetween
        <4>. HIDE DEF clamped
        <4>. QED BY <4>3
      <3>3. Value(Timeval(-0)) \in Int /\ Magnitude(Value(Timeval(-0))) <= Magnitude(-0)
        BY TimevalMagnitude
      <3>4. Value(Timeval(-0)) = 0
        BY <3>3 DEF Magnitude
      <3>. QED BY <2>1, <3>2, <3>4
    <2>5. PICK i \in 1 .. n, j \in 1 .. n :
            \A k \in 1 .. n : values[i] <= values[k] /\ values[k] <= values[j]
      BY <2>3, <2>4, Extremes
    <2>6. \A k \in 1 .. n : values[k] \in Int
      BY <2>3, ElementOfSeq
    <2>7. values[i] <= Current /\ Current <= values[j] /\ Current \in Int
      <3>1. n \in 1 .. n /\ Current = values[n]
        BY <2>3, <2>4 DEF Current
      <3>. QED BY <2>5, <2>6, <3>1
    <2>8. values[i] <= Mean(m_offset) /\ Mean(m_offset) <= values[j]
      <3>1. PICK a \in DOMAIN values, b \in DOMAIN values :
              values[a] <= Mean(m_offset) /\ Mean(m_offset) <= values[b]
        BY <2>2, <2>4, MeanBetween
      <3>2. a \in 1 .. n /\ b \in 1 .. n
        BY <2>3, <3>1, SMTT(30)
      <3>3. Mean(m_offset) \in Int
        BY <2>2, MeanType
      <3>. QED BY <2>5, <2>6, <3>1, <3>2, <3>3
    <2>9. clamped \in Int /\ values[i] <= clamped /\ clamped <= values[j]
      BY <2>2, <2>6, <2>7, <2>8, ClampedBetween
    <2>10. step \in Int /\ Magnitude(step) <= Magnitude(-clamped)
      <3>1. -clamped \in Int
        BY <2>9
      <3>. HIDE DEF clamped
      <3>. QED BY <3>1, TimevalMagnitude
    <2>11. Magnitude(-clamped) <= Magnitude(values[i]) \/ Magnitude(-clamped) <= Magnitude(values[j])
      BY <2>6, <2>9 DEF Magnitude
    <2>12. values[i] \in Seqs!ToSet(values) /\ values[j] \in Seqs!ToSet(values)
      BY <2>3 DEF Seqs!ToSet
    <2>13. Magnitude(step) \in Int /\ Magnitude(-clamped) \in Int
           /\ Magnitude(values[i]) \in Int /\ Magnitude(values[j]) \in Int
      BY <2>6, <2>9, <2>10, SMTT(30) DEF Magnitude
    <2>. HIDE DEF step, clamped
    <2>14. \/ Magnitude(step) <= Magnitude(values[i])
           \/ Magnitude(step) <= Magnitude(values[j])
      BY <2>10, <2>11, <2>13
    <2>. QED BY <2>1, <2>12, <2>14 DEF step, clamped
  <1>. QED BY <1>1, SyncInvariant, PTL

(* Whatever the daemon does, its windows are filled, cleared and read only *)
(* in ways that the specification of the statistics allows: what is proved *)
(* of them there holds of the windows the daemon steers by.                *)
THEOREM SyncImplementsStats == Spec => StatsSpec
  <1>1. Init => StatsInit
    BY DEF Init
  <1>2. [Next]_vars => [StatsNext]_statsVars
    <2>. SUFFICES ASSUME [Next]_vars
                  PROVE  [StatsNext]_statsVars
      OBVIOUS
    <2>1. CASE UNCHANGED vars
      BY <2>1 DEF vars, statsVars
    <2>2. CASE LocalClock
      BY <2>2 DEF LocalClock
    <2>3. CASE ClockTimeCalculated
      BY <2>3 DEF ClockTimeCalculated, StatsNext
    <2>4. ASSUME NEW newDomain \in BOOLEAN, Run(newDomain)
          PROVE  [StatsNext]_statsVars
      BY <2>4 DEF Run, StatsNext
    <2>5. ASSUME NEW t \in Threads, TrySyncToPtp(t)
          PROVE  [StatsNext]_statsVars
      <3>1. CASE Load(t) \/ Store(t) \/ Wait(t) \/ AdjustTime(t)
        BY <3>1 DEF Load, Store, Wait, AdjustTime
      <3>2. CASE HardCrash(t) \/ AdjustFrequency(t)
        BY <3>2 DEF HardCrash, AdjustFrequency, ResetLocalClockStats, StatsNext
      <3>. QED BY <2>5, <3>1, <3>2 DEF TrySyncToPtp
    <2>. QED BY <2>1, <2>2, <2>3, <2>4, <2>5 DEF Next
  <1>. QED BY <1>1, <1>2, PTL DEF Spec, StatsSpec
=============================================================================
