------------------------- MODULE PtpExchange_proofs -------------------------
(***************************************************************************)
(* How far a computed offset, delay and master time can be off, for every  *)
(* network that loses, repeats and reorders messages, and every bound on   *)
(* path delays, transmit timestamps and turnaround.                        *)
(*                                                                         *)
(* ExchangeInv is the inductive invariant.  A sample combines the times of *)
(* a Sync, its Follow_Up, a delay request and its response, which were     *)
(* recorded at four different moments: the invariant says of each moment   *)
(* which of the times on record and in the network belong together.        *)
(* IdsInv, after it, says how sequence ids are spent.                      *)
(*                                                                         *)
(* Offsets and Delays come with the proofs about the statistics and are of *)
(* no concern here but in the last theorem.                                *)
(***************************************************************************)
EXTENDS PtpExchange, PtpStats_proofs, FiniteSetTheorems

(* C++ halving is off by at most one half, and never away from zero. *)
LEMMA HalfBounds ==
  ASSUME NEW a \in Int
  PROVE  /\ Quotient(a, 2) \in Int
         /\ a - 1 <= 2 * Quotient(a, 2) /\ 2 * Quotient(a, 2) <= a + 1
         /\ a >= 0 => 2 * Quotient(a, 2) <= a
  <1>1. CASE a >= 0
    BY <1>1 DEF Quotient
  <1>2. CASE ~(a >= 0)
    <2>1. PICK b \in Nat : b = -a
      BY <1>2
    <2>2. b \div 2 \in Nat /\ b - 1 <= 2 * (b \div 2) /\ 2 * (b \div 2) <= b
      BY <2>1
    <2>3. Quotient(a, 2) = -(b \div 2)
      BY <1>2, <2>1 DEF Quotient
    <2>. HIDE DEF Quotient
    <2>. QED BY <1>2, <2>1, <2>2, <2>3
  <1>. QED BY <1>1, <1>2

(* Four timestamps of one exchange give an accurate offset and delay. *)
LEMMA SampleBounds ==
  ASSUME NEW t1s \in Int, NEW t1r \in Int, NEW t2s \in Int, NEW t2r \in Int,
         t1r - t1s + Offset \in PathDelays,
         t2r - Offset - t2s \in RequestDelays
  PROVE  /\ SampleOffset(t1s, t1r, t2s, t2r) \in Int
         /\ SampleDelay(t1s, t1r, t2s, t2r) \in Int
         /\ GoodOffset(SampleOffset(t1s, t1r, t2s, t2r))
         /\ GoodDelay(SampleDelay(t1s, t1r, t2s, t2r))
  <1>. DEFINE so == (t1r - t1s) + (t2s - t2r)
              sd == (t1r - t1s) + (t2r - t2s)
              qo == Quotient(so, 2)
              qd == Quotient(sd, 2)
  <1>1. so \in Int /\ sd \in Int
    OBVIOUS
  <1>2. Offset \in Int /\ MinDelay \in Nat /\ MaxDelay \in Nat /\ MaxTxError \in Nat
    BY ExchangeAssumption
  <1>3. /\ so >= MinDelay - MaxDelay - 2 * Offset
        /\ so <= MaxDelay - MinDelay + MaxTxError - 2 * Offset
        /\ sd >= 2 * MinDelay - MaxTxError
        /\ sd <= 2 * MaxDelay
    BY <1>2 DEF PathDelays, RequestDelays
  <1>4. qo \in Int /\ so - 1 <= 2 * qo /\ 2 * qo <= so + 1
    BY <1>1, HalfBounds
  <1>5. qd \in Int /\ sd - 1 <= 2 * qd /\ 2 * qd <= sd + 1 /\ (sd >= 0 => 2 * qd <= sd)
    BY <1>1, HalfBounds
  <1>6. SampleOffset(t1s, t1r, t2s, t2r) = qo /\ SampleDelay(t1s, t1r, t2s, t2r) = qd
    BY DEF SampleOffset, SampleDelay
  <1>. HIDE DEF so, sd, qo, qd
  <1>7. GoodOffset(qo)
    BY <1>1, <1>2, <1>3, <1>4 DEF GoodOffset, Jitter
  <1>8. GoodDelay(qd)
    BY <1>1, <1>2, <1>3, <1>5 DEF GoodDelay
  <1>. QED BY <1>4, <1>5, <1>6, <1>7, <1>8

(* What lies between two good offsets is as good.                          *)
LEMMA GoodBetween ==
  ASSUME NEW a \in Int, NEW b \in Int, NEW o \in Int,
         a <= o, o <= b, GoodOffset(a), GoodOffset(b)
  PROVE  GoodOffset(o)
  <1>1. Offset \in Int /\ MinDelay \in Int /\ MaxDelay \in Int /\ MaxTxError \in Int
    BY ExchangeAssumption
  <1>. QED BY <1>1 DEF GoodOffset, Jitter

(* A sequence id has a successor. *)
LEMMA NextId ==
  ASSUME NEW seq \in SeqIds
  PROVE  Next16(seq) \in SeqIds
  BY ClockAssumption DEF SeqIds, Next16

(* Sending adds to the network messages of known types and ids. *)
LEMMA NetworkType ==
  ASSUME net \subseteq Message, NEW types, NEW seq,
         NEW A \in SUBSET Message
  PROVE  Without(types, seq) \cup A \subseteq Message
  BY DEF Without

(* What a response contributes, and that its request's time is on record. *)
LEMMA SampleOfResponse ==
  ASSUME ExchangeInv, NEW m \in net, m.type = "DelayResp",
         m.seq \in DOMAIN m_mDelayRequest, m_bT1Valid
  PROVE  /\ OffsetOf(m.seq, m.origin) \in Int
         /\ DelayOf(m.seq, m.origin) \in Int
         /\ Clean => /\ GoodOffset(OffsetOf(m.seq, m.origin))
                     /\ GoodDelay(DelayOf(m.seq, m.origin))
  <1>1. /\ m_nt1s \in Int /\ m_nt1r \in Int
        /\ m_mDelayRequest[m.seq] \in Int /\ m.origin \in Int
    BY DEF ExchangeInv, TypeOK, ClockTypeOK, Message
  <1>2. /\ OffsetOf(m.seq, m.origin) \in Int
        /\ DelayOf(m.seq, m.origin) \in Int
    <2>. DEFINE so == (m_nt1r - m_nt1s) + (m_mDelayRequest[m.seq] - m.origin)
                sd == (m_nt1r - m_nt1s) + (m.origin - m_mDelayRequest[m.seq])
    <2>1. so \in Int /\ sd \in Int
      BY <1>1
    <2>2. OffsetOf(m.seq, m.origin) = Quotient(so, 2) /\ DelayOf(m.seq, m.origin) = Quotient(sd, 2)
      BY DEF OffsetOf, DelayOf, SampleOffset, SampleDelay
    <2>. HIDE DEF so, sd
    <2>. QED BY <2>1, <2>2, HalfBounds
  <1>3. ASSUME Clean
        PROVE  /\ GoodOffset(OffsetOf(m.seq, m.origin))
               /\ GoodDelay(DelayOf(m.seq, m.origin))
    <2>1. m_nt1r - m_nt1s + Offset \in PathDelays
      BY <1>3 DEF ExchangeInv, T1Times, Clean
    <2>2. m.origin - Offset - m_mDelayRequest[m.seq] \in RequestDelays
      BY <1>3 DEF ExchangeInv, RequestTimes, Clean, Of
    <2>. QED BY <1>1, <2>1, <2>2, SampleBounds DEF OffsetOf, DelayOf
  <1>. QED BY <1>2, <1>3
-----------------------------------------------------------------------------
(* The invariant holds before anything is sent. *)
LEMMA InitInv == Init => ExchangeInv
  <1>. SUFFICES ASSUME Init PROVE ExchangeInv
    OBVIOUS
  <1>1. StatsInv
    BY StatsInitInv DEF Init, ClockInit
  <1>2. TypeOK
    <2>1. ClockTypeOK
      <3>1. DOMAIN m_mDelayRequest \subseteq SeqIds /\ m_mDelayRequest \in [DOMAIN m_mDelayRequest -> Int]
        <4>. DEFINE none == [s \in {} |-> 0]
        <4>1. DOMAIN none = {} /\ none \in [{} -> Int]
          OBVIOUS
        <4>2. m_mDelayRequest = none
          BY DEF Init, ClockInit
        <4>. QED BY <4>1, <4>2
      <3>2. /\ m_nt1s \in Int /\ m_nt1r \in Int
            /\ m_nFollowUpSequence \in SeqIds
            /\ m_bT1Valid \in BOOLEAN
            /\ m_calculatedAt \in Int /\ m_calculatedPtp \in Int /\ m_calculatedFirst \in Int
        <4>1. /\ m_nt1s = 0 /\ m_nt1r = 0 /\ m_nFollowUpSequence \in SeqIds
              /\ m_bT1Valid = FALSE /\ m_calculatedFirst = 0
              /\ m_calculatedAt \in Residue /\ m_calculatedPtp \in Residue
          BY DEF Init, ClockInit
        <4>2. m_nt1s \in Int /\ m_nt1r \in Int /\ m_calculatedFirst \in Int
          BY <4>1
        <4>3. m_calculatedAt \in Int /\ m_calculatedPtp \in Int
          BY <4>1, ClockAssumption
        <4>4. m_bT1Valid \in BOOLEAN
          BY <4>1
        <4>. QED BY <4>1, <4>2, <4>3, <4>4
      <3>. QED BY <1>1, <3>1, <3>2 DEF ClockTypeOK, StatsInv
    <2>2. 0 \in SeqIds
      BY ClockAssumption DEF SeqIds
    <2>3. sending \in Seq([seq : SeqIds, at : Int])
      BY DEF Init
    <2>4. sample \in [made : BOOLEAN, offset : Int, delay : Int]
      BY DEF Init
    <2>. QED BY <2>1, <2>2, <2>3, <2>4 DEF Init, TypeOK
  <1>3. SyncTimes /\ AwaitedTimes /\ T1Times /\ RequestTimes /\ SendingTimes /\ ResponseTimes
    BY DEF Init, ClockInit, SyncTimes, AwaitedTimes, T1Times, RequestTimes, SendingTimes,
           ResponseTimes, Of
  <1>4. SampleAccuracy /\ PtpTimeLag
    BY DEF Init, SampleAccuracy, PtpTimeLag
  <1>5. WindowAccuracy
    BY DEF Init, ClockInit, StatsInit, EmptyWindow, WindowAccuracy
  <1>. QED BY <1>1, <1>2, <1>3, <1>4, <1>5 DEF ExchangeInv

(* A Sync and its Follow_Up are sent with the times of one departure, after *)
(* everything of an earlier use of their id has gone.                       *)
LEMMA MasterSyncInv ==
  ASSUME ExchangeInv, NEW gap \in Gaps, NEW delay \in PathDelays, MasterSync(gap, delay)
  PROVE  ExchangeInv'
  <1>. DEFINE t == now + gap
              sync == [type |-> "Sync", seq |-> syncSeq, at |-> t + delay,
                       origin |-> IF twoStep THEN 0 ELSE t + Offset]
              followUp == [type |-> "FollowUp", seq |-> syncSeq, at |-> t + delay,
                           origin |-> t + Offset]
              new == {sync} \cup IF twoStep THEN {followUp} ELSE {}
  <1>1. /\ t \in Nat /\ delay \in Int /\ Offset \in Int /\ syncSeq \in SeqIds
        /\ twoStep \in BOOLEAN /\ net \subseteq Message
    BY ExchangeAssumption DEF ExchangeInv, TypeOK, PathDelays
  <1>2. sync \in Message /\ followUp \in Message
    BY <1>1 DEF Message
  <1>3. net' = Without({"Sync", "FollowUp"}, syncSeq) \cup new
    BY DEF MasterSync
  <1>4. /\ now' = t /\ syncSeq' = Next16(syncSeq)
        /\ UNCHANGED <<clockVars, twoStep, m_mSequence, sending, m_pSyncMaster, m_pLocal, history>>
        /\ gotSync /\ twoStep => syncSeq # m_nFollowUpSequence
    BY DEF MasterSync
  <1>5. /\ sync.type = "Sync" /\ sync.seq = syncSeq /\ sync.at = t + delay
        /\ ~twoStep => sync.origin = t + Offset
        /\ followUp.type = "FollowUp" /\ followUp.seq = syncSeq /\ followUp.origin = t + Offset
    OBVIOUS
  <1>6. \A n \in net' :
          \/ n = sync
          \/ n = followUp /\ twoStep
          \/ n \in net /\ (n.type \in {"Sync", "FollowUp"} => n.seq # syncSeq)
    BY <1>3 DEF Without
  <1>7. StatsInv' /\ ClockTypeOK'
    BY <1>4 DEF clockVars, measured, ExchangeInv, TypeOK, ClockTypeOK, StatsInv, StatsTypeOK,
                WindowsInStep, SyncedNeedsSamples, IsSynced, RunningTotal
  <1>. HIDE DEF sync, followUp, t
  <1>8. TypeOK'
    <2>1. net' \subseteq Message
      BY <1>1, <1>2, <1>3, NetworkType
    <2>2. syncSeq' \in SeqIds
      BY <1>1, <1>4, NextId
    <2>. QED BY <1>1, <1>4, <1>7, <2>1, <2>2 DEF ExchangeInv, TypeOK, history
  <1>. HIDE DEF new
  <1>9. SyncTimes'
    <2>1. t + delay - (t + Offset) + Offset \in PathDelays
      BY <1>1
    <2>2. ASSUME NEW s \in Of("Sync")'
          PROVE  twoStep' \/ s.at - s.origin + Offset \in PathDelays
      BY <1>1, <1>4, <1>5, <1>6, <2>1, <2>2 DEF Of, ExchangeInv, SyncTimes
    <2>3. ASSUME NEW s \in Of("Sync")', NEW f \in Of("FollowUp")', s.seq = f.seq
          PROVE  s.at - f.origin + Offset \in PathDelays
      <3>1. CASE s = sync
        BY <1>1, <1>5, <1>6, <2>1, <2>3, <3>1 DEF Of
      <3>2. CASE s \in net /\ s.seq # syncSeq
        BY <1>5, <1>6, <2>3, <3>2 DEF Of, ExchangeInv, SyncTimes
      <3>. QED BY <1>5, <1>6, <2>3, <3>1, <3>2 DEF Of
    <2>4. ASSUME NEW f \in Of("FollowUp")'
          PROVE  twoStep'
      BY <1>4, <1>5, <1>6, <2>4 DEF Of, ExchangeInv, SyncTimes
    <2>. QED BY <2>2, <2>3, <2>4 DEF SyncTimes
  <1>10. AwaitedTimes'
    <2>. SUFFICES ASSUME gotSync, NEW f \in Of("FollowUp")', f.seq = m_nFollowUpSequence
                  PROVE  m_nt1r - f.origin + Offset \in PathDelays
      BY <1>4 DEF AwaitedTimes, history, clockVars
    <2>1. f \in net
      BY <1>4, <1>5, <1>6 DEF Of
    <2>. QED BY <2>1 DEF Of, ExchangeInv, AwaitedTimes
  <1>11. Of("DelayResp")' = Of("DelayResp")
    <2>1. Of("DelayResp")' \subseteq Of("DelayResp")
      BY <1>5, <1>6 DEF Of
    <2>2. Of("DelayResp") \subseteq Of("DelayResp")'
      BY <1>3 DEF Of, Without
    <2>. QED BY <2>1, <2>2
  <1>12. T1Times' /\ RequestTimes' /\ SendingTimes' /\ ResponseTimes'
    BY <1>4, <1>11 DEF clockVars, history, ExchangeInv, T1Times, RequestTimes, SendingTimes,
                       ResponseTimes
  <1>13. SampleAccuracy' /\ WindowAccuracy' /\ PtpTimeLag'
    BY <1>4 DEF clockVars, measured, history, ExchangeInv, SampleAccuracy, WindowAccuracy,
                PtpTimeLag, Clean, GetPtpTime
  <1>. QED BY <1>7, <1>8, <1>9, <1>10, <1>12, <1>13 DEF ExchangeInv

(* What says nothing of the network: the statistics and what was computed. *)
LEMMA ClockFrame ==
  ASSUME ExchangeInv, UNCHANGED clockVars
  PROVE  /\ ClockTypeOK' /\ StatsInv'
         /\ sample' = sample /\ (Clean' => Clean) =>
              SampleAccuracy' /\ WindowAccuracy' /\ PtpTimeLag'
  BY DEF clockVars, measured, ExchangeInv, TypeOK, ClockTypeOK, StatsInv, StatsTypeOK,
         WindowsInStep, SyncedNeedsSamples, IsSynced, RunningTotal, SampleAccuracy, WindowAccuracy,
         PtpTimeLag, GetPtpTime

(* A request is sent with the answer it will get, after everything of an   *)
(* earlier use of its id has gone from the network and the sends.          *)
LEMMA SendDelayRequestInv ==
  ASSUME ExchangeInv, NEW gap \in Gaps, NEW there \in PathDelays, NEW back \in PathDelays,
         NEW txError \in 0 .. MaxTxError, NEW turnaround \in 0 .. MaxTurnaround,
         SendDelayRequest(gap, there, txError, turnaround, back)
  PROVE  ExchangeInv'
  <1>. DEFINE t == now + gap
              response == [type |-> "DelayResp", seq |-> m_mSequence,
                           origin |-> t + there + Offset,
                           at |-> t + there + turnaround + back]
              send == [seq |-> m_mSequence, at |-> t + txError]
  <1>1. /\ t \in Nat \ {0} /\ there \in Nat /\ back \in Nat /\ txError \in Nat
        /\ turnaround \in Nat /\ Offset \in Int /\ m_mSequence \in SeqIds
        /\ MinDelay \in Nat /\ MaxDelay \in Nat /\ MaxTurnaround \in Nat /\ MaxTxError \in Nat
        /\ net \subseteq Message /\ sending \in Seq([seq : SeqIds, at : Int])
    BY ExchangeAssumption DEF ExchangeInv, TypeOK, PathDelays
  <1>2. response \in Message /\ send \in [seq : SeqIds, at : Int]
    BY <1>1 DEF Message
  <1>3. /\ net' = Without({"DelayResp"}, m_mSequence) \cup {response}
        /\ sending' = Append(sending, send)
    BY DEF SendDelayRequest
  <1>4. /\ now' = t /\ m_mSequence' = Next16(m_mSequence) /\ requests' = requests + 1
        /\ \A i \in DOMAIN sending : sending[i].seq # m_mSequence
        /\ staleRequest' = (staleRequest \/ m_mSequence \in DOMAIN m_mDelayRequest)
        /\ UNCHANGED <<clockVars, twoStep, syncSeq, m_pSyncMaster, m_pLocal, gotSync,
                       strayFollowUp, sample>>
    BY DEF SendDelayRequest
  <1>5. /\ response.type = "DelayResp" /\ response.seq = m_mSequence
        /\ response.origin - Offset = t + there /\ response.at # 0
        /\ response.at - response.origin + Offset \in MinDelay .. MaxTurnaround + MaxDelay
        /\ send.seq = m_mSequence
        /\ response.origin - Offset - send.at \in RequestDelays
    <2>1. /\ response.type = "DelayResp" /\ response.seq = m_mSequence /\ send.seq = m_mSequence
          /\ response.origin = t + there + Offset /\ send.at = t + txError
          /\ response.at = t + there + turnaround + back
      OBVIOUS
    <2>2. /\ MinDelay <= there /\ there <= MaxDelay /\ MinDelay <= back /\ back <= MaxDelay
          /\ turnaround <= MaxTurnaround /\ txError <= MaxTxError
      BY <1>1 DEF PathDelays
    <2>. HIDE DEF response, send, t
    <2>3. response.origin - Offset = t + there /\ response.at # 0
      BY <1>1, <2>1
    <2>4. response.at - response.origin + Offset = turnaround + back
      BY <1>1, <2>1
    <2>5. response.origin - Offset - send.at = there - txError
      BY <1>1, <2>1
    <2>6. turnaround + back \in MinDelay .. MaxTurnaround + MaxDelay
      BY <1>1, <2>2
    <2>7. there - txError \in RequestDelays
      BY <1>1, <2>2 DEF RequestDelays
    <2>. QED BY <2>1, <2>3, <2>4, <2>5, <2>6, <2>7
  <1>6. \A n \in net' : \/ n = response
                        \/ n \in net /\ (n.type = "DelayResp" => n.seq # m_mSequence)
    BY <1>3 DEF Without
  <1>7. \A i \in DOMAIN sending' :
          \/ sending'[i] = send
          \/ \E j \in DOMAIN sending : sending'[i] = sending[j]
    <2>. HIDE DEF send
    <2>1. /\ DOMAIN sending = 1 .. Len(sending) /\ Len(sending) \in Nat
          /\ sending' \in Seq([seq : SeqIds, at : Int]) /\ Len(sending') = Len(sending) + 1
          /\ \A i \in 1 .. Len(sending) : sending'[i] = sending[i]
          /\ sending'[Len(sending) + 1] = send
      BY <1>1, <1>2, <1>3, AppendProperties
    <2>2. DOMAIN sending' = 1 .. Len(sending) + 1
      BY <2>1
    <2>3. \A i \in 1 .. Len(sending) + 1 : i \in 1 .. Len(sending) \/ i = Len(sending) + 1
      BY <2>1
    <2>. QED BY <2>1, <2>2, <2>3
  <1>. HIDE DEF response, send, t
  <1>8. TypeOK'
    <2>1. net' \subseteq Message
      BY <1>2, <1>3, <1>1, NetworkType
    <2>2. m_mSequence' \in SeqIds
      BY <1>1, <1>4, NextId
    <2>3. sending' \in Seq([seq : SeqIds, at : Int])
      BY <1>1, <1>2, <1>3
    <2>4. now' \in Nat /\ requests' \in Nat
      BY <1>1, <1>4 DEF ExchangeInv, TypeOK
    <2>5. staleRequest' \in BOOLEAN
      BY <1>4 DEF ExchangeInv, TypeOK
    <2>. QED BY <1>4, ClockFrame, <2>1, <2>2, <2>3, <2>4, <2>5 DEF ExchangeInv, TypeOK
  <1>9. Of("Sync")' = Of("Sync") /\ Of("FollowUp")' = Of("FollowUp")
    <2>1. Of("Sync")' \subseteq Of("Sync") /\ Of("FollowUp")' \subseteq Of("FollowUp")
      BY <1>5, <1>6 DEF Of
    <2>2. Of("Sync") \subseteq Of("Sync")' /\ Of("FollowUp") \subseteq Of("FollowUp")'
      BY <1>3 DEF Of, Without
    <2>. QED BY <2>1, <2>2
  <1>10. SyncTimes' /\ AwaitedTimes' /\ T1Times'
    BY <1>4, <1>9 DEF clockVars, ExchangeInv, SyncTimes, AwaitedTimes, T1Times
  <1>11. RequestTimes'
    <2>. SUFFICES ASSUME ~staleRequest', NEW r \in Of("DelayResp")', r.seq \in DOMAIN m_mDelayRequest
                  PROVE  r.origin - Offset - m_mDelayRequest[r.seq] \in RequestDelays
      BY <1>4 DEF RequestTimes, clockVars
    <2>1. r \in Of("DelayResp") /\ ~staleRequest
      BY <1>4, <1>5, <1>6 DEF Of
    <2>. QED BY <2>1 DEF ExchangeInv, RequestTimes
  <1>12. SendingTimes'
    <2>. SUFFICES ASSUME NEW r \in Of("DelayResp")', NEW i \in DOMAIN sending',
                         r.seq = sending'[i].seq
                  PROVE  r.origin - Offset - sending'[i].at \in RequestDelays
      BY DEF SendingTimes
    <2>1. CASE r = response
      BY <1>4, <1>5, <1>7, <2>1
    <2>2. CASE r \in Of("DelayResp") /\ r.seq # m_mSequence
      BY <1>5, <1>7, <2>2 DEF ExchangeInv, SendingTimes
    <2>. QED BY <1>6, <2>1, <2>2 DEF Of
  <1>13. ResponseTimes'
    BY <1>5, <1>6 DEF ExchangeInv, ResponseTimes, Of
  <1>14. SampleAccuracy' /\ WindowAccuracy' /\ PtpTimeLag'
    BY <1>4, ClockFrame DEF Clean
  <1>15. StatsInv'
    BY <1>4, ClockFrame
  <1>. QED BY <1>8, <1>10, <1>11, <1>12, <1>13, <1>14, <1>15 DEF ExchangeInv

(* A send that fails uses an id and changes nothing else. *)
LEMMA SendFailsInv ==
  ASSUME ExchangeInv, NEW gap \in Gaps, SendFails(gap)
  PROVE  ExchangeInv'
  <1>1. /\ now' = now + gap /\ m_mSequence' = Next16(m_mSequence) /\ requests' = requests + 1
        /\ UNCHANGED <<clockVars, twoStep, syncSeq, net, sending, m_pSyncMaster, m_pLocal,
                       gotSync, staleRequest, strayFollowUp, sample>>
    BY DEF SendFails
  <1>2. TypeOK'
    <2>1. m_mSequence' \in SeqIds
      BY <1>1, NextId DEF ExchangeInv, TypeOK
    <2>2. now' \in Nat /\ requests' \in Nat
      BY <1>1, ExchangeAssumption DEF ExchangeInv, TypeOK
    <2>. QED BY <1>1, <2>1, <2>2, ClockFrame DEF ExchangeInv, TypeOK
  <1>3. SyncTimes' /\ AwaitedTimes' /\ T1Times' /\ RequestTimes' /\ SendingTimes' /\ ResponseTimes'
    BY <1>1 DEF clockVars, ExchangeInv, SyncTimes, AwaitedTimes, T1Times, RequestTimes,
                SendingTimes, ResponseTimes, Of
  <1>. QED BY <1>1, <1>2, <1>3, ClockFrame DEF ExchangeInv, Clean

(* The head and the tail of a sequence. *)
LEMMA HeadAndTail ==
  ASSUME NEW S, NEW s \in Seq(S), s # <<>>
  PROVE  /\ Head(s) \in S /\ Head(s) = s[1] /\ 1 \in DOMAIN s
         /\ Tail(s) \in Seq(S)
         /\ \A i \in DOMAIN Tail(s) : i + 1 \in DOMAIN s /\ Tail(s)[i] = s[i + 1]
  <1>1. Len(s) \in Nat /\ Len(s) # 0 /\ DOMAIN s = 1 .. Len(s)
    OBVIOUS
  <1>2. Head(s) \in S /\ Head(s) = s[1]
    BY <1>1
  <1>3. Tail(s) \in Seq(S) /\ DOMAIN Tail(s) = 1 .. Len(s) - 1
    BY <1>1
  <1>4. \A i \in 1 .. Len(s) - 1 : Tail(s)[i] = s[i + 1]
    BY <1>1
  <1>. QED BY <1>1, <1>2, <1>3, <1>4

(* A completed send puts on record, under an id not yet registered, a time *)
(* that was already tied to the response it will get.                      *)
LEMMA DelayRequestSentInv ==
  ASSUME ExchangeInv, DelayRequestSent
  PROVE  ExchangeInv'
  <1>. DEFINE head == Head(sending)
  <1>1. /\ sending \in Seq([seq : SeqIds, at : Int]) /\ sending # <<>>
        /\ sending' = Tail(sending) /\ DelayRequest(head.seq, head.at) /\ m_pLocal' = TRUE
        /\ UNCHANGED <<now, twoStep, syncSeq, m_mSequence, net, m_pSyncMaster, history>>
    BY DEF DelayRequestSent, ExchangeInv, TypeOK
  <1>2. /\ head \in [seq : SeqIds, at : Int] /\ head = sending[1] /\ 1 \in DOMAIN sending
        /\ sending' \in Seq([seq : SeqIds, at : Int])
        /\ \A i \in DOMAIN sending' : i + 1 \in DOMAIN sending /\ sending'[i] = sending[i + 1]
    BY <1>1, HeadAndTail
  <1>. HIDE DEF head
  <1>3. /\ UNCHANGED <<m_nt1s, m_nt1r, m_nFollowUpSequence, m_bT1Valid, measured>>
        /\ m_mDelayRequest' = IF head.seq \in DOMAIN m_mDelayRequest
                              THEN m_mDelayRequest
                              ELSE [s \in DOMAIN m_mDelayRequest \cup {head.seq} |->
                                      IF s = head.seq THEN head.at ELSE m_mDelayRequest[s]]
    BY <1>1 DEF DelayRequest
  <1>4. /\ DOMAIN m_mDelayRequest' \subseteq SeqIds
        /\ m_mDelayRequest' \in [DOMAIN m_mDelayRequest' -> Int]
        /\ \A s \in DOMAIN m_mDelayRequest' :
             \/ s \in DOMAIN m_mDelayRequest /\ m_mDelayRequest'[s] = m_mDelayRequest[s]
             \/ s = head.seq /\ m_mDelayRequest'[s] = head.at
    <2>1. DOMAIN m_mDelayRequest \subseteq SeqIds /\ m_mDelayRequest \in [DOMAIN m_mDelayRequest -> Int]
      BY DEF ExchangeInv, TypeOK, ClockTypeOK
    <2>2. CASE head.seq \in DOMAIN m_mDelayRequest
      BY <1>3, <2>1, <2>2
    <2>3. CASE head.seq \notin DOMAIN m_mDelayRequest
      BY <1>2, <1>3, <2>1, <2>3
    <2>. QED BY <2>2, <2>3
  <1>5. StatsInv' /\ TypeOK'
    <2>1. StatsInv'
      BY <1>3 DEF measured, ExchangeInv, StatsInv, StatsTypeOK, WindowsInStep, SyncedNeedsSamples,
                  IsSynced, RunningTotal
    <2>2. ClockTypeOK'
      BY <1>3, <1>4, <2>1 DEF measured, ExchangeInv, TypeOK, ClockTypeOK, StatsInv
    <2>. QED BY <1>1, <1>2, <2>1, <2>2 DEF ExchangeInv, TypeOK, history
  <1>6. SyncTimes' /\ AwaitedTimes' /\ T1Times' /\ ResponseTimes'
    BY <1>1, <1>3 DEF ExchangeInv, SyncTimes, AwaitedTimes, T1Times, ResponseTimes, Of, history
  <1>7. RequestTimes'
    <2>. SUFFICES ASSUME ~staleRequest, NEW r \in Of("DelayResp"), r.seq \in DOMAIN m_mDelayRequest'
                  PROVE  r.origin - Offset - m_mDelayRequest'[r.seq] \in RequestDelays
      BY <1>1 DEF RequestTimes, history, Of
    <2>. QED BY <1>2, <1>4 DEF ExchangeInv, RequestTimes, SendingTimes
  <1>8. SendingTimes'
    <2>. SUFFICES ASSUME NEW r \in Of("DelayResp"), NEW i \in DOMAIN sending',
                         r.seq = sending'[i].seq
                  PROVE  r.origin - Offset - sending'[i].at \in RequestDelays
      BY <1>1 DEF SendingTimes, Of
    <2>1. i + 1 \in DOMAIN sending /\ sending'[i] = sending[i + 1]
      BY <1>2
    <2>. QED BY <2>1 DEF ExchangeInv, SendingTimes
  <1>9. SampleAccuracy' /\ WindowAccuracy' /\ PtpTimeLag'
    BY <1>1, <1>3 DEF measured, history, ExchangeInv, SampleAccuracy, WindowAccuracy,
                      PtpTimeLag, Clean, GetPtpTime
  <1>. QED BY <1>5, <1>6, <1>7, <1>8, <1>9 DEF ExchangeInv

(* A Sync leaves the clock with the times of that one Sync, or waiting for *)
(* the Follow_Up that completes them.                                      *)
LEMMA SyncInv ==
  ASSUME ExchangeInv, NEW m \in net, Sync(m)
  PROVE  ExchangeInv'
  <1>1. /\ m \in Of("Sync") /\ m_pSyncMaster' = TRUE /\ gotSync' = (gotSync \/ m_pLocal)
        /\ UNCHANGED <<netVars, m_pLocal, requests, staleRequest, strayFollowUp, sample>>
    BY DEF Sync
  <1>2. CASE ~m_pLocal
    <2>1. UNCHANGED clockVars /\ gotSync' = gotSync
      BY <1>1, <1>2 DEF Sync, ExchangeInv, TypeOK
    <2>2. TypeOK'
      BY <1>1, <2>1, ClockFrame DEF netVars, ExchangeInv, TypeOK
    <2>3. SyncTimes' /\ AwaitedTimes' /\ T1Times' /\ RequestTimes' /\ SendingTimes' /\ ResponseTimes'
      BY <1>1, <2>1 DEF netVars, clockVars, ExchangeInv, SyncTimes, AwaitedTimes, T1Times,
                        RequestTimes, SendingTimes, ResponseTimes, Of
    <2>. QED BY <1>1, <2>1, <2>2, <2>3, ClockFrame DEF ExchangeInv, Clean
  <1>3. CASE m_pLocal
    <2>1. /\ SyncTo(twoStep, m.seq, m.origin, m.at) /\ gotSync' = TRUE
          /\ m.seq \in SeqIds /\ m.origin \in Int /\ m.at \in Int /\ twoStep \in BOOLEAN
          /\ 0 \in SeqIds
      <3>1. SyncTo(twoStep, m.seq, m.origin, m.at)
        BY <1>3 DEF Sync
      <3>2. m.seq \in SeqIds /\ m.origin \in Int /\ m.at \in Int
        BY DEF ExchangeInv, TypeOK, Message
      <3>3. gotSync' = TRUE /\ twoStep \in BOOLEAN
        BY <1>1, <1>3 DEF ExchangeInv, TypeOK
      <3>4. 0 \in SeqIds
        BY ClockAssumption DEF SeqIds
      <3>. QED BY <3>1, <3>2, <3>3, <3>4
    <2>2. UNCHANGED <<m_mDelayRequest, measured>> /\ m_nt1r' = m.at
      BY <2>1 DEF SyncTo
    <2>3. twoStep => /\ m_nFollowUpSequence' = m.seq /\ m_bT1Valid' = FALSE
                     /\ m_nt1s' = m_nt1s
      BY <2>1 DEF SyncTo
    <2>4. ~twoStep => m_nFollowUpSequence' = 0 /\ m_bT1Valid' = TRUE /\ m_nt1s' = m.origin
      BY <2>1 DEF SyncTo
    <2>5. StatsInv' /\ TypeOK'
      <3>1. StatsInv'
        BY <2>2 DEF measured, ExchangeInv, StatsInv, StatsTypeOK, WindowsInStep,
                    SyncedNeedsSamples, IsSynced, RunningTotal
      <3>2. m_bT1Valid' \in BOOLEAN /\ m_nt1s' \in Int /\ m_nFollowUpSequence' \in SeqIds
        BY <2>1, <2>3, <2>4 DEF ExchangeInv, TypeOK, ClockTypeOK
      <3>3. ClockTypeOK'
        BY <2>1, <2>2, <3>1, <3>2 DEF measured, ExchangeInv, TypeOK, ClockTypeOK, StatsInv
      <3>. QED BY <1>1, <2>1, <3>1, <3>3 DEF netVars, ExchangeInv, TypeOK
    <2>6. SyncTimes' /\ RequestTimes' /\ SendingTimes' /\ ResponseTimes'
      BY <1>1, <2>2 DEF netVars, ExchangeInv, SyncTimes, RequestTimes, SendingTimes,
                        ResponseTimes, Of
    <2>7. AwaitedTimes'
      <3>. SUFFICES ASSUME NEW f \in Of("FollowUp"), f.seq = m_nFollowUpSequence'
                    PROVE  m_nt1r' - f.origin + Offset \in PathDelays
        BY <1>1 DEF AwaitedTimes, netVars, Of
      <3>1. twoStep
        BY DEF ExchangeInv, SyncTimes
      <3>. QED BY <1>1, <2>2, <2>3, <3>1 DEF ExchangeInv, SyncTimes
    <2>8. T1Times'
      <3>1. CASE twoStep
        BY <2>3, <3>1 DEF T1Times
      <3>2. CASE ~twoStep
        BY <1>1, <2>2, <2>4, <3>2 DEF T1Times, ExchangeInv, SyncTimes
      <3>. QED BY <3>1, <3>2
    <2>9. SampleAccuracy' /\ WindowAccuracy' /\ PtpTimeLag'
      BY <1>1, <2>2 DEF measured, ExchangeInv, SampleAccuracy, WindowAccuracy, PtpTimeLag,
                        Clean, GetPtpTime
    <2>. QED BY <2>5, <2>6, <2>7, <2>8, <2>9 DEF ExchangeInv
  <1>. QED BY <1>2, <1>3

(* A Follow_Up completes the Sync it belongs to, or marks the times as not *)
(* those of one Sync; only before the first Sync can it be mistaken.       *)
LEMMA FollowUpInv ==
  ASSUME ExchangeInv, NEW m \in net, FollowUp(m)
  PROVE  ExchangeInv'
  <1>1. /\ m \in Of("FollowUp") /\ m_pSyncMaster' = TRUE
        /\ strayFollowUp' = (\/ strayFollowUp
                             \/ m_pLocal /\ ~gotSync /\ m.seq = m_nFollowUpSequence)
        /\ UNCHANGED <<netVars, m_pLocal, gotSync, requests, staleRequest, sample>>
    BY DEF FollowUp
  <1>2. strayFollowUp' \in BOOLEAN /\ (~strayFollowUp' => ~strayFollowUp) /\ (Clean' => Clean)
    BY <1>1 DEF ExchangeInv, TypeOK, Clean
  <1>3. SyncTimes' /\ SendingTimes' /\ ResponseTimes'
    BY <1>1 DEF netVars, ExchangeInv, SyncTimes, SendingTimes, ResponseTimes, Of
  <1>4. CASE ~m_pLocal
    <2>1. UNCHANGED clockVars
      BY <1>4 DEF FollowUp
    <2>2. TypeOK'
      BY <1>1, <1>2, <2>1, ClockFrame DEF netVars, ExchangeInv, TypeOK
    <2>3. AwaitedTimes' /\ T1Times' /\ RequestTimes'
      BY <1>1, <1>2, <2>1 DEF netVars, clockVars, ExchangeInv, AwaitedTimes, T1Times,
                              RequestTimes, Of
    <2>. QED BY <1>1, <1>2, <1>3, <2>1, <2>2, <2>3, ClockFrame DEF ExchangeInv
  <1>5. CASE m_pLocal
    <2>1. /\ m_nt1s' = m.origin /\ m_bT1Valid' = (m.seq = m_nFollowUpSequence)
          /\ UNCHANGED <<m_nt1r, m_nFollowUpSequence, m_mDelayRequest, measured>>
          /\ m.origin \in Int
      BY <1>5 DEF FollowUp, FollowUpTo, ExchangeInv, TypeOK, Message
    <2>2. StatsInv' /\ TypeOK'
      <3>1. StatsInv'
        BY <2>1 DEF measured, ExchangeInv, StatsInv, StatsTypeOK, WindowsInStep,
                    SyncedNeedsSamples, IsSynced, RunningTotal
      <3>2. m_bT1Valid' \in BOOLEAN
        BY <2>1
      <3>3. ClockTypeOK'
        BY <2>1, <3>1, <3>2 DEF measured, ExchangeInv, TypeOK, ClockTypeOK, StatsInv
      <3>. QED BY <1>1, <1>2, <3>1, <3>3 DEF netVars, ExchangeInv, TypeOK
    <2>3. AwaitedTimes' /\ RequestTimes'
      BY <1>1, <2>1 DEF netVars, ExchangeInv, AwaitedTimes, RequestTimes, Of
    <2>4. T1Times'
      <3>. SUFFICES ASSUME m_bT1Valid', ~strayFollowUp'
                    PROVE  m_nt1r - m.origin + Offset \in PathDelays
        BY <2>1 DEF T1Times
      <3>1. gotSync /\ m.seq = m_nFollowUpSequence
        BY <1>1, <1>5, <2>1
      <3>. QED BY <1>1, <3>1 DEF ExchangeInv, AwaitedTimes
    <2>5. SampleAccuracy' /\ WindowAccuracy' /\ PtpTimeLag'
      BY <1>1, <1>2, <2>1 DEF measured, ExchangeInv, SampleAccuracy, WindowAccuracy,
                              PtpTimeLag, GetPtpTime
    <2>. QED BY <1>3, <2>2, <2>3, <2>4, <2>5 DEF ExchangeInv
  <1>. QED BY <1>4, <1>5

(* A response takes the request it answers off the record, and the sample  *)
(* it makes is made of times that belong together.                         *)
LEMMA DelayResponseInv ==
  ASSUME ExchangeInv, NEW m \in net, DelayResponse(m)
  PROVE  ExchangeInv'
  <1>1. /\ m \in Of("DelayResp") /\ m.type = "DelayResp" /\ m_pSyncMaster' = TRUE
        /\ m.seq \in SeqIds /\ m.origin \in Int /\ m.at \in Int /\ m.at # 0
        /\ UNCHANGED <<netVars, m_pLocal, gotSync, requests, staleRequest, strayFollowUp>>
    BY DEF DelayResponse, Of, ExchangeInv, TypeOK, Message, ResponseTimes
  <1>2. SyncTimes' /\ SendingTimes' /\ ResponseTimes'
    BY <1>1 DEF netVars, ExchangeInv, SyncTimes, SendingTimes, ResponseTimes, Of
  <1>3. CASE ~m_pLocal
    <2>1. UNCHANGED clockVars /\ sample' = sample
      BY <1>3 DEF DelayResponse
    <2>2. TypeOK'
      BY <1>1, <2>1, ClockFrame DEF netVars, ExchangeInv, TypeOK
    <2>3. AwaitedTimes' /\ T1Times' /\ RequestTimes'
      BY <1>1, <2>1 DEF netVars, clockVars, ExchangeInv, AwaitedTimes, T1Times, RequestTimes, Of
    <2>. QED BY <1>1, <1>2, <2>1, <2>2, <2>3, ClockFrame DEF ExchangeInv, Clean
  <1>4. CASE m_pLocal
    <2>1. DelayResponseTo(m.seq, m.origin, m.at)
      BY <1>4 DEF DelayResponse
    <2>2. UNCHANGED <<m_nt1s, m_nt1r, m_nFollowUpSequence, m_bT1Valid>>
      BY <2>1 DEF DelayResponseTo
    <2>3. AwaitedTimes' /\ T1Times'
      BY <1>1, <2>2 DEF netVars, ExchangeInv, AwaitedTimes, T1Times, Of
    <2>4. /\ DOMAIN m_mDelayRequest' \subseteq DOMAIN m_mDelayRequest
          /\ m_mDelayRequest' \in [DOMAIN m_mDelayRequest' -> Int]
          /\ \A s \in DOMAIN m_mDelayRequest' : m_mDelayRequest'[s] = m_mDelayRequest[s]
      <3>1. m_mDelayRequest \in [DOMAIN m_mDelayRequest -> Int]
        BY DEF ExchangeInv, TypeOK, ClockTypeOK
      <3>2. CASE m.seq \in DOMAIN m_mDelayRequest
        <4>1. m_mDelayRequest' = [s \in DOMAIN m_mDelayRequest \ {m.seq} |-> m_mDelayRequest[s]]
          BY <2>1, <3>2 DEF DelayResponseTo, Restrict
        <4>. QED BY <3>1, <4>1
      <3>3. CASE m.seq \notin DOMAIN m_mDelayRequest
        BY <2>1, <3>1, <3>3 DEF DelayResponseTo
      <3>. QED BY <3>2, <3>3
    <2>5. RequestTimes'
      BY <1>1, <2>4 DEF netVars, ExchangeInv, RequestTimes, Of
    <2>6. ASSUME StatsInv', m_calculatedAt' \in Int, m_calculatedPtp' \in Int,
                 m_calculatedFirst' \in Int, sample' \in [made : BOOLEAN, offset : Int, delay : Int]
          PROVE  TypeOK'
      <3>1. DOMAIN m_mDelayRequest' \subseteq SeqIds
        BY <2>4 DEF ExchangeInv, TypeOK, ClockTypeOK
      <3>2. ClockTypeOK'
        BY <2>2, <2>4, <2>6, <3>1 DEF ExchangeInv, TypeOK, ClockTypeOK, StatsInv
      <3>. QED BY <1>1, <2>6, <3>2 DEF netVars, ExchangeInv, TypeOK
    <2>7. CASE m.seq \in DOMAIN m_mDelayRequest /\ m_bT1Valid
      <3>. DEFINE o == OffsetOf(m.seq, m.origin)
                  d == DelayOf(m.seq, m.origin)
      <3>1. o \in Int /\ d \in Int /\ (Clean => GoodOffset(o) /\ GoodDelay(d))
        BY <1>1, <2>7, SampleOfResponse
      <3>2. /\ sample' = [made |-> TRUE, offset |-> o, delay |-> d]
            /\ Calculate(m.seq, m.origin, m.at)
        BY <1>1, <1>4, <2>1, <2>7 DEF DelayResponse, DelayResponseTo
      <3>3. /\ m_calculatedAt' = m.at /\ m_calculatedPtp' = d + m.origin
            /\ m_calculatedFirst' = IF m_calculatedFirst = 0 THEN m.at ELSE m_calculatedFirst
            /\ AddSample(o, d)
        BY <1>1, <3>2 DEF Calculate
      <3>. HIDE DEF o, d
      <3>4. StatsInv'
        BY <3>1, <3>3, AddSampleInv DEF ExchangeInv
      <3>5. TypeOK'
        <4>1. m_calculatedFirst' \in Int /\ m_calculatedPtp' \in Int
          BY <1>1, <3>1, <3>3 DEF ExchangeInv, TypeOK, ClockTypeOK
        <4>2. sample' \in [made : BOOLEAN, offset : Int, delay : Int]
          BY <3>1, <3>2
        <4>. QED BY <1>1, <2>6, <3>3, <3>4, <4>1, <4>2
      <3>6. SampleAccuracy'
        BY <1>1, <3>1, <3>2 DEF SampleAccuracy, Clean
      <3>7. WindowAccuracy'
        <4>. SUFFICES ASSUME Clean
                      PROVE  /\ \A i \in DOMAIN m_offset'.lstValues : GoodOffset(m_offset'.lstValues[i])
                             /\ \A i \in DOMAIN m_delay'.lstValues : GoodDelay(m_delay'.lstValues[i])
          BY <1>1 DEF WindowAccuracy, Clean
        <4>1. m_delay \in Windows /\ Len(m_delay.lstValues) <= HistorySize
          BY DEF ExchangeInv, StatsInv, StatsTypeOK
        <4>2. m_delay' = DoStats(m_delay, d)
          BY <3>3 DEF AddSample
        <4>3. \A i \in DOMAIN m_delay'.lstValues :
                \/ m_delay'.lstValues[i] = d
                \/ \E j \in DOMAIN m_delay.lstValues : m_delay'.lstValues[i] = m_delay.lstValues[j]
          BY <3>1, <4>1, <4>2, DoStatsWindow
        <4>4. \A i \in DOMAIN m_delay'.lstValues : GoodDelay(m_delay'.lstValues[i])
          BY <3>1, <4>3 DEF ExchangeInv, WindowAccuracy
        <4>5. \A i \in DOMAIN m_offset.lstValues : GoodOffset(m_offset.lstValues[i])
          BY DEF ExchangeInv, WindowAccuracy
        <4>6. ASSUME NEW k \in DOMAIN m_offset'.lstValues
              PROVE  GoodOffset(m_offset'.lstValues[k])
          <5>1. \/ m_offset'.lstValues[k] = o
                \/ \E i, j \in DOMAIN m_offset.lstValues :
                     /\ m_offset.lstValues[i] <= m_offset'.lstValues[k]
                     /\ m_offset'.lstValues[k] <= m_offset.lstValues[j]
            BY <3>1, <3>3, SampleBetween DEF ExchangeInv
          <5>2. m_offset.lstValues \in Seq(Int) /\ m_offset'.lstValues \in Seq(Int)
            BY <3>4 DEF ExchangeInv, StatsInv, StatsTypeOK, Windows
          <5>3. m_offset'.lstValues[k] \in Int
            BY <5>2, ElementOfSeq
          <5>4. \A i \in DOMAIN m_offset.lstValues : m_offset.lstValues[i] \in Int
            BY <5>2, ElementOfSeq
          <5>. QED BY <3>1, <4>5, <5>1, <5>3, <5>4, GoodBetween
        <4>. QED BY <4>4, <4>6
      <3>8. PtpTimeLag'
        <4>. SUFFICES ASSUME Clean
                      PROVE  2 * (m_calculatedAt' + Offset - GetPtpTime(m_calculatedAt)')
                               \in -2 * Jitter .. 2 * (MaxTurnaround + Jitter) + MaxTxError + 1
          BY <1>1 DEF PtpTimeLag, Clean
        <4>1. /\ Offset \in Int /\ MinDelay \in Nat /\ MaxDelay \in Nat
              /\ MaxTurnaround \in Nat /\ MaxTxError \in Nat
          BY ExchangeAssumption
        <4>2. m.at - m.origin + Offset \in MinDelay .. MaxTurnaround + MaxDelay
          BY <1>1 DEF ExchangeInv, ResponseTimes
        <4>3. 2 * d \in 2 * MinDelay - MaxTxError - 1 .. 2 * MaxDelay
          BY <3>1 DEF GoodDelay
        <4>4. GetPtpTime(m_calculatedAt)' = d + m.origin
          BY <1>1, <3>1, <3>3 DEF GetPtpTime
        <4>5. 2 * (m.at + Offset - (d + m.origin)) = 2 * (m.at - m.origin + Offset) - 2 * d
          BY <1>1, <3>1, <4>1
        <4>6. 2 * (m.at + Offset - (d + m.origin))
                \in -2 * Jitter .. 2 * (MaxTurnaround + Jitter) + MaxTxError + 1
          BY <1>1, <3>1, <4>1, <4>2, <4>3, <4>5 DEF Jitter
        <4>. QED BY <3>3, <4>4, <4>6
      <3>. QED BY <1>2, <2>3, <2>5, <3>4, <3>5, <3>6, <3>7, <3>8 DEF ExchangeInv
    <2>8. CASE ~(m.seq \in DOMAIN m_mDelayRequest /\ m_bT1Valid)
      <3>1. UNCHANGED measured /\ sample' = sample
        BY <2>1, <2>8 DEF DelayResponseTo, DelayResponse
      <3>2. StatsInv'
        BY <3>1 DEF measured, ExchangeInv, StatsInv, StatsTypeOK, WindowsInStep,
                    SyncedNeedsSamples, IsSynced, RunningTotal
      <3>3. TypeOK'
        BY <2>6, <3>1, <3>2 DEF measured, ExchangeInv, TypeOK, ClockTypeOK
      <3>4. SampleAccuracy' /\ WindowAccuracy' /\ PtpTimeLag'
        BY <1>1, <3>1 DEF measured, ExchangeInv, SampleAccuracy, WindowAccuracy, PtpTimeLag,
                          Clean, GetPtpTime
      <3>. QED BY <1>2, <2>3, <2>5, <3>2, <3>3, <3>4 DEF ExchangeInv
    <2>. QED BY <2>7, <2>8
  <1>. QED BY <1>3, <1>4

(* The two resets change nothing but the windows, and bring in no value.   *)
LEMMA ResetInv ==
  ASSUME ExchangeInv, ResyncLocal \/ ResetLocal
  PROVE  ExchangeInv'
  <1>1. /\ UNCHANGED <<m_nt1s, m_nt1r, m_nFollowUpSequence, m_bT1Valid, m_mDelayRequest,
                       m_calculatedAt, m_calculatedPtp, m_calculatedFirst>>
        /\ UNCHANGED <<netVars, m_pSyncMaster, m_pLocal, history>>
        /\ ResyncToMaster \/ ClearStats
    BY DEF ResyncLocal, ResetLocal, Resync, ResetStats
  <1>2. StatsInv'
    BY <1>1, ResyncInv, ClearStatsInv DEF ExchangeInv
  <1>3. TypeOK'
    BY <1>1, <1>2 DEF netVars, history, ExchangeInv, TypeOK, ClockTypeOK, StatsInv
  <1>4. SyncTimes' /\ AwaitedTimes' /\ T1Times' /\ RequestTimes' /\ SendingTimes' /\ ResponseTimes'
    BY <1>1 DEF netVars, history, ExchangeInv, SyncTimes, AwaitedTimes, T1Times, RequestTimes,
                SendingTimes, ResponseTimes, Of
  <1>5. SampleAccuracy' /\ PtpTimeLag'
    BY <1>1 DEF history, ExchangeInv, SampleAccuracy, PtpTimeLag, Clean, GetPtpTime
  <1>6. WindowAccuracy'
    <2>1. m_offset \in Windows /\ m_delay \in Windows
      BY DEF ExchangeInv, StatsInv, StatsTypeOK
    <2>2. /\ m_offset'.lstValues = m_offset.lstValues \/ m_offset'.lstValues = <<>>
          /\ m_delay'.lstValues = m_delay.lstValues \/ m_delay'.lstValues = <<>>
      BY <1>1, <2>1 DEF ResyncToMaster, ClearStats, EmptyWindow, Windows
    <2>. QED BY <1>1, <2>2 DEF history, ExchangeInv, WindowAccuracy, Clean
  <1>. QED BY <1>2, <1>3, <1>4, <1>5, <1>6 DEF ExchangeInv
-----------------------------------------------------------------------------
(* ExchangeInv is inductive: the conjunction of what follows with what says *)
(* which times belong together.                                             *)
THEOREM ExchangeInvariant == Spec => []ExchangeInv
  <1>1. Init => ExchangeInv
    BY InitInv
  <1>2. ExchangeInv /\ [Next]_vars => ExchangeInv'
    <2>. SUFFICES ASSUME ExchangeInv, [Next]_vars
                  PROVE  ExchangeInv'
      OBVIOUS
    <2>1. ASSUME NEW gap \in Gaps, NEW delay \in PathDelays, MasterSync(gap, delay)
          PROVE  ExchangeInv'
      BY <2>1, MasterSyncInv
    <2>2. ASSUME NEW gap \in Gaps, NEW there \in PathDelays, NEW back \in PathDelays,
                 NEW txError \in 0 .. MaxTxError, NEW turnaround \in 0 .. MaxTurnaround,
                 SendDelayRequest(gap, there, txError, turnaround, back)
          PROVE  ExchangeInv'
      BY <2>2, SendDelayRequestInv
    <2>3. ASSUME NEW gap \in Gaps, SendFails(gap)
          PROVE  ExchangeInv'
      BY <2>3, SendFailsInv
    <2>4. CASE DelayRequestSent
      BY <2>4, DelayRequestSentInv
    <2>5. ASSUME NEW m \in net, Sync(m)
          PROVE  ExchangeInv'
      BY <2>5, SyncInv
    <2>6. ASSUME NEW m \in net, FollowUp(m)
          PROVE  ExchangeInv'
      BY <2>6, FollowUpInv
    <2>7. ASSUME NEW m \in net, DelayResponse(m)
          PROVE  ExchangeInv'
      BY <2>7, DelayResponseInv
    <2>8. CASE ResyncLocal \/ ResetLocal
      BY <2>8, ResetInv
    <2>9. CASE UNCHANGED vars
      <3>1. UNCHANGED <<clockVars, netVars, m_pSyncMaster, m_pLocal, history>>
        BY <2>9 DEF vars
      <3>2. TypeOK'
        BY <3>1, ClockFrame DEF netVars, history, ExchangeInv, TypeOK
      <3>3. SyncTimes' /\ AwaitedTimes' /\ T1Times' /\ RequestTimes' /\ SendingTimes'
              /\ ResponseTimes'
        BY <3>1 DEF clockVars, netVars, history, ExchangeInv, SyncTimes, AwaitedTimes, T1Times,
                    RequestTimes, SendingTimes, ResponseTimes, Of
      <3>. QED BY <3>1, <3>2, <3>3, ClockFrame DEF ExchangeInv, history, Clean
    <2>. QED BY <2>1, <2>2, <2>3, <2>4, <2>5, <2>6, <2>7, <2>8, <2>9 DEF Next
  <1>. QED BY <1>1, <1>2, PTL DEF Spec

(* Every variable of the measurement loop keeps its type. *)
THEOREM TypeCorrect == Spec => []TypeOK
  BY ExchangeInvariant, PTL DEF ExchangeInv

(* However messages are lost, repeated and reordered, a computed offset is *)
(* off by no more than half of the path asymmetry and transmit error, and  *)
(* a computed delay is a path delay.                                       *)
THEOREM SamplesAreAccurate == Spec => []SampleAccuracy
  BY ExchangeInvariant, PTL DEF ExchangeInv

(* Nothing but path delays enters the window the delay gate judges by, and *)
(* the means it puts in the place of offsets are as good as those.         *)
THEOREM WindowsAreAccurate == Spec => []WindowAccuracy
  BY ExchangeInvariant, PTL DEF ExchangeInv

(* GetPtpTime trails the master by its turnaround, give or take jitter.    *)
THEOREM PtpTimeIsAccurate == Spec => []PtpTimeLag
  BY ExchangeInvariant, PTL DEF ExchangeInv

(* The statistics invariant holds of the windows the protocol feeds.       *)
THEOREM ExchangeKeepsStats == Spec => []StatsInv
  BY ExchangeInvariant, PTL DEF ExchangeInv
-----------------------------------------------------------------------------
(* How sequence ids are spent: no request is measured twice, and none is   *)
(* found registered before the ids have wrapped around.                    *)

(* Before the ids wrap around the next one counts the requests, and every  *)
(* id on record is of a request sent before.                               *)
IdsUsed ==
  requests < SeqSpace =>
    /\ m_mSequence = requests
    /\ \A seq \in DOMAIN m_mDelayRequest : seq < requests
    /\ \A i \in DOMAIN sending : sending[i].seq < requests

IdsInv == IdsUsed /\ StaleNeedsWrap /\ OneSamplePerRequest

(* What is registered is finite, and counts as a number.                   *)
LEMMA RegisteredIsFinite ==
  ASSUME TypeOK
  PROVE  /\ IsFiniteSet(DOMAIN m_mDelayRequest)
         /\ Cardinality(DOMAIN m_mDelayRequest) \in Nat
  <1>1. IsFiniteSet(SeqIds)
    <2>1. SeqSpace - 1 \in Int
      BY ClockAssumption
    <2>. QED BY <2>1, FS_Interval DEF SeqIds
  <1>2. DOMAIN m_mDelayRequest \in SUBSET SeqIds
    BY DEF TypeOK, ClockTypeOK
  <1>3. IsFiniteSet(DOMAIN m_mDelayRequest)
    BY <1>1, <1>2, FS_Subset
  <1>. QED BY <1>3, FS_CardinalityType

(* The next id of a counter that has not wrapped around.                   *)
LEMMA NextIdCounts ==
  ASSUME NEW n \in Nat, n + 1 < SeqSpace
  PROVE  Next16(n) = n + 1
  BY ClockAssumption DEF Next16

(* The windows grow by one value at most.                                  *)
LEMMA SamplesGrow ==
  ASSUME StatsInv, NEW o \in Int, NEW d \in Int, AddSample(o, d)
  PROVE  /\ Len(m_delay.lstValues) \in Nat /\ Len(m_delay'.lstValues) \in Nat
         /\ Len(m_delay'.lstValues) <= Len(m_delay.lstValues) + 1
  <1>1. m_delay \in Windows /\ Len(m_delay.lstValues) <= HistorySize
    BY DEF StatsInv, StatsTypeOK
  <1>2. m_delay' = DoStats(m_delay, d)
    BY DEF AddSample
  <1>3. /\ m_delay' \in Windows
        /\ Len(m_delay'.lstValues) = IF Len(m_delay.lstValues) = HistorySize
                                     THEN HistorySize ELSE Len(m_delay.lstValues) + 1
    BY <1>1, <1>2, DoStatsWindow
  <1>4. Len(m_delay.lstValues) \in Nat /\ Len(m_delay'.lstValues) \in Nat
    BY <1>1, <1>3 DEF Windows
  <1>. QED BY <1>3, <1>4

(* What counts the samples, the registered requests and the sends.         *)
LEMMA Counts ==
  ASSUME ExchangeInv
  PROVE  /\ Len(m_delay.lstValues) \in Nat
         /\ Cardinality(DOMAIN m_mDelayRequest) \in Nat
         /\ sending \in Seq([seq : SeqIds, at : Int]) /\ Len(sending) \in Nat
         /\ requests \in Nat /\ m_mSequence \in SeqIds /\ SeqSpace \in Nat \ {0}
  <1>1. m_delay \in Windows
    BY DEF ExchangeInv, StatsInv, StatsTypeOK
  <1>2. Len(m_delay.lstValues) \in Nat
    BY <1>1 DEF Windows
  <1>. QED BY <1>2, RegisteredIsFinite, ClockAssumption DEF ExchangeInv, TypeOK
-----------------------------------------------------------------------------
(* Nothing is sent, registered or measured at first.                       *)
LEMMA IdsStart == Init => IdsInv
  <1>. SUFFICES ASSUME Init PROVE IdsInv
    OBVIOUS
  <1>1. DOMAIN m_mDelayRequest = {}
    BY DEF Init, ClockInit
  <1>2. IdsUsed /\ StaleNeedsWrap
    BY <1>1 DEF Init, IdsUsed, StaleNeedsWrap
  <1>3. Cardinality(DOMAIN m_mDelayRequest) = 0
    BY <1>1, FS_EmptySet
  <1>4. m_delay.lstValues = <<>> /\ sending = <<>> /\ requests = 0
    BY DEF Init, ClockInit, StatsInit, EmptyWindow
  <1>5. OneSamplePerRequest
    BY <1>3, <1>4 DEF OneSamplePerRequest
  <1>. QED BY <1>2, <1>5 DEF IdsInv

(* A request takes the next id, whether it is sent or fails.               *)
LEMMA SendIds ==
  ASSUME ExchangeInv, IdsInv,
         m_mSequence' = Next16(m_mSequence), requests' = requests + 1,
         UNCHANGED <<m_mDelayRequest, m_delay>>,
         \/ /\ sending' = sending
            /\ staleRequest' = staleRequest
         \/ /\ \E at \in Int : sending' = Append(sending, [seq |-> m_mSequence, at |-> at])
            /\ staleRequest' = (staleRequest \/ m_mSequence \in DOMAIN m_mDelayRequest)
  PROVE  IdsInv'
  <1>1. /\ requests \in Nat /\ SeqSpace \in Nat /\ m_mSequence \in SeqIds
        /\ sending \in Seq([seq : SeqIds, at : Int]) /\ Len(sending) \in Nat
        /\ Len(m_delay.lstValues) \in Nat /\ Cardinality(DOMAIN m_mDelayRequest) \in Nat
    BY Counts
  <1>2. staleRequest' => staleRequest \/ m_mSequence \in DOMAIN m_mDelayRequest
    OBVIOUS
  <1>3. \/ sending' = sending
        \/ \E at \in Int : sending' = Append(sending, [seq |-> m_mSequence, at |-> at])
    OBVIOUS
  <1>4. DOMAIN sending = 1 .. Len(sending)
    BY <1>1
  <1>5. StaleNeedsWrap'
    <2>1. CASE staleRequest
      <3>1. requests > SeqSpace
        BY <2>1 DEF IdsInv, StaleNeedsWrap
      <3>. QED BY <1>1, <3>1 DEF StaleNeedsWrap
    <2>2. CASE m_mSequence \in DOMAIN m_mDelayRequest
      <3>1. ~(requests < SeqSpace)
        BY <1>1, <2>2 DEF IdsInv, IdsUsed
      <3>. QED BY <1>1, <3>1 DEF StaleNeedsWrap
    <2>3. CASE ~staleRequest'
      BY <2>3 DEF StaleNeedsWrap
    <2>. QED BY <1>2, <2>1, <2>2, <2>3
  <1>6. IdsUsed'
    <2>1. SUFFICES ASSUME requests + 1 < SeqSpace
                   PROVE  /\ m_mSequence' = requests + 1
                          /\ \A seq \in DOMAIN m_mDelayRequest : seq < requests + 1
                          /\ \A i \in DOMAIN sending' : sending'[i].seq < requests + 1
      BY DEF IdsUsed
    <2>2. /\ m_mSequence = requests
          /\ \A seq \in DOMAIN m_mDelayRequest : seq < requests
          /\ \A i \in DOMAIN sending : sending[i].seq < requests
      BY <1>1, <2>1 DEF IdsInv, IdsUsed
    <2>3. m_mSequence' = requests + 1
      BY <1>1, <2>1, <2>2, NextIdCounts
    <2>4. ASSUME NEW seq \in DOMAIN m_mDelayRequest PROVE seq < requests + 1
      <3>1. seq \in Nat
        BY ClockAssumption DEF ExchangeInv, TypeOK, ClockTypeOK, SeqIds
      <3>. QED BY <1>1, <2>2, <3>1
    <2>5. ASSUME NEW i \in DOMAIN sending PROVE sending[i].seq < requests + 1
      <3>1. sending[i] \in [seq : SeqIds, at : Int]
        BY <1>1, <1>4, ElementOfSeq
      <3>2. sending[i].seq \in Nat
        BY <3>1, ClockAssumption DEF SeqIds
      <3>. QED BY <1>1, <2>2, <3>2
    <2>6. CASE sending' = sending
      BY <2>3, <2>4, <2>5, <2>6
    <2>7. ASSUME NEW at \in Int, sending' = Append(sending, [seq |-> m_mSequence, at |-> at])
          PROVE  \A i \in DOMAIN sending' : sending'[i].seq < requests + 1
      <3>. DEFINE send == [seq |-> m_mSequence, at |-> at]
      <3>1. send \in [seq : SeqIds, at : Int] /\ send.seq < requests + 1
        BY <1>1, <2>2
      <3>. HIDE DEF send
      <3>2. /\ DOMAIN sending' = 1 .. Len(sending) + 1
            /\ \A i \in 1 .. Len(sending) : sending'[i] = sending[i]
            /\ sending'[Len(sending) + 1] = send
        BY <1>1, <2>7, <3>1, AppendProperties DEF send
      <3>. QED BY <1>1, <1>4, <2>5, <3>1, <3>2
    <2>. QED BY <1>3, <2>3, <2>4, <2>6, <2>7
  <1>7. OneSamplePerRequest'
    <2>1. Len(sending') \in Nat /\ Len(sending') <= Len(sending) + 1
      <3>1. CASE sending' = sending
        BY <3>1
      <3>2. ASSUME NEW at \in Int, sending' = Append(sending, [seq |-> m_mSequence, at |-> at])
            PROVE  Len(sending') = Len(sending) + 1
        <4>1. [seq |-> m_mSequence, at |-> at] \in [seq : SeqIds, at : Int]
          BY <1>1
        <4>. QED BY <1>1, <3>2, <4>1, AppendProperties
      <3>3. Len(sending') = Len(sending) \/ Len(sending') = Len(sending) + 1
        BY <1>3, <3>1, <3>2
      <3>. QED BY <1>1, <3>3
    <2>. QED BY <1>1, <2>1 DEF IdsInv, OneSamplePerRequest
  <1>. QED BY <1>5, <1>6, <1>7 DEF IdsInv

(* A send that completes moves its id from the sends to the record.        *)
LEMMA CompleteIds ==
  ASSUME ExchangeInv, IdsInv, DelayRequestSent
  PROVE  IdsInv'
  <1>1. /\ requests \in Nat /\ SeqSpace \in Nat
        /\ sending \in Seq([seq : SeqIds, at : Int]) /\ Len(sending) \in Nat
        /\ Len(m_delay.lstValues) \in Nat /\ Cardinality(DOMAIN m_mDelayRequest) \in Nat
    BY Counts
  <1>2. /\ sending # <<>> /\ sending' = Tail(sending)
        /\ DOMAIN m_mDelayRequest' = DOMAIN m_mDelayRequest \cup {Head(sending).seq}
        /\ UNCHANGED <<m_mSequence, m_delay, requests, staleRequest>>
    BY DEF DelayRequestSent, DelayRequest, measured, history
  <1>3. /\ Head(sending) = sending[1] /\ 1 \in DOMAIN sending
        /\ DOMAIN sending' = 1 .. Len(sending) - 1 /\ Len(sending') = Len(sending) - 1
        /\ \A i \in 1 .. Len(sending) - 1 : sending'[i] = sending[i + 1]
        /\ \A i \in 1 .. Len(sending) - 1 : i + 1 \in DOMAIN sending
    BY <1>1, <1>2, HeadTailProperties
  <1>4. IdsUsed'
    BY <1>1, <1>2, <1>3 DEF IdsInv, IdsUsed
  <1>5. Cardinality(DOMAIN m_mDelayRequest') <= Cardinality(DOMAIN m_mDelayRequest) + 1
        /\ Cardinality(DOMAIN m_mDelayRequest') \in Nat
    <2>1. IsFiniteSet(DOMAIN m_mDelayRequest)
      BY RegisteredIsFinite DEF ExchangeInv
    <2>2. Cardinality(DOMAIN m_mDelayRequest \cup {Head(sending).seq})
            = IF Head(sending).seq \in DOMAIN m_mDelayRequest
              THEN Cardinality(DOMAIN m_mDelayRequest)
              ELSE Cardinality(DOMAIN m_mDelayRequest) + 1
      BY <2>1, FS_AddElement
    <2>. QED BY <1>1, <1>2, <2>2
  <1>6. StaleNeedsWrap' /\ OneSamplePerRequest'
    BY <1>1, <1>2, <1>3, <1>5 DEF IdsInv, StaleNeedsWrap, OneSamplePerRequest
  <1>. QED BY <1>4, <1>6 DEF IdsInv

(* A response takes its id off the record, for one sample at most.         *)
LEMMA ResponseIds ==
  ASSUME ExchangeInv, IdsInv, NEW m \in net, DelayResponse(m)
  PROVE  IdsInv'
  <1>1. /\ requests \in Nat
        /\ Len(sending) \in Nat
        /\ Len(m_delay.lstValues) \in Nat /\ Cardinality(DOMAIN m_mDelayRequest) \in Nat
    BY Counts
  <1>2. /\ m.type = "DelayResp" /\ UNCHANGED <<m_mSequence, sending, requests, staleRequest>>
    BY DEF DelayResponse, Of, netVars
  <1>3. CASE UNCHANGED <<m_mDelayRequest, m_delay>>
    BY <1>2, <1>3 DEF IdsInv, IdsUsed, StaleNeedsWrap, OneSamplePerRequest
  <1>4. CASE m_pLocal /\ m.seq \in DOMAIN m_mDelayRequest
    <2>1. /\ m_mDelayRequest' = Restrict(m_mDelayRequest, DOMAIN m_mDelayRequest \ {m.seq})
          /\ IF m_bT1Valid THEN Calculate(m.seq, m.origin, m.at) ELSE UNCHANGED measured
      BY <1>4 DEF DelayResponse, DelayResponseTo
    <2>2. DOMAIN m_mDelayRequest' = DOMAIN m_mDelayRequest \ {m.seq}
      BY <2>1 DEF Restrict
    <2>3. Cardinality(DOMAIN m_mDelayRequest') = Cardinality(DOMAIN m_mDelayRequest) - 1
      <3>1. IsFiniteSet(DOMAIN m_mDelayRequest)
        BY RegisteredIsFinite DEF ExchangeInv
      <3>. QED BY <1>4, <2>2, <3>1, FS_RemoveElement
    <2>4. /\ Len(m_delay'.lstValues) \in Nat
          /\ Len(m_delay'.lstValues) <= Len(m_delay.lstValues) + 1
      <3>1. CASE UNCHANGED m_delay
        BY <1>1, <3>1
      <3>2. CASE m_bT1Valid /\ m.at # 0
        <4>1. AddSample(OffsetOf(m.seq, m.origin), DelayOf(m.seq, m.origin))
          BY <2>1, <3>2 DEF Calculate
        <4>2. OffsetOf(m.seq, m.origin) \in Int /\ DelayOf(m.seq, m.origin) \in Int
          BY <1>2, <1>4, <3>2, SampleOfResponse
        <4>. QED BY <4>1, <4>2, SamplesGrow DEF ExchangeInv
      <3>. QED BY <2>1, <3>1, <3>2 DEF Calculate, measured
    <2>5. IdsUsed' /\ StaleNeedsWrap'
      BY <1>2, <2>2 DEF IdsInv, IdsUsed, StaleNeedsWrap
    <2>6. OneSamplePerRequest'
      BY <1>1, <1>2, <2>3, <2>4 DEF IdsInv, OneSamplePerRequest
    <2>. QED BY <2>5, <2>6 DEF IdsInv
  <1>. QED BY <1>3, <1>4 DEF DelayResponse, DelayResponseTo, measured, clockVars

(* No other step sends, registers or measures anything.                    *)
LEMMA OtherIds ==
  ASSUME ExchangeInv, IdsInv, UNCHANGED <<m_mSequence, sending, requests, staleRequest>>,
         UNCHANGED m_mDelayRequest,
         m_delay'.lstValues \in {m_delay.lstValues, <<>>}
  PROVE  IdsInv'
  <1>1. Len(m_delay'.lstValues) \in Nat /\ Len(m_delay'.lstValues) <= Len(m_delay.lstValues)
    BY Counts
  <1>2. OneSamplePerRequest'
    BY <1>1, Counts DEF IdsInv, OneSamplePerRequest
  <1>. QED BY <1>2 DEF IdsInv, IdsUsed, StaleNeedsWrap

(* Every step keeps IdsInv.                                                *)
LEMMA IdsSteps ==
  ASSUME ExchangeInv, IdsInv, [Next]_vars
  PROVE  IdsInv'
  <1>1. ASSUME NEW gap \in Gaps, NEW delay \in PathDelays, MasterSync(gap, delay)
        PROVE  IdsInv'
    BY <1>1, OtherIds DEF MasterSync, clockVars, history
  <1>2. ASSUME NEW gap \in Gaps, NEW there \in PathDelays, NEW back \in PathDelays,
               NEW txError \in 0 .. MaxTxError, NEW turnaround \in 0 .. MaxTurnaround,
               SendDelayRequest(gap, there, txError, turnaround, back)
        PROVE  IdsInv'
    <2>1. now + gap + txError \in Int
      BY ExchangeAssumption DEF ExchangeInv, TypeOK
    <2>. QED BY <1>2, <2>1, SendIds DEF SendDelayRequest, clockVars
  <1>3. ASSUME NEW gap \in Gaps, SendFails(gap)
        PROVE  IdsInv'
    BY <1>3, SendIds DEF SendFails, clockVars
  <1>4. CASE DelayRequestSent
    BY <1>4, CompleteIds
  <1>5. ASSUME NEW m \in net, Sync(m)
        PROVE  IdsInv'
    BY <1>5, OtherIds DEF Sync, SyncTo, clockVars, measured, netVars
  <1>6. ASSUME NEW m \in net, FollowUp(m)
        PROVE  IdsInv'
    BY <1>6, OtherIds DEF FollowUp, FollowUpTo, clockVars, measured, netVars
  <1>7. ASSUME NEW m \in net, DelayResponse(m)
        PROVE  IdsInv'
    BY <1>7, ResponseIds
  <1>8. CASE ResyncLocal \/ ResetLocal
    <2>1. m_delay \in Windows
      BY DEF ExchangeInv, StatsInv, StatsTypeOK
    <2>2. m_delay'.lstValues \in {m_delay.lstValues, <<>>}
      BY <1>8, <2>1 DEF ResyncLocal, ResetLocal, Resync, ResetStats, ResyncToMaster, ClearStats,
                        EmptyWindow, Windows
    <2>. QED BY <1>8, <2>2, OtherIds
             DEF ResyncLocal, ResetLocal, Resync, ResetStats, netVars, history
  <1>9. CASE UNCHANGED vars
    BY <1>9, OtherIds DEF vars, clockVars, netVars, history
  <1>. QED BY <1>1, <1>2, <1>3, <1>4, <1>5, <1>6, <1>7, <1>8, <1>9 DEF Next

(* With what the exchange keeps, IdsInv is inductive.                      *)
THEOREM IdsInvariant == Spec => []IdsInv
  <1>1. Init => IdsInv
    BY IdsStart
  <1>2. ExchangeInv /\ IdsInv /\ [Next]_vars => IdsInv'
    BY IdsSteps
  <1>. QED BY <1>1, <1>2, ExchangeInvariant, PTL DEF Spec

(* A request is measured once at most, however often its response comes.   *)
THEOREM SamplesAreRequested == Spec => []OneSamplePerRequest
  BY IdsInvariant, PTL DEF IdsInv

(* An id is found registered only after the ids have wrapped around.       *)
THEOREM StaleIdsNeedWrap == Spec => []StaleNeedsWrap
  BY IdsInvariant, PTL DEF IdsInv

(* The measurement loop feeds the windows of its clock as the specification *)
(* of the statistics allows, for offsets and delays of any size.           *)
THEOREM ExchangeImplementsStats ==
  ASSUME Offsets = Int, Delays = Int
  PROVE  Spec => StatsSpec
  <1>1. Init => StatsInit
    BY DEF Init, ClockInit
  <1>2. ExchangeInv /\ [Next]_vars => [StatsNext]_statsVars
    <2>. SUFFICES ASSUME ExchangeInv, [Next]_vars
                  PROVE  [StatsNext]_statsVars
      OBVIOUS
    <2>1. CASE UNCHANGED vars
      BY <2>1 DEF vars, clockVars, measured, statsVars
    <2>2. ASSUME NEW gap \in Gaps, NEW delay \in PathDelays, MasterSync(gap, delay)
          PROVE  [StatsNext]_statsVars
      BY <2>2 DEF MasterSync, clockVars, measured, statsVars
    <2>3. ASSUME NEW gap \in Gaps, NEW there \in PathDelays, NEW back \in PathDelays,
                 NEW txError \in 0 .. MaxTxError, NEW turnaround \in 0 .. MaxTurnaround,
                 SendDelayRequest(gap, there, txError, turnaround, back)
          PROVE  [StatsNext]_statsVars
      BY <2>3 DEF SendDelayRequest, clockVars, measured, statsVars
    <2>4. ASSUME NEW gap \in Gaps, SendFails(gap)
          PROVE  [StatsNext]_statsVars
      BY <2>4 DEF SendFails, clockVars, measured, statsVars
    <2>5. CASE DelayRequestSent
      BY <2>5 DEF DelayRequestSent, DelayRequest, measured, statsVars
    <2>6. ASSUME NEW m \in net, Sync(m) \/ FollowUp(m)
          PROVE  [StatsNext]_statsVars
      BY <2>6 DEF Sync, SyncTo, FollowUp, FollowUpTo, clockVars, measured, statsVars
    <2>7. ASSUME NEW m \in net, DelayResponse(m)
          PROVE  [StatsNext]_statsVars
      <3>1. CASE UNCHANGED statsVars
        BY <3>1
      <3>2. CASE /\ m.seq \in DOMAIN m_mDelayRequest /\ m_bT1Valid
                 /\ AddSample(OffsetOf(m.seq, m.origin), DelayOf(m.seq, m.origin))
        <4>1. m.type = "DelayResp"
          BY <2>7 DEF DelayResponse, Of
        <4>2. OffsetOf(m.seq, m.origin) \in Offsets /\ DelayOf(m.seq, m.origin) \in Delays
          BY <3>2, <4>1, SampleOfResponse
        <4>. QED BY <3>2, <4>2 DEF StatsNext
      <3>. QED BY <2>7, <3>1, <3>2
               DEF DelayResponse, DelayResponseTo, Calculate, clockVars, measured, statsVars
    <2>8. CASE ResyncLocal \/ ResetLocal
      BY <2>8 DEF ResyncLocal, ResetLocal, Resync, ResetStats, StatsNext
    <2>. QED BY <2>1, <2>2, <2>3, <2>4, <2>5, <2>6, <2>7, <2>8 DEF Next
  <1>. QED BY <1>1, <1>2, ExchangeInvariant, PTL DEF Spec, StatsSpec
=============================================================================
