----------------------------- MODULE PtpExchange -----------------------------
(***************************************************************************)
(* The measurement loop of one ptpmonkey and one master: the Sender issues *)
(* delay requests, the network carries Sync, Follow_Up and Delay_Resp in   *)
(* any order, any number of times or not at all, and the handlers of       *)
(* PtpMonkeyImplementation pass them to the PtpV2Clock of this machine.    *)
(*                                                                         *)
(* Instants are local times.  The master's clock reads Offset more, a      *)
(* message takes MinDelay to MaxDelay to arrive, a delay request is        *)
(* timestamped up to MaxTxError after it left (GetTxTimestamp falls back   *)
(* to the present time), and the master answers within MaxTurnaround.      *)
(* Three assumptions tie sequence ids to messages, as the 16 bits of the   *)
(* protocol do: no message survives in the network until its id is used    *)
(* again, of SeqSpace consecutive Syncs one at least arrives, and a send   *)
(* completes before its id is used for another.                            *)
(*                                                                         *)
(* The physical quantities are what makes the properties worth stating:    *)
(* they bound the error of what the code computes, not the code's steps.   *)
(***************************************************************************)
EXTENDS PtpV2Clock, FiniteSets

CONSTANTS
  Offset,               (* master time minus local time                    *)
  MinDelay, MaxDelay,   (* bounds of the one-way path delay                *)
  MaxTxError,           (* how late a transmit timestamp may be            *)
  MaxTurnaround,        (* how long the master takes to answer             *)
  Gaps,                 (* possible times between two messages sent        *)
  MaxTime               (* bound of the model: nothing is sent after it    *)

ASSUME ExchangeAssumption ==
  /\ Offset \in Int
  /\ MinDelay \in Nat /\ MaxDelay \in Nat /\ MinDelay <= MaxDelay
  /\ MaxTxError \in Nat
  /\ MaxTurnaround \in Nat
  /\ Gaps \subseteq Nat \ {0}
  /\ MaxTime \in Nat

VARIABLES
  now,              (* when the last message was sent                      *)
  twoStep,          (* whether the master is a two-step clock              *)
  syncSeq,          (* sequence id of the master's next Sync               *)
  m_mSequence,      (* sequence id of the next delay request               *)
  net,              (* the messages that may still arrive                  *)
  sending,          (* async sends not completed: their ids and times      *)
  m_pSyncMaster,    (* a master is known                                   *)
  m_pLocal,         (* the clock object of this machine exists             *)
  gotSync,          (* history: that object has been given a Sync          *)
  requests,         (* history: how many requests have been sent           *)
  staleRequest,     (* history: a request was sent under a registered id   *)
  strayFollowUp,    (* history: a Follow_Up matched uninitialised memory   *)
  sample            (* history: the last offset and delay computed         *)

netVars == <<now, twoStep, syncSeq, m_mSequence, net, sending>>
history == <<gotSync, requests, staleRequest, strayFollowUp, sample>>
vars == <<clockVars, netVars, m_pSyncMaster, m_pLocal, history>>

PathDelays == MinDelay .. MaxDelay

Message == [type : {"Sync", "FollowUp", "DelayResp"}, seq : SeqIds,
            origin : Int, at : Int]

Of(type) == {m \in net : m.type = type}

\* Faulty: the counter does not wrap.
Next16_NoWrap(seq) == seq + 1

\* Faulty: the counter has a bit less than the ids of the protocol.
Next16_Narrow(seq) == (seq + 1) % (SeqSpace \div 2)

\* Sequence counters are unsigned integers of 16 bits.
Next16(seq) == (seq + 1) % SeqSpace

\* The network when an id is used again: what still carried it has been lost.
Without(types, seq) == {m \in net : ~(m.type \in types /\ m.seq = seq)}
-----------------------------------------------------------------------------
Init ==
  /\ ClockInit
  /\ now = 0
  /\ twoStep \in BOOLEAN
  /\ syncSeq \in SeqIds
  /\ m_mSequence = 0
  /\ net = {}
  /\ sending = <<>>
  /\ m_pSyncMaster = FALSE /\ m_pLocal = FALSE
  /\ gotSync = FALSE
  /\ requests = 0
  /\ staleRequest = FALSE /\ strayFollowUp = FALSE
  /\ sample = [made |-> FALSE, offset |-> 0, delay |-> 0]

(* The master multicasts a Sync, with its exact departure time in the Sync *)
(* itself or in the Follow_Up that goes with it.                           *)
MasterSync(gap, delay) ==
  LET t == now + gap
  IN  /\ t <= MaxTime
      /\ gotSync /\ twoStep => syncSeq # m_nFollowUpSequence
      /\ now' = t
      /\ net' = Without({"Sync", "FollowUp"}, syncSeq)
           \cup {[type |-> "Sync", seq |-> syncSeq, at |-> t + delay,
                  origin |-> IF twoStep THEN 0 ELSE t + Offset]}
           \cup IF twoStep
                THEN {[type |-> "FollowUp", seq |-> syncSeq, at |-> t + delay,
                       origin |-> t + Offset]}
                ELSE {}
      /\ syncSeq' = Next16(syncSeq)
      /\ UNCHANGED <<clockVars, twoStep, m_mSequence, sending, m_pSyncMaster, m_pLocal,
                     history>>

(* Sender::SendDelayRequest: only once a master is known.  The master's    *)
(* answer is put in the network at once; it is lost when never received.   *)
SendDelayRequest(gap, there, txError, turnaround, back) ==
  LET t == now + gap
  IN  /\ t <= MaxTime
      /\ m_pSyncMaster
      /\ \A i \in DOMAIN sending : sending[i].seq # m_mSequence
      /\ now' = t
      /\ net' = Without({"DelayResp"}, m_mSequence)
           \cup {[type |-> "DelayResp", seq |-> m_mSequence,
                  origin |-> t + there + Offset, at |-> t + there + turnaround + back]}
      /\ sending' = Append(sending, [seq |-> m_mSequence, at |-> t + txError])
      /\ m_mSequence' = Next16(m_mSequence)
      /\ requests' = requests + 1
      /\ staleRequest' = (staleRequest \/ m_mSequence \in DOMAIN m_mDelayRequest)
      /\ UNCHANGED <<clockVars, twoStep, syncSeq, m_pSyncMaster, m_pLocal,
                     gotSync, strayFollowUp, sample>>

(* An async_send_to that completes with an error has used an id up.        *)
SendFails(gap) ==
  /\ m_pSyncMaster
  /\ now + gap <= MaxTime
  /\ now' = now + gap
  /\ m_mSequence' = Next16(m_mSequence)
  /\ requests' = requests + 1
  /\ UNCHANGED <<clockVars, twoStep, syncSeq, net, sending, m_pSyncMaster, m_pLocal,
                 gotSync, staleRequest, strayFollowUp, sample>>

(* The completion handler of a send: DelayRequestSent creates the clock of *)
(* this machine if need be and registers the request with its timestamp.   *)
DelayRequestSent ==
  /\ sending # <<>>
  /\ DelayRequest(Head(sending).seq, Head(sending).at)
  /\ sending' = Tail(sending)
  /\ m_pLocal' = TRUE
  /\ UNCHANGED <<now, twoStep, syncSeq, m_mSequence, net, m_pSyncMaster, history>>

(* PtpMonkeyImplementation::Sync *)
Sync(m) ==
  /\ m \in Of("Sync")
  /\ m_pSyncMaster' = TRUE
  /\ IF m_pLocal THEN SyncTo(twoStep, m.seq, m.origin, m.at) ELSE UNCHANGED clockVars
  /\ gotSync' = (gotSync \/ m_pLocal)
  /\ UNCHANGED <<netVars, m_pLocal, requests, staleRequest, strayFollowUp, sample>>

(* PtpMonkeyImplementation::FollowUp *)
FollowUp(m) ==
  /\ m \in Of("FollowUp")
  /\ m_pSyncMaster' = TRUE
  /\ IF m_pLocal THEN FollowUpTo(m.seq, m.origin) ELSE UNCHANGED clockVars
  /\ strayFollowUp' = (\/ strayFollowUp
                       \/ m_pLocal /\ ~gotSync /\ m.seq = m_nFollowUpSequence)
  /\ UNCHANGED <<netVars, m_pLocal, gotSync, requests, staleRequest, sample>>

(* PtpMonkeyImplementation::DelayResponse, for a response to this machine. *)
DelayResponse(m) ==
  /\ m \in Of("DelayResp")
  /\ m_pSyncMaster' = TRUE
  /\ IF m_pLocal THEN DelayResponseTo(m.seq, m.origin, m.at) ELSE UNCHANGED clockVars
  /\ sample' = IF m_pLocal /\ m.seq \in DOMAIN m_mDelayRequest /\ m_bT1Valid /\ m.at # 0
               THEN [made |-> TRUE, offset |-> OffsetOf(m.seq, m.origin),
                     delay |-> DelayOf(m.seq, m.origin)]
               ELSE sample
  /\ UNCHANGED <<netVars, m_pLocal, gotSync, requests, staleRequest, strayFollowUp>>

(* PtpMonkey::ResyncToMaster and ResetLocalClockStats, on the local clock. *)
ResyncLocal == m_pLocal /\ Resync     /\ UNCHANGED <<netVars, m_pSyncMaster, m_pLocal, history>>
ResetLocal  == m_pLocal /\ ResetStats /\ UNCHANGED <<netVars, m_pSyncMaster, m_pLocal, history>>

Next ==
  \/ \E gap \in Gaps, delay \in PathDelays : MasterSync(gap, delay)
  \/ \E gap \in Gaps, there, back \in PathDelays, txError \in 0 .. MaxTxError,
        turnaround \in 0 .. MaxTurnaround :
        SendDelayRequest(gap, there, txError, turnaround, back)
  \/ \E gap \in Gaps : SendFails(gap)
  \/ DelayRequestSent
  \/ \E m \in net : Sync(m) \/ FollowUp(m) \/ DelayResponse(m)
  \/ ResyncLocal
  \/ ResetLocal

Spec == Init /\ [][Next]_vars
-----------------------------------------------------------------------------
TypeOK ==
  /\ ClockTypeOK
  /\ now \in Nat /\ requests \in Nat
  /\ twoStep \in BOOLEAN
  /\ syncSeq \in SeqIds /\ m_mSequence \in SeqIds
  /\ net \subseteq Message
  /\ sending \in Seq([seq : SeqIds, at : Int])
  /\ m_pSyncMaster \in BOOLEAN /\ m_pLocal \in BOOLEAN /\ gotSync \in BOOLEAN
  /\ staleRequest \in BOOLEAN /\ strayFollowUp \in BOOLEAN
  /\ sample \in [made : BOOLEAN, offset : Int, delay : Int]

\* Nothing has paired times of different messages.
Clean == ~staleRequest /\ ~strayFollowUp

\* Twice the asymmetry two path delays can have.
Jitter == MaxDelay - MinDelay

GoodOffset(o) == 2 * (o + Offset) \in -Jitter - 1 .. Jitter + MaxTxError + 1
GoodDelay(d)  == 2 * d \in 2 * MinDelay - MaxTxError - 1 .. 2 * MaxDelay

(* Whatever is lost, duplicated or reordered, a computed offset is off by  *)
(* no more than half of what path asymmetry and the transmit timestamp     *)
(* can account for, and a computed delay lies within the path delays; the  *)
(* exceptions are the two pairings the history variables record.           *)
SampleAccuracy ==
  Clean /\ sample.made => GoodOffset(sample.offset) /\ GoodDelay(sample.delay)

(* The same of everything in the windows the averages are taken of: the    *)
(* mean that stands for a delayed offset is as good as a measured one.     *)
WindowAccuracy ==
  Clean => /\ \A i \in DOMAIN m_offset.lstValues : GoodOffset(m_offset.lstValues[i])
           /\ \A i \in DOMAIN m_delay.lstValues : GoodDelay(m_delay.lstValues[i])

(* What GetPtpTime returns at the moment of the last sample trails the     *)
(* master by its turnaround time, give or take the asymmetry.              *)
PtpTimeLag ==
  Clean /\ sample.made =>
    2 * (m_calculatedAt + Offset - GetPtpTime(m_calculatedAt))
      \in -2 * Jitter .. 2 * (MaxTurnaround + Jitter) + MaxTxError + 1

(* A request is measured at most once, however often its response arrives: *)
(* samples, registered requests and unfinished sends never exceed what was *)
(* sent.                                                                   *)
OneSamplePerRequest ==
  Len(m_delay.lstValues) + Cardinality(DOMAIN m_mDelayRequest) + Len(sending) <= requests

(* An id is found registered only after the ids have wrapped around.       *)
StaleNeedsWrap == staleRequest => requests > SeqSpace
-----------------------------------------------------------------------------
(* Why samples are accurate: what the times in the network, in the clock   *)
(* and in the sends under way have to do with one another.                 *)

\* A Sync and the Follow_Up of the same id tell of the same departure.
SyncTimes ==
  /\ \A s \in Of("Sync") : twoStep \/ s.at - s.origin + Offset \in PathDelays
  /\ \A s \in Of("Sync"), f \in Of("FollowUp") :
       s.seq = f.seq => s.at - f.origin + Offset \in PathDelays
  /\ \A f \in Of("FollowUp") : twoStep

\* The Follow_Up the clock waits for belongs to the Sync it was given.
AwaitedTimes ==
  gotSync => \A f \in Of("FollowUp") :
               f.seq = m_nFollowUpSequence => m_nt1r - f.origin + Offset \in PathDelays

\* Valid Sync times are the times of one Sync.
T1Times == m_bT1Valid /\ ~strayFollowUp => m_nt1r - m_nt1s + Offset \in PathDelays

RequestDelays == MinDelay - MaxTxError .. MaxDelay

\* A response and the registered request of its id are of one exchange,
RequestTimes ==
  ~staleRequest =>
    \A r \in Of("DelayResp") :
      r.seq \in DOMAIN m_mDelayRequest =>
        r.origin - Offset - m_mDelayRequest[r.seq] \in RequestDelays

\* and so are a response and a send of its id that has not completed.
SendingTimes ==
  \A r \in Of("DelayResp"), i \in DOMAIN sending :
    r.seq = sending[i].seq => r.origin - Offset - sending[i].at \in RequestDelays

\* A response arrives after it was asked for, a turnaround and a path delay later.
ResponseTimes ==
  \A r \in Of("DelayResp") :
    /\ r.at # 0
    /\ r.at - r.origin + Offset \in MinDelay .. MaxTurnaround + MaxDelay

ExchangeInv ==
  /\ TypeOK /\ StatsInv
  /\ SyncTimes /\ AwaitedTimes /\ T1Times
  /\ RequestTimes /\ SendingTimes /\ ResponseTimes
  /\ SampleAccuracy /\ WindowAccuracy /\ PtpTimeLag
=============================================================================
