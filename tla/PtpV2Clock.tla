----------------------------- MODULE PtpV2Clock -----------------------------
(***************************************************************************)
(* The measuring half of PtpV2Clock (source/ptpclock.cpp): how the clock   *)
(* object of this machine combines Sync, Follow_Up, its own Delay_Req and  *)
(* the Delay_Resp into an offset from the master and a path delay.         *)
(*                                                                         *)
(* One action per handler, with the fields of the message it reads as      *)
(* parameters.  The bookkeeping a handler does for display (counters,      *)
(* flags, intervals, the time of the last message) is left out: nothing    *)
(* here depends on it.  Registering what the clock says of itself          *)
(* (UpdateAnnounce) belongs to the registry of clocks.                     *)
(***************************************************************************)
EXTENDS PtpStats, Functions

CONSTANTS
  SeqSpace,      (* sequence ids are numbers modulo SeqSpace: 65536        *)
  Residue        (* what memory may hold where a constructor writes nothing *)

ASSUME ClockAssumption ==
  /\ SeqSpace \in Nat \ {0}
  /\ Residue \subseteq Int

VARIABLES
  m_nt1s, m_nt1r,        (* when the Sync left the master and arrived here *)
  m_nFollowUpSequence,   (* the Sync whose Follow_Up is awaited            *)
  m_bT1Valid,            (* m_nt1s and m_nt1r belong to one Sync           *)
  m_mDelayRequest,       (* sequence id -> when that request was sent      *)
  m_calculatedAt,        (* when the last sample was made, local time      *)
  m_calculatedPtp,       (* the master's time then                         *)
  m_calculatedFirst      (* when the first sample was made                 *)

clockVars == <<m_nt1s, m_nt1r, m_nFollowUpSequence, m_bT1Valid, m_mDelayRequest,
               m_calculatedAt, m_calculatedPtp, m_calculatedFirst, m_offset, m_delay>>

SeqIds == 0 .. SeqSpace - 1

\* What has been measured, as the window statistics and GetPtpTime see it.
measured == <<m_calculatedAt, m_calculatedPtp, m_calculatedFirst, m_offset, m_delay>>
-----------------------------------------------------------------------------
(* The constructors initialise neither m_nFollowUpSequence nor the pair    *)
(* that GetPtpTime reads.                                                  *)
ClockInit ==
  /\ m_nt1s = 0 /\ m_nt1r = 0
  /\ m_nFollowUpSequence \in SeqIds
  /\ m_bT1Valid = FALSE
  /\ m_mDelayRequest = [s \in {} |-> 0]
  /\ m_calculatedAt \in Residue /\ m_calculatedPtp \in Residue
  /\ m_calculatedFirst = 0
  /\ StatsInit

\* Faulty: the times of the Sync before stay valid while a Follow_Up is awaited.
SyncTo_KeepsValid(twoStep, seq, originTime, timestamp) ==
  /\ m_nt1r' = timestamp
  /\ m_nFollowUpSequence' = IF twoStep THEN seq ELSE 0
  /\ IF twoStep THEN UNCHANGED <<m_bT1Valid, m_nt1s>>
                ELSE m_bT1Valid' = TRUE /\ m_nt1s' = originTime
  /\ UNCHANGED <<m_mDelayRequest, measured>>

(* A two-step Sync waits for its Follow_Up; a one-step Sync carries the    *)
(* time it left.                                                           *)
SyncTo(twoStep, seq, originTime, timestamp) ==
  /\ m_nt1r' = timestamp
  /\ IF twoStep
     THEN /\ m_nFollowUpSequence' = seq
          /\ m_bT1Valid' = FALSE
          /\ UNCHANGED m_nt1s
     ELSE /\ m_nFollowUpSequence' = 0
          /\ m_bT1Valid' = TRUE
          /\ m_nt1s' = originTime
  /\ UNCHANGED <<m_mDelayRequest, measured>>

\* Faulty: any Follow_Up completes the last Sync.
FollowUpTo_AnySequence(seq, originTime) ==
  /\ m_nt1s' = originTime
  /\ m_bT1Valid' = TRUE
  /\ UNCHANGED <<m_nt1r, m_nFollowUpSequence, m_mDelayRequest, measured>>

(* A Follow_Up of another Sync leaves the times invalid.                   *)
FollowUpTo(seq, originTime) ==
  /\ m_nt1s' = originTime
  /\ m_bT1Valid' = (seq = m_nFollowUpSequence)
  /\ UNCHANGED <<m_nt1r, m_nFollowUpSequence, m_mDelayRequest, measured>>

(* A request whose sequence id is already registered is logged and keeps   *)
(* the time it was registered with.                                        *)
DelayRequest(seq, timestamp) ==
  /\ m_mDelayRequest' = IF seq \in DOMAIN m_mDelayRequest
                        THEN m_mDelayRequest
                        ELSE [s \in DOMAIN m_mDelayRequest \cup {seq} |->
                                IF s = seq THEN timestamp ELSE m_mDelayRequest[s]]
  /\ UNCHANGED <<m_nt1s, m_nt1r, m_nFollowUpSequence, m_bT1Valid, measured>>

(* The offset and the path delay the four timestamps yield. *)
SampleOffset(t1s, t1r, t2s, t2r) == Quotient((t1r - t1s) + (t2s - t2r), 2)
SampleDelay(t1s, t1r, t2s, t2r)  == Quotient((t1r - t1s) + (t2r - t2s), 2)

\* The sample a response to request seq, received by the master at originTime, makes.
OffsetOf(seq, originTime) ==
  SampleOffset(m_nt1s, m_nt1r, m_mDelayRequest[seq], originTime)
DelayOf(seq, originTime) ==
  SampleDelay(m_nt1s, m_nt1r, m_mDelayRequest[seq], originTime)

\* Faulty: the path delay is taken off the master's time instead of added.
Calculate_SubtractsDelay(seq, originTime, timestamp) ==
  /\ timestamp # 0
  /\ m_calculatedAt' = timestamp
  /\ m_calculatedPtp' = originTime - DelayOf(seq, originTime)
  /\ m_calculatedFirst' = IF m_calculatedFirst = 0 THEN timestamp ELSE m_calculatedFirst
  /\ AddSample(OffsetOf(seq, originTime), DelayOf(seq, originTime))

(* The sample goes into the windows; a receive time of zero counts as none. *)
Calculate(seq, originTime, timestamp) ==
  /\ m_calculatedAt' = timestamp
  /\ IF timestamp = 0
     THEN UNCHANGED <<m_calculatedPtp, m_calculatedFirst, m_offset, m_delay>>
     ELSE /\ m_calculatedPtp' = DelayOf(seq, originTime) + originTime
          /\ m_calculatedFirst' = IF m_calculatedFirst = 0 THEN timestamp
                                  ELSE m_calculatedFirst
          /\ AddSample(OffsetOf(seq, originTime), DelayOf(seq, originTime))

\* Faulty: the request stays registered after its response.
DelayResponseTo_KeepsRequest(seq, originTime, timestamp) ==
  /\ IF seq \in DOMAIN m_mDelayRequest /\ m_bT1Valid
     THEN Calculate(seq, originTime, timestamp)
     ELSE UNCHANGED measured
  /\ UNCHANGED <<m_nt1s, m_nt1r, m_nFollowUpSequence, m_bT1Valid, m_mDelayRequest>>

(* A response to a registered request makes a sample when the Sync times   *)
(* are valid, and uses the request up in any case.                         *)
DelayResponseTo(seq, originTime, timestamp) ==
  /\ IF seq \in DOMAIN m_mDelayRequest
     THEN /\ m_mDelayRequest' = Restrict(m_mDelayRequest, DOMAIN m_mDelayRequest \ {seq})
          /\ IF m_bT1Valid THEN Calculate(seq, originTime, timestamp)
                           ELSE UNCHANGED measured
     ELSE UNCHANGED <<m_mDelayRequest, measured>>
  /\ UNCHANGED <<m_nt1s, m_nt1r, m_nFollowUpSequence, m_bT1Valid>>

Resync == /\ ResyncToMaster
          /\ UNCHANGED <<m_nt1s, m_nt1r, m_nFollowUpSequence, m_bT1Valid, m_mDelayRequest,
                         m_calculatedAt, m_calculatedPtp, m_calculatedFirst>>

ResetStats == /\ ClearStats
              /\ UNCHANGED <<m_nt1s, m_nt1r, m_nFollowUpSequence, m_bT1Valid, m_mDelayRequest,
                             m_calculatedAt, m_calculatedPtp, m_calculatedFirst>>

\* PtpV2Clock::GetPtpTime, asked at local time now.
GetPtpTime(now) == (now - m_calculatedAt) + m_calculatedPtp
-----------------------------------------------------------------------------
ClockTypeOK ==
  /\ m_nt1s \in Int /\ m_nt1r \in Int
  /\ m_nFollowUpSequence \in SeqIds
  /\ m_bT1Valid \in BOOLEAN
  /\ DOMAIN m_mDelayRequest \subseteq SeqIds
  /\ m_mDelayRequest \in [DOMAIN m_mDelayRequest -> Int]
  /\ m_calculatedAt \in Int /\ m_calculatedPtp \in Int /\ m_calculatedFirst \in Int
  /\ StatsTypeOK
=============================================================================
