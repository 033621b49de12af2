------------------------------- MODULE Sender -------------------------------
(***************************************************************************)
(* The Sender (source/sender.cpp) on the context thread, with the channel  *)
(* its management messages come out of (LockFreeQueue implements it) and   *)
(* the socket they and the delay requests go into.  Its timer fires every  *)
(* 100 ms, the unit of time here; the handler sends a delay request when   *)
(* one is due and then all that is queued.  A send completes with a        *)
(* handler of its own.  The kernel posts the transmit timestamps of what   *)
(* was sent in the socket's error queue, in the order of the sends, and    *)
(* the handler of a request takes the first one there.                     *)
(*                                                                         *)
(* m_bRun is never cleared: nobody calls Sender::Stop.                     *)
(***************************************************************************)
EXTENDS MessageChannel

CONSTANTS
  Rates,              (* delay request rates a master may announce         *)
  kNever,             (* the rate that switches delay requests off         *)
  ConfiguredRate,     (* the rate given to the constructor                 *)
  Gap,                (* timer periods between requests at each rate       *)
  SeqIds,             (* sequence ids: 2^16 in the code                    *)
  TimestampEnabled,   (* the socket accepted one of the options            *)
  Unset,              (* an uninitialised time that now never reaches      *)
  Management,         (* a management message, once it is on the socket    *)
  MaxMessages,        (* bound of the model: messages ever sent            *)
  MaxSends,           (* bound of the model: sends under way               *)
  MaxStamps           (* room in the error queue                           *)

ASSUME SenderAssumption ==
  /\ ConfiguredRate \in Rates \cup {kNever}
  /\ kNever \notin Rates
  /\ Gap \in [Rates \cup {kNever} -> Nat]
  /\ \E longest \in Rates \cup {ConfiguredRate} :
       \A rate \in Rates \cup {ConfiguredRate} : Gap[rate] <= Gap[longest]
  /\ SeqIds \in Nat \ {0}
  /\ TimestampEnabled \in BOOLEAN
  /\ Unset \notin Nat /\ Management \notin Nat
  /\ MaxMessages \in Nat /\ MaxSends \in Nat \ {0} /\ MaxStamps \in Nat

VARIABLES
  m_pSyncMaster,    (* there is a master                                   *)
  m_delayRequest,   (* the rate, at first the configured one               *)
  since,            (* time since m_lastDelayReq, as far as it matters     *)
  m_timer,          (* "off", "armed" or "expired"                         *)
  context,          (* where the context thread is                         *)
  m_mSequence,      (* the sequence id of the next delay request           *)
  sending,          (* requests sent whose completion handler has not run  *)
  unstamped,        (* messages sent whose timestamp is not yet posted     *)
  errorQueue,       (* the messages whose timestamps are posted            *)
  reported,         (* history: whose timestamp the last request was reported with *)
  strayed           (* history: a timestamp was posted that no request was *)
                    (* waiting for, or not posted when one was             *)

pace == <<m_delayRequest, since, m_timer>>
socket == <<m_mSequence, sending, unstamped, errorQueue, reported, strayed>>
vars == <<channel, m_pSyncMaster, pace, context, socket>>

\* m_delayRequestTime, computed once from the configured rate.
DelayReqGap == Gap[ConfiguredRate]

\* Beyond the longest gap it no longer matters how long ago the last request was.
Gaps == {Gap[rate] : rate \in Rates \cup {ConfiguredRate}}
Saturated == 1 + CHOOSE longest \in Gaps : \A gap \in Gaps : gap <= longest

\* A message on the socket: the sequence id of a request, or a management message.
Requests == 0 .. SeqIds - 1
Sent == Requests \cup {Management}
-----------------------------------------------------------------------------
Init ==
  /\ ChannelInit
  /\ m_pSyncMaster \in BOOLEAN
  /\ m_delayRequest = ConfiguredRate
  /\ since \in {0, Saturated, Unset}
  /\ m_timer = "off"
  /\ context = "run"
  /\ m_mSequence = 0
  /\ sending = <<>> /\ unstamped = <<>> /\ errorQueue = <<>>
  /\ reported = "none" /\ strayed = FALSE

\* Every message on the socket gets a timestamp.
AwaitStamp(message) ==
  unstamped' = IF TimestampEnabled THEN Append(unstamped, message) ELSE unstamped

\* Faulty: the sequence id does not wrap around.
NextSequence_NoWrap(n) == n + 1

NextSequence(n) == (n + 1) % SeqIds

(* SendDelayRequest and CreateDelayRequest.  async_send_to sends, and the  *)
(* completion handler runs later; that of a send that failed only logs.    *)
SendDelayRequest ==
  /\ m_pSyncMaster
  /\ since' = 0
  /\ m_mSequence' = NextSequence(m_mSequence)
  /\ \/ sending' = Append(sending, m_mSequence) /\ AwaitStamp(m_mSequence)
     \/ UNCHANGED <<sending, unstamped>>
  /\ UNCHANGED <<errorQueue, reported, strayed>>

(* SendManagementMessage: its completion handler does nothing but log.     *)
SendManagementMessage ==
  /\ \/ AwaitStamp(Management) /\ strayed' = TRUE
     \/ UNCHANGED <<unstamped, strayed>>
  /\ UNCHANGED <<m_mSequence, sending, errorQueue, reported>>

SendIfMaster ==
  \/ SendDelayRequest
  \/ ~m_pSyncMaster /\ UNCHANGED <<since, socket>>

(* Run tries a first request and arms the timer.  There is a master only   *)
(* when this is a restart.                                                 *)
Run ==
  /\ context = "run"
  /\ SendIfMaster
  /\ m_timer' = "armed"
  /\ context' = "idle"
  /\ UNCHANGED <<channel, m_pSyncMaster, m_delayRequest>>

\* Faulty: a request that was not sent when it was due is not sent any more.
RequestIsDue_Once ==
  m_delayRequest # kNever /\ since # Unset /\ since = DelayReqGap + 1

(* It is due once the configured gap is over, whatever the rate.           *)
RequestIsDue == m_delayRequest # kNever /\ since # Unset /\ since > DelayReqGap

(* The handler of the timer: a delay request if one is due, ...            *)
DoTimeout ==
  /\ context = "idle"
  /\ m_timer = "expired"
  /\ Len(sending) < MaxSends /\ Len(unstamped) < MaxSends
  /\ IF RequestIsDue THEN SendIfMaster ELSE UNCHANGED <<since, socket>>
  /\ context' = "drain"
  /\ UNCHANGED <<channel, m_pSyncMaster, m_delayRequest, m_timer>>

(* ... then what is queued, until there is no more, ...                    *)
Drain ==
  /\ context = "drain"
  /\ Hand
  /\ SendManagementMessage
  /\ UNCHANGED <<m_pSyncMaster, pace, context>>

\* Faulty: the timer is armed again only when there was something to send.
Rearm_IfSent ==
  /\ context = "drain"
  /\ Len(handed) = Len(accepted)
  /\ m_timer' = IF handed # <<>> \/ sending # <<>> THEN "armed" ELSE "off"
  /\ context' = "idle"
  /\ UNCHANGED <<channel, m_pSyncMaster, m_delayRequest, since, socket>>

(* ... and the timer again.                                                *)
Rearm ==
  /\ context = "drain"
  /\ Len(handed) = Len(accepted)
  /\ m_timer' = "armed"
  /\ context' = "idle"
  /\ UNCHANGED <<channel, m_pSyncMaster, m_delayRequest, since, socket>>

\* Whose timestamp a request is reported with.
Report(request, stamp) == IF stamp = request THEN "own" ELSE "another"

\* Faulty: the timestamp is read without being taken out of the error queue.
GetTxTimestamp_Peeks(request) ==
  /\ errorQueue # <<>>
  /\ reported' = Report(request, Head(errorQueue))
  /\ UNCHANGED <<errorQueue, strayed>>

(* GetTxTimestamp: the first timestamp in the error queue, ...             *)
GetTxTimestamp(request) ==
  /\ errorQueue # <<>>
  /\ reported' = Report(request, Head(errorQueue))
  /\ errorQueue' = Tail(errorQueue)
  /\ UNCHANGED strayed

(* ... or, when there is none, the time NativeReceive returns at.          *)
NoTxTimestamp ==
  /\ errorQueue = <<>>
  /\ reported' = "now"
  /\ strayed' = TRUE
  /\ UNCHANGED errorQueue

(* Without timestamps it is the time the handler runs at.                  *)
Approximate ==
  /\ reported' = "now"
  /\ UNCHANGED <<errorQueue, strayed>>

(* The completion handler of the oldest request.                           *)
Completion ==
  /\ context = "idle"
  /\ sending # <<>>
  /\ sending' = Tail(sending)
  /\ IF TimestampEnabled THEN GetTxTimestamp(Head(sending)) \/ NoTxTimestamp
                         ELSE Approximate
  /\ UNCHANGED <<channel, m_pSyncMaster, pace, context, m_mSequence, unstamped>>

(* The kernel posts the timestamp of the oldest message, or drops it: it   *)
(* must when the error queue is full.                                      *)
PostStamp ==
  /\ unstamped # <<>>
  /\ unstamped' = Tail(unstamped)
  /\ \/ /\ Len(errorQueue) < MaxStamps
        /\ errorQueue' = Append(errorQueue, Head(unstamped))
        /\ UNCHANGED strayed
     \/ /\ strayed' = TRUE
        /\ UNCHANGED errorQueue
  /\ UNCHANGED <<channel, m_pSyncMaster, pace, context, m_mSequence, sending, reported>>

Tick ==
  /\ since' = IF since \in {Unset, Saturated} THEN since ELSE since + 1
  /\ m_timer' = IF m_timer = "armed" THEN "expired" ELSE m_timer
  /\ <<since, m_timer>>' # <<since, m_timer>>
  /\ UNCHANGED <<channel, m_pSyncMaster, m_delayRequest, context, socket>>

(* A master is found, by the context thread, or forgotten by a call.       *)
SetMaster(known) ==
  /\ known => context = "idle"
  /\ m_pSyncMaster' = known
  /\ m_pSyncMaster # known
  /\ UNCHANGED <<channel, pace, context, socket>>

(* DelayResponse: the rate becomes the master's.                           *)
AdoptRate(rate) ==
  /\ context = "idle"
  /\ m_pSyncMaster
  /\ m_delayRequest # rate
  /\ m_delayRequest' = rate
  /\ UNCHANGED <<channel, m_pSyncMaster, since, m_timer, context, socket>>

(* Send, from one thread at a time.                                        *)
Send(m) ==
  /\ Len(accepted) < MaxMessages
  /\ Accept(m)
  /\ UNCHANGED <<m_pSyncMaster, pace, context, socket>>

Context == Run \/ DoTimeout \/ Drain \/ Rearm \/ Completion

Next ==
  \/ Context
  \/ PostStamp
  \/ Tick
  \/ \E m \in Messages : Send(m)
  \/ \E known \in BOOLEAN : SetMaster(known)
  \/ \E rate \in Rates : AdoptRate(rate)

(* The context thread runs its handlers, the timer's among them, the       *)
(* kernel gets round to a timestamp, and time passes.  Nobody has to send, *)
(* and no master has to be there.                                          *)
Fairness ==
  /\ WF_vars(Context)
  /\ WF_vars(PostStamp)
  /\ WF_vars(Tick)

Spec == Init /\ [][Next]_vars /\ Fairness
-----------------------------------------------------------------------------
TypeOK ==
  /\ accepted \in Seq(Messages) /\ handed \in Seq(Messages) /\ misused = FALSE
  /\ m_pSyncMaster \in BOOLEAN
  /\ m_delayRequest \in Rates \cup {kNever}
  /\ since \in 0 .. Saturated \cup {Unset}
  /\ m_timer \in {"off", "armed", "expired"}
  /\ context \in {"run", "idle", "drain"}
  /\ m_mSequence \in Requests
  /\ sending \in Seq(Requests)
  /\ unstamped \in Seq(Sent) /\ errorQueue \in Seq(Sent)
  /\ reported \in {"none", "own", "another", "now"}
  /\ strayed \in BOOLEAN

(* Everything Send has accepted is sent, however the timer, the requests   *)
(* and further calls of Send fall.                                         *)
AcceptedIsSent ==
  \A i \in 1 .. MaxMessages : Len(accepted) >= i ~> Len(handed) >= i

(* While there is a master, delay requests keep going out, at whatever     *)
(* rate the master announces; unless m_lastDelayReq, which nothing         *)
(* initialises, lies in the future.                                        *)
RequestsKeepComing ==
  <>[](m_pSyncMaster /\ m_delayRequest # kNever /\ since # Unset)
    => []<><<SendDelayRequest>>_vars

(* Until a timestamp strays there is one, posted or to come, for each      *)
(* request whose completion handler is to run, in the same order.          *)
StampsInStep ==
  TimestampEnabled /\ ~strayed => sending = errorQueue \o unstamped

(* A request gets its own timestamp as long as every message sent before   *)
(* was a request whose timestamp came, and came before its handler ran.    *)
OwnTimestamp ==
  TimestampEnabled /\ ~strayed => reported \in {"none", "own"}
-----------------------------------------------------------------------------
(* What source/sender.cpp:233 says of the timestamp it reports: it is "the *)
(* actual timestamp for this message".  It is the first in the error queue.*)
TimestampOfThisMessage == reported # "another"

(* What source/ptpmonkeyimplementation.cpp:273 says: the delay request is  *)
(* updated "to match what the master clock says".  The pace is not.        *)
RateIsTheMasters ==
  [][DoTimeout /\ since' = 0 /\ since \notin {0, Unset} => since > Gap[m_delayRequest]]_vars
=============================================================================
