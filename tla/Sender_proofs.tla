---------------------------- MODULE Sender_proofs ----------------------------
(***************************************************************************)
(* The Sender and the queue its management messages come out of.           *)
(*                                                                         *)
(* For any number of producers, messages and nodes, the queue implements   *)
(* the channel as long as no two pushes overlap.  The argument is the      *)
(* inductive invariant QueueInv: nodes are used in the order of their      *)
(* numbers, and at most the last one is being filled.                      *)
(*                                                                         *)
(* For every rate, gap, number of sequence ids and length of the queues,   *)
(* a delay request is reported with its own timestamp until one strays.    *)
(* The argument is StampsInStep: until then the error queue and what is    *)
(* still to be posted are the requests under way, in order.                *)
(***************************************************************************)
EXTENDS Sender, LockFreeQueue, SequenceTheorems, TLAPS

(* The queue starts empty, with one empty node.                            *)
LEMMA QueueStarts == QueueInit => QueueInv
<1> SUFFICES ASSUME QueueInit PROVE QueueInv
  OBVIOUS
<1> USE QueueAssumption DEF QueueInit
<1>1. QueueTypeOK
  <2>1. 1 \in Nodes
    BY DEF Nodes
  <2>2. push \in [Producers -> Pushes] /\ pop \in Pops
    BY DEF Pushes, Pops, Idle
  <2>3. accepted \in Seq(Messages) /\ handed \in Seq(Messages \cup {Null})
    OBVIOUS
  <2> QED
    BY <2>1, <2>2, <2>3 DEF QueueTypeOK
<1>2. NodesInOrder
  <2>1. Len(accepted) = 0 /\ Len(handed) = 0 /\ pop.at = "idle" /\ pop = Idle
    BY DEF Idle
  <2> QED
    BY <2>1 DEF NodesInOrder
<1>3. OnePush
  BY DEF OnePush
<1> QED
  BY <1>1, <1>2, <1>3 DEF QueueInv

(* Where a producer is, between the steps of its push.                     *)
LEMMA PushFields ==
  ASSUME QueueTypeOK, NEW t \in Producers
  PROVE  /\ push[t] \in Pushes
         /\ push[t] = Idle <=> push[t].at = "idle"
         /\ push[t].at # "idle" =>
              /\ push[t].message \in Messages
              /\ push[t].old \in Nodes \cup {Null}
              /\ push[t].node \in Nodes
              /\ push[t].at \in {"data", "next", "tail"}
BY DEF QueueTypeOK, Pushes, Idle

LEMMA PopFields ==
  ASSUME QueueTypeOK
  PROVE  /\ pop = Idle <=> pop.at = "idle"
         /\ pop.at # "idle" => pop.old \in Nodes \cup {Null} /\ pop.at \in {"head", "take"}
BY DEF QueueTypeOK, Pops, Idle

(* Every step of a producer or of the consumer keeps the types.            *)
LEMMA QueueTypes == QueueTypeOK /\ [QueueNext]_queueVars => QueueTypeOK'
<1> SUFFICES ASSUME QueueTypeOK, [QueueNext]_queueVars PROVE QueueTypeOK'
  OBVIOUS
<1> USE QueueAssumption
<1>1. ASSUME NEW t \in Producers, NEW m \in Messages, PushBegin(t, m) PROVE QueueTypeOK'
  <2>1. allocated' \in Nodes
    BY <1>1 DEF PushBegin, QueueTypeOK, Nodes
  <2>2. push' \in [Producers -> Pushes]
    BY <1>1, <2>1 DEF PushBegin, QueueTypeOK, Pushes
  <2>3. misused' \in BOOLEAN
    BY <1>1 DEF PushBegin, QueueTypeOK
  <2> QED
    BY <1>1, <2>1, <2>2, <2>3 DEF PushBegin, QueueTypeOK
<1>2. ASSUME NEW t \in Producers, PushData(t) PROVE QueueTypeOK'
  <2>1. push' \in [Producers -> Pushes]
    BY <1>2, PushFields DEF PushData, QueueTypeOK, Pushes
  <2>2. data' \in [Nodes -> Messages \cup {Null}]
    BY <1>2, PushFields DEF PushData, QueueTypeOK
  <2> QED
    BY <1>2, <2>1, <2>2 DEF PushData, QueueTypeOK
<1>3. ASSUME NEW t \in Producers, PushNext(t) PROVE QueueTypeOK'
  <2>1. push' \in [Producers -> Pushes]
    BY <1>3, PushFields DEF PushNext, QueueTypeOK, Pushes
  <2>2. next' \in [Nodes -> Nodes \cup {Null}]
    BY <1>3, PushFields DEF PushNext, QueueTypeOK
  <2> QED
    BY <1>3, <2>1, <2>2 DEF PushNext, QueueTypeOK
<1>4. ASSUME NEW t \in Producers, PushTail(t) PROVE QueueTypeOK'
  <2>1. push' \in [Producers -> Pushes]
    BY <1>4 DEF PushTail, QueueTypeOK, Pushes, Idle
  <2>2. accepted' \in Seq(Messages) /\ tail' \in Nodes
    BY <1>4, PushFields DEF PushTail, QueueTypeOK
  <2> QED
    BY <1>4, <2>1, <2>2 DEF PushTail, QueueTypeOK
<1>5. CASE PopHead
  BY <1>5 DEF PopHead, QueueTypeOK, Pops, list
<1>6. CASE PopStore
  <2>1. pop' \in Pops /\ head' \in Nodes \cup {Null}
    BY <1>6, PopFields DEF PopStore, QueueTypeOK, Pops, Live
  <2> QED
    BY <1>6, <2>1 DEF PopStore, QueueTypeOK
<1>7. CASE PopTake
  <2>1. handed' \in Seq(Messages \cup {Null}) /\ freed' \subseteq Nodes
    BY <1>7, PopFields DEF PopTake, QueueTypeOK, Live
  <2> QED
    BY <1>7, <2>1 DEF PopTake, QueueTypeOK, Pops, Idle
<1>8. CASE UNCHANGED queueVars
  BY <1>8 DEF queueVars, list, channel, QueueTypeOK
<1> QED
  BY <1>1, <1>2, <1>3, <1>4, <1>5, <1>6, <1>7, <1>8 DEF QueueNext, Push, Pop

(* What the invariant says once no two pushes have overlapped.             *)
LEMMA Counts ==
  ASSUME QueueInv, ~misused
  PROVE  /\ Len(accepted) \in Nat /\ Len(handed) \in Nat
         /\ tail = Len(accepted) + 1 /\ Len(handed) <= Len(accepted)
         /\ head \in Nat /\ tail \in Nat
         /\ pop # Idle => Len(handed) < Len(accepted)
         /\ tail \in Nodes \ freed
BY QueueAssumption DEF QueueInv, QueueTypeOK, NodesInOrder, Nodes, Idle

(* A push begun while no other is under way keeps the nodes in order.      *)
LEMMA BeginKeeps ==
  ASSUME QueueInv, NEW t \in Producers, NEW m \in Messages, PushBegin(t, m), ~misused'
  PROVE  NodesInOrder' /\ OnePush'
<1>1. /\ ~misused
      /\ \A u \in Producers : push[u] = Idle
      /\ allocated = tail /\ allocated' = tail + 1
  BY DEF PushBegin, QueueInv, OnePush
<1>2. NodesInOrder'
  BY <1>1 DEF PushBegin, QueueInv, NodesInOrder
<1>3. /\ push'[t] = [at |-> "data", message |-> m, old |-> tail, node |-> tail + 1]
      /\ \A u \in Producers \ {t} : push'[u] = Idle
  BY <1>1 DEF PushBegin, QueueInv, QueueTypeOK
<1>4. push'[t] # Idle
  BY <1>3 DEF Idle
<1>5. OnePush'
  BY <1>1, <1>3, <1>4 DEF PushBegin, OnePush
<1> QED
  BY <1>2, <1>5

(* Filling and linking the last node.                                      *)
LEMMA FillKeeps ==
  ASSUME QueueInv, NEW t \in Producers, PushData(t) \/ PushNext(t), ~misused'
  PROVE  NodesInOrder' /\ OnePush'
<1>1. /\ ~misused /\ push[t] # Idle
      /\ \A u \in Producers \ {t} : push[u] = Idle
      /\ push[t].old = tail /\ push[t].node = tail + 1 /\ allocated = tail + 1
      /\ push[t].at \in {"next", "tail"} => data[tail] = push[t].message
  BY DEF PushData, PushNext, QueueInv, OnePush, Idle
<1>2. tail \in Nodes /\ tail = Len(accepted) + 1 /\ Len(accepted) \in Nat /\ Len(handed) \in Nat
  BY <1>1, Counts
<1>3. CASE PushData(t)
  <2>1. /\ push'[t] = [push[t] EXCEPT !.at = "next"]
        /\ \A u \in Producers \ {t} : push'[u] = Idle
        /\ data' = [data EXCEPT ![tail] = push[t].message]
    BY <1>1, <1>3 DEF PushData, QueueInv, QueueTypeOK
  <2>2. /\ push'[t].at = "next" /\ push'[t].old = tail /\ push'[t].node = tail + 1
        /\ push'[t].message = push[t].message /\ push'[t] # Idle
    BY <1>1, <1>3, <2>1, PushFields DEF PushData, QueueInv, Pushes, Idle
  <2>3. data'[tail] = push[t].message
    BY <1>2, <2>1 DEF QueueInv, QueueTypeOK
  <2>4. NodesInOrder'
    <3>1. \A n \in Len(handed) + 1 .. Len(accepted) : data'[n] = data[n]
      BY <1>2, <2>1 DEF QueueInv, QueueTypeOK
    <3> QED
      BY <1>1, <1>3, <3>1 DEF PushData, QueueInv, NodesInOrder
  <2> QED
    BY <1>1, <1>3, <2>1, <2>2, <2>3, <2>4 DEF PushData, OnePush
<1>4. CASE PushNext(t)
  <2>1. /\ push'[t] = [push[t] EXCEPT !.at = "tail"]
        /\ \A u \in Producers \ {t} : push'[u] = Idle
        /\ next' = [next EXCEPT ![tail] = tail + 1]
    BY <1>1, <1>4 DEF PushNext, QueueInv, QueueTypeOK
  <2>2. /\ push'[t].at = "tail" /\ push'[t].old = tail /\ push'[t].node = tail + 1
        /\ push'[t].message = push[t].message /\ push'[t] # Idle
    BY <1>1, <1>4, <2>1, PushFields DEF PushNext, QueueInv, Pushes, Idle
  <2>3. next'[tail] = tail + 1 /\ data[tail] = push[t].message
    BY <1>1, <1>2, <1>4, <2>1 DEF PushNext, QueueInv, QueueTypeOK
  <2>4. NodesInOrder'
    <3>1. \A n \in Len(handed) + 1 .. Len(accepted) : next'[n] = next[n]
      BY <1>2, <2>1 DEF QueueInv, QueueTypeOK
    <3> QED
      BY <1>1, <1>4, <3>1 DEF PushNext, QueueInv, NodesInOrder
  <2> QED
    BY <1>1, <1>4, <2>1, <2>2, <2>3, <2>4 DEF PushNext, OnePush
<1> QED
  BY <1>3, <1>4

(* The new tail: the filled node joins those in order.                     *)
LEMMA TailKeeps ==
  ASSUME QueueInv, NEW t \in Producers, PushTail(t), ~misused'
  PROVE  NodesInOrder' /\ OnePush'
<1>1. /\ ~misused /\ push[t] # Idle
      /\ \A u \in Producers \ {t} : push[u] = Idle
      /\ push[t].node = tail + 1 /\ allocated = tail + 1
      /\ data[tail] = push[t].message /\ next[tail] = tail + 1
  BY DEF PushTail, QueueInv, OnePush, Idle
<1>2. /\ tail = Len(accepted) + 1 /\ Len(accepted) \in Nat /\ Len(handed) \in Nat
      /\ push[t].message \in Messages /\ accepted \in Seq(Messages)
  BY <1>1, Counts, PushFields DEF QueueInv, QueueTypeOK, Idle
<1>3. /\ Len(accepted') = Len(accepted) + 1
      /\ accepted'[tail] = data[tail]
      /\ \A n \in 1 .. Len(accepted) : accepted'[n] = accepted[n]
  BY <1>1, <1>2 DEF PushTail
<1>4. tail' = tail + 1 /\ \A u \in Producers : push'[u] = Idle
  BY <1>1 DEF PushTail, QueueInv, QueueTypeOK
<1>5. NodesInOrder'
  <2>1. \A n \in Len(handed) + 1 .. Len(accepted') : data[n] = accepted'[n] /\ next[n] = n + 1
    <3> SUFFICES ASSUME NEW n \in Len(handed) + 1 .. Len(accepted')
                 PROVE  data[n] = accepted'[n] /\ next[n] = n + 1
      OBVIOUS
    <3>1. CASE n = tail
      BY <1>1, <1>3, <3>1
    <3>2. CASE n # tail
      <4>1. n \in Len(handed) + 1 .. Len(accepted)
        BY <1>2, <1>3, <3>2
      <4> QED
        BY <1>1, <1>2, <1>3, <4>1 DEF QueueInv, NodesInOrder
    <3> QED
      BY <3>1, <3>2
  <2>2. UNCHANGED <<head, data, next, freed, pop, handed>>
    BY DEF PushTail
  <2>3. head \in 1 .. tail' /\ (pop # Idle => pop.old < tail')
    BY <1>1, <1>2, <1>4 DEF QueueInv, NodesInOrder
  <2> QED
    BY <1>1, <1>2, <1>3, <1>4, <2>1, <2>2, <2>3 DEF QueueInv, NodesInOrder
<1>6. OnePush'
  BY <1>1, <1>4 DEF PushTail, OnePush
<1> QED
  BY <1>5, <1>6

(* The consumer takes the first node in order.                             *)
LEMMA PopKeeps ==
  ASSUME QueueInv, Pop, ~misused'
  PROVE  NodesInOrder' /\ OnePush'
<1>1. ~misused /\ UNCHANGED <<tail, data, next, allocated, push, accepted>>
  BY DEF Pop, PopHead, PopStore, PopTake, list
<1>2. /\ Len(accepted) \in Nat /\ Len(handed) \in Nat /\ tail = Len(accepted) + 1
      /\ head \in 1 .. tail /\ freed = 1 .. Len(handed)
      /\ head = IF pop.at = "take" THEN Len(handed) + 2 ELSE Len(handed) + 1
      /\ pop # Idle => pop.old = Len(handed) + 1 /\ pop.old < tail
      /\ \A n \in Len(handed) + 1 .. Len(accepted) : data[n] = accepted[n] /\ next[n] = n + 1
  BY <1>1, Counts DEF QueueInv, NodesInOrder
<1>3. OnePush'
  BY <1>1 DEF QueueInv, OnePush
<1>4. CASE PopHead
  <2>1. pop.at # "take" /\ pop'.at = "head" /\ pop'.old = head
    BY <1>4 DEF PopHead, Idle
  <2>2. UNCHANGED <<head, freed, handed>> /\ head # tail
    BY <1>4 DEF PopHead, list
  <2> QED
    BY <1>1, <1>2, <1>3, <2>1, <2>2 DEF NodesInOrder
<1>5. CASE PopStore
  <2>1. pop # Idle /\ pop.at = "head" /\ pop'.at = "take" /\ pop'.old = pop.old
    BY <1>5, PopFields DEF PopStore, QueueInv, QueueTypeOK, Pops, Idle
  <2>2. UNCHANGED <<freed, handed>> /\ head' = next[pop.old]
    BY <1>5 DEF PopStore
  <2>3. head' = Len(handed) + 2
    BY <1>2, <2>1, <2>2
  <2> QED
    BY <1>1, <1>2, <1>3, <2>1, <2>2, <2>3 DEF NodesInOrder
<1>6. CASE PopTake
  <2>1. pop # Idle /\ pop.at = "take" /\ pop' = Idle /\ pop'.at = "idle"
    BY <1>6, PopFields DEF PopTake, QueueInv, Idle
  <2>2. UNCHANGED head /\ freed' = freed \cup {pop.old} /\ Len(handed') = Len(handed) + 1
    BY <1>6, <1>2, <2>1 DEF PopTake, QueueInv, QueueTypeOK
  <2>3. freed' = 1 .. Len(handed')
    BY <1>2, <2>1, <2>2
  <2> QED
    BY <1>1, <1>2, <1>3, <2>1, <2>2, <2>3 DEF NodesInOrder
<1> QED
  BY <1>4, <1>5, <1>6 DEF Pop

(* A step keeps the invariant.                                             *)
LEMMA QueueSteps == QueueInv /\ [QueueNext]_queueVars => QueueInv'
<1> SUFFICES ASSUME QueueInv, [QueueNext]_queueVars PROVE QueueInv'
  OBVIOUS
<1>1. QueueTypeOK'
  BY QueueTypes DEF QueueInv
<1>2. CASE misused'
  BY <1>1, <1>2 DEF QueueInv, NodesInOrder, OnePush
<1>3. CASE ~misused'
  <2>1. CASE UNCHANGED queueVars
    BY <1>1, <2>1 DEF queueVars, list, channel, QueueInv, NodesInOrder, OnePush
  <2>2. CASE QueueNext
    BY <1>1, <1>3, <2>2, BeginKeeps, FillKeeps, TailKeeps, PopKeeps DEF QueueNext, Push, QueueInv
  <2> QED
    BY <2>1, <2>2
<1> QED
  BY <1>2, <1>3

(* The inductive invariant of the queue.                                   *)
THEOREM QueueInvariant == QueueSpec => []QueueInv
<1> QED
  BY QueueStarts, QueueSteps, PTL DEF QueueSpec

(* The types of the queue, whatever the producers do.                      *)
THEOREM QueueTypeCorrect == QueueSpec => []QueueTypeOK
<1>1. QueueInv => QueueTypeOK
  BY DEF QueueInv
<1> QED
  BY <1>1, QueueInvariant, PTL

(* Nobody touches a deleted node, unless two pushes overlap.               *)
THEOREM NodesAreLive == QueueSpec => []NoUseAfterFree
<1>1. QueueInv => NoUseAfterFree
  <2> SUFFICES ASSUME QueueInv, ~misused PROVE NoUseAfterFree
    BY DEF NoUseAfterFree
  <2>1. tail \in Nodes \ freed
    BY Counts
  <2>2. \A t \in Producers : push[t].at \in {"data", "next"} => push[t].old = tail
    BY DEF QueueInv, OnePush, Idle
  <2>3. pop.at # "idle" => pop.old \in Nodes \ freed
    BY Counts, PopFields, QueueAssumption DEF QueueInv, QueueTypeOK, NodesInOrder, Nodes
  <2>4. head \in Nodes \ freed
    BY Counts, QueueAssumption DEF QueueInv, QueueTypeOK, NodesInOrder, Nodes
  <2> QED
    BY <2>1, <2>2, <2>3, <2>4 DEF NoUseAfterFree, Live
<1> QED
  BY <1>1, QueueInvariant, PTL

(* Every step of the queue is a step of the channel, or none of it.        *)
LEMMA ChannelSteps ==
  QueueInv /\ [QueueNext]_queueVars => [Channel!ChannelNext]_(Channel!channel)
<1> SUFFICES ASSUME QueueInv, [QueueNext]_queueVars
             PROVE  Channel!ChannelNext \/ UNCHANGED Channel!channel
  OBVIOUS
<1> USE DEF Channel!ChannelNext, Channel!channel
<1>1. CASE misused'
  BY <1>1 DEF Channel!Anything
<1>2. CASE ~misused'
  <2>1. ASSUME NEW t \in Producers, PushTail(t) PROVE Channel!ChannelNext
    <3>1. push[t].message \in Messages
      BY <2>1, PushFields DEF PushTail, QueueInv
    <3> QED
      BY <2>1, <3>1 DEF PushTail, Channel!Accept
  <2>2. CASE PopTake
    <3>1. ~misused /\ pop # Idle
      BY <1>2, <2>2 DEF PopTake, Idle
    <3>2. pop.old = Len(handed) + 1 /\ Len(handed) < Len(accepted)
      BY <3>1, Counts DEF QueueInv, NodesInOrder
    <3>3. data[pop.old] = accepted[Len(handed) + 1]
      BY <3>1, <3>2, Counts DEF QueueInv, NodesInOrder
    <3> QED
      BY <2>2, <3>2, <3>3 DEF PopTake, Channel!Hand
  <2>3. ASSUME NEW t \in Producers, NEW m \in Messages, PushBegin(t, m)
        PROVE  UNCHANGED Channel!channel
    BY <1>2, <2>3 DEF PushBegin, QueueInv, QueueTypeOK
  <2>4. CASE (\E t \in Producers : PushData(t) \/ PushNext(t)) \/ PopHead \/ PopStore
    BY <2>4 DEF PushData, PushNext, PopHead, PopStore
  <2>5. CASE UNCHANGED queueVars
    BY <2>5 DEF queueVars, channel
  <2> QED
    BY <2>1, <2>2, <2>3, <2>4, <2>5 DEF QueueNext, Push, Pop
<1> QED
  BY <1>1, <1>2

(* The queue implements the channel: what is pushed is popped once, in     *)
(* order, until two pushes overlap.                                        *)
THEOREM QueueKeepsPromise == QueueSpec => KeepsPromise
<1>1. QueueInit => Channel!ChannelInit
  BY DEF QueueInit, Channel!ChannelInit
<1> QED
  BY <1>1, ChannelSteps, QueueInvariant, PTL
  DEF QueueSpec, KeepsPromise, Channel!ChannelSpec
-----------------------------------------------------------------------------
(* Appending to what is still to be posted appends to all timestamps.      *)
LEMMA AppendStamp ==
  ASSUME NEW q \in Seq(Sent), NEW u \in Seq(Sent), NEW e \in Sent
  PROVE  Append(q \o u, e) = q \o Append(u, e)
<1>1. <<e>> \in Seq(Sent) /\ q \o u \in Seq(Sent)
  BY ConcatProperties
<1>2. Append(q \o u, e) = (q \o u) \o <<e>>
  BY <1>1, AppendIsConcat
<1>3. Append(u, e) = u \o <<e>>
  BY AppendIsConcat
<1>4. (q \o u) \o <<e>> = q \o (u \o <<e>>)
  BY <1>1, ConcatAssociative
<1> QED
  BY <1>2, <1>3, <1>4

SenderInv ==
  /\ sending \in Seq(Requests)
  /\ unstamped \in Seq(Sent) /\ errorQueue \in Seq(Sent)
  /\ m_mSequence \in Requests
  /\ reported \in {"none", "own", "another", "now"}
  /\ strayed \in BOOLEAN
  /\ StampsInStep /\ OwnTimestamp

(* Nothing is under way at first.                                          *)
LEMMA SenderStarts == Init => SenderInv
<1> SUFFICES ASSUME Init PROVE SenderInv
  OBVIOUS
<1> USE DEF Init
<1>1. /\ sending \in Seq(Requests) /\ unstamped \in Seq(Sent) /\ errorQueue \in Seq(Sent)
      /\ sending = errorQueue \o unstamped
  OBVIOUS
<1>2. m_mSequence \in Requests
  BY SenderAssumption DEF Requests
<1> QED
  BY <1>1, <1>2 DEF SenderInv, StampsInStep, OwnTimestamp

(* A request, sent or failed, keeps the timestamps in step.                *)
LEMMA RequestKeeps == SenderInv /\ SendDelayRequest => SenderInv'
<1> SUFFICES ASSUME SenderInv, SendDelayRequest PROVE SenderInv'
  OBVIOUS
<1>1. m_mSequence' \in Requests
  BY SenderAssumption DEF SendDelayRequest, NextSequence, SenderInv, Requests
<1>2. UNCHANGED <<errorQueue, reported, strayed>>
  BY DEF SendDelayRequest
<1>3. CASE UNCHANGED <<sending, unstamped>>
  BY <1>1, <1>2, <1>3 DEF SenderInv, StampsInStep, OwnTimestamp
<1>4. CASE sending' = Append(sending, m_mSequence) /\ AwaitStamp(m_mSequence)
  <2>1. sending' \in Seq(Requests) /\ unstamped' \in Seq(Sent)
    BY <1>4 DEF SenderInv, AwaitStamp, Sent
  <2>2. StampsInStep'
    <3> SUFFICES ASSUME TimestampEnabled, ~strayed PROVE sending' = errorQueue \o unstamped'
      BY <1>2 DEF StampsInStep
    <3>1. sending = errorQueue \o unstamped
      BY DEF SenderInv, StampsInStep
    <3>2. unstamped' = Append(unstamped, m_mSequence)
      BY <1>4 DEF AwaitStamp
    <3>3. Append(errorQueue \o unstamped, m_mSequence) = errorQueue \o Append(unstamped, m_mSequence)
      <4>1. errorQueue \in Seq(Sent) /\ unstamped \in Seq(Sent) /\ m_mSequence \in Sent
        BY DEF SenderInv, Sent
      <4> QED
        BY <4>1, AppendStamp
    <3> QED
      BY <1>4, <3>1, <3>2, <3>3
  <2> QED
    BY <1>1, <1>2, <2>1, <2>2 DEF SenderInv, OwnTimestamp
<1> QED
  BY <1>3, <1>4 DEF SendDelayRequest

(* A management message that is sent makes a timestamp stray.              *)
LEMMA ManagementKeeps == SenderInv /\ SendManagementMessage => SenderInv'
<1> SUFFICES ASSUME SenderInv, SendManagementMessage PROVE SenderInv'
  OBVIOUS
<1>1. UNCHANGED <<m_mSequence, sending, errorQueue, reported>>
  BY DEF SendManagementMessage
<1>2. CASE UNCHANGED <<unstamped, strayed>>
  BY <1>1, <1>2 DEF SenderInv, StampsInStep, OwnTimestamp
<1>3. CASE AwaitStamp(Management) /\ strayed' = TRUE
  <2>1. unstamped' \in Seq(Sent)
    BY <1>3 DEF AwaitStamp, SenderInv, Sent
  <2> QED
    BY <1>1, <1>3, <2>1 DEF SenderInv, StampsInStep, OwnTimestamp
<1> QED
  BY <1>2, <1>3 DEF SendManagementMessage

(* The oldest request takes the first timestamp, its own if none strayed.  *)
LEMMA CompletionKeeps == SenderInv /\ Completion => SenderInv'
<1> SUFFICES ASSUME SenderInv, Completion PROVE SenderInv'
  OBVIOUS
<1>1. /\ sending # <<>> /\ sending' = Tail(sending)
      /\ UNCHANGED <<m_mSequence, unstamped>>
  BY DEF Completion
<1>2. sending' \in Seq(Requests)
  BY <1>1 DEF SenderInv
<1>3. CASE ~TimestampEnabled
  BY <1>1, <1>2, <1>3 DEF Completion, Approximate, SenderInv, StampsInStep, OwnTimestamp
<1>4. CASE TimestampEnabled /\ NoTxTimestamp
  BY <1>1, <1>2, <1>4 DEF NoTxTimestamp, SenderInv, StampsInStep, OwnTimestamp
<1>5. CASE TimestampEnabled /\ GetTxTimestamp(Head(sending))
  <2>1. /\ errorQueue # <<>> /\ errorQueue' = Tail(errorQueue) /\ strayed' = strayed
        /\ reported' \in {"own", "another"}
        /\ Head(errorQueue) = Head(sending) => reported' = "own"
    BY <1>5 DEF GetTxTimestamp, Report
  <2>2. errorQueue' \in Seq(Sent)
    BY <2>1 DEF SenderInv
  <2>3. ASSUME ~strayed
        PROVE  Head(errorQueue) = Head(sending) /\ sending' = errorQueue' \o unstamped'
    <3>1. sending = errorQueue \o unstamped
      BY <1>5, <2>3 DEF SenderInv, StampsInStep
    <3>2. /\ errorQueue \in Seq(Sent) /\ unstamped \in Seq(Sent)
          /\ Head(errorQueue \o unstamped) = Head(errorQueue)
          /\ Tail(errorQueue \o unstamped) = Tail(errorQueue) \o unstamped
      BY <2>1, HeadTailProperties, ConcatProperties DEF SenderInv
    <3> QED
      BY <1>1, <2>1, <3>1, <3>2
  <2> QED
    BY <1>1, <1>2, <2>1, <2>2, <2>3 DEF SenderInv, StampsInStep, OwnTimestamp
<1> QED
  BY <1>3, <1>4, <1>5, SenderAssumption DEF Completion

(* A timestamp is posted in its turn, or strays.                           *)
LEMMA PostKeeps == SenderInv /\ PostStamp => SenderInv'
<1> SUFFICES ASSUME SenderInv, PostStamp PROVE SenderInv'
  OBVIOUS
<1>1. /\ unstamped # <<>> /\ unstamped' = Tail(unstamped)
      /\ UNCHANGED <<m_mSequence, sending, reported>>
  BY DEF PostStamp
<1>2. unstamped' \in Seq(Sent) /\ Head(unstamped) \in Sent
  BY <1>1, HeadTailProperties DEF SenderInv
<1>3. CASE strayed' = TRUE /\ UNCHANGED errorQueue
  BY <1>1, <1>2, <1>3 DEF SenderInv, StampsInStep, OwnTimestamp
<1>4. CASE errorQueue' = Append(errorQueue, Head(unstamped)) /\ UNCHANGED strayed
  <2>1. errorQueue' \in Seq(Sent)
    BY <1>2, <1>4 DEF SenderInv
  <2>2. Append(errorQueue, Head(unstamped)) \o Tail(unstamped) = errorQueue \o unstamped
    BY <1>1, <1>2 DEF SenderInv
  <2> QED
    BY <1>1, <1>2, <1>4, <2>1, <2>2 DEF SenderInv, StampsInStep, OwnTimestamp
<1> QED
  BY <1>3, <1>4 DEF PostStamp

(* A step keeps the invariant.                                             *)
LEMMA SenderSteps == SenderInv /\ [Next]_vars => SenderInv'
<1> SUFFICES ASSUME SenderInv, [Next]_vars PROVE SenderInv'
  OBVIOUS
<1>1. ASSUME UNCHANGED socket PROVE SenderInv'
  BY <1>1 DEF socket, SenderInv, StampsInStep, OwnTimestamp
<1>2. CASE Run
  BY <1>1, <1>2, RequestKeeps DEF Run, SendIfMaster
<1>3. CASE DoTimeout
  BY <1>1, <1>3, RequestKeeps DEF DoTimeout, SendIfMaster
<1>4. CASE Drain
  BY <1>4, ManagementKeeps DEF Drain
<1>5. CASE Rearm
  BY <1>1, <1>5 DEF Rearm
<1>6. CASE Completion
  BY <1>6, CompletionKeeps
<1>7. CASE PostStamp
  BY <1>7, PostKeeps
<1>8. CASE Tick
  BY <1>1, <1>8 DEF Tick
<1>9. ASSUME NEW m \in Messages, Send(m) PROVE SenderInv'
  BY <1>1, <1>9 DEF Send
<1>10. ASSUME NEW known \in BOOLEAN, SetMaster(known) PROVE SenderInv'
  BY <1>1, <1>10 DEF SetMaster
<1>11. ASSUME NEW rate \in Rates, AdoptRate(rate) PROVE SenderInv'
  BY <1>1, <1>11 DEF AdoptRate
<1>12. CASE UNCHANGED vars
  BY <1>1, <1>12 DEF vars
<1> QED
  BY <1>2, <1>3, <1>4, <1>5, <1>6, <1>7, <1>8, <1>9, <1>10, <1>11, <1>12 DEF Next, Context

(* The inductive invariant of the Sender and its socket.                   *)
THEOREM SenderInvariant == Spec => []SenderInv
<1> QED
  BY SenderStarts, SenderSteps, PTL DEF Spec

(* A request is reported with its own timestamp until one strays.          *)
THEOREM OwnTimestamps == Spec => []OwnTimestamp
<1>1. SenderInv => OwnTimestamp
  BY DEF SenderInv
<1> QED
  BY <1>1, SenderInvariant, PTL

(* The time since the last request stops at one more than the longest gap. *)
LEMMA SaturatedType == Saturated \in Nat
<1>1. PICK r \in Rates \cup {ConfiguredRate} :
        \A rate \in Rates \cup {ConfiguredRate} : Gap[rate] <= Gap[r]
  BY SenderAssumption
<1>2. Gap[r] \in Gaps /\ \A gap \in Gaps : gap <= Gap[r]
  BY <1>1 DEF Gaps
<1> DEFINE most == CHOOSE longest \in Gaps : \A gap \in Gaps : gap <= longest
<1>3. Saturated = 1 + most /\ most \in Gaps
  <2>1. most \in Gaps
    BY <1>2
  <2> QED
    BY <2>1, Zenon DEF Saturated
<1>4. Gaps \subseteq Nat
  BY SenderAssumption DEF Gaps
<1> HIDE DEF most
<1> QED
  BY <1>3, <1>4

(* A message that is handed over has been accepted.                        *)
LEMMA HandType ==
  ASSUME accepted \in Seq(Messages), handed \in Seq(Messages), Hand
  PROVE  handed' \in Seq(Messages)
<1>1. Len(handed) + 1 \in 1 .. Len(accepted)
  BY DEF Hand
<1>2. accepted[Len(handed) + 1] \in Messages
  BY <1>1, ElementOfSeq
<1> QED
  BY <1>2 DEF Hand

(* The rest of the variables keep their types in a step of the Sender, of  *)
(* the kernel, of the clock, of the application or of the master.          *)
LEMMA TypeSteps ==
  ASSUME TypeOK, SenderInv, [Next]_vars
  PROVE  TypeOK'
<1> USE SaturatedType
<1> DEFINE Others == /\ accepted \in Seq(Messages) /\ handed \in Seq(Messages) /\ misused = FALSE
                     /\ m_pSyncMaster \in BOOLEAN
                     /\ m_delayRequest \in Rates \cup {kNever}
                     /\ since \in 0 .. Saturated \cup {Unset}
                     /\ m_timer \in {"off", "armed", "expired"}
                     /\ context \in {"run", "idle", "drain"}
<1>1. SenderInv'
  BY SenderSteps
<1>2. Others
  BY DEF TypeOK
<1>3. Others' => TypeOK'
  BY <1>1 DEF SenderInv, TypeOK
<1>4. UNCHANGED <<channel, m_pSyncMaster, m_delayRequest>> =>
        /\ accepted' \in Seq(Messages) /\ handed' \in Seq(Messages) /\ misused' = FALSE
        /\ m_pSyncMaster' \in BOOLEAN
        /\ m_delayRequest' \in Rates \cup {kNever}
  BY <1>2 DEF channel
<1>5. since \in 0 .. Saturated \cup {Unset} /\ 0 \in 0 .. Saturated \cup {Unset}
  BY <1>2
<1>6. ASSUME Run PROVE Others'
  BY <1>4, <1>5, <1>6 DEF Run, SendIfMaster, SendDelayRequest
<1>7. ASSUME DoTimeout PROVE Others'
  BY <1>2, <1>4, <1>5, <1>7 DEF DoTimeout, SendIfMaster, SendDelayRequest
<1>8. ASSUME Drain PROVE Others'
  <2>1. handed' \in Seq(Messages)
    BY <1>2, <1>8, HandType DEF Drain
  <2> QED
    BY <1>2, <1>8, <2>1 DEF Drain, Hand, pace
<1>9. ASSUME Rearm PROVE Others'
  BY <1>2, <1>4, <1>9 DEF Rearm
<1>10. ASSUME Completion PROVE Others'
  BY <1>2, <1>4, <1>10 DEF Completion, pace
<1>11. ASSUME PostStamp PROVE Others'
  BY <1>2, <1>4, <1>11 DEF PostStamp, pace
<1>12. ASSUME Tick PROVE Others'
  <2>1. since' \in 0 .. Saturated \cup {Unset}
    BY <1>5, <1>12 DEF Tick
  <2>2. m_timer' \in {"off", "armed", "expired"} /\ context' = context
    BY <1>2, <1>12 DEF Tick
  <2> QED
    BY <1>2, <1>4, <1>12, <2>1, <2>2 DEF Tick
<1>13. ASSUME NEW m \in Messages, Send(m)
       PROVE  Others'
  BY <1>2, <1>13 DEF Send, Accept, pace
<1>14. ASSUME NEW known \in BOOLEAN, SetMaster(known)
       PROVE  Others'
  BY <1>2, <1>14 DEF SetMaster, channel, pace
<1>15. ASSUME NEW rate \in Rates, AdoptRate(rate)
       PROVE  Others'
  BY <1>2, <1>15 DEF AdoptRate, channel
<1>16. ASSUME UNCHANGED vars PROVE Others'
  BY <1>2, <1>16 DEF vars, channel, pace
<1> HIDE DEF Others
<1> QED
  BY <1>3, <1>6, <1>7, <1>8, <1>9, <1>10, <1>11, <1>12, <1>13, <1>14, <1>15, <1>16
  DEF Next, Context

(* Every variable of the Sender keeps its type, and the time since the     *)
(* last request stays within what the model tells apart.                   *)
THEOREM SenderTypes == Spec => []TypeOK
<1>1. Init => TypeOK
  <2> SUFFICES ASSUME Init PROVE TypeOK
    OBVIOUS
  <2>1. SenderInv
    BY SenderStarts
  <2>2. since \in 0 .. Saturated \cup {Unset}
    BY SaturatedType DEF Init
  <2>3. m_delayRequest \in Rates \cup {kNever}
    BY SenderAssumption DEF Init
  <2> QED
    BY <2>1, <2>2, <2>3 DEF Init, ChannelInit, SenderInv, TypeOK
<1> QED
  BY <1>1, TypeSteps, SenderInvariant, PTL DEF Spec
=============================================================================
