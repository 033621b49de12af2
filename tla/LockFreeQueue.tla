--------------------------- MODULE LockFreeQueue ---------------------------
(***************************************************************************)
(* The queue of management messages (include/plock_free_queue.h): a linked *)
(* list from head to tail, whose last node is always empty.  The threads   *)
(* of the application push, the context thread pops.  Every access to a    *)
(* pointer the threads share is a step.  Nodes are numbered in the order   *)
(* they are allocated in and never used again, so a deleted one can be     *)
(* told from the next.                                                     *)
(*                                                                         *)
(* There is no lock, and push was written for one thread at a time, while  *)
(* nothing keeps two threads from calling Send.  A step that would touch a *)
(* deleted node or follow a null pointer is not taken: what it does is     *)
(* undefined.  m_nSize is left out, nobody asks for the size.              *)
(***************************************************************************)
EXTENDS MessageChannel

CONSTANTS
  Producers,     (* the threads that call Send                             *)
  Null,          (* a null pointer                                         *)
  MaxNodes       (* bound of the model: nodes ever allocated               *)

ASSUME QueueAssumption ==
  /\ Null \notin Nat /\ Null \notin Messages
  /\ MaxNodes \in Nat \ {0}

VARIABLES
  head, tail,    (* the first node, and the empty one at the end           *)
  data, next,    (* the message and the successor of a node                *)
  allocated,     (* how many nodes have been allocated                     *)
  freed,         (* the nodes that have been deleted                       *)
  push,          (* where each producer is in push                         *)
  pop            (* where the consumer is in pop                           *)

list == <<head, tail, data, next, allocated, freed>>
queueVars == <<list, push, pop, channel>>

Nodes == 1 .. MaxNodes
Idle == [at |-> "idle"]

Pushes ==
  [at : {"idle"}]
    \cup [at : {"data", "next", "tail"}, message : Messages, old : Nodes \cup {Null}, node : Nodes]

Pops == [at : {"idle"}] \cup [at : {"head", "take"}, old : Nodes \cup {Null}]

\* A node that may be touched.
Live(n) == n \in Nodes \ freed
-----------------------------------------------------------------------------
QueueInit ==
  /\ head = 1 /\ tail = 1
  /\ data = [n \in Nodes |-> Null]
  /\ next = [n \in Nodes |-> Null]
  /\ allocated = 1
  /\ freed = {}
  /\ push = [t \in Producers |-> Idle]
  /\ pop = Idle
  /\ accepted = <<>> /\ handed = <<>>
  /\ misused = FALSE

\* Faulty: the new node is shown before the message is in the old one.
PushBegin_ShownFirst(t, m) ==
  /\ push[t] = Idle
  /\ allocated < MaxNodes
  /\ allocated' = allocated + 1
  /\ next' = [next EXCEPT ![tail] = allocated + 1]
  /\ tail' = allocated + 1
  /\ accepted' = Append(accepted, m)
  /\ push' = [push EXCEPT ![t] =
                [at |-> "data", message |-> m, old |-> tail, node |-> allocated + 1]]
  /\ misused' = (misused \/ \E u \in Producers \ {t} : push[u] # Idle)
  /\ UNCHANGED <<head, data, freed, pop, handed>>

(* push: a copy of the message and a new empty node; then the tail is read.*)
PushBegin(t, m) ==
  /\ push[t] = Idle
  /\ allocated < MaxNodes
  /\ allocated' = allocated + 1
  /\ push' = [push EXCEPT ![t] =
                [at |-> "data", message |-> m, old |-> tail, node |-> allocated + 1]]
  /\ misused' = (misused \/ \E u \in Producers \ {t} : push[u] # Idle)
  /\ UNCHANGED <<head, tail, data, next, freed, pop, accepted, handed>>

(* The message goes into what was the empty node, ...                      *)
PushData(t) ==
  /\ push[t].at = "data"
  /\ Live(push[t].old)
  /\ data' = [data EXCEPT ![push[t].old] = push[t].message]
  /\ push' = [push EXCEPT ![t].at = "next"]
  /\ UNCHANGED <<head, tail, next, allocated, freed, pop, accepted, handed, misused>>

(* ... which the new one follows, ...                                      *)
PushNext(t) ==
  /\ push[t].at = "next"
  /\ Live(push[t].old)
  /\ next' = [next EXCEPT ![push[t].old] = push[t].node]
  /\ push' = [push EXCEPT ![t].at = "tail"]
  /\ UNCHANGED <<head, tail, data, allocated, freed, pop, accepted, handed, misused>>

(* ... and only then the new tail shows both to the consumer.              *)
PushTail(t) ==
  /\ push[t].at = "tail"
  /\ tail' = push[t].node
  /\ push' = [push EXCEPT ![t] = Idle]
  /\ accepted' = Append(accepted, push[t].message)
  /\ UNCHANGED <<head, data, next, allocated, freed, pop, handed, misused>>

Push(t) ==
  \/ \E m \in Messages : PushBegin(t, m)
  \/ PushData(t) \/ PushNext(t) \/ PushTail(t)
-----------------------------------------------------------------------------
(* pop_head: the list is empty when head has reached tail.                 *)
\* Faulty: the list is taken for empty when the first node has no successor.
PopHead_BySuccessor ==
  /\ pop = Idle
  /\ head # Null /\ next[head] # Null
  /\ pop' = [at |-> "head", old |-> head]
  /\ UNCHANGED <<list, push, accepted, handed, misused>>

PopHead ==
  /\ pop = Idle
  /\ head # tail
  /\ pop' = [at |-> "head", old |-> head]
  /\ UNCHANGED <<list, push, accepted, handed, misused>>

PopStore ==
  /\ pop.at = "head"
  /\ Live(pop.old)
  /\ head' = next[pop.old]
  /\ pop' = [pop EXCEPT !.at = "take"]
  /\ UNCHANGED <<tail, data, next, allocated, freed, push, accepted, handed, misused>>

\* Faulty: the node after the one taken is deleted.
PopTake_DeletesNext ==
  /\ pop.at = "take"
  /\ Live(pop.old)
  /\ handed' = Append(handed, data[pop.old])
  /\ freed' = freed \cup {next[pop.old]}
  /\ pop' = Idle
  /\ UNCHANGED <<head, tail, data, next, allocated, push, accepted, misused>>

(* pop: the message is taken out of the node, and the node deleted.        *)
PopTake ==
  /\ pop.at = "take"
  /\ Live(pop.old)
  /\ handed' = Append(handed, data[pop.old])
  /\ freed' = freed \cup {pop.old}
  /\ pop' = Idle
  /\ UNCHANGED <<head, tail, data, next, allocated, push, accepted, misused>>

Pop == PopHead \/ PopStore \/ PopTake

QueueNext == (\E t \in Producers : Push(t)) \/ Pop

QueueSpec == QueueInit /\ [][QueueNext]_queueVars
-----------------------------------------------------------------------------
QueueTypeOK ==
  /\ head \in Nodes \cup {Null} /\ tail \in Nodes
  /\ data \in [Nodes -> Messages \cup {Null}]
  /\ next \in [Nodes -> Nodes \cup {Null}]
  /\ allocated \in Nodes
  /\ freed \subseteq Nodes
  /\ push \in [Producers -> Pushes]
  /\ pop \in Pops
  /\ accepted \in Seq(Messages)
  /\ handed \in Seq(Messages \cup {Null})
  /\ misused \in BOOLEAN

(* No thread holds on to a node that has been deleted: the producer writes *)
(* into a node the consumer may be about to reach, and the consumer        *)
(* deletes a node a producer may have just left.  Two pushes that overlap  *)
(* do not have it.                                                         *)
NoUseAfterFree ==
  ~misused =>
    /\ \A t \in Producers : push[t].at \in {"data", "next"} => Live(push[t].old)
    /\ pop.at # "idle" => Live(pop.old)
    /\ Live(head)

(* Without overlapping pushes the nodes are used in the order of their     *)
(* numbers: the n-th message is in node n, linked to node n + 1, from its  *)
(* push until the consumer has taken it.                                   *)
NodesInOrder ==
  ~misused =>
    /\ tail = Len(accepted) + 1
    /\ head \in 1 .. tail
    /\ freed = 1 .. Len(handed)
    /\ head = IF pop.at = "take" THEN Len(handed) + 2 ELSE Len(handed) + 1
    /\ pop # Idle => pop.old = Len(handed) + 1 /\ pop.old < tail
    /\ \A n \in Len(handed) + 1 .. Len(accepted) :
         data[n] = accepted[n] /\ next[n] = n + 1

(* The push under way, if any, fills the last node of the list.            *)
OnePush ==
  ~misused =>
    /\ allocated = tail \/ \E t \in Producers : push[t] # Idle
    /\ \A t \in Producers : push[t] # Idle =>
         /\ \A u \in Producers \ {t} : push[u] = Idle
         /\ push[t].old = tail
         /\ push[t].node = tail + 1 /\ allocated = tail + 1
         /\ push[t].at \in {"next", "tail"} => data[tail] = push[t].message
         /\ push[t].at = "tail" => next[tail] = tail + 1

QueueInv == QueueTypeOK /\ NodesInOrder /\ OnePush

\* The channel is seen where a push completes and where pop has its message.
Channel == INSTANCE MessageChannel
             WITH accepted <- accepted, handed <- handed, misused <- misused

(* The queue keeps the promise of the channel.                             *)
KeepsPromise == Channel!ChannelSpec
=============================================================================
