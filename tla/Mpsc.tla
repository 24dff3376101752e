-------------------------------- MODULE Mpsc --------------------------------
(***************************************************************************)
(* The intrusive multi-producer single-consumer queue of src/ckit          *)
(* (include/mpsc.h, src/mpsc.c), one atomic access per step.  A push       *)
(* exchanges head and only then links its predecessor to the new node; in  *)
(* between the node, and all that is pushed after it, cannot be reached    *)
(* from tail.  Nodes are reused as soon as their consumer lets go of them. *)
(***************************************************************************)
EXTENDS Naturals, Sequences

CONSTANTS Threads,   \* the threads that push and pop
          Chunks,    \* the nodes
          Stub,      \* the queue's own sentinel node
          Null

ASSUME MpscAssumption ==
  /\ Stub \notin Chunks
  /\ Null \notin Chunks \cup {Stub}
  /\ Null \notin [prev : Chunks \cup {Stub}, node : Chunks \cup {Stub}]

Nodes == Chunks \cup {Stub}

VARIABLES
  head,    \* mpsc->head: the node pushed last
  tail,    \* mpsc->tail: the consumer's end
  next,    \* next[n]: node->next
  link,    \* link[t]: the exchange made by t whose link is still to be stored
  pop,     \* pop[t]: where t is in mpsc_pop, or what it returned
  hand,    \* hand[t]: the node mpsc_pop returned to t, until t lets go of it
  order    \* history: the nodes from tail to head in the order of the exchanges

mvars == <<head, tail, next, link, pop, hand, order>>

Stages == {"idle", "second", "head", "stub", "link", "again", "node", "empty"}

MInit ==
  /\ head = Stub
  /\ tail = Stub
  /\ next = [n \in Nodes |-> Null]
  /\ link = [t \in Threads |-> Null]
  /\ pop = [t \in Threads |-> "idle"]
  /\ hand = [t \in Threads |-> Null]
  /\ order = <<Stub>>

(***************************************************************************)
(* mpsc_push: clear the node's link, exchange head; then link.             *)
(***************************************************************************)
Exchange(t, n) ==
  /\ link[t] = Null
  /\ next' = [next EXCEPT ![n] = Null]
  /\ head' = n
  /\ link' = [link EXCEPT ![t] = [prev |-> head, node |-> n]]
  /\ order' = Append(order, n)

Push(t, n) ==
  /\ pop[t] = "idle"
  /\ Exchange(t, n)
  /\ UNCHANGED <<tail, pop, hand>>

LinkStore(t) ==
  /\ link[t] # Null
  /\ next' = [next EXCEPT ![link[t].prev] = link[t].node]
  /\ link' = [link EXCEPT ![t] = Null]
  /\ UNCHANGED <<head, tail, hand, order>>

(***************************************************************************)
(* mpsc_pop.  Each step makes one load of a shared location and acts on it *)
(* up to the next one.                                                     *)
(***************************************************************************)
(* tail moves to its successor and the old tail is returned.               *)
TakeTail(t) ==
  /\ next[tail] # Null
  /\ tail' = next[tail]
  /\ hand' = [hand EXCEPT ![t] = tail]
  /\ pop' = [pop EXCEPT ![t] = "node"]
  /\ order' = Tail(order)
  /\ UNCHANGED <<head, next, link>>

Goto(t, stage) ==
  /\ pop' = [pop EXCEPT ![t] = stage]
  /\ UNCHANGED <<head, tail, next, link, hand, order>>

PopFirst(t) ==
  /\ pop[t] = "idle" /\ hand[t] = Null
  /\ \/ tail = Stub /\ next[tail] = Null /\ Goto(t, "empty")
     \/ /\ tail = Stub /\ next[tail] # Null
        /\ tail' = next[tail]
        /\ pop' = [pop EXCEPT ![t] = "second"]
        /\ order' = Tail(order)
        /\ UNCHANGED <<head, next, link, hand>>
     \/ tail # Stub /\ TakeTail(t)
     \/ tail # Stub /\ next[tail] = Null /\ Goto(t, "head")

PopSecond(t) ==
  /\ pop[t] = "second"
  /\ TakeTail(t) \/ (next[tail] = Null /\ Goto(t, "head"))

PopHead(t) ==
  /\ pop[t] = "head"
  /\ Goto(t, IF tail # head THEN "empty" ELSE "stub")

(* The queue looks empty but for tail: the stub is pushed behind it, so    *)
(* that tail gets a successor and can be handed out.                       *)
PopStub(t) ==
  /\ pop[t] = "stub"
  /\ Exchange(t, Stub)
  /\ pop' = [pop EXCEPT ![t] = "link"]
  /\ UNCHANGED <<tail, hand>>

PopLink(t) ==
  /\ pop[t] = "link"
  /\ LinkStore(t)
  /\ pop' = [pop EXCEPT ![t] = "again"]

PopAgain(t) ==
  /\ pop[t] = "again"
  /\ TakeTail(t) \/ (next[tail] = Null /\ Goto(t, "empty"))

PopStep(t) ==
  PopFirst(t) \/ PopSecond(t) \/ PopHead(t) \/ PopStub(t) \/ PopLink(t) \/ PopAgain(t)

(***************************************************************************)
(* The caller's side of the contract (mpsc.h): a node stays valid until it *)
(* is popped, so only a node no one else has is pushed; one consumer.      *)
(***************************************************************************)
InQueue == {order[i] : i \in DOMAIN order}
InHand  == {hand[t] : t \in Threads}

PushExchange(t, c) ==
  /\ c \notin InQueue /\ c \notin InHand
  /\ Push(t, c)

PushLink(t) ==
  /\ pop[t] = "idle"
  /\ LinkStore(t)
  /\ UNCHANGED pop

Consume(t) ==
  /\ \A u \in Threads \ {t} : pop[u] = "idle"
  /\ pop[t] = "idle" => link[t] = Null
  /\ PopStep(t)

(* The caller is done with what mpsc_pop returned.                         *)
Finish(t) ==
  /\ pop[t] \in {"node", "empty"}
  /\ pop' = [pop EXCEPT ![t] = "idle"]
  /\ hand' = [hand EXCEPT ![t] = Null]
  /\ UNCHANGED <<head, tail, next, link, order>>

MNext ==
  \E t \in Threads :
    \/ \E c \in Chunks : PushExchange(t, c)
    \/ PushLink(t)
    \/ Consume(t)
    \/ Finish(t)

MSpec == MInit /\ [][MNext]_mvars

(***************************************************************************)
(* What the contract buys.                                                 *)
(***************************************************************************)
(* A stalled producer has yet to write into its predecessor's next: that   *)
(* node must still be in the queue, not handed out, freed or reused        *)
(* (mpsc_pop returns a node only once its successor is linked).            *)
LinksStayInside ==
  \A t \in Threads : link[t] # Null => link[t].prev \in InQueue

Unstubbed(s) ==
  IF \E i \in 1 .. Len(s) : s[i] = Stub
  THEN LET k == CHOOSE i \in 1 .. Len(s) : s[i] = Stub
       IN  SubSeq(s, 1, k - 1) \o SubSeq(s, k + 1, Len(s))
  ELSE s

(* Nodes are delivered once each, in the order of the exchanges, however   *)
(* late their links are stored.                                            *)
F == INSTANCE FifoQueue WITH queue <- Unstubbed(order)
QueueIsFifo == F!Spec
=============================================================================
