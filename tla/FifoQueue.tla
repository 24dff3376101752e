----------------------------- MODULE FifoQueue -----------------------------
(***************************************************************************)
(* What src/ckit/include/mpsc.h promises of its queue: nodes leave in the  *)
(* order their pushes took effect, one consumer at a time, each node once. *)
(* A pop may come back empty-handed at any time: that is a stuttering step *)
(* here.                                                                   *)
(***************************************************************************)
EXTENDS Naturals, Sequences

CONSTANTS Threads, Chunks, Null

VARIABLES queue,   \* the nodes pushed and not yet popped, oldest first
          hand     \* hand[t]: the node thread t popped and still owns

Queued == {queue[i] : i \in DOMAIN queue}
Held   == {hand[t] : t \in Threads}

Init == queue = <<>> /\ hand = [t \in Threads |-> Null]

(* A push takes a node that is neither queued nor held by a consumer.      *)
Push(c) ==
  /\ c \notin Queued /\ c \notin Held
  /\ queue' = Append(queue, c)
  /\ UNCHANGED hand

Pop(t) ==
  /\ queue # <<>>
  /\ hand[t] = Null
  /\ hand' = [hand EXCEPT ![t] = queue[1]]
  /\ queue' = Tail(queue)

Release(t) ==
  /\ hand[t] # Null
  /\ hand' = [hand EXCEPT ![t] = Null]
  /\ UNCHANGED queue

Next == (\E c \in Chunks : Push(c)) \/ (\E t \in Threads : Pop(t) \/ Release(t))

Spec == Init /\ [][Next]_<<queue, hand>>
=============================================================================
