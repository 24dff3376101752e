--------------------------- MODULE AsyncLogProofs ---------------------------
(***************************************************************************)
(* Theorems about the queue and about the log that uses it, for any        *)
(* threads, chunks, lines and sizes.                                       *)
(***************************************************************************)
EXTENDS AsyncLog, SequenceTheorems, FiniteSetTheorems, TLAPS

-----------------------------------------------------------------------------
(* The queue.  Mpsc implements FifoQueue: nodes come out once each and in  *)
(* the order of the exchanges, although a push that is preempted hides its *)
(* node and all later ones, and although a popped node is reused at once.  *)
(* MInv is inductive; it says that the links, the ones still to be stored  *)
(* included, are the chain that order names.                               *)

MTypeOK ==
  /\ head \in Nodes /\ tail \in Nodes
  /\ next \in [Nodes -> Nodes \cup {Null}]
  /\ link \in [Threads -> [prev : Nodes, node : Nodes] \cup {Null}]
  /\ pop \in [Threads -> Stages]
  /\ hand \in [Threads -> Chunks \cup {Null}]
  /\ order \in Seq(Nodes)

Injective(s) == \A i, j \in 1 .. Len(s) : s[i] = s[j] => i = j

Pending(i) == \E t \in Threads : link[t] = [prev |-> order[i], node |-> order[i + 1]]

\* Each node is linked to the one after it, or a thread has still to store the link.
Chained ==
  /\ Len(order) > 0 /\ order[1] = tail /\ order[Len(order)] = head
  /\ Injective(order)
  /\ next[head] = Null
  /\ \A i \in 1 .. Len(order) - 1 :
       next[order[i]] = order[i + 1] \/ (next[order[i]] = Null /\ Pending(i))

\* A link still to be stored is one of the chain, and of one thread only.
LinksPending ==
  /\ \A t \in Threads : link[t] # Null =>
       \E i \in 1 .. Len(order) - 1 :
         /\ link[t] = [prev |-> order[i], node |-> order[i + 1]]
         /\ next[order[i]] = Null
  /\ \A t, u \in Threads : link[t] # Null /\ link[t] = link[u] => t = u

\* One thread at a time is in mpsc_pop; the stub is pushed only when it is out.
Popping ==
  /\ \A t, u \in Threads : t # u => pop[t] = "idle" \/ pop[u] = "idle"
  /\ \A t \in Threads :
       /\ pop[t] \in {"second", "head", "stub", "link", "again"} => tail # Stub
       /\ pop[t] = "stub" => \A i \in 1 .. Len(order) : order[i] # Stub
       /\ hand[t] # Null => pop[t] = "node"

MInv == MTypeOK /\ Chained /\ LinksPending /\ Popping

-----------------------------------------------------------------------------
(* The sequence without the stub.                                          *)

\* Of a sequence without repetitions the stub is removed where it is.
LEMMA UnstubbedAt ==
  ASSUME NEW s \in Seq(Nodes), Injective(s), NEW k \in 1 .. Len(s), s[k] = Stub
  PROVE  /\ Unstubbed(s) \in Seq(Nodes)
         /\ Len(Unstubbed(s)) = Len(s) - 1
         /\ \A i \in 1 .. Len(s) - 1 : Unstubbed(s)[i] = IF i < k THEN s[i] ELSE s[i + 1]
<1>. DEFINE a == SubSeq(s, 1, k - 1)
            b == SubSeq(s, k + 1, Len(s))
<1>1. (CHOOSE i \in 1 .. Len(s) : s[i] = Stub) = k
  BY DEF Injective
<1>2. Unstubbed(s) = a \o b
  BY <1>1 DEF Unstubbed
<1>3. /\ Len(s) \in Nat
      /\ \A i \in 1 .. Len(s) : s[i] \in Nodes
  BY LenProperties, ElementOfSeq
<1>4. /\ a \in Seq(Nodes) /\ Len(a) = k - 1
      /\ \A i \in 1 .. k - 1 : a[i] = s[i]
  <2>1. 1 \in Int /\ k - 1 \in Int /\ \A i \in 1 .. k - 1 : s[i] \in Nodes
    BY <1>3
  <2>2. /\ SubSeq(s, 1, k - 1) \in Seq(Nodes)
        /\ Len(SubSeq(s, 1, k - 1)) = IF 1 <= k - 1 THEN (k - 1) - 1 + 1 ELSE 0
        /\ \A i \in 1 .. (k - 1) - 1 + 1 : SubSeq(s, 1, k - 1)[i] = s[1 + i - 1]
    BY <2>1, SubSeqProperties
  <2>. QED
    BY <1>3, <2>2
<1>5. /\ b \in Seq(Nodes) /\ Len(b) = Len(s) - k
      /\ \A i \in 1 .. Len(s) - k : b[i] = s[k + i]
  <2>1. k + 1 \in Int /\ Len(s) \in Int /\ \A i \in k + 1 .. Len(s) : s[i] \in Nodes
    BY <1>3
  <2>2. /\ SubSeq(s, k + 1, Len(s)) \in Seq(Nodes)
        /\ Len(SubSeq(s, k + 1, Len(s))) = IF k + 1 <= Len(s) THEN Len(s) - (k + 1) + 1 ELSE 0
        /\ \A i \in 1 .. Len(s) - (k + 1) + 1 : SubSeq(s, k + 1, Len(s))[i] = s[(k + 1) + i - 1]
    BY <2>1, SubSeqProperties
  <2>. QED
    BY <1>3, <2>2
<1>6. /\ a \o b \in Seq(Nodes)
      /\ Len(a \o b) = Len(a) + Len(b)
      /\ \A i \in 1 .. Len(a) + Len(b) : (a \o b)[i] = IF i <= Len(a) THEN a[i] ELSE b[i - Len(a)]
  BY <1>4, <1>5, ConcatProperties
<1>. HIDE DEF a, b
<1>7. Len(a) + Len(b) = Len(s) - 1
  BY <1>3, <1>4, <1>5
<1>8. ASSUME NEW i \in 1 .. Len(s) - 1
      PROVE  (a \o b)[i] = IF i < k THEN s[i] ELSE s[i + 1]
  <2>1. (a \o b)[i] = IF i <= Len(a) THEN a[i] ELSE b[i - Len(a)]
    BY <1>6, <1>7
  <2>2. CASE i < k
    <3>1. i \in 1 .. k - 1
      BY <1>3, <2>2
    <3>. QED
      BY <1>4, <2>1, <2>2, <3>1
  <2>3. CASE ~(i < k)
    <3>1. i - Len(a) \in 1 .. Len(s) - k /\ k + (i - Len(a)) = i + 1 /\ ~(i <= Len(a))
      BY <1>3, <1>4, <2>3
    <3>. QED
      BY <1>5, <2>1, <2>3, <3>1
  <2>. QED
    BY <2>2, <2>3
<1>. QED
  BY <1>2, <1>6, <1>7, <1>8

LEMMA UnstubbedSame ==
  ASSUME NEW s \in Seq(Nodes), \A i \in 1 .. Len(s) : s[i] # Stub
  PROVE  Unstubbed(s) = s
BY DEF Unstubbed

LEMMA UnstubbedIn ==
  ASSUME NEW s \in Seq(Nodes), Injective(s)
  PROVE  /\ Unstubbed(s) \in Seq(Nodes)
         /\ \A i \in 1 .. Len(Unstubbed(s)) : \E j \in 1 .. Len(s) : Unstubbed(s)[i] = s[j]
<1>1. Len(s) \in Nat
  BY LenProperties
<1>2. CASE \E k \in 1 .. Len(s) : s[k] = Stub
  <2>1. PICK k \in 1 .. Len(s) : s[k] = Stub
    BY <1>2
  <2>2. /\ Unstubbed(s) \in Seq(Nodes)
        /\ Len(Unstubbed(s)) = Len(s) - 1
        /\ \A i \in 1 .. Len(s) - 1 : Unstubbed(s)[i] = IF i < k THEN s[i] ELSE s[i + 1]
    BY <2>1, UnstubbedAt
  <2>. QED
    BY <1>1, <2>1, <2>2
<1>3. CASE ~ \E k \in 1 .. Len(s) : s[k] = Stub
  BY <1>3, UnstubbedSame
<1>. QED
  BY <1>2, <1>3

\* To append a chunk appends it, to append the stub changes nothing.
LEMMA UnstubbedPush ==
  ASSUME NEW s \in Seq(Nodes), NEW c \in Chunks, Injective(Append(s, c)), MpscAssumption
  PROVE  Unstubbed(Append(s, c)) = Append(Unstubbed(s), c)
<1>. DEFINE v == Append(s, c)
<1>1. c \in Nodes /\ c # Stub
  BY DEF Nodes, MpscAssumption
<1>2. /\ v \in Seq(Nodes) /\ Len(v) = Len(s) + 1 /\ Len(s) \in Nat
      /\ \A i \in 1 .. Len(s) : v[i] = s[i]
      /\ v[Len(s) + 1] = c
  BY <1>1, AppendProperties, LenProperties
<1>. HIDE DEF v
<1>3. Injective(s) /\ Injective(v)
  BY <1>2 DEF Injective, v
<1>4. CASE \E k \in 1 .. Len(s) : s[k] = Stub
  <2>1. PICK k \in 1 .. Len(s) : s[k] = Stub
    BY <1>4
  <2>2. /\ Unstubbed(s) \in Seq(Nodes)
        /\ Len(Unstubbed(s)) = Len(s) - 1
        /\ \A i \in 1 .. Len(s) - 1 : Unstubbed(s)[i] = IF i < k THEN s[i] ELSE s[i + 1]
    BY <1>3, <2>1, UnstubbedAt
  <2>3. k \in 1 .. Len(v) /\ v[k] = Stub
    BY <1>2, <2>1
  <2>4. /\ Unstubbed(v) \in Seq(Nodes)
        /\ Len(Unstubbed(v)) = Len(v) - 1
        /\ \A i \in 1 .. Len(v) - 1 : Unstubbed(v)[i] = IF i < k THEN v[i] ELSE v[i + 1]
    BY <1>2, <1>3, <2>3, UnstubbedAt
  <2>5. /\ Append(Unstubbed(s), c) \in Seq(Nodes)
        /\ Len(Append(Unstubbed(s), c)) = Len(s)
        /\ \A i \in 1 .. Len(s) - 1 : Append(Unstubbed(s), c)[i] = Unstubbed(s)[i]
        /\ Append(Unstubbed(s), c)[Len(s)] = c
    BY <1>1, <1>2, <2>2, AppendProperties
  <2>6. ASSUME NEW i \in 1 .. Len(s)
        PROVE  Unstubbed(v)[i] = Append(Unstubbed(s), c)[i]
    BY <1>2, <2>2, <2>4, <2>5
  <2>. QED
    BY <1>2, <2>4, <2>5, <2>6, SeqEqual DEF v
<1>5. CASE ~ \E k \in 1 .. Len(s) : s[k] = Stub
  <2>1. \A i \in 1 .. Len(v) : v[i] # Stub
    BY <1>1, <1>2, <1>5
  <2>2. Unstubbed(v) = v /\ Unstubbed(s) = s
    BY <1>2, <1>5, <2>1, UnstubbedSame
  <2>. QED
    BY <2>2 DEF v
<1>. QED
  BY <1>4, <1>5

LEMMA UnstubbedStub ==
  ASSUME NEW s \in Seq(Nodes), Injective(Append(s, Stub))
  PROVE  Unstubbed(Append(s, Stub)) = Unstubbed(s)
<1>. DEFINE v == Append(s, Stub)
<1>1. /\ v \in Seq(Nodes) /\ Len(v) = Len(s) + 1 /\ Len(s) \in Nat
      /\ \A i \in 1 .. Len(s) : v[i] = s[i]
      /\ v[Len(s) + 1] = Stub
  BY AppendProperties, LenProperties DEF Nodes
<1>. HIDE DEF v
<1>2. \A i \in 1 .. Len(s) : s[i] # Stub
  BY <1>1 DEF Injective, v
<1>3. Injective(v) /\ Len(s) + 1 \in 1 .. Len(v)
  BY <1>1 DEF v
<1>4. /\ Unstubbed(v) \in Seq(Nodes)
      /\ Len(Unstubbed(v)) = Len(v) - 1
      /\ \A i \in 1 .. Len(v) - 1 :
           Unstubbed(v)[i] = IF i < Len(s) + 1 THEN v[i] ELSE v[i + 1]
  BY <1>1, <1>3, UnstubbedAt
<1>5. \A i \in 1 .. Len(s) : Unstubbed(v)[i] = s[i]
  BY <1>1, <1>4
<1>. QED
  BY <1>1, <1>2, <1>4, <1>5, SeqEqual, UnstubbedSame DEF v

\* To drop the first node drops it, unless it is the stub.
LEMMA UnstubbedTail ==
  ASSUME NEW s \in Seq(Nodes), Injective(s), Len(s) > 0
  PROVE  /\ s[1] = Stub => Unstubbed(Tail(s)) = Unstubbed(s)
         /\ s[1] # Stub => /\ Unstubbed(s) # <<>> /\ Unstubbed(s)[1] = s[1]
                           /\ Unstubbed(Tail(s)) = Tail(Unstubbed(s))
<1>. DEFINE v == Tail(s)
            u == Unstubbed(s)
<1>1. s # <<>> /\ Len(s) \in Nat
  BY LenProperties, EmptySeq
<1>2. /\ v \in Seq(Nodes) /\ Len(v) = Len(s) - 1
      /\ \A i \in 1 .. Len(s) - 1 : v[i] = s[i + 1]
  BY <1>1, HeadTailProperties
<1>. HIDE DEF v, u
<1>3. Injective(v)
  BY <1>1, <1>2 DEF Injective
<1>4. CASE s[1] = Stub
  <2>1. \A i \in 1 .. Len(v) : v[i] # Stub
    BY <1>1, <1>2, <1>4 DEF Injective
  <2>2. 1 \in 1 .. Len(s)
    BY <1>1
  <2>3. /\ u \in Seq(Nodes) /\ Len(u) = Len(s) - 1
        /\ \A i \in 1 .. Len(s) - 1 : u[i] = IF i < 1 THEN s[i] ELSE s[i + 1]
    BY <1>4, <2>2, UnstubbedAt DEF u
  <2>4. u = v
    BY <1>1, <1>2, <2>3, SeqEqual
  <2>. QED
    BY <1>2, <1>4, <2>1, <2>4, UnstubbedSame DEF u, v
<1>5. CASE s[1] # Stub /\ \E k \in 1 .. Len(s) : s[k] = Stub
  <2>1. PICK k \in 1 .. Len(s) : s[k] = Stub
    BY <1>5
  <2>2. k > 1 /\ k - 1 \in 1 .. Len(v) /\ v[k - 1] = Stub
    BY <1>1, <1>2, <1>5, <2>1
  <2>3. /\ u \in Seq(Nodes) /\ Len(u) = Len(s) - 1
        /\ \A i \in 1 .. Len(s) - 1 : u[i] = IF i < k THEN s[i] ELSE s[i + 1]
    BY <2>1, UnstubbedAt DEF u
  <2>4. /\ Unstubbed(v) \in Seq(Nodes) /\ Len(Unstubbed(v)) = Len(v) - 1
        /\ \A i \in 1 .. Len(v) - 1 : Unstubbed(v)[i] = IF i < k - 1 THEN v[i] ELSE v[i + 1]
    BY <1>2, <1>3, <2>2, UnstubbedAt
  <2>5. u # <<>> /\ u[1] = s[1]
    <3>1. 1 \in 1 .. Len(s) - 1 /\ 1 < k
      BY <1>1, <2>1, <2>2
    <3>2. u[1] = s[1] /\ Len(u) # 0
      BY <2>3, <3>1
    <3>. QED
      BY <2>3, <3>2, EmptySeq
  <2>6. /\ Tail(u) \in Seq(Nodes) /\ Len(Tail(u)) = Len(u) - 1
        /\ \A i \in 1 .. Len(u) - 1 : Tail(u)[i] = u[i + 1]
    BY <2>3, <2>5, HeadTailProperties
  <2>7. ASSUME NEW i \in 1 .. Len(v) - 1
        PROVE  Unstubbed(v)[i] = Tail(u)[i]
    <3>1. /\ i \in 1 .. Len(u) - 1 /\ i + 1 \in 1 .. Len(s) - 1
          /\ i \in 1 .. Len(s) - 1 /\ (i + 1) + 1 = i + 2
      BY <1>1, <1>2, <2>3
    <3>2. Tail(u)[i] = IF i + 1 < k THEN s[i + 1] ELSE s[i + 2]
      BY <2>3, <2>6, <3>1
    <3>3. v[i] = s[i + 1] /\ v[i + 1] = s[i + 2]
      BY <1>2, <3>1
    <3>4. Unstubbed(v)[i] = IF i < k - 1 THEN v[i] ELSE v[i + 1]
      BY <2>4, <2>7
    <3>5. i < k - 1 <=> i + 1 < k
      BY <2>1, <2>7, <1>1, <1>2
    <3>. QED
      BY <3>2, <3>3, <3>4, <3>5
  <2>8. Unstubbed(v) = Tail(u)
    BY <1>1, <1>2, <2>3, <2>4, <2>6, <2>7, SeqEqual
  <2>. QED
    BY <1>5, <2>5, <2>8 DEF u, v
<1>6. CASE s[1] # Stub /\ ~ \E k \in 1 .. Len(s) : s[k] = Stub
  <2>1. \A i \in 1 .. Len(v) : v[i] # Stub
    BY <1>1, <1>2, <1>6
  <2>2. Unstubbed(v) = v /\ u = s
    BY <1>2, <1>6, <2>1, UnstubbedSame DEF u
  <2>. QED
    BY <1>1, <1>6, <2>2 DEF u, v
<1>. QED
  BY <1>4, <1>5, <1>6

-----------------------------------------------------------------------------
(* The three ways the chain changes.                                       *)

LEMMA RecordNotNull ==
  ASSUME MpscAssumption, NEW a \in Nodes, NEW b \in Nodes
  PROVE  [prev |-> a, node |-> b] # Null /\ [prev |-> a, node |-> b] \in [prev : Nodes, node : Nodes]
BY DEF MpscAssumption, Nodes

LEMMA OrderTyped ==
  ASSUME MTypeOK, Chained
  PROVE  /\ Len(order) \in Nat /\ Len(order) >= 1
         /\ \A i \in 1 .. Len(order) : order[i] \in Nodes
BY LenProperties, ElementOfSeq DEF MTypeOK, Chained

\* The exchange makes the new node the last one, its link still to be stored.
LEMMA ExchangeStep ==
  ASSUME MpscAssumption, MTypeOK, Chained, LinksPending, NEW t \in Threads, NEW n \in Nodes,
         \A i \in 1 .. Len(order) : order[i] # n,
         Exchange(t, n), UNCHANGED tail
  PROVE  /\ Chained' /\ LinksPending'
         /\ head' \in Nodes /\ order' \in Seq(Nodes)
         /\ next' \in [Nodes -> Nodes \cup {Null}]
         /\ link' \in [Threads -> [prev : Nodes, node : Nodes] \cup {Null}]
<1>. DEFINE L == Len(order)
            r == [prev |-> head, node |-> n]
<1>1. L \in Nat /\ L >= 1 /\ \A i \in 1 .. L : order[i] \in Nodes
  BY OrderTyped
<1>2. /\ order' \in Seq(Nodes) /\ Len(order') = L + 1
      /\ \A i \in 1 .. L : order'[i] = order[i]
      /\ order'[L + 1] = n
  BY AppendProperties DEF Exchange, MTypeOK
<1>3. head \in Nodes /\ order[L] = head /\ order[1] = tail /\ next[head] = Null
  BY DEF MTypeOK, Chained
<1>4. r # Null /\ r \in [prev : Nodes, node : Nodes]
  BY <1>3, RecordNotNull
<1>5. /\ link[t] = Null /\ link' = [link EXCEPT ![t] = r]
      /\ next' = [next EXCEPT ![n] = Null] /\ head' = n
  BY DEF Exchange
<1>6. /\ next' \in [Nodes -> Nodes \cup {Null}]
      /\ link' \in [Threads -> [prev : Nodes, node : Nodes] \cup {Null}]
  BY <1>4, <1>5 DEF MTypeOK
<1>7. /\ next'[n] = Null
      /\ \A i \in 1 .. L : next'[order[i]] = next[order[i]]
  BY <1>1, <1>5 DEF MTypeOK
<1>8. link'[t] = r /\ \A u \in Threads \ {t} : link'[u] = link[u]
  BY <1>5 DEF MTypeOK
<1>. HIDE DEF L, r
<1>9. Injective(order)'
  <2>1. Injective(order)
    BY DEF Chained
  <2>2. \A i \in 1 .. L : order[i] # n
    BY DEF L
  <2>3. ASSUME NEW i \in 1 .. L + 1, NEW j \in 1 .. L + 1, order'[i] = order'[j]
        PROVE  i = j
    <3>1. CASE i \in 1 .. L /\ j \in 1 .. L
      BY <1>2, <2>1, <2>3, <3>1 DEF Injective, L
    <3>2. CASE i = L + 1 \/ j = L + 1
      BY <1>1, <1>2, <2>2, <2>3, <3>2
    <3>. QED
      BY <1>1, <3>1, <3>2
  <2>. QED
    BY <1>2, <2>3 DEF Injective
<1>10. ASSUME NEW i \in 1 .. L
       PROVE  next'[order'[i]] = order'[i + 1] \/ (next'[order'[i]] = Null /\ Pending(i)')
  <2>1. CASE i < L
    <3>1. i \in 1 .. L - 1 /\ i + 1 \in 1 .. L /\ i \in 1 .. L
      BY <1>1, <2>1
    <3>2. /\ order'[i] = order[i] /\ order'[i + 1] = order[i + 1]
          /\ next'[order[i]] = next[order[i]]
      BY <1>2, <1>7, <3>1
    <3>3. next[order[i]] = order[i + 1] \/ (next[order[i]] = Null /\ Pending(i))
      BY <3>1 DEF Chained, L
    <3>4. Pending(i) => Pending(i)'
      <4>1. SUFFICES ASSUME NEW u \in Threads, link[u] = [prev |-> order[i], node |-> order[i + 1]]
                     PROVE  Pending(i)'
        BY DEF Pending
      <4>2. u # t
        BY <1>1, <1>5, <3>1, <4>1, RecordNotNull
      <4>3. link'[u] = [prev |-> order'[i], node |-> order'[i + 1]]
        BY <1>8, <3>2, <4>1, <4>2
      <4>. QED
        BY <4>3 DEF Pending
    <3>. QED
      BY <3>2, <3>3, <3>4
  <2>2. CASE i = L
    <3>1. order'[i] = head /\ order'[i + 1] = n /\ next'[head] = Null
      BY <1>1, <1>2, <1>3, <1>7, <2>2 DEF L
    <3>2. link'[t] = [prev |-> order'[i], node |-> order'[i + 1]]
      BY <1>8, <3>1 DEF r
    <3>. QED
      BY <3>1, <3>2 DEF Pending
  <2>. QED
    BY <1>1, <2>1, <2>2
<1>11. Chained'
  <2>1. Len(order') > 0 /\ order'[1] = tail' /\ order'[Len(order')] = head' /\ next'[head'] = Null
    BY <1>1, <1>2, <1>3, <1>5, <1>7
  <2>2. Len(order') - 1 = L
    BY <1>1, <1>2
  <2>. QED
    BY <1>9, <1>10, <2>1, <2>2 DEF Chained
<1>12. ASSUME NEW u \in Threads, link'[u] # Null
       PROVE  \E i \in 1 .. L : /\ link'[u] = [prev |-> order'[i], node |-> order'[i + 1]]
                               /\ next'[order'[i]] = Null
  <2>1. CASE u = t
    <3>1. L \in 1 .. L
      BY <1>1
    <3>2. order'[L] = head /\ order'[L + 1] = n /\ next'[order'[L]] = Null
      BY <1>2, <1>3, <1>7, <3>1 DEF L
    <3>3. link'[u] = [prev |-> order'[L], node |-> order'[L + 1]]
      BY <1>8, <2>1, <3>2 DEF r
    <3>. QED
      BY <3>1, <3>2, <3>3
  <2>2. CASE u # t
    <3>1. PICK i \in 1 .. L - 1 : /\ link[u] = [prev |-> order[i], node |-> order[i + 1]]
                                  /\ next[order[i]] = Null
      BY <1>8, <1>12, <2>2 DEF LinksPending, L
    <3>2. i \in 1 .. L /\ i + 1 \in 1 .. L
      BY <1>1
    <3>3. order'[i] = order[i] /\ order'[i + 1] = order[i + 1] /\ next'[order[i]] = Null
      BY <1>2, <1>7, <3>1, <3>2
    <3>. QED
      BY <1>8, <2>2, <3>1, <3>2, <3>3
  <2>. QED
    BY <2>1, <2>2
<1>13. ASSUME NEW u \in Threads, link'[u] = r
       PROVE  u = t
  <2>1. SUFFICES ASSUME u # t PROVE FALSE
    OBVIOUS
  <2>2. link[u] = r /\ link[u] # Null
    BY <1>4, <1>8, <1>13, <2>1
  <2>3. PICK i \in 1 .. L - 1 : link[u] = [prev |-> order[i], node |-> order[i + 1]]
    BY <2>2 DEF LinksPending, L
  <2>4. order[i] = order[L]
    BY <1>3, <2>2, <2>3 DEF r, L
  <2>. QED
    BY <1>1, <2>4 DEF Chained, Injective, L
<1>14. LinksPending'
  <2>1. Len(order') - 1 = L
    BY <1>1, <1>2
  <2>2. ASSUME NEW u \in Threads, NEW v \in Threads, link'[u] # Null, link'[u] = link'[v]
        PROVE  u = v
    BY <1>8, <1>13, <2>2 DEF LinksPending
  <2>. QED
    BY <1>12, <2>1, <2>2 DEF LinksPending
<1>. QED
  BY <1>2, <1>5, <1>6, <1>11, <1>14

\* The store of a link makes it a link of the chain.
LEMMA LinkStoreStep ==
  ASSUME MpscAssumption, MTypeOK, Chained, LinksPending, NEW t \in Threads,
         LinkStore(t)
  PROVE  /\ Chained' /\ LinksPending'
         /\ next' \in [Nodes -> Nodes \cup {Null}]
         /\ link' \in [Threads -> [prev : Nodes, node : Nodes] \cup {Null}]
<1>. DEFINE L == Len(order)
<1>1. L \in Nat /\ L >= 1 /\ \A i \in 1 .. L : order[i] \in Nodes
  BY OrderTyped
<1>2. PICK k \in 1 .. L - 1 : /\ link[t] = [prev |-> order[k], node |-> order[k + 1]]
                              /\ next[order[k]] = Null
  BY DEF LinkStore, LinksPending
<1>3. k \in 1 .. L /\ k + 1 \in 1 .. L
  BY <1>1
<1>4. /\ next' = [next EXCEPT ![order[k]] = order[k + 1]]
      /\ link' = [link EXCEPT ![t] = Null]
      /\ UNCHANGED <<head, tail, order>>
  BY <1>2 DEF LinkStore
<1>5. /\ next' \in [Nodes -> Nodes \cup {Null}]
      /\ link' \in [Threads -> [prev : Nodes, node : Nodes] \cup {Null}]
  BY <1>1, <1>3, <1>4 DEF MTypeOK
<1>6. /\ next'[order[k]] = order[k + 1]
      /\ \A i \in 1 .. L : i # k => next'[order[i]] = next[order[i]]
  BY <1>1, <1>3, <1>4 DEF MTypeOK, Chained, Injective
<1>7. link'[t] = Null /\ \A u \in Threads \ {t} : link'[u] = link[u]
  BY <1>4 DEF MTypeOK
<1>8. next'[head] = Null
  <2>1. L \in 1 .. L /\ L # k
    BY <1>1
  <2>. QED
    BY <1>6, <2>1 DEF Chained
<1>9. ASSUME NEW i \in 1 .. L - 1
      PROVE  next'[order[i]] = order[i + 1] \/ (next'[order[i]] = Null /\ Pending(i)')
  <2>1. CASE i = k
    BY <1>6, <2>1
  <2>2. CASE i # k
    <3>1. i \in 1 .. L /\ i + 1 \in 1 .. L
      BY <1>1
    <3>2. next'[order[i]] = next[order[i]] /\ order[i] # order[k]
      BY <1>3, <1>6, <2>2, <3>1 DEF Chained, Injective
    <3>3. ASSUME NEW u \in Threads, link[u] = [prev |-> order[i], node |-> order[i + 1]]
          PROVE  Pending(i)'
      <4>1. u # t
        BY <1>2, <3>2, <3>3
      <4>. QED
        BY <1>4, <1>7, <3>3, <4>1 DEF Pending
    <3>. QED
      BY <3>2, <3>3 DEF Chained, Pending
  <2>. QED
    BY <2>1, <2>2
<1>10. Chained'
  BY <1>4, <1>8, <1>9 DEF Chained, Injective
<1>11. LinksPending'
  <2>1. ASSUME NEW u \in Threads, link'[u] # Null
        PROVE  \E i \in 1 .. Len(order') - 1 :
                 /\ link'[u] = [prev |-> order'[i], node |-> order'[i + 1]]
                 /\ next'[order'[i]] = Null
    <3>1. u # t /\ link'[u] = link[u]
      BY <1>7, <2>1
    <3>2. PICK i \in 1 .. L - 1 : /\ link[u] = [prev |-> order[i], node |-> order[i + 1]]
                                  /\ next[order[i]] = Null
      BY <2>1, <3>1 DEF LinksPending
    <3>3. i # k
      <4>1. link[t] # Null
        BY DEF LinkStore
      <4>. QED
        BY <1>2, <3>1, <3>2, <4>1 DEF LinksPending
    <3>4. i \in 1 .. L
      BY <1>1
    <3>. QED
      BY <1>4, <1>6, <3>1, <3>2, <3>3, <3>4
  <2>2. ASSUME NEW u \in Threads, NEW v \in Threads, link'[u] # Null, link'[u] = link'[v]
        PROVE  u = v
    BY <1>7, <2>2 DEF LinksPending
  <2>. QED
    BY <2>1, <2>2 DEF LinksPending
<1>. QED
  BY <1>5, <1>10, <1>11

\* tail moves to a successor that is linked: no link into the node it leaves
\* is still to be stored.
LEMMA AdvanceStep ==
  ASSUME MTypeOK, Chained, LinksPending, next[tail] # Null,
         tail' = next[tail], order' = Tail(order), UNCHANGED <<head, next, link>>
  PROVE  /\ Chained' /\ LinksPending'
         /\ tail' \in Nodes /\ order' \in Seq(Nodes) /\ tail' # tail
<1>. DEFINE L == Len(order)
<1>1. L \in Nat /\ L >= 1 /\ \A i \in 1 .. L : order[i] \in Nodes
  BY OrderTyped
<1>2. /\ order[1] = tail /\ order[L] = head /\ next[head] = Null /\ Injective(order)
      /\ order \in Seq(Nodes)
  BY DEF Chained, MTypeOK
<1>3. L >= 2
  BY <1>1, <1>2
<1>4. 1 \in 1 .. L - 1 /\ next[order[1]] = order[2] /\ order[2] = tail'
  <2>1. 1 \in 1 .. L - 1 /\ 1 + 1 = 2
    BY <1>1, <1>3
  <2>2. next[order[1]] = order[1 + 1] \/ next[order[1]] = Null
    BY <2>1 DEF Chained
  <2>. QED
    BY <1>2, <2>1, <2>2
<1>5. order # <<>>
  BY <1>3
<1>6. /\ order' \in Seq(Nodes) /\ Len(order') = L - 1
      /\ \A i \in 1 .. L - 1 : order'[i] = order[i + 1]
  BY <1>2, <1>5, HeadTailProperties
<1>7. Injective(order)'
  BY <1>1, <1>2, <1>6 DEF Injective
<1>8. order'[1] = tail' /\ order'[L - 1] = head
  <2>1. /\ 1 \in 1 .. L - 1 /\ L - 1 \in 1 .. L - 1
        /\ 1 + 1 = 2 /\ (L - 1) + 1 = L
    BY <1>1, <1>3
  <2>2. order'[1] = order[1 + 1] /\ order'[L - 1] = order[(L - 1) + 1]
    BY <1>6, <2>1
  <2>. QED
    BY <1>2, <1>4, <2>1, <2>2
<1>9. ASSUME NEW i \in 1 .. L - 2
      PROVE  next[order'[i]] = order'[i + 1] \/ (next[order'[i]] = Null /\ Pending(i)')
  <2>1. /\ i + 1 \in 1 .. L - 1 /\ i \in 1 .. L - 1
        /\ order'[i] = order[i + 1] /\ order'[i + 1] = order[(i + 1) + 1]
    BY <1>1, <1>6
  <2>2. next[order[i + 1]] = order[(i + 1) + 1] \/ (next[order[i + 1]] = Null /\ Pending(i + 1))
    BY <2>1 DEF Chained
  <2>. QED
    BY <2>1, <2>2 DEF Pending
<1>10. ASSUME NEW u \in Threads, link[u] # Null
       PROVE  \E i \in 1 .. L - 2 : /\ link[u] = [prev |-> order'[i], node |-> order'[i + 1]]
                                    /\ next[order'[i]] = Null
  <2>1. PICK i \in 1 .. L - 1 : /\ link[u] = [prev |-> order[i], node |-> order[i + 1]]
                                /\ next[order[i]] = Null
    BY <1>10 DEF LinksPending
  <2>2. i # 1
    BY <1>2, <2>1
  <2>3. /\ i - 1 \in 1 .. L - 2 /\ order'[i - 1] = order[i] /\ order'[(i - 1) + 1] = order[i + 1]
    BY <1>1, <1>6, <2>1, <2>2
  <2>. QED
    BY <2>1, <2>3
<1>11. Len(order') - 1 = L - 2
  BY <1>1, <1>6
<1>12. Chained'
  BY <1>1, <1>2, <1>3, <1>6, <1>7, <1>8, <1>9, <1>11 DEF Chained
<1>13. LinksPending'
  BY <1>10, <1>11 DEF LinksPending
<1>14. tail' # tail
  <2>1. 1 \in 1 .. L /\ 2 \in 1 .. L /\ 1 # 2
    BY <1>1, <1>3
  <2>. QED
    BY <1>2, <1>4, <2>1 DEF Injective
<1>. QED
  BY <1>1, <1>3, <1>4, <1>6, <1>12, <1>13, <1>14

-----------------------------------------------------------------------------
(* MInv is inductive.                                                      *)

LEMMA InitMInv == ASSUME MpscAssumption, MInit PROVE MInv
<1>1. MTypeOK
  BY DEF MInit, MTypeOK, Nodes, Stages
<1>2. Len(order) = 1 /\ order[1] = Stub
  BY DEF MInit
<1>. QED
  BY <1>1, <1>2 DEF MInit, MInv, Chained, Injective, LinksPending, Popping, Nodes

LEMMA TakeTailStep ==
  ASSUME MpscAssumption, MInv, NEW t \in Threads, TakeTail(t), tail # Stub,
         \A u \in Threads \ {t} : pop[u] = "idle"
  PROVE  MInv'
<1>1. /\ next[tail] # Null /\ tail' = next[tail] /\ order' = Tail(order)
      /\ UNCHANGED <<head, next, link>>
      /\ hand' = [hand EXCEPT ![t] = tail] /\ pop' = [pop EXCEPT ![t] = "node"]
  BY DEF TakeTail
<1>2. Chained' /\ LinksPending' /\ tail' \in Nodes /\ order' \in Seq(Nodes)
  BY <1>1, AdvanceStep DEF MInv
<1>3. MTypeOK'
  BY <1>1, <1>2 DEF MInv, MTypeOK, Stages, Nodes
<1>4. Popping'
  BY <1>1 DEF MInv, MTypeOK, Popping
<1>. QED
  BY <1>2, <1>3, <1>4 DEF MInv

\* A move of the consumer from one stage to another.
LEMMA GotoStep ==
  ASSUME MInv, NEW t \in Threads, NEW stage \in Stages \ {"node"}, Goto(t, stage), hand[t] = Null,
         \A u \in Threads \ {t} : pop[u] = "idle",
         stage \in {"head", "stub"} => tail # Stub,
         stage = "stub" => tail = head, stage \notin {"second", "link", "again"}
  PROVE  MInv'
<1>1. pop' = [pop EXCEPT ![t] = stage] /\ UNCHANGED <<head, tail, next, link, hand, order>>
  BY DEF Goto
<1>2. MTypeOK' /\ Chained' /\ LinksPending'
  BY <1>1 DEF MInv, MTypeOK, Chained, Injective, LinksPending, Pending
<1>3. stage = "stub" => \A i \in 1 .. Len(order) : order[i] # Stub
  <2>1. SUFFICES ASSUME stage = "stub" PROVE Len(order) = 1 /\ order[1] # Stub
    OBVIOUS
  <2>2. Len(order) \in Nat /\ Len(order) >= 1
    BY OrderTyped DEF MInv
  <2>3. order[1] = order[Len(order)] /\ order[1] # Stub
    BY <2>1 DEF MInv, Chained
  <2>4. 1 \in 1 .. Len(order) /\ Len(order) \in 1 .. Len(order)
    BY <2>2
  <2>5. 1 = Len(order)
    BY <2>3, <2>4 DEF MInv, Chained, Injective
  <2>. QED
    BY <2>3, <2>5
<1>4. Popping'
  BY <1>1, <1>3 DEF MInv, MTypeOK, Popping
<1>. QED
  BY <1>2, <1>4 DEF MInv

\* A push: the new node has been nowhere in the chain.
LEMMA PushExchangeInv ==
  ASSUME MpscAssumption, MInv, NEW t \in Threads, NEW c \in Chunks, PushExchange(t, c)
  PROVE  /\ MInv'
         /\ \A i \in 1 .. Len(order) : order[i] # c
         /\ Injective(Append(order, c))
<1>1. c \in Nodes /\ c # Stub
  BY DEF Nodes, MpscAssumption
<1>2. order \in Seq(Nodes) /\ DOMAIN order = 1 .. Len(order) /\ Len(order) \in Nat
  BY LenProperties DEF MInv, MTypeOK
<1>3. \A i \in 1 .. Len(order) : order[i] # c
  BY <1>2 DEF PushExchange, Push, InQueue
<1>4. Exchange(t, c) /\ UNCHANGED <<tail, pop, hand>>
  BY DEF PushExchange, Push
<1>5. /\ Chained' /\ LinksPending'
      /\ head' \in Nodes /\ order' \in Seq(Nodes)
      /\ next' \in [Nodes -> Nodes \cup {Null}]
      /\ link' \in [Threads -> [prev : Nodes, node : Nodes] \cup {Null}]
  BY <1>1, <1>3, <1>4, ExchangeStep DEF MInv
<1>6. MTypeOK'
  BY <1>4, <1>5 DEF MInv, MTypeOK
<1>7. order' = Append(order, c)
  BY <1>4 DEF Exchange
<1>8. /\ Len(order') = Len(order) + 1 /\ order'[Len(order) + 1] = c
      /\ \A i \in 1 .. Len(order) : order'[i] = order[i]
  BY <1>1, <1>2, <1>7, AppendProperties
<1>9. Popping'
  <2>1. ASSUME \A i \in 1 .. Len(order) : order[i] # Stub
        PROVE  \A i \in 1 .. Len(order') : order'[i] # Stub
    BY <1>1, <1>2, <1>8, <2>1
  <2>. QED
    BY <1>4, <2>1 DEF MInv, Popping
<1>. QED
  BY <1>3, <1>5, <1>6, <1>7, <1>9 DEF MInv, Chained

LEMMA PushLinkInv ==
  ASSUME MpscAssumption, MInv, NEW t \in Threads, PushLink(t)
  PROVE  MInv' /\ UNCHANGED <<order, hand>>
<1>1. LinkStore(t) /\ UNCHANGED <<head, tail, pop, hand, order>>
  BY DEF PushLink, LinkStore
<1>2. /\ Chained' /\ LinksPending'
      /\ next' \in [Nodes -> Nodes \cup {Null}]
      /\ link' \in [Threads -> [prev : Nodes, node : Nodes] \cup {Null}]
  BY <1>1, LinkStoreStep DEF MInv
<1>. QED
  BY <1>1, <1>2 DEF MInv, MTypeOK, Popping

LEMMA FinishInv ==
  ASSUME MInv, NEW t \in Threads, Finish(t)
  PROVE  MInv'
<1>1. /\ pop' = [pop EXCEPT ![t] = "idle"] /\ hand' = [hand EXCEPT ![t] = Null]
      /\ UNCHANGED <<head, tail, next, link, order>>
  BY DEF Finish
<1>2. MTypeOK' /\ Popping'
  BY <1>1 DEF MInv, MTypeOK, Popping, Stages
<1>. QED
  BY <1>1, <1>2 DEF MInv, Chained, Injective, LinksPending, Pending

\* The consumer's step keeps the chain; it hands out the first node, drops the
\* stub, appends the stub, or leaves the order alone.
LEMMA ConsumeInv ==
  ASSUME MpscAssumption, MInv, NEW t \in Threads, Consume(t)
  PROVE  /\ MInv'
         /\ \/ tail # Stub /\ hand[t] = Null /\ TakeTail(t)
            \/ tail = Stub /\ order' = Tail(order) /\ UNCHANGED hand
            \/ order' = Append(order, Stub) /\ UNCHANGED hand
            \/ UNCHANGED <<order, hand>>
<1>1. \A u \in Threads \ {t} : pop[u] = "idle"
  BY DEF Consume
<1>2. pop[t] \in {"second", "head", "stub", "link", "again"} => tail # Stub /\ hand[t] = Null
  BY DEF MInv, Popping
<1>3. ASSUME NEW stage \in {"empty", "head"}, Goto(t, stage), hand[t] = Null,
             stage = "head" => tail # Stub
      PROVE  MInv' /\ UNCHANGED <<order, hand>>
  <2>1. stage \in Stages \ {"node"}
    BY DEF Stages
  <2>2. MInv'
    BY <1>1, <1>3, <2>1, GotoStep
  <2>. QED
    BY <1>3, <2>2 DEF Goto
<1>4. CASE PopFirst(t)
  <2>1. hand[t] = Null
    BY <1>4 DEF PopFirst
  <2>2. CASE tail = Stub /\ next[tail] = Null /\ Goto(t, "empty")
    BY <1>3, <2>1, <2>2
  <2>3. CASE /\ tail = Stub /\ next[tail] # Null
             /\ tail' = next[tail]
             /\ pop' = [pop EXCEPT ![t] = "second"]
             /\ order' = Tail(order)
             /\ UNCHANGED <<head, next, link, hand>>
    <3>1. /\ Chained' /\ LinksPending' /\ tail' \in Nodes /\ order' \in Seq(Nodes)
          /\ tail' # Stub
      BY <2>3, AdvanceStep DEF MInv
    <3>2. MTypeOK' /\ Popping'
      BY <1>1, <2>1, <2>3, <3>1 DEF MInv, MTypeOK, Popping, Stages
    <3>. QED
      BY <2>3, <3>1, <3>2 DEF MInv
  <2>4. CASE tail # Stub /\ TakeTail(t)
    BY <1>1, <2>1, <2>4, TakeTailStep
  <2>5. CASE tail # Stub /\ next[tail] = Null /\ Goto(t, "head")
    BY <1>3, <2>1, <2>5
  <2>. QED
    BY <1>4, <2>2, <2>3, <2>4, <2>5 DEF PopFirst
<1>5. CASE PopSecond(t)
  BY <1>1, <1>2, <1>3, <1>5, TakeTailStep DEF PopSecond
<1>6. CASE PopHead(t)
  <2>1. CASE tail # head
    BY <1>2, <1>3, <1>6, <2>1 DEF PopHead
  <2>2. CASE tail = head
    <3>1. Goto(t, "stub") /\ tail # Stub /\ hand[t] = Null /\ "stub" \in Stages \ {"node"}
      BY <1>2, <1>6, <2>2 DEF PopHead, Stages
    <3>2. MInv'
      BY <1>1, <2>2, <3>1, GotoStep
    <3>. QED
      BY <3>1, <3>2 DEF Goto
  <2>. QED
    BY <2>1, <2>2
<1>7. CASE PopStub(t)
  <2>1. /\ Exchange(t, Stub) /\ pop' = [pop EXCEPT ![t] = "link"] /\ UNCHANGED <<tail, hand>>
        /\ \A i \in 1 .. Len(order) : order[i] # Stub
        /\ tail # Stub /\ hand[t] = Null /\ Stub \in Nodes
    BY <1>2, <1>7 DEF PopStub, MInv, Popping, Nodes
  <2>2. /\ Chained' /\ LinksPending'
        /\ head' \in Nodes /\ order' \in Seq(Nodes)
        /\ next' \in [Nodes -> Nodes \cup {Null}]
        /\ link' \in [Threads -> [prev : Nodes, node : Nodes] \cup {Null}]
    BY <2>1, ExchangeStep DEF MInv
  <2>3. MTypeOK' /\ Popping'
    BY <1>1, <2>1, <2>2 DEF MInv, MTypeOK, Popping, Stages
  <2>. QED
    BY <2>1, <2>2, <2>3 DEF MInv, Exchange
<1>8. CASE PopLink(t)
  <2>1. /\ LinkStore(t) /\ pop' = [pop EXCEPT ![t] = "again"]
        /\ UNCHANGED <<head, tail, hand, order>>
        /\ tail # Stub /\ hand[t] = Null
    BY <1>2, <1>8 DEF PopLink, LinkStore
  <2>2. /\ Chained' /\ LinksPending'
        /\ next' \in [Nodes -> Nodes \cup {Null}]
        /\ link' \in [Threads -> [prev : Nodes, node : Nodes] \cup {Null}]
    BY <2>1, LinkStoreStep DEF MInv
  <2>3. MTypeOK' /\ Popping'
    BY <1>1, <2>1, <2>2 DEF MInv, MTypeOK, Popping, Stages
  <2>. QED
    BY <2>1, <2>2, <2>3 DEF MInv
<1>9. CASE PopAgain(t)
  BY <1>1, <1>2, <1>3, <1>9, TakeTailStep DEF PopAgain
<1>. QED
  BY <1>4, <1>5, <1>6, <1>7, <1>8, <1>9 DEF Consume, PopStep

LEMMA NextMInv == ASSUME MpscAssumption, MInv, [MNext]_mvars PROVE MInv'
<1>1. CASE UNCHANGED mvars
  <2>1. UNCHANGED <<head, tail, next, link, pop, hand, order>>
    BY <1>1 DEF mvars
  <2>2. MTypeOK' /\ Popping'
    BY <2>1 DEF MInv, MTypeOK, Popping
  <2>3. Chained' /\ LinksPending'
    BY <2>1 DEF MInv, Chained, Injective, LinksPending, Pending
  <2>. QED
    BY <2>2, <2>3 DEF MInv
<1>2. CASE MNext
  BY <1>2, PushExchangeInv, PushLinkInv, ConsumeInv, FinishInv DEF MNext
<1>. QED
  BY <1>1, <1>2

\* The links, the stored ones and the others, are always the chain of order.
THEOREM ChainInvariant == MSpec => []MInv
BY MpscAssumption, InitMInv, NextMInv, PTL DEF MSpec

\* No producer ever writes into a node that was handed out.
THEOREM LinksInside == MSpec => []LinksStayInside
<1>1. MInv => LinksStayInside
  <2>1. SUFFICES ASSUME MInv, NEW t \in Threads, link[t] # Null
                 PROVE  link[t].prev \in InQueue
    BY DEF LinksStayInside
  <2>2. PICK i \in 1 .. Len(order) - 1 : link[t] = [prev |-> order[i], node |-> order[i + 1]]
    BY <2>1 DEF MInv, LinksPending
  <2>3. DOMAIN order = 1 .. Len(order) /\ Len(order) \in Nat
    BY <2>1, LenProperties DEF MInv, MTypeOK
  <2>4. i \in DOMAIN order
    BY <2>3
  <2>. QED
    BY <2>2, <2>4 DEF InQueue
<1>. QED
  BY <1>1, ChainInvariant, PTL

-----------------------------------------------------------------------------
(* The refinement: each step is a push, a pop or a release of the FIFO, or *)
(* leaves it alone.                                                        *)

LEMMA InitFifo == ASSUME MpscAssumption, MInit PROVE F!Init
<1>1. order \in Seq(Nodes) /\ Len(order) = 1 /\ order[1] = Stub
  BY DEF MInit, Nodes
<1>2. Injective(order) /\ 1 \in 1 .. Len(order)
  BY <1>1 DEF Injective
<1>3. Unstubbed(order) \in Seq(Nodes) /\ Len(Unstubbed(order)) = 0
  BY <1>1, <1>2, UnstubbedAt
<1>4. Unstubbed(order) = <<>>
  BY <1>3, EmptySeq
<1>. QED
  BY <1>4 DEF MInit, F!Init

LEMMA PushFifo ==
  ASSUME MpscAssumption, MInv, NEW t \in Threads, NEW c \in Chunks, PushExchange(t, c)
  PROVE  F!Push(c)
<1>1. /\ \A i \in 1 .. Len(order) : order[i] # c
      /\ Injective(Append(order, c)) /\ Injective(order)
      /\ order \in Seq(Nodes) /\ order' = Append(order, c)
  <2>1. \A i \in 1 .. Len(order) : order[i] # c
    BY PushExchangeInv
  <2>2. Injective(Append(order, c))
    BY PushExchangeInv
  <2>3. Injective(order) /\ order \in Seq(Nodes)
    BY DEF MInv, MTypeOK, Chained
  <2>. QED
    BY <2>1, <2>2, <2>3 DEF PushExchange, Push, Exchange
<1>2. Unstubbed(order') = Append(Unstubbed(order), c)
  BY <1>1, UnstubbedPush
<1>3. c \notin F!Queued
  <2>1. /\ DOMAIN Unstubbed(order) = 1 .. Len(Unstubbed(order))
        /\ \A i \in 1 .. Len(Unstubbed(order)) :
             \E j \in 1 .. Len(order) : Unstubbed(order)[i] = order[j]
    BY <1>1, UnstubbedIn, LenProperties
  <2>. QED
    BY <1>1, <2>1 DEF F!Queued
<1>4. c \notin F!Held /\ UNCHANGED hand
  BY DEF PushExchange, Push, InHand, F!Held
<1>. QED
  BY <1>2, <1>3, <1>4 DEF F!Push

LEMMA ConsumeFifo ==
  ASSUME MpscAssumption, MInv, NEW t \in Threads, Consume(t)
  PROVE  F!Pop(t) \/ UNCHANGED <<Unstubbed(order), hand>>
<1>1. order \in Seq(Nodes) /\ Injective(order) /\ Len(order) > 0 /\ order[1] = tail
  BY DEF MInv, MTypeOK, Chained
<1>2. CASE tail # Stub /\ hand[t] = Null /\ TakeTail(t)
  <2>1. /\ Unstubbed(order) # <<>> /\ Unstubbed(order)[1] = tail
        /\ Unstubbed(order') = Tail(Unstubbed(order))
    BY <1>1, <1>2, UnstubbedTail DEF TakeTail
  <2>. QED
    BY <1>2, <2>1 DEF TakeTail, F!Pop
<1>3. CASE tail = Stub /\ order' = Tail(order) /\ UNCHANGED hand
  BY <1>1, <1>3, UnstubbedTail
<1>4. CASE order' = Append(order, Stub) /\ UNCHANGED hand
  <2>1. Injective(Append(order, Stub))
    BY <1>4, ConsumeInv DEF MInv, Chained
  <2>. QED
    BY <1>1, <1>4, <2>1, UnstubbedStub
<1>5. CASE UNCHANGED <<order, hand>>
  BY <1>5
<1>. QED
  BY <1>2, <1>3, <1>4, <1>5, ConsumeInv

LEMMA FinishFifo ==
  ASSUME NEW t \in Threads, Finish(t), MInv
  PROVE  F!Release(t) \/ UNCHANGED <<Unstubbed(order), hand>>
<1>1. hand' = [hand EXCEPT ![t] = Null] /\ UNCHANGED order
  BY DEF Finish
<1>2. CASE hand[t] = Null
  BY <1>1, <1>2 DEF MInv, MTypeOK
<1>3. CASE hand[t] # Null
  BY <1>1, <1>3 DEF F!Release
<1>. QED
  BY <1>2, <1>3

\* Nodes are delivered once each, in the order of the exchanges.
THEOREM MpscIsFifo == MSpec => QueueIsFifo
<1>1. MInit => F!Init
  BY MpscAssumption, InitFifo
<1>2. MInv /\ [MNext]_mvars => [F!Next]_<<Unstubbed(order), hand>>
  <2>1. SUFFICES ASSUME MInv, MNext \/ UNCHANGED mvars
                 PROVE  F!Next \/ UNCHANGED <<Unstubbed(order), hand>>
    OBVIOUS
  <2>2. ASSUME NEW t \in Threads, NEW c \in Chunks, PushExchange(t, c)
        PROVE  F!Next
    BY MpscAssumption, <2>1, <2>2, PushFifo DEF F!Next
  <2>3. ASSUME NEW t \in Threads, PushLink(t)
        PROVE  UNCHANGED <<Unstubbed(order), hand>>
    BY <2>3 DEF PushLink, LinkStore
  <2>4. ASSUME NEW t \in Threads, Consume(t)
        PROVE  F!Next \/ UNCHANGED <<Unstubbed(order), hand>>
    BY MpscAssumption, <2>1, <2>4, ConsumeFifo DEF F!Next
  <2>5. ASSUME NEW t \in Threads, Finish(t)
        PROVE  F!Next \/ UNCHANGED <<Unstubbed(order), hand>>
    BY <2>1, <2>5, FinishFifo DEF F!Next
  <2>6. CASE UNCHANGED mvars
    BY <2>6 DEF mvars
  <2>. QED
    BY <2>1, <2>2, <2>3, <2>4, <2>5, <2>6 DEF MNext
<1>. QED
  BY <1>1, <1>2, ChainInvariant, PTL DEF MSpec, QueueIsFifo, F!Spec

-----------------------------------------------------------------------------
(* The log.  LogInv is inductive.  Its parts speak of the chunks in the    *)
(* queue and of the records in a chunk as sets.                            *)

Queued  == {c \in Chunks : c \in InQueue}
Linking == {t \in Threads : link[t] # Null}
Content == [c \in Chunks |-> Records(c)]
Out     == buffered \cup durable \cup lost

Collecting(t) == pc[t] \in {"submit", "push", "linktaken"}
Flushing(t)   == pc[t] \in {"submit", "push", "linktaken", "drain", "sync"}

\* The producers whose chunk t has taken.
Behind(t, p) == p < at[t] \/ (p = at[t] /\ pc[t] # "submit")

LogTypeOK ==
  /\ data \in [Chunks -> Seq(Workers \X Nat)]
  /\ before \in [Threads -> SUBSET (Workers \X Nat)]
  /\ overlap \in [Threads -> BOOLEAN] /\ running \in BOOLEAN
  /\ faults \in Nat

\* What a thread has, where it is.
StageOk(t) ==
  /\ pc[t] \in {"lock", "full", "linkfull", "alloc", "append", "dead"} => t \in Workers
  /\ pc[t] \in {"join", "close"} => t = Main
  /\ pc[t] = "done" => t \notin Workers
  /\ ret[t] = "deinit" => t = Main /\ pc[t] \in {"submit", "push", "linktaken", "flush"}
  /\ at[t] >= 1 /\ (~Collecting(t) => at[t] = 1)
  /\ pc[t] \in {"push", "linktaken"} => at[t] \in Workers
  /\ moving[t] # Null <=> pc[t] = "push"
  /\ pop[t] # "idle" => pc[t] = "drain"
  /\ pop[t] = "node" => hand[t] # Null
  /\ t \in Linking => pc[t] \in {"linkfull", "linktaken"} \/ pop[t] = "link"

WriterOk(p) ==
  /\ lock[p] <=> pc[p] \in {"full", "linkfull", "alloc", "append"}
  /\ pc[p] \in {"lock", "full", "linkfull", "alloc", "append"} => left[p] > 0
  /\ pc[p] \in {"linkfull", "alloc"} => chunk[p] = Null
  /\ pc[p] \in {"full", "append"} => chunk[p] # Null
  /\ chunk[p] # Null => Content[chunk[p]] # {}

StagesOk == (\A t \in Threads : StageOk(t)) /\ (\A p \in Workers : WriterOk(p))

\* busy, and in log_deinit the end of all other threads, keep flushes apart.
Alone ==
  /\ \A t \in Threads : Flushing(t) /\ ret[t] # "deinit" => busy
  /\ \A t, u \in Threads : Flushing(t) /\ Flushing(u) => t = u

Stopping ==
  /\ pc[Main] # "idle" => ~running
  /\ ~running => \A p \in Workers : pc[p] = "idle"
  /\ pc[Main] \notin {"idle", "join"} => pc[Flusher] = "done"
  /\ Collecting(Main) => \A p \in Workers : Behind(Main, p) => chunk[p] = Null
  /\ pc[Main] \in {"flush", "drain", "sync", "returned", "close"} =>
       \A p \in Workers : chunk[p] = Null

\* A chunk is in one place: free, with a producer, on its way, queued, or in hand.
ChunkOwned(p) == chunk[p] # Null =>
  /\ chunk[p] \notin free \cup Queued
  /\ \A t \in Threads : chunk[p] # moving[t] /\ chunk[p] # hand[t]
  /\ \A q \in Workers \ {p} : chunk[p] # chunk[q]

MovingOwned(t) == moving[t] # Null =>
  moving[t] \notin free \cup Queued /\ \A u \in Threads : moving[t] # hand[u]

HandOwned(t) == hand[t] # Null => hand[t] \notin free \cup Queued

Placed(c) ==
  \/ c \in free \cup Queued
  \/ \E p \in Workers : chunk[p] = c
  \/ \E t \in Threads : moving[t] = c \/ hand[t] = c

Owned ==
  /\ \A p \in Workers : ChunkOwned(p)
  /\ \A t \in Threads : MovingOwned(t) /\ HandOwned(t)
  /\ Queued \cap free = {}
  /\ \A c \in Chunks : Placed(c)

\* A record is in one place: a chunk in use, the buffer, the system, or lost.
Distinct == \A c \in Chunks : Injective(data[c])

Apart ==
  /\ \A c, d \in Chunks \ free : c # d => Content[c] \cap Content[d] = {}
  /\ \A c \in Chunks \ free : Content[c] \cap Out = {}

Sinks == buffered \cap durable = {} /\ buffered \cap lost = {} /\ durable \cap lost = {}

Accounts == \A r : r \in accepted <=> r \in Out \/ \E c \in Chunks \ free : r \in Content[c]

\* The lines of a worker are counted down.
Counted == \A r \in accepted : r[2] > left[r[1]]

\* What a failure may cost, with the line that a failed file has still to cost.
Charged ==
  /\ IsFiniteSet(buffered) /\ IsFiniteSet(lost)
  /\ Cardinality(buffered) <= file.count
  /\ ~file.open => buffered = {}
  /\ Cardinality(lost) <= (FileCap + 1) * faults
  /\ file.open /\ file.failed => Cardinality(lost) < (FileCap + 1) * faults

\* Where the records are that the flush of t has to cover.
HandedOver(t) ==
  /\ Collecting(t) => \A p \in Workers :
       Behind(t, p) /\ chunk[p] # Null => Content[chunk[p]] \cap before[t] = {}
  /\ pc[t] = "drain" => \A p \in Workers :
       chunk[p] # Null => Content[chunk[p]] \cap before[t] = {}

TakenOut(t) ==
  /\ pc[t] = "sync" /\ ~overlap[t] => before[t] \subseteq Out
  /\ pc[t] = "returned" /\ ret[t] = "ok" /\ ~overlap[t] => before[t] \subseteq durable \cup lost

CoversOk(t) == before[t] \subseteq accepted /\ HandedOver(t) /\ TakenOut(t)

\* A pop that no push overlaps finds every link stored, and what is there to be seen.
Seen(t) ==
  /\ Linking \subseteq IF pop[t] = "link" THEN {t} ELSE {}
  /\ pop[t] \in {"head", "stub"} => Len(order) = 1
  /\ pop[t] \in {"link", "again"} => Len(order) > 1
  /\ pop[t] = "empty" => Queued = {}

PopSees(t) == pop[t] # "idle" /\ ~overlap[t] => Seen(t)

Covered == \A t \in Threads : CoversOk(t) /\ PopSees(t)

LogInv ==
  /\ MInv /\ TypeOK /\ LogTypeOK /\ StagesOk /\ Alone /\ Stopping
  /\ Owned /\ Distinct /\ Apart /\ Sinks /\ Accounts /\ Counted /\ Charged /\ Covered

-----------------------------------------------------------------------------
(* The elements of a sequence.                                             *)

Elements(s) == {s[i] : i \in DOMAIN s}

LEMMA ElementsEmpty ==
  ASSUME NEW S, NEW s \in Seq(S)
  PROVE  Elements(s) \subseteq S /\ (Elements(s) = {} <=> s = << >>)
<1>1. Len(s) \in Nat /\ DOMAIN s = 1 .. Len(s) /\ \A i \in 1 .. Len(s) : s[i] \in S
  BY LenProperties, ElementOfSeq
<1>2. s # << >> => 1 \in 1 .. Len(s)
  BY <1>1, EmptySeq
<1>3. Elements(s) = {s[i] : i \in 1 .. Len(s)}
  BY <1>1 DEF Elements
<1>4. s = << >> => Elements(s) = {}
  BY <1>3, EmptySeq
<1>. QED
  BY <1>1, <1>2, <1>3, <1>4

LEMMA ElementsAppend ==
  ASSUME NEW S, NEW s \in Seq(S), NEW r \in S
  PROVE  /\ Append(s, r) \in Seq(S)
         /\ Elements(Append(s, r)) = Elements(s) \cup {r}
         /\ Injective(s) /\ r \notin Elements(s) => Injective(Append(s, r))
<1>. DEFINE v == Append(s, r)
<1>1. Len(s) \in Nat /\ DOMAIN s = 1 .. Len(s)
  BY LenProperties
<1>2. /\ v \in Seq(S) /\ Len(v) = Len(s) + 1
      /\ \A i \in 1 .. Len(s) : v[i] = s[i]
      /\ v[Len(s) + 1] = r
  BY AppendProperties
<1>3. DOMAIN v = 1 .. Len(s) + 1
  BY <1>2, LenProperties
<1>. HIDE DEF v
<1>4. /\ \A i \in 1 .. Len(s) + 1 : i \in 1 .. Len(s) \/ i = Len(s) + 1
      /\ \A i \in 1 .. Len(s) : i \in 1 .. Len(s) + 1
      /\ Len(s) + 1 \in 1 .. Len(s) + 1
  BY <1>1
<1>5. Elements(v) = Elements(s) \cup {r}
  BY <1>1, <1>2, <1>3, <1>4 DEF Elements
<1>6. ASSUME Injective(s), r \notin Elements(s) PROVE Injective(v)
  <2>1. \A i \in 1 .. Len(s) : v[i] # r
    BY <1>1, <1>2, <1>6 DEF Elements
  <2>2. \A i, j \in 1 .. Len(s) + 1 : v[i] = v[j] => i = j
    BY <1>2, <1>4, <1>6, <2>1, Zenon DEF Injective
  <2>. QED
    BY <1>2, <2>2 DEF Injective
<1>. QED
  BY <1>2, <1>5, <1>6 DEF v

LEMMA ElementsTail ==
  ASSUME NEW S, NEW s \in Seq(S), s # << >>, Injective(s)
  PROVE  /\ Tail(s) \in Seq(S) /\ Injective(Tail(s))
         /\ s[1] \in Elements(s) /\ Elements(Tail(s)) = Elements(s) \ {s[1]}
<1>. DEFINE v == Tail(s)
<1>1. Len(s) \in Nat /\ Len(s) >= 1 /\ DOMAIN s = 1 .. Len(s)
  BY LenProperties, EmptySeq
<1>2. /\ v \in Seq(S) /\ Len(v) = Len(s) - 1
      /\ \A i \in 1 .. Len(s) - 1 : v[i] = s[i + 1]
  BY <1>1, HeadTailProperties
<1>3. DOMAIN v = 1 .. Len(s) - 1
  BY <1>1, <1>2, LenProperties
<1>. HIDE DEF v
<1>4. /\ \A i \in 1 .. Len(s) - 1 : i + 1 \in 1 .. Len(s) /\ i + 1 # 1
      /\ \A i, j \in 1 .. Len(s) - 1 : i + 1 = j + 1 => i = j
      /\ \A i \in 1 .. Len(s) : i # 1 => i - 1 \in 1 .. Len(s) - 1 /\ (i - 1) + 1 = i
      /\ 1 \in 1 .. Len(s)
  BY <1>1
<1>5. Injective(v)
  <2>1. \A i, j \in 1 .. Len(s) - 1 : s[i + 1] = s[j + 1] => i + 1 = j + 1
    BY <1>4, Zenon DEF Injective
  <2>2. ASSUME NEW i \in 1 .. Len(s) - 1, NEW j \in 1 .. Len(s) - 1, v[i] = v[j] PROVE i = j
    <3>1. s[i + 1] = s[j + 1]
      BY <1>2, <2>2
    <3>. QED
      BY <1>4, <2>1, <3>1
  <2>. QED
    BY <1>2, <2>2 DEF Injective
<1>6. ASSUME NEW r PROVE r \in Elements(v) <=> r \in Elements(s) /\ r # s[1]
  <2>1. ASSUME NEW i \in 1 .. Len(s) - 1 PROVE v[i] \in Elements(s) /\ v[i] # s[1]
    <3>1. s[i + 1] # s[1]
      BY <1>4, Zenon DEF Injective
    <3>. QED
      BY <1>1, <1>2, <1>4, <3>1 DEF Elements
  <2>2. ASSUME NEW i \in 1 .. Len(s), s[i] # s[1] PROVE s[i] \in Elements(v)
    <3>1. i # 1
      BY <2>2
    <3>2. i - 1 \in 1 .. Len(s) - 1 /\ v[i - 1] = s[i]
      BY <1>2, <1>4, <3>1
    <3>. QED
      BY <1>3, <3>2 DEF Elements
  <2>. QED
    BY <1>1, <1>3, <2>1, <2>2 DEF Elements
<1>. QED
  BY <1>1, <1>2, <1>4, <1>5, <1>6 DEF v, Elements

-----------------------------------------------------------------------------
(* What the steps of the queue do to the chunks in it and in the hands of  *)
(* the threads, and to the links that are still to be stored.              *)

Still == UNCHANGED <<Queued, Linking, hand, pop, order>>

Pushes(t, c) ==
  /\ pop[t] = "idle" /\ t \notin Linking
  /\ Queued' = Queued \cup {c} /\ Linking' = Linking \cup {t}
  /\ UNCHANGED <<hand, pop>>

Links(t) ==
  /\ pop[t] = "idle" /\ t \in Linking
  /\ Linking' = Linking \ {t}
  /\ UNCHANGED <<Queued, hand, pop>>

Pops(t) ==
  /\ pop[t] \notin {"node", "empty"} /\ pop'[t] # "idle"
  /\ \A u \in Threads \ {t} : pop'[u] = pop[u]
  /\ Linking' \ {t} = Linking \ {t}
  /\ t \in Linking' => pop'[t] = "link"
  /\ \/ /\ pop'[t] = "node" /\ hand[t] = Null
        /\ \E c \in Queued : hand' = [hand EXCEPT ![t] = c] /\ Queued' = Queued \ {c}
     \/ /\ pop'[t] # "node"
        /\ UNCHANGED <<hand, Queued>>

LEMMA QueueStill == UNCHANGED mvars => MInv' = MInv /\ Still
BY DEF mvars, Still, Queued, InQueue, Linking, MInv, MTypeOK, Chained, Injective, LinksPending,
       Pending, Popping

LEMMA QueueDomain ==
  ASSUME MInv
  PROVE  /\ order \in Seq(Nodes) /\ Len(order) \in Nat /\ Len(order) >= 1
         /\ DOMAIN order = 1 .. Len(order)
         /\ InQueue = {order[i] : i \in 1 .. Len(order)}
<1>1. MTypeOK /\ Chained
  BY DEF MInv
<1>2. order \in Seq(Nodes) /\ Len(order) \in Nat /\ Len(order) >= 1
  BY <1>1, OrderTyped DEF MTypeOK
<1>3. DOMAIN order = 1 .. Len(order)
  BY <1>2, LenProperties
<1>. QED
  BY <1>2, <1>3 DEF InQueue

LEMMA PushEffect ==
  ASSUME MpscAssumption, MInv, NEW t \in Threads, NEW c \in Chunks, Push(t, c),
         c \notin Queued, \A u \in Threads : c # hand[u]
  PROVE  MInv' /\ PushExchange(t, c) /\ Pushes(t, c)
<1>1. PushExchange(t, c)
  BY DEF PushExchange, Queued, InHand
<1>2. MInv'
  BY <1>1, PushExchangeInv
<1>3. InQueue' = InQueue \cup {c}
  BY QueueDomain, ElementsAppend DEF Push, Exchange, Nodes, InQueue, Elements
<1>4. link[t] = Null /\ link' = [link EXCEPT ![t] = [prev |-> head, node |-> c]]
  BY DEF Push, Exchange
<1>5. [prev |-> head, node |-> c] # Null
  BY RecordNotNull DEF MInv, MTypeOK, Nodes
<1>6. Linking' = Linking \cup {t} /\ t \notin Linking
  BY <1>4, <1>5 DEF Linking, MInv, MTypeOK
<1>7. Queued' = Queued \cup {c}
  BY <1>3 DEF Queued
<1>. QED
  BY <1>1, <1>2, <1>6, <1>7 DEF Pushes, Push

LEMMA LinkEffect ==
  ASSUME MpscAssumption, MInv, NEW t \in Threads, PushLink(t)
  PROVE  MInv' /\ Links(t)
<1>1. MInv' /\ UNCHANGED <<order, hand>>
  BY PushLinkInv
<1>2. /\ link[t] # Null /\ link' = [link EXCEPT ![t] = Null] /\ UNCHANGED pop
      /\ pop[t] = "idle"
  BY DEF PushLink, LinkStore
<1>3. t \in Linking /\ Linking' = Linking \ {t}
  BY <1>2 DEF Linking, MInv, MTypeOK
<1>. QED
  BY <1>1, <1>2, <1>3 DEF Links, Queued, InQueue

\* A successor that is not linked yet is one whose link some thread has still to store.
LEMMA Unlinked ==
  ASSUME MpscAssumption, MInv, next[tail] = Null
  PROVE  Len(order) = 1 \/ Linking # {}
<1>1. /\ Len(order) \in Nat /\ Len(order) >= 1 /\ order[1] = tail
      /\ \A i \in 1 .. Len(order) : order[i] \in Nodes
  BY OrderTyped DEF MInv, Chained
<1>2. SUFFICES ASSUME Len(order) # 1 PROVE Linking # {}
  OBVIOUS
<1>3. 1 \in 1 .. Len(order) - 1 /\ 1 + 1 = 2 /\ 2 \in 1 .. Len(order) /\ 1 \in 1 .. Len(order)
  <2>1. ASSUME NEW n \in Nat, n >= 1, n # 1
        PROVE  1 \in 1 .. n - 1 /\ 1 + 1 = 2 /\ 2 \in 1 .. n /\ 1 \in 1 .. n
    BY <2>1
  <2>. QED
    BY <1>1, <1>2, <2>1, Zenon
<1>4. next[order[1]] = order[2] \/ Pending(1)
  BY <1>3 DEF MInv, Chained
<1>5. order[2] # Null
  BY <1>1, <1>3 DEF MpscAssumption, Nodes
<1>6. PICK t \in Threads : link[t] = [prev |-> order[1], node |-> order[2]]
  BY <1>1, <1>3, <1>4, <1>5 DEF Pending
<1>7. link[t] # Null
  BY <1>1, <1>3, <1>6, RecordNotNull
<1>. QED
  BY <1>7 DEF Linking

LEMMA OnlyTail ==
  ASSUME MInv
  PROVE  /\ Len(order) = 1 <=> tail = head
         /\ Len(order) = 1 => Queued \subseteq {tail}
<1>1. /\ Len(order) \in Nat /\ Len(order) >= 1 /\ order[1] = tail /\ order[Len(order)] = head
      /\ Injective(order)
  BY OrderTyped DEF MInv, Chained
<1>2. 1 \in 1 .. Len(order) /\ Len(order) \in 1 .. Len(order)
  BY <1>1
<1>3. Len(order) = 1 <=> tail = head
  <2>1. order[1] = order[Len(order)] => 1 = Len(order)
    BY <1>1, <1>2, Zenon DEF Injective
  <2>. QED
    BY <1>1, <2>1
<1>4. ASSUME Len(order) = 1 PROVE Queued \subseteq {tail}
  <2>1. InQueue = {order[i] : i \in 1 .. 1}
    BY <1>4, QueueDomain
  <2>. QED
    BY <1>1, <2>1 DEF Queued
<1>. QED
  BY <1>3, <1>4

LEMMA TakeEffect ==
  ASSUME MpscAssumption, MInv, NEW t \in Threads, TakeTail(t), tail # Stub, hand[t] = Null,
         pop[t] \notin {"node", "empty"}, t \in Linking => pop[t] = "link", pop[t] # "link"
  PROVE  Pops(t)
<1>0. pop \in [Threads -> Stages]
  BY DEF MInv, MTypeOK
<1>1. order \in Seq(Nodes) /\ order[1] = tail /\ order # << >> /\ Injective(order)
  BY QueueDomain, EmptySeq DEF MInv, Chained
<1>2. tail \in InQueue /\ InQueue' = InQueue \ {tail}
  <2>1. order[1] \in Elements(order) /\ Elements(Tail(order)) = Elements(order) \ {order[1]}
    BY <1>1, ElementsTail
  <2>2. InQueue = Elements(order) /\ InQueue' = Elements(Tail(order))
    BY DEF TakeTail, InQueue, Elements
  <2>. QED
    BY <1>1, <2>1, <2>2
<1>3. tail \in Chunks
  BY DEF MInv, MTypeOK, Nodes
<1>6. tail \in Queued /\ Queued' = Queued \ {tail}
  BY <1>2, <1>3 DEF Queued
<1>. QED
  BY <1>0, <1>6 DEF Pops, TakeTail, Linking

LEMMA PopEffect ==
  ASSUME MpscAssumption, MInv, NEW t \in Threads, PopStep(t),
         \A u \in Threads \ {t} : pop[u] = "idle",
         t \in Linking => pop[t] = "link"
  PROVE  /\ MInv' /\ Consume(t)
         /\ Pops(t)
<1>0. pop \in [Threads -> Stages]
  BY DEF MInv, MTypeOK
<1>1. Consume(t)
  BY DEF Consume, Linking
<1>2. MInv'
  BY <1>1, ConsumeInv
<1>3. pop[t] # "idle" /\ pop[t] # "node" => hand[t] = Null
  BY DEF MInv, Popping
<1>4. pop[t] \in {"second", "again"} => tail # Stub
  BY DEF MInv, Popping
<1>. SUFFICES Pops(t)
  BY <1>1, <1>2
<1>5. ASSUME NEW stage \in {"empty", "head", "stub"}, Goto(t, stage),
             pop[t] \in {"idle", "second", "head", "again"}
      PROVE  Pops(t)
  BY <1>0, <1>5 DEF Pops, Goto, Queued, InQueue, Linking
<1>6. ASSUME TakeTail(t), tail # Stub, hand[t] = Null, pop[t] \in {"idle", "second", "again"}
      PROVE  Pops(t)
  BY <1>6, TakeEffect
<1>7. CASE PopFirst(t)
  <2>1. CASE /\ tail = Stub /\ next[tail] # Null
             /\ tail' = next[tail]
             /\ pop' = [pop EXCEPT ![t] = "second"]
             /\ order' = Tail(order)
             /\ UNCHANGED <<head, next, link, hand>>
    <3>1. Queued' = Queued
      <4>1. order \in Seq(Nodes) /\ order[1] = tail /\ order # << >> /\ Injective(order)
        BY QueueDomain, EmptySeq DEF MInv, Chained
      <4>2. Elements(Tail(order)) = Elements(order) \ {order[1]}
        BY <4>1, ElementsTail
      <4>3. InQueue = Elements(order) /\ InQueue' = Elements(Tail(order))
        BY <2>1 DEF InQueue, Elements
      <4>4. InQueue' = InQueue \ {Stub}
        BY <2>1, <4>1, <4>2, <4>3
      <4>. QED
        BY <4>4 DEF Queued, MpscAssumption
    <3>2. Linking' = Linking /\ pop[t] = "idle" /\ hand' = hand
      BY <1>7, <2>1 DEF PopFirst, Linking
    <3>3. pop'[t] = "second" /\ \A u \in Threads \ {t} : pop'[u] = pop[u]
      BY <1>0, <2>1
    <3>. QED
      BY <3>1, <3>2, <3>3 DEF Pops
  <2>2. hand[t] = Null /\ pop[t] = "idle"
    BY <1>7 DEF PopFirst
  <2>. QED
    BY <1>5, <1>6, <1>7, <2>1, <2>2 DEF PopFirst
<1>8. CASE PopSecond(t)
  BY <1>3, <1>4, <1>5, <1>6, <1>8 DEF PopSecond
<1>9. CASE PopHead(t)
  BY <1>5, <1>9 DEF PopHead
<1>10. CASE PopStub(t)
  <2>1. Queued' = Queued
    <3>1. InQueue' = InQueue \cup {Stub}
      BY <1>10, QueueDomain, ElementsAppend DEF PopStub, Exchange, Nodes, InQueue, Elements
    <3>. QED
      BY <3>1 DEF Queued, MpscAssumption
  <2>2. Pops(t)
    <3>1. pop[t] = "stub" /\ pop' = [pop EXCEPT ![t] = "link"] /\ UNCHANGED hand
      BY <1>10 DEF PopStub
    <3>2. link' = [link EXCEPT ![t] = [prev |-> head, node |-> Stub]]
      BY <1>10 DEF PopStub, Exchange
    <3>3. Linking' \ {t} = Linking \ {t}
      BY <3>2 DEF Linking, MInv, MTypeOK
    <3>. QED
      BY <1>0, <2>1, <3>1, <3>3 DEF Pops
  <2>. QED
    BY <2>2
<1>11. CASE PopLink(t)
  <2>1. /\ pop[t] = "link" /\ pop' = [pop EXCEPT ![t] = "again"]
        /\ link' = [link EXCEPT ![t] = Null] /\ UNCHANGED <<order, hand>>
    BY <1>11 DEF PopLink, LinkStore
  <2>2. Linking' = Linking \ {t}
    BY <2>1 DEF Linking, MInv, MTypeOK
  <2>. QED
    BY <1>0, <2>1, <2>2 DEF Pops, Queued, InQueue
<1>12. CASE PopAgain(t)
  BY <1>3, <1>4, <1>5, <1>6, <1>12 DEF PopAgain
<1>. QED
  BY <1>1, <1>2, <1>7, <1>8, <1>9, <1>10, <1>11, <1>12 DEF PopStep

LEMMA SeenStep ==
  ASSUME MpscAssumption, MInv, NEW t \in Threads, PopStep(t), MInv',
         Pops(t),
         IF pop[t] = "idle" THEN Linking = {} ELSE Seen(t)
  PROVE  Seen(t)'
<1>1. /\ pop \in [Threads -> Stages] /\ Len(order) \in Nat /\ order \in Seq(Nodes)
  BY QueueDomain DEF MInv, MTypeOK
<1>2. Linking' \subseteq IF pop'[t] = "link" THEN {t} ELSE {}
  BY <1>1 DEF Pops, Seen
<1>3. next[tail] = Null /\ Linking = {} => Len(order) = 1
  BY Unlinked
<1>4. pop[t] # "link" => Linking = {}
  BY DEF Seen
<1>5. ASSUME NEW stage, Goto(t, stage) PROVE pop'[t] = stage /\ order' = order /\ Queued' = Queued
  BY <1>1, <1>5 DEF Goto, Queued, InQueue
<1>6. TakeTail(t) => pop'[t] = "node"
  BY <1>1 DEF TakeTail
<1>7. CASE PopFirst(t)
  <2>1. CASE tail = Stub /\ next[tail] = Null /\ Goto(t, "empty")
    <3>1. Queued = {}
      BY <1>3, <1>4, <1>7, <2>1, OnlyTail DEF PopFirst, MpscAssumption, Queued
    <3>. QED
      BY <1>2, <1>5, <2>1, <3>1 DEF Seen
  <2>2. CASE pop' = [pop EXCEPT ![t] = "second"]
    BY <1>1, <1>2, <2>2 DEF Seen
  <2>3. CASE next[tail] = Null /\ Goto(t, "head")
    BY <1>2, <1>3, <1>4, <1>5, <1>7, <2>3 DEF Seen, PopFirst
  <2>4. CASE TakeTail(t)
    BY <1>2, <1>6, <2>4 DEF Seen
  <2>. QED
    BY <1>7, <2>1, <2>2, <2>3, <2>4 DEF PopFirst
<1>8. CASE PopSecond(t)
  <2>1. CASE next[tail] = Null /\ Goto(t, "head")
    BY <1>2, <1>3, <1>4, <1>5, <1>8, <2>1 DEF Seen, PopSecond
  <2>. QED
    BY <1>2, <1>6, <1>8, <2>1 DEF Seen, PopSecond
<1>9. CASE PopHead(t)
  <2>1. Len(order) = 1 /\ tail = head
    BY <1>9, OnlyTail DEF Seen, PopHead
  <2>2. Goto(t, "stub")
    BY <1>9, <2>1 DEF PopHead
  <2>. QED
    BY <1>2, <1>5, <2>1, <2>2 DEF Seen
<1>10. CASE PopStub(t)
  <2>1. Len(order') = Len(order) + 1 /\ Len(order) = 1
    BY <1>1, <1>10, AppendProperties DEF PopStub, Exchange, Seen, Nodes
  <2>2. pop'[t] = "link"
    BY <1>1, <1>10 DEF PopStub
  <2>. QED
    BY <1>2, <2>1, <2>2 DEF Seen
<1>11. CASE PopLink(t)
  BY <1>1, <1>2, <1>11 DEF Seen, PopLink, LinkStore
<1>12. CASE PopAgain(t)
  <2>1. next[tail] # Null
    <3>1. Len(order) > 1 /\ Linking = {}
      BY <1>4, <1>12 DEF Seen, PopAgain
    <3>2. Len(order) # 1
      <4>1. \A n \in Nat : n > 1 => n # 1
        OBVIOUS
      <4>. QED
        BY <1>1, <3>1, <4>1, Zenon
    <3>. QED
      BY <1>3, <3>1, <3>2, Zenon
  <2>. QED
    BY <1>2, <1>6, <1>12, <2>1 DEF Seen, PopAgain
<1>. QED
  BY <1>7, <1>8, <1>9, <1>10, <1>11, <1>12 DEF PopStep

-----------------------------------------------------------------------------
(* The steps of the log, with what they do to the queue and to the records *)
(* in the chunks.                                                          *)

Same == UNCHANGED Content

Lets(t) ==
  /\ pop[t] # "idle"
  /\ pop' = [pop EXCEPT ![t] = "idle"] /\ hand' = [hand EXCEPT ![t] = Null]
  /\ UNCHANGED <<Queued, Linking>>

Allocs(p, c) ==
  /\ Unlock(p, "alloc")
  /\ free' = free \ {c} /\ chunk' = [chunk EXCEPT ![p] = c]
  /\ Content' = [Content EXCEPT ![c] = {Record(p)}]
  /\ accepted' = accepted \cup {Record(p)}
  /\ UNCHANGED <<cvars, fvars, svars>>

Appends(p) ==
  /\ Unlock(p, "append")
  /\ Content' = [Content EXCEPT ![chunk[p]] = @ \cup {Record(p)}]
  /\ accepted' = accepted \cup {Record(p)}
  /\ UNCHANGED <<chunk, free, cvars, fvars, svars>>

Takes(t) ==
  /\ at[t] \in Workers /\ ~lock[at[t]] /\ chunk[at[t]] # Null
  /\ Step(t, "submit", "push")
  /\ moving' = [moving EXCEPT ![t] = chunk[at[t]]]
  /\ chunk' = [chunk EXCEPT ![at[t]] = Null]
  /\ UNCHANGED <<left, lock, free, accepted, busy, at, ret, before, overlap, fvars, svars>>

Skips(t) ==
  /\ at[t] \in Workers /\ chunk[at[t]] = Null /\ pc[t] = "submit"
  /\ at' = [at EXCEPT ![t] = at[t] + 1]
  /\ UNCHANGED <<pc, wvars, busy, moving, ret, before, overlap, fvars, svars>>

\* A record leaves the chunk in hand for the file, or is lost with the buffer at worst.
Spills(t) ==
  /\ pc[t] = "drain" /\ pop[t] = "node"
  /\ \E r \in Content[hand[t]] :
       /\ Content' = [Content EXCEPT ![hand[t]] = @ \ {r}]
       /\ Out' = Out \cup {r}
       /\ r \notin Out => Sinks'
  /\ durable \cup lost \subseteq durable' \cup lost'
  /\ ret' = ret \/ ret' = [ret EXCEPT ![t] = "err"]
  /\ UNCHANGED <<pc, left, lock, chunk, free, accepted, busy, at, moving, before, overlap, svars>>

LogStep ==
  \/ \E p \in Workers :
       \/ Still /\ Same /\ (Write(p) \/ Crash(p) \/ LockProducer(p) \/ AllocFails(p))
       \/ Pushes(p, chunk[p]) /\ Same /\ PushFull(p)
       \/ Links(p) /\ Same /\ LinkFull(p)
       \/ Still /\ ((\E c \in free : Allocs(p, c)) \/ Appends(p))
  \/ \E t \in Threads :
       \/ Still /\ Same /\ \/ TakeBusy(t) \/ Busy(t) \/ Takes(t) \/ Skips(t) \/ Submitted(t)
                           \/ Sync(t) \/ Return(t)
       \/ Pushes(t, moving[t]) /\ Same /\ PushTaken(t)
       \/ Links(t) /\ Same /\ LinkTaken(t)
       \/ Pops(t) /\ Same /\ Drain(t)
       \/ Lets(t) /\ Same /\ (Drained(t) \/ FreeChunk(t))
       \/ Still /\ Spills(t)
  \/ Still /\ Same /\ (Tick \/ StopFlusher \/ Deinit \/ Close \/ UNCHANGED vars)

LEMMA ContentOf ==
  ASSUME LogTypeOK
  PROVE  /\ Content \in [Chunks -> SUBSET (Workers \X Nat)]
         /\ \A c \in Chunks : /\ Content[c] = Elements(data[c])
                              /\ Content[c] = {} <=> data[c] = << >>
<1>1. ASSUME NEW c \in Chunks
      PROVE  /\ Content[c] = Elements(data[c]) /\ Elements(data[c]) \subseteq Workers \X Nat
             /\ Elements(data[c]) = {} <=> data[c] = << >>
  <2>1. data[c] \in Seq(Workers \X Nat)
    BY DEF LogTypeOK
  <2>2. Content[c] = Elements(data[c])
    BY DEF Content, Records, Elements
  <2>. QED
    BY <2>1, <2>2, ElementsEmpty
<1>. QED
  BY <1>1 DEF Content

LEMMA SameData == UNCHANGED data => Same
BY DEF Same, Content, Records

LEMMA AllocsEffect ==
  ASSUME LogTypeOK, free \subseteq Chunks, NEW p \in Workers, Alloc(p)
  PROVE  \E c \in free : Allocs(p, c)
<1>1. PICK c \in free : /\ free' = free \ {c} /\ data' = [data EXCEPT ![c] = <<Record(p)>>]
                        /\ chunk' = [chunk EXCEPT ![p] = c]
  BY DEF Alloc
<1>2. Records(c)' = {Record(p)}
  BY <1>1 DEF LogTypeOK, Records
<1>3. ASSUME NEW d \in Chunks, d # c PROVE Records(d)' = Records(d)
  BY <1>1, <1>3 DEF LogTypeOK, Records
<1>4. Content' = [Content EXCEPT ![c] = {Record(p)}]
  BY <1>2, <1>3 DEF Content
<1>. QED
  BY <1>1, <1>4 DEF Alloc, Allocs

LEMMA AppendsEffect ==
  ASSUME LogTypeOK, NEW p \in Workers, AppendRecord(p), chunk[p] \in Chunks, left[p] \in Nat
  PROVE  Appends(p)
<1>1. PICK c \in Chunks : c = chunk[p]
  OBVIOUS
<1>2. data' = [data EXCEPT ![c] = Append(data[c], Record(p))] /\ Record(p) \in Workers \X Nat
  BY <1>1 DEF AppendRecord, Record
<1>3. data[c] \in Seq(Workers \X Nat) /\ data'[c] = Append(data[c], Record(p))
  BY <1>2 DEF LogTypeOK
<1>4. Records(c)' = Records(c) \cup {Record(p)}
  <2>1. Records(c) = Elements(data[c]) /\ Records(c)' = Elements(data'[c])
    BY DEF Records, Elements
  <2>. QED
    BY <1>2, <1>3, <2>1, ElementsAppend
<1>5. ASSUME NEW d \in Chunks, d # c PROVE Records(d)' = Records(d)
  BY <1>2, <1>5 DEF LogTypeOK, Records
<1>6. Content' = [Content EXCEPT ![c] = Content[c] \cup {Record(p)}]
  BY <1>4, <1>5 DEF Content
<1>. QED
  BY <1>1, <1>6 DEF AppendRecord, Appends

\* The record that is next leaves the chunk, which loses nothing else.
LEMMA NextEffect ==
  ASSUME LogTypeOK, Distinct, NEW t \in Threads, hand[t] \in Chunks, NextRecord(t)
  PROVE  /\ data[hand[t]][1] \in Content[hand[t]]
         /\ Content' = [Content EXCEPT ![hand[t]] = Content[hand[t]] \ {data[hand[t]][1]}]
<1>1. PICK c \in Chunks : c = hand[t]
  OBVIOUS
<1>2. /\ data' = [data EXCEPT ![c] = Tail(data[c])] /\ data[c] # << >>
      /\ data[c] \in Seq(Workers \X Nat) /\ Injective(data[c])
  BY <1>1 DEF NextRecord, LogTypeOK, Distinct
<1>3. Records(c) = Elements(data[c]) /\ Records(c)' = Elements(data'[c]) /\ data'[c] = Tail(data[c])
  BY <1>2 DEF Records, Elements, LogTypeOK
<1>4. data[c][1] \in Records(c) /\ Records(c)' = Records(c) \ {data[c][1]}
  BY <1>2, <1>3, ElementsTail
<1>5. ASSUME NEW d \in Chunks, d # c PROVE Records(d)' = Records(d)
  BY <1>2, <1>5 DEF LogTypeOK, Records
<1>6. Content' = [Content EXCEPT ![c] = Content[c] \ {data[c][1]}]
  BY <1>4, <1>5 DEF Content
<1>. QED
  BY <1>1, <1>4, <1>6 DEF Content

LEMMA SpillsEffect ==
  ASSUME LogTypeOK, Distinct, Charged, NEW t \in Threads, hand[t] \in Chunks, Sinks,
         ret \in [Threads -> {"ok", "err", "busy", "deinit"}],
         CloseFails(t) \/ OpenFails(t) \/ WriteFails(t) \/ WriteRecord(t)
  PROVE  Spills(t)
<1>1. NextRecord(t)
  BY DEF CloseFails, OpenFails, WriteFails, WriteRecord
<1>2. PICK r \in Content[hand[t]] :
        /\ r = data[hand[t]][1]
        /\ Content' = [Content EXCEPT ![hand[t]] = Content[hand[t]] \ {r}]
  BY <1>1, NextEffect
<1>3. ~CanWrite /\ ~Full => buffered = {}
  BY DEF Charged, CanWrite
<1>4. Full => ~CanWrite
  BY DEF CanWrite
<1>5. /\ Out' = Out \cup {r} /\ (r \notin Out => Sinks')
      /\ durable \cup lost \subseteq durable' \cup lost'
      /\ ret' = ret \/ ret' = [ret EXCEPT ![t] = "err"]
  <2>1. CASE CloseFails(t)
    BY <1>2, <2>1 DEF CloseFails, DropRecord, Out, Sinks
  <2>2. CASE OpenFails(t)
    BY <1>2, <1>3, <1>4, <2>2 DEF OpenFails, DropRecord, Rotate, Out, Sinks
  <2>3. CASE WriteFails(t)
    BY <1>2, <1>3, <1>4, <2>3 DEF WriteFails, DropRecord, Rotate, Out, Sinks
  <2>4. CASE WriteRecord(t)
    BY <1>2, <1>3, <1>4, <2>4 DEF WriteRecord, Rotate, Out, Sinks
  <2>. QED
    BY <2>1, <2>2, <2>3, <2>4
<1>. QED
  BY <1>1, <1>2, <1>5 DEF NextRecord, Spills

\* Each step is one of these, and keeps the queue within its contract.
LEMMA NextIsLogStep ==
  ASSUME LogInv, Next \/ UNCHANGED vars
  PROVE  MInv' /\ (MNext \/ UNCHANGED mvars) /\ LogStep
<1>. USE MpscAssumption
<1>1. /\ LogTypeOK /\ Distinct /\ Charged /\ Sinks /\ free \subseteq Chunks /\ MInv
      /\ ret \in [Threads -> {"ok", "err", "busy", "deinit"}]
      /\ \A t \in Threads : hand[t] \in Chunks \cup {Null} /\ moving[t] \in Chunks \cup {Null}
      /\ \A p \in Workers : p \in Threads /\ chunk[p] \in Chunks \cup {Null} /\ left[p] \in Nat
      /\ \A t \in Threads : StageOk(t) /\ MovingOwned(t)
      /\ \A p \in Workers : WriterOk(p) /\ ChunkOwned(p)
      /\ Alone
  BY LogAssumption DEF LogInv, TypeOK, StagesOk, Owned, MInv, MTypeOK
<1>2. ASSUME UNCHANGED mvars, UNCHANGED data
      PROVE  MInv' /\ UNCHANGED mvars /\ Still /\ Same
  BY <1>1, <1>2, QueueStill, SameData
<1>3. ASSUME NEW p \in Workers,
             Write(p) \/ Crash(p) \/ LockProducer(p) \/ AllocFails(p)
      PROVE  MInv' /\ (MNext \/ UNCHANGED mvars) /\ LogStep
  <2>1. UNCHANGED mvars /\ UNCHANGED data
    BY <1>3 DEF Write, Crash, LockProducer, AllocFails, wvars
  <2>. QED
    BY <1>2, <1>3, <2>1 DEF LogStep
<1>4. ASSUME NEW p \in Workers, PushFull(p)
      PROVE  MInv' /\ (MNext \/ UNCHANGED mvars) /\ LogStep
  <2>1. PICK c \in Chunks : c = chunk[p]
    BY <1>1, <1>4 DEF PushFull, Step, WriterOk
  <2>2. Push(p, c) /\ c \notin Queued /\ \A u \in Threads : c # hand[u]
    BY <1>1, <1>4, <2>1 DEF PushFull, ChunkOwned
  <2>3. MInv' /\ PushExchange(p, c) /\ Pushes(p, c)
    BY <1>1, <2>2, PushEffect
  <2>4. Same
    BY <1>4, SameData DEF PushFull
  <2>. QED
    BY <1>1, <1>4, <2>1, <2>3, <2>4 DEF LogStep, MNext
<1>5. ASSUME NEW p \in Workers, LinkFull(p)
      PROVE  MInv' /\ (MNext \/ UNCHANGED mvars) /\ LogStep
  <2>1. PushLink(p) /\ UNCHANGED data
    BY <1>5 DEF LinkFull, wvars
  <2>2. MInv' /\ Links(p) /\ Same
    BY <1>1, <2>1, LinkEffect, SameData
  <2>. QED
    BY <1>1, <1>5, <2>1, <2>2 DEF LogStep, MNext
<1>6. ASSUME NEW p \in Workers, Alloc(p) \/ AppendRecord(p)
      PROVE  MInv' /\ (MNext \/ UNCHANGED mvars) /\ LogStep
  <2>1. MInv' /\ UNCHANGED mvars /\ Still
    <3>1. UNCHANGED mvars
      BY <1>6 DEF Alloc, AppendRecord
    <3>. QED
      BY <1>1, <3>1, QueueStill
  <2>2. CASE Alloc(p)
    BY <1>1, <2>1, <2>2, AllocsEffect DEF LogStep
  <2>3. CASE AppendRecord(p)
    <3>1. chunk[p] \in Chunks /\ left[p] \in Nat
      BY <1>1, <2>3 DEF AppendRecord, Unlock, Step, WriterOk
    <3>2. Appends(p)
      BY <1>1, <2>3, <3>1, AppendsEffect
    <3>. QED
      BY <2>1, <3>2 DEF LogStep
  <2>. QED
    BY <1>6, <2>2, <2>3
<1>7. ASSUME NEW t \in Threads,
             TakeBusy(t) \/ Busy(t) \/ Submitted(t) \/ Sync(t) \/ Return(t)
      PROVE  MInv' /\ (MNext \/ UNCHANGED mvars) /\ LogStep
  <2>1. UNCHANGED mvars /\ UNCHANGED data
    BY <1>7 DEF TakeBusy, Busy, Submitted, Sync, Return, wvars
  <2>. QED
    BY <1>2, <1>7, <2>1 DEF LogStep
<1>8. ASSUME NEW t \in Threads, TakeChunk(t)
      PROVE  MInv' /\ (MNext \/ UNCHANGED mvars) /\ LogStep
  <2>1. UNCHANGED mvars /\ UNCHANGED data
    BY <1>8 DEF TakeChunk
  <2>2. at[t] \in Workers
    BY <1>8 DEF TakeChunk
  <2>3. chunk[at[t]] # Null => data[chunk[at[t]]] # << >>
    BY <1>1, <2>2, ContentOf DEF WriterOk
  <2>4. Takes(t) \/ Skips(t)
    BY <1>8, <2>3 DEF TakeChunk, Takes, Skips, wvars
  <2>. QED
    BY <1>2, <2>1, <2>4 DEF LogStep
<1>9. ASSUME NEW t \in Threads, PushTaken(t)
      PROVE  MInv' /\ (MNext \/ UNCHANGED mvars) /\ LogStep
  <2>1. PICK c \in Chunks : c = moving[t]
    BY <1>1, <1>9 DEF PushTaken, Step, StageOk
  <2>2. Push(t, c) /\ c \notin Queued /\ \A u \in Threads : c # hand[u]
    BY <1>1, <1>9, <2>1 DEF PushTaken, MovingOwned
  <2>3. MInv' /\ PushExchange(t, c) /\ Pushes(t, c)
    BY <1>1, <2>2, PushEffect
  <2>4. Same
    BY <1>9, SameData DEF PushTaken, wvars
  <2>. QED
    BY <1>9, <2>1, <2>3, <2>4 DEF LogStep, MNext
<1>10. ASSUME NEW t \in Threads, LinkTaken(t)
       PROVE  MInv' /\ (MNext \/ UNCHANGED mvars) /\ LogStep
  <2>1. PushLink(t) /\ UNCHANGED data
    BY <1>10 DEF LinkTaken, wvars
  <2>2. MInv' /\ Links(t) /\ Same
    BY <1>1, <2>1, LinkEffect, SameData
  <2>. QED
    BY <1>10, <2>1, <2>2 DEF LogStep, MNext
<1>11. ASSUME NEW t \in Threads, Drain(t)
       PROVE  MInv' /\ (MNext \/ UNCHANGED mvars) /\ LogStep
  <2>1. PopStep(t) /\ pc[t] = "drain" /\ UNCHANGED data
    BY <1>11 DEF Drain, wvars
  <2>2. \A u \in Threads \ {t} : pop[u] = "idle"
    BY <1>1, <2>1 DEF StageOk, Alone, Flushing
  <2>3. t \in Linking => pop[t] = "link"
    BY <1>1, <2>1 DEF StageOk
  <2>4. MInv' /\ Consume(t) /\ Pops(t)
    BY <1>1, <2>1, <2>2, <2>3, PopEffect
  <2>. QED
    BY <1>11, <2>1, <2>4, SameData DEF LogStep, MNext
<1>12. ASSUME NEW t \in Threads, Drained(t) \/ FreeChunk(t)
       PROVE  MInv' /\ (MNext \/ UNCHANGED mvars) /\ LogStep
  <2>1. Finish(t) /\ UNCHANGED data
    BY <1>12 DEF Drained, FreeChunk, wvars
  <2>2. MInv' /\ Lets(t)
    BY <1>1, <2>1, FinishInv DEF Finish, Lets, Queued, InQueue, Linking
  <2>. QED
    BY <1>12, <2>1, <2>2, SameData DEF LogStep, MNext
<1>13. ASSUME NEW t \in Threads,
              CloseFails(t) \/ OpenFails(t) \/ WriteFails(t) \/ WriteRecord(t)
       PROVE  MInv' /\ (MNext \/ UNCHANGED mvars) /\ LogStep
  <2>1. NextRecord(t)
    BY <1>13 DEF CloseFails, OpenFails, WriteFails, WriteRecord
  <2>2. hand[t] \in Chunks
    BY <1>1, <2>1 DEF NextRecord, StageOk
  <2>3. Spills(t)
    BY <1>1, <1>13, <2>2, SpillsEffect
  <2>4. MInv' /\ UNCHANGED mvars /\ Still
    BY <1>1, <2>1, QueueStill DEF NextRecord
  <2>. QED
    BY <2>3, <2>4 DEF LogStep
<1>14. ASSUME Tick \/ StopFlusher \/ Deinit \/ Close \/ UNCHANGED vars
       PROVE  MInv' /\ (MNext \/ UNCHANGED mvars) /\ LogStep
  <2>1. UNCHANGED mvars /\ UNCHANGED data
    BY <1>14 DEF Tick, StopFlusher, Deinit, Close, vars, wvars
  <2>. QED
    BY <1>2, <1>14, <2>1 DEF LogStep
<1>15. ASSUME NEW t \in Threads, ThreadStep(t)
       PROVE  MInv' /\ (MNext \/ UNCHANGED mvars) /\ LogStep
  BY <1>3, <1>4, <1>5, <1>6, <1>7, <1>8, <1>9, <1>10, <1>11, <1>12, <1>13, <1>14, <1>15
     DEF ThreadStep, FlushStep, WriteStep
<1>. QED
  BY <1>3, <1>14, <1>15 DEF Next, Finished

-----------------------------------------------------------------------------
(* The invariant is kept, part by part.                                    *)

FunTypes ==
  /\ pc = [t \in Threads |-> pc[t]] /\ at \in [Threads -> Nat]
  /\ ret = [t \in Threads |-> ret[t]] /\ pop = [t \in Threads |-> pop[t]]
  /\ before = [t \in Threads |-> before[t]] /\ overlap \in [Threads -> BOOLEAN]
  /\ moving \in [Threads -> Chunks \cup {Null}] /\ hand \in [Threads -> Chunks \cup {Null}]
  /\ lock \in [Workers -> BOOLEAN] /\ left \in [Workers -> Nat]
  /\ chunk \in [Workers -> Chunks \cup {Null}]
  /\ Content = [c \in Chunks |-> Content[c]]
  /\ free \subseteq Chunks /\ Queued \subseteq Chunks
  /\ busy \in BOOLEAN /\ running \in BOOLEAN

LEMMA FunTyped ==
  ASSUME MInv, TypeOK, LogTypeOK
  PROVE  FunTypes
BY DEF FunTypes, TypeOK, LogTypeOK, MInv, MTypeOK, Content, Queued

LEMMA Roles ==
  /\ Main \in Threads /\ Flusher \in Threads /\ Main # Flusher
  /\ Main \notin Workers /\ Flusher \notin Workers
  /\ Threads = Workers \cup {Flusher, Main}
  /\ Null \notin Chunks
BY LogAssumption, MpscAssumption

\* log_submit_pending goes through the producers in the order of their index.
LEMMA Indices ==
  /\ \A p \in Workers : p \in Nat /\ 1 <= p
  /\ \A n \in Nat : n >= 1 /\ n \notin Workers => \A p \in Workers : p < n
<1>1. Cardinality(Workers) \in Nat
  BY LogAssumption, FS_CardinalityType
<1>2. Workers = 1 .. Cardinality(Workers)
  BY LogAssumption
<1>. QED
  BY <1>1, <1>2

LEMMA BehindNext ==
  ASSUME NEW n \in Nat, NEW p \in Nat
  PROVE  p < n + 1 <=> p < n \/ p = n
OBVIOUS

\* One thread at a time carries a chunk, to the queue or from it.
InFlight ==
  /\ \A t \in Threads : /\ moving[t] # Null <=> pc[t] = "push"
                        /\ hand[t] # Null <=> pop[t] = "node"
  /\ \A p \in Workers : /\ pc[p] \in {"full", "append"} => chunk[p] # Null
                        /\ pc[p] = "alloc" => chunk[p] = Null
  /\ \A t, u \in Threads :
       /\ moving[t] # Null /\ moving[u] # Null => t = u
       /\ hand[t] # Null /\ hand[u] # Null => t = u
       /\ ~(moving[t] # Null /\ hand[u] # Null)

LEMMA OneInFlight ==
  ASSUME MInv, StagesOk, Alone
  PROVE  InFlight
<1>1. ASSUME NEW t \in Threads
      PROVE  /\ moving[t] # Null <=> pc[t] = "push"
             /\ hand[t] # Null <=> pop[t] = "node"
             /\ hand[t] # Null => pc[t] = "drain"
  BY <1>1 DEF StagesOk, StageOk, MInv, Popping
<1>2. \A t, u \in Threads : Flushing(t) /\ Flushing(u) => t = u
  BY DEF Alone
<1>3. \A p \in Workers : /\ pc[p] \in {"full", "append"} => chunk[p] # Null
                         /\ pc[p] = "alloc" => chunk[p] = Null
  BY DEF StagesOk, WriterOk
<1>4. \A t, u \in Threads : pc[t] \in {"push", "drain"} /\ pc[u] \in {"push", "drain"} => t = u
  BY <1>2 DEF Flushing
<1>5. \A t, u \in Threads :
        /\ moving[t] # Null /\ moving[u] # Null => t = u
        /\ hand[t] # Null /\ hand[u] # Null => t = u
        /\ ~(moving[t] # Null /\ hand[u] # Null)
  BY <1>1, <1>4
<1>6. \A t \in Threads : /\ moving[t] # Null <=> pc[t] = "push"
                         /\ hand[t] # Null <=> pop[t] = "node"
  BY <1>1, Zenon
<1>. QED
  BY <1>3, <1>5, <1>6 DEF InFlight

\* The line a worker is about to store is not stored yet.
LEMMA FreshRecord ==
  ASSUME Counted, Accounts, NEW p \in Workers, left[p] \in Nat
  PROVE  /\ Record(p) \notin accepted
         /\ Record(p) \notin Out
         /\ \A d \in Chunks \ free : Record(p) \notin Content[d]
<1>1. Record(p)[1] = p /\ Record(p)[2] = left[p] /\ ~(left[p] > left[p])
  BY DEF Record
<1>2. Record(p) \notin accepted
  BY <1>1 DEF Counted
<1>. QED
  BY <1>2 DEF Accounts

\* Records stay where they are when a buffer is handed on, or lost.
LEMMA OutStep ==
  ASSUME NEW t, Sync(t) \/ Close
  PROVE  Out' = Out
BY DEF Sync, Close, Out, fvars

\* A thread has what its place needs.
LEMMA StageStep ==
  ASSUME FunTypes, StagesOk, LogStep
  PROVE  \A u \in Threads : StageOk(u)'
<1>. USE Roles
<1>. USE DEF Step, Unlock, wvars, cvars, fvars, svars, Still, Same, FunTypes, StageOk,
           WriterOk, Collecting
<1>. SUFFICES ASSUME NEW u \in Threads, StageOk(u) PROVE StageOk(u)'
  BY DEF StagesOk
<1>1. ASSUME NEW p \in Workers, Still, Same, Write(p) PROVE StageOk(u)'
  BY <1>1 DEF Write
<1>2. ASSUME NEW p \in Workers, Still, Same, Crash(p) PROVE StageOk(u)'
  BY <1>2 DEF Crash
<1>3. ASSUME NEW p \in Workers, Still, Same, LockProducer(p) PROVE StageOk(u)'
  BY <1>3 DEF LockProducer
<1>4. ASSUME NEW p \in Workers, Still, Same, AllocFails(p) PROVE StageOk(u)'
  BY <1>4 DEF AllocFails
<1>5. ASSUME NEW p \in Workers, Pushes(p, chunk[p]), Same, PushFull(p) PROVE StageOk(u)'
  BY <1>5 DEF PushFull, Pushes
<1>6. ASSUME NEW p \in Workers, Links(p), Same, LinkFull(p) PROVE StageOk(u)'
  BY <1>6 DEF LinkFull, Links
<1>7. ASSUME NEW p \in Workers, Still, NEW c \in free, Allocs(p, c) PROVE StageOk(u)'
  BY <1>7 DEF Allocs
<1>8. ASSUME NEW p \in Workers, Still, Appends(p) PROVE StageOk(u)'
  BY <1>8 DEF Appends
<1>9. ASSUME NEW t \in Threads, Still, Same, TakeBusy(t) PROVE StageOk(u)'
  BY <1>9 DEF TakeBusy
<1>10. ASSUME NEW t \in Threads, Still, Same, Busy(t) PROVE StageOk(u)'
  BY <1>10 DEF Busy
<1>11. ASSUME NEW t \in Threads, Still, Same, Takes(t) PROVE StageOk(u)'
  BY <1>11 DEF Takes
<1>12. ASSUME NEW t \in Threads, Still, Same, Skips(t) PROVE StageOk(u)'
  BY <1>12 DEF Skips
<1>13. ASSUME NEW t \in Threads, Still, Same, Submitted(t) PROVE StageOk(u)'
  BY <1>13 DEF Submitted
<1>14. ASSUME NEW t \in Threads, Still, Same, Sync(t) PROVE StageOk(u)'
  BY <1>14 DEF Sync
<1>15. ASSUME NEW t \in Threads, Still, Same, Return(t) PROVE StageOk(u)'
  BY <1>15 DEF Return
<1>16. ASSUME NEW t \in Threads, Pushes(t, moving[t]), Same, PushTaken(t) PROVE
       StageOk(u)'
  BY <1>16 DEF PushTaken, Pushes
<1>17. ASSUME NEW t \in Threads, Links(t), Same, LinkTaken(t) PROVE StageOk(u)'
  BY <1>17 DEF LinkTaken, Links
<1>18. ASSUME NEW t \in Threads, Pops(t), Same, Drain(t) PROVE StageOk(u)'
  <2>1. pc' = pc /\ at' = at /\ moving' = moving /\ ret' = ret /\ pc[t] = "drain"
    BY <1>18 DEF Drain
  <2>2. u # t => pop'[u] = pop[u] /\ (u \in Linking' <=> u \in Linking)
    BY <1>18 DEF Pops
  <2>3. u # t => hand'[u] = hand[u]
    BY <1>18 DEF Pops
  <2>4. u = t /\ pop'[t] = "node" => hand'[t] # Null
    BY <1>18 DEF Pops
  <2>5. u = t /\ u \in Linking' => pop'[t] = "link"
    BY <1>18 DEF Pops
  <2>. QED
    BY <2>1, <2>2, <2>3, <2>4, <2>5
<1>19. ASSUME NEW t \in Threads, Lets(t), Same, Drained(t) PROVE StageOk(u)'
  BY <1>19 DEF Drained, Lets
<1>20. ASSUME NEW t \in Threads, Lets(t), Same, FreeChunk(t) PROVE StageOk(u)'
  BY <1>20 DEF FreeChunk, Lets
<1>21. ASSUME NEW t \in Threads, Still, Spills(t) PROVE StageOk(u)'
  BY <1>21 DEF Spills
<1>22. ASSUME Still, Same, Tick PROVE StageOk(u)'
  BY <1>22 DEF Tick
<1>23. ASSUME Still, Same, StopFlusher PROVE StageOk(u)'
  BY <1>23 DEF StopFlusher
<1>24. ASSUME Still, Same, Deinit PROVE StageOk(u)'
  BY <1>24 DEF Deinit
<1>25. ASSUME Still, Same, Close PROVE StageOk(u)'
  BY <1>25 DEF Close
<1>26. ASSUME Still, Same, UNCHANGED vars PROVE StageOk(u)'
  BY <1>26 DEF vars
<1>. HIDE DEF Step, Unlock, wvars, cvars, fvars, svars, Still, Same, FunTypes, StageOk,
            WriterOk, Collecting
<1>. QED
  BY <1>1, <1>2, <1>3, <1>4, <1>5, <1>6, <1>7, <1>8, <1>9, <1>10, <1>11, <1>12,
     <1>13, <1>14, <1>15, <1>16, <1>17, <1>18, <1>19, <1>20, <1>21, <1>22, <1>23, <1>24,
     <1>25, <1>26 DEF LogStep

\* A worker has its lock, its lines and its chunk.
LEMMA WriterStep ==
  ASSUME FunTypes, StagesOk, Owned, Stopping, LogStep
  PROVE  \A q \in Workers : WriterOk(q)'
<1>. USE Roles
<1>. USE DEF Step, Unlock, wvars, cvars, fvars, svars, Still, Same, FunTypes, WriterOk,
           StageOk
<1>. SUFFICES ASSUME NEW q \in Workers, WriterOk(q), ChunkOwned(q) PROVE WriterOk(q)'
  BY DEF StagesOk, Owned
<1>1. ASSUME NEW p \in Workers, Still, Same, Write(p) PROVE WriterOk(q)'
  BY <1>1 DEF Write
<1>2. ASSUME NEW p \in Workers, Still, Same, Crash(p) PROVE WriterOk(q)'
  BY <1>2 DEF Crash
<1>3. ASSUME NEW p \in Workers, Still, Same, LockProducer(p) PROVE WriterOk(q)'
  BY <1>3 DEF LockProducer
<1>4. ASSUME NEW p \in Workers, Still, Same, AllocFails(p) PROVE WriterOk(q)'
  BY <1>4 DEF AllocFails
<1>5. ASSUME NEW p \in Workers, Pushes(p, chunk[p]), Same, PushFull(p) PROVE
       WriterOk(q)'
  BY <1>5 DEF PushFull, Pushes
<1>6. ASSUME NEW p \in Workers, Links(p), Same, LinkFull(p) PROVE WriterOk(q)'
  BY <1>6 DEF LinkFull, Links
<1>7. ASSUME NEW p \in Workers, Still, NEW c \in free, Allocs(p, c) PROVE WriterOk(q)'
  <2>1. c \in Chunks /\ chunk[q] # c
    BY <1>7 DEF ChunkOwned
  <2>2. q # p => chunk'[q] = chunk[q] /\ pc'[q] = pc[q] /\ left'[q] = left[q] /\ lock'[q] = lock[q]
    BY <1>7 DEF Allocs
  <2>3. Content'[c] = {Record(p)} /\ \A d \in Chunks \ {c} : Content'[d] = Content[d]
    BY <1>7, <2>1 DEF Allocs
  <2>4. CASE q = p
    BY <1>7, <2>3, <2>4 DEF Allocs
  <2>. QED
    BY <2>1, <2>2, <2>3, <2>4
<1>8. ASSUME NEW p \in Workers, Still, Appends(p) PROVE WriterOk(q)'
  <2>1. \A d \in Chunks : Content[d] # {} => Content'[d] # {}
    BY <1>8 DEF Appends
  <2>. QED
    BY <1>8, <2>1 DEF Appends
<1>9. ASSUME NEW t \in Threads, Still, Same, TakeBusy(t) PROVE WriterOk(q)'
  BY <1>9 DEF TakeBusy
<1>10. ASSUME NEW t \in Threads, Still, Same, Busy(t) PROVE WriterOk(q)'
  BY <1>10 DEF Busy
<1>11. ASSUME NEW t \in Threads, Still, Same, Takes(t) PROVE WriterOk(q)'
  BY <1>11 DEF Takes, StagesOk
<1>12. ASSUME NEW t \in Threads, Still, Same, Skips(t) PROVE WriterOk(q)'
  BY <1>12 DEF Skips
<1>13. ASSUME NEW t \in Threads, Still, Same, Submitted(t) PROVE WriterOk(q)'
  BY <1>13 DEF Submitted
<1>14. ASSUME NEW t \in Threads, Still, Same, Sync(t) PROVE WriterOk(q)'
  BY <1>14 DEF Sync
<1>15. ASSUME NEW t \in Threads, Still, Same, Return(t) PROVE WriterOk(q)'
  BY <1>15 DEF Return
<1>16. ASSUME NEW t \in Threads, Pushes(t, moving[t]), Same, PushTaken(t) PROVE
       WriterOk(q)'
  BY <1>16 DEF PushTaken, Pushes
<1>17. ASSUME NEW t \in Threads, Links(t), Same, LinkTaken(t) PROVE WriterOk(q)'
  BY <1>17 DEF LinkTaken, Links
<1>18. ASSUME NEW t \in Threads, Pops(t), Same, Drain(t) PROVE WriterOk(q)'
  BY <1>18 DEF Drain
<1>19. ASSUME NEW t \in Threads, Lets(t), Same, Drained(t) PROVE WriterOk(q)'
  BY <1>19 DEF Drained, Lets
<1>20. ASSUME NEW t \in Threads, Lets(t), Same, FreeChunk(t) PROVE WriterOk(q)'
  BY <1>20 DEF FreeChunk, Lets
<1>21. ASSUME NEW t \in Threads, Still, Spills(t) PROVE WriterOk(q)'
  <2>1. chunk[q] # Null => chunk[q] # hand[t]
    BY <1>21 DEF ChunkOwned
  <2>2. chunk[q] # Null => Content'[chunk[q]] = Content[chunk[q]]
    BY <1>21, <2>1 DEF Spills
  <2>. QED
    BY <1>21, <2>2 DEF Spills
<1>22. ASSUME Still, Same, Tick PROVE WriterOk(q)'
  BY <1>22 DEF Tick
<1>23. ASSUME Still, Same, StopFlusher PROVE WriterOk(q)'
  BY <1>23 DEF StopFlusher
<1>24. ASSUME Still, Same, Deinit PROVE WriterOk(q)'
  BY <1>24 DEF Deinit
<1>25. ASSUME Still, Same, Close PROVE WriterOk(q)'
  BY <1>25 DEF Close, Stopping
<1>26. ASSUME Still, Same, UNCHANGED vars PROVE WriterOk(q)'
  BY <1>26 DEF vars
<1>. HIDE DEF Step, Unlock, wvars, cvars, fvars, svars, Still, Same, FunTypes, WriterOk,
            StageOk
<1>. QED
  BY <1>1, <1>2, <1>3, <1>4, <1>5, <1>6, <1>7, <1>8, <1>9, <1>10, <1>11, <1>12,
     <1>13, <1>14, <1>15, <1>16, <1>17, <1>18, <1>19, <1>20, <1>21, <1>22, <1>23, <1>24,
     <1>25, <1>26 DEF LogStep

\* A flush holds busy, unless it is the one of log_deinit.
LEMMA BusyStep ==
  ASSUME FunTypes, StagesOk, Alone, LogStep
  PROVE  \A u \in Threads : (Flushing(u) /\ ret[u] # "deinit" => busy)'
<1>. USE Roles
<1>. USE DEF Step, Unlock, wvars, cvars, fvars, svars, Still, Same, FunTypes, StageOk,
           Flushing
<1>. SUFFICES ASSUME NEW u \in Threads, StageOk(u), Flushing(u) /\ ret[u] # "deinit" =>
                 busy, \A v \in Threads : Flushing(u) /\ Flushing(v) => u = v PROVE
                 (Flushing(u) /\ ret[u] # "deinit" => busy)'
  BY DEF StagesOk, Alone
<1>1. ASSUME NEW p \in Workers, Still, Same, Write(p) PROVE (Flushing(u) /\ ret[u] #
       "deinit" => busy)'
  BY <1>1 DEF Write
<1>2. ASSUME NEW p \in Workers, Still, Same, Crash(p) PROVE (Flushing(u) /\ ret[u] #
       "deinit" => busy)'
  BY <1>2 DEF Crash
<1>3. ASSUME NEW p \in Workers, Still, Same, LockProducer(p) PROVE (Flushing(u) /\
       ret[u] # "deinit" => busy)'
  BY <1>3 DEF LockProducer
<1>4. ASSUME NEW p \in Workers, Still, Same, AllocFails(p) PROVE (Flushing(u) /\ ret[u]
       # "deinit" => busy)'
  BY <1>4 DEF AllocFails
<1>5. ASSUME NEW p \in Workers, Pushes(p, chunk[p]), Same, PushFull(p) PROVE
       (Flushing(u) /\ ret[u] # "deinit" => busy)'
  BY <1>5 DEF PushFull, Pushes
<1>6. ASSUME NEW p \in Workers, Links(p), Same, LinkFull(p) PROVE (Flushing(u) /\ ret[u]
       # "deinit" => busy)'
  BY <1>6 DEF LinkFull, Links
<1>7. ASSUME NEW p \in Workers, Still, NEW c \in free, Allocs(p, c) PROVE (Flushing(u)
       /\ ret[u] # "deinit" => busy)'
  BY <1>7 DEF Allocs
<1>8. ASSUME NEW p \in Workers, Still, Appends(p) PROVE (Flushing(u) /\ ret[u] #
       "deinit" => busy)'
  BY <1>8 DEF Appends
<1>9. ASSUME NEW t \in Threads, Still, Same, TakeBusy(t) PROVE (Flushing(u) /\ ret[u] #
       "deinit" => busy)'
  BY <1>9 DEF TakeBusy
<1>10. ASSUME NEW t \in Threads, Still, Same, Busy(t) PROVE (Flushing(u) /\ ret[u] #
       "deinit" => busy)'
  BY <1>10 DEF Busy
<1>11. ASSUME NEW t \in Threads, Still, Same, Takes(t) PROVE (Flushing(u) /\ ret[u] #
       "deinit" => busy)'
  BY <1>11 DEF Takes
<1>12. ASSUME NEW t \in Threads, Still, Same, Skips(t) PROVE (Flushing(u) /\ ret[u] #
       "deinit" => busy)'
  BY <1>12 DEF Skips
<1>13. ASSUME NEW t \in Threads, Still, Same, Submitted(t) PROVE (Flushing(u) /\ ret[u]
       # "deinit" => busy)'
  BY <1>13 DEF Submitted
<1>14. ASSUME NEW t \in Threads, Still, Same, Sync(t) PROVE (Flushing(u) /\ ret[u] #
       "deinit" => busy)'
  BY <1>14 DEF Sync
<1>15. ASSUME NEW t \in Threads, Still, Same, Return(t) PROVE (Flushing(u) /\ ret[u] #
       "deinit" => busy)'
  BY <1>15 DEF Return
<1>16. ASSUME NEW t \in Threads, Pushes(t, moving[t]), Same, PushTaken(t) PROVE
       (Flushing(u) /\ ret[u] # "deinit" => busy)'
  BY <1>16 DEF PushTaken, Pushes
<1>17. ASSUME NEW t \in Threads, Links(t), Same, LinkTaken(t) PROVE (Flushing(u) /\
       ret[u] # "deinit" => busy)'
  BY <1>17 DEF LinkTaken, Links
<1>18. ASSUME NEW t \in Threads, Pops(t), Same, Drain(t) PROVE (Flushing(u) /\ ret[u] #
       "deinit" => busy)'
  BY <1>18 DEF Drain, Pops
<1>19. ASSUME NEW t \in Threads, Lets(t), Same, Drained(t) PROVE (Flushing(u) /\ ret[u]
       # "deinit" => busy)'
  BY <1>19 DEF Drained, Lets
<1>20. ASSUME NEW t \in Threads, Lets(t), Same, FreeChunk(t) PROVE (Flushing(u) /\
       ret[u] # "deinit" => busy)'
  BY <1>20 DEF FreeChunk, Lets
<1>21. ASSUME NEW t \in Threads, Still, Spills(t) PROVE (Flushing(u) /\ ret[u] #
       "deinit" => busy)'
  BY <1>21 DEF Spills
<1>22. ASSUME Still, Same, Tick PROVE (Flushing(u) /\ ret[u] # "deinit" => busy)'
  BY <1>22 DEF Tick
<1>23. ASSUME Still, Same, StopFlusher PROVE (Flushing(u) /\ ret[u] # "deinit" => busy)'
  BY <1>23 DEF StopFlusher
<1>24. ASSUME Still, Same, Deinit PROVE (Flushing(u) /\ ret[u] # "deinit" => busy)'
  BY <1>24 DEF Deinit
<1>25. ASSUME Still, Same, Close PROVE (Flushing(u) /\ ret[u] # "deinit" => busy)'
  BY <1>25 DEF Close
<1>26. ASSUME Still, Same, UNCHANGED vars PROVE (Flushing(u) /\ ret[u] # "deinit" =>
       busy)'
  BY <1>26 DEF vars
<1>. HIDE DEF Step, Unlock, wvars, cvars, fvars, svars, Still, Same, FunTypes, StageOk,
            Flushing
<1>. QED
  BY <1>1, <1>2, <1>3, <1>4, <1>5, <1>6, <1>7, <1>8, <1>9, <1>10, <1>11, <1>12,
     <1>13, <1>14, <1>15, <1>16, <1>17, <1>18, <1>19, <1>20, <1>21, <1>22, <1>23, <1>24,
     <1>25, <1>26 DEF LogStep

\* busy, and in log_deinit the end of all other threads, keep flushes apart.
LEMMA AloneStep ==
  ASSUME FunTypes, StagesOk, Alone, Stopping, LogStep
  PROVE  \A u, v \in Threads : (Flushing(u) /\ Flushing(v) => u = v)'
<1>. USE Roles
<1>. USE DEF Step, Unlock, wvars, cvars, fvars, svars, Still, Same, FunTypes, StageOk,
           Flushing
<1>. SUFFICES ASSUME NEW u \in Threads, NEW v \in Threads, StageOk(u), StageOk(v),
                 Flushing(u) /\ Flushing(v) => u = v PROVE (Flushing(u) /\ Flushing(v)
                 => u = v)'
  BY DEF StagesOk, Alone
<1>1. ASSUME NEW p \in Workers, Still, Same, Write(p) PROVE (Flushing(u) /\ Flushing(v)
       => u = v)'
  BY <1>1 DEF Write
<1>2. ASSUME NEW p \in Workers, Still, Same, Crash(p) PROVE (Flushing(u) /\ Flushing(v)
       => u = v)'
  BY <1>2 DEF Crash
<1>3. ASSUME NEW p \in Workers, Still, Same, LockProducer(p) PROVE (Flushing(u) /\
       Flushing(v) => u = v)'
  BY <1>3 DEF LockProducer
<1>4. ASSUME NEW p \in Workers, Still, Same, AllocFails(p) PROVE (Flushing(u) /\
       Flushing(v) => u = v)'
  BY <1>4 DEF AllocFails
<1>5. ASSUME NEW p \in Workers, Pushes(p, chunk[p]), Same, PushFull(p) PROVE
       (Flushing(u) /\ Flushing(v) => u = v)'
  BY <1>5 DEF PushFull, Pushes
<1>6. ASSUME NEW p \in Workers, Links(p), Same, LinkFull(p) PROVE (Flushing(u) /\
       Flushing(v) => u = v)'
  BY <1>6 DEF LinkFull, Links
<1>7. ASSUME NEW p \in Workers, Still, NEW c \in free, Allocs(p, c) PROVE (Flushing(u)
       /\ Flushing(v) => u = v)'
  BY <1>7 DEF Allocs
<1>8. ASSUME NEW p \in Workers, Still, Appends(p) PROVE (Flushing(u) /\ Flushing(v) => u
       = v)'
  BY <1>8 DEF Appends
<1>9. ASSUME NEW t \in Threads, Still, Same, TakeBusy(t) PROVE (Flushing(u) /\
       Flushing(v) => u = v)'
  <2>1. \A w \in Threads : ~(Flushing(w) /\ ret[w] # "deinit")
    BY <1>9 DEF TakeBusy, Alone
  <2>2. Flushing(u) => u = Main /\ pc[Main] \in {"submit", "push", "linktaken", "flush"} /\ u # t
    BY <1>9, <2>1 DEF TakeBusy
  <2>3. Flushing(v) => v = Main /\ pc[Main] \in {"submit", "push", "linktaken", "flush"} /\ v # t
    BY <1>9, <2>1 DEF TakeBusy
  <2>4. pc[Main] \in {"submit", "push", "linktaken", "flush"} /\ t # Main => pc[t] # "flush"
    BY DEF Stopping
  <2>. QED
    BY <1>9, <2>2, <2>3, <2>4 DEF TakeBusy
<1>10. ASSUME NEW t \in Threads, Still, Same, Busy(t) PROVE (Flushing(u) /\ Flushing(v)
       => u = v)'
  BY <1>10 DEF Busy
<1>11. ASSUME NEW t \in Threads, Still, Same, Takes(t) PROVE (Flushing(u) /\ Flushing(v)
       => u = v)'
  BY <1>11 DEF Takes
<1>12. ASSUME NEW t \in Threads, Still, Same, Skips(t) PROVE (Flushing(u) /\ Flushing(v)
       => u = v)'
  BY <1>12 DEF Skips
<1>13. ASSUME NEW t \in Threads, Still, Same, Submitted(t) PROVE (Flushing(u) /\
       Flushing(v) => u = v)'
  BY <1>13 DEF Submitted
<1>14. ASSUME NEW t \in Threads, Still, Same, Sync(t) PROVE (Flushing(u) /\ Flushing(v)
       => u = v)'
  BY <1>14 DEF Sync
<1>15. ASSUME NEW t \in Threads, Still, Same, Return(t) PROVE (Flushing(u) /\
       Flushing(v) => u = v)'
  BY <1>15 DEF Return
<1>16. ASSUME NEW t \in Threads, Pushes(t, moving[t]), Same, PushTaken(t) PROVE
       (Flushing(u) /\ Flushing(v) => u = v)'
  BY <1>16 DEF PushTaken, Pushes
<1>17. ASSUME NEW t \in Threads, Links(t), Same, LinkTaken(t) PROVE (Flushing(u) /\
       Flushing(v) => u = v)'
  BY <1>17 DEF LinkTaken, Links
<1>18. ASSUME NEW t \in Threads, Pops(t), Same, Drain(t) PROVE (Flushing(u) /\
       Flushing(v) => u = v)'
  BY <1>18 DEF Drain, Pops
<1>19. ASSUME NEW t \in Threads, Lets(t), Same, Drained(t) PROVE (Flushing(u) /\
       Flushing(v) => u = v)'
  BY <1>19 DEF Drained, Lets
<1>20. ASSUME NEW t \in Threads, Lets(t), Same, FreeChunk(t) PROVE (Flushing(u) /\
       Flushing(v) => u = v)'
  BY <1>20 DEF FreeChunk, Lets
<1>21. ASSUME NEW t \in Threads, Still, Spills(t) PROVE (Flushing(u) /\ Flushing(v) => u
       = v)'
  BY <1>21 DEF Spills
<1>22. ASSUME Still, Same, Tick PROVE (Flushing(u) /\ Flushing(v) => u = v)'
  BY <1>22 DEF Tick
<1>23. ASSUME Still, Same, StopFlusher PROVE (Flushing(u) /\ Flushing(v) => u = v)'
  BY <1>23 DEF StopFlusher
<1>24. ASSUME Still, Same, Deinit PROVE (Flushing(u) /\ Flushing(v) => u = v)'
  <2>1. \A w \in Threads : w # Main => ~Flushing(w)
    BY <1>24 DEF Deinit, Stopping
  <2>. QED
    BY <1>24, <2>1 DEF Deinit
<1>25. ASSUME Still, Same, Close PROVE (Flushing(u) /\ Flushing(v) => u = v)'
  BY <1>25 DEF Close
<1>26. ASSUME Still, Same, UNCHANGED vars PROVE (Flushing(u) /\ Flushing(v) => u = v)'
  BY <1>26 DEF vars
<1>. HIDE DEF Step, Unlock, wvars, cvars, fvars, svars, Still, Same, FunTypes, StageOk,
            Flushing
<1>. QED
  BY <1>1, <1>2, <1>3, <1>4, <1>5, <1>6, <1>7, <1>8, <1>9, <1>10, <1>11, <1>12,
     <1>13, <1>14, <1>15, <1>16, <1>17, <1>18, <1>19, <1>20, <1>21, <1>22, <1>23, <1>24,
     <1>25, <1>26 DEF LogStep

\* The threads stop in the order in which main joins them.
LEMMA StopStep ==
  ASSUME FunTypes, StagesOk, Alone, Stopping, LogStep
  PROVE  Stopping'
<1>. USE Roles
<1>. USE DEF Step, Unlock, wvars, cvars, fvars, svars, Still, Same, FunTypes, StageOk,
           Stopping, Collecting, Behind
<1>. SUFFICES ASSUME \A u \in Threads : StageOk(u) PROVE Stopping'
  BY DEF StagesOk
<1>1. ASSUME NEW p \in Workers, Still, Same, Write(p) PROVE Stopping'
  BY <1>1 DEF Write
<1>2. ASSUME NEW p \in Workers, Still, Same, Crash(p) PROVE Stopping'
  BY <1>2 DEF Crash
<1>3. ASSUME NEW p \in Workers, Still, Same, LockProducer(p) PROVE Stopping'
  BY <1>3 DEF LockProducer
<1>4. ASSUME NEW p \in Workers, Still, Same, AllocFails(p) PROVE Stopping'
  BY <1>4 DEF AllocFails
<1>5. ASSUME NEW p \in Workers, Pushes(p, chunk[p]), Same, PushFull(p) PROVE Stopping'
  BY <1>5 DEF PushFull, Pushes
<1>6. ASSUME NEW p \in Workers, Links(p), Same, LinkFull(p) PROVE Stopping'
  BY <1>6 DEF LinkFull, Links
<1>7. ASSUME NEW p \in Workers, Still, NEW c \in free, Allocs(p, c) PROVE Stopping'
  BY <1>7 DEF Allocs
<1>8. ASSUME NEW p \in Workers, Still, Appends(p) PROVE Stopping'
  BY <1>8 DEF Appends
<1>9. ASSUME NEW t \in Threads, Still, Same, TakeBusy(t) PROVE Stopping'
  BY <1>9 DEF TakeBusy
<1>10. ASSUME NEW t \in Threads, Still, Same, Busy(t) PROVE Stopping'
  BY <1>10 DEF Busy
<1>11. ASSUME NEW t \in Threads, Still, Same, Takes(t) PROVE Stopping'
  BY <1>11 DEF Takes
<1>12. ASSUME NEW t \in Threads, Still, Same, Skips(t) PROVE Stopping'
  <2>1. ASSUME NEW q \in Workers, Collecting(Main)', Behind(Main, q)' PROVE chunk'[q] = Null
    <3>1. CASE t = Main
      <4>1. q < at[Main] \/ q = at[Main]
        BY <1>12, <2>1, <3>1, Indices, BehindNext DEF Skips
      <4>. QED
        BY <1>12, <3>1, <4>1 DEF Skips
    <3>2. CASE t # Main
      BY <1>12, <2>1, <3>2 DEF Skips, Stopping
    <3>. QED
      BY <3>1, <3>2
  <2>. QED
    BY <1>12, <2>1 DEF Skips, Stopping
<1>13. ASSUME NEW t \in Threads, Still, Same, Submitted(t) PROVE Stopping'
  <2>1. \A q \in Workers : q < at[t]
    BY <1>13, Indices DEF Submitted
  <2>2. t = Main => \A q \in Workers : chunk[q] = Null
    BY <1>13, <2>1 DEF Submitted
  <2>. QED
    BY <1>13, <2>2 DEF Submitted
<1>14. ASSUME NEW t \in Threads, Still, Same, Sync(t) PROVE Stopping'
  BY <1>14 DEF Sync
<1>15. ASSUME NEW t \in Threads, Still, Same, Return(t) PROVE Stopping'
  BY <1>15 DEF Return
<1>16. ASSUME NEW t \in Threads, Pushes(t, moving[t]), Same, PushTaken(t) PROVE
       Stopping'
  BY <1>16 DEF PushTaken, Pushes
<1>17. ASSUME NEW t \in Threads, Links(t), Same, LinkTaken(t) PROVE Stopping'
  <2>1. ASSUME NEW q \in Workers, Collecting(Main)', Behind(Main, q)' PROVE chunk'[q] = Null
    <3>1. CASE t = Main
      <4>1. q < at[Main] \/ q = at[Main]
        BY <1>17, <2>1, <3>1, Indices, BehindNext DEF LinkTaken
      <4>. QED
        BY <1>17, <3>1, <4>1 DEF LinkTaken
    <3>2. CASE t # Main
      BY <1>17, <2>1, <3>2 DEF LinkTaken, Links, Stopping
    <3>. QED
      BY <3>1, <3>2
  <2>. QED
    BY <1>17, <2>1 DEF LinkTaken, Links, Stopping
<1>18. ASSUME NEW t \in Threads, Pops(t), Same, Drain(t) PROVE Stopping'
  BY <1>18 DEF Drain, Pops
<1>19. ASSUME NEW t \in Threads, Lets(t), Same, Drained(t) PROVE Stopping'
  BY <1>19 DEF Drained, Lets
<1>20. ASSUME NEW t \in Threads, Lets(t), Same, FreeChunk(t) PROVE Stopping'
  BY <1>20 DEF FreeChunk, Lets
<1>21. ASSUME NEW t \in Threads, Still, Spills(t) PROVE Stopping'
  BY <1>21 DEF Spills
<1>22. ASSUME Still, Same, Tick PROVE Stopping'
  BY <1>22 DEF Tick
<1>23. ASSUME Still, Same, StopFlusher PROVE Stopping'
  BY <1>23 DEF StopFlusher
<1>24. ASSUME Still, Same, Deinit PROVE Stopping'
  <2>1. at[Main] = 1
    BY <1>24 DEF Deinit
  <2>2. \A q \in Workers : ~(q < 1)
    BY Indices
  <2>. QED
    BY <1>24, <2>1, <2>2 DEF Deinit
<1>25. ASSUME Still, Same, Close PROVE Stopping'
  BY <1>25 DEF Close
<1>26. ASSUME Still, Same, UNCHANGED vars PROVE Stopping'
  BY <1>26 DEF vars
<1>. HIDE DEF Step, Unlock, wvars, cvars, fvars, svars, Still, Same, FunTypes, StageOk,
            Stopping, Collecting, Behind
<1>. QED
  BY <1>1, <1>2, <1>3, <1>4, <1>5, <1>6, <1>7, <1>8, <1>9, <1>10, <1>11, <1>12,
     <1>13, <1>14, <1>15, <1>16, <1>17, <1>18, <1>19, <1>20, <1>21, <1>22, <1>23, <1>24,
     <1>25, <1>26 DEF LogStep

\* The chunk of a producer is its own.
LEMMA ChunkStep ==
  ASSUME FunTypes, StagesOk, Alone, Stopping, Owned, InFlight, LogStep
  PROVE  \A q \in Workers : ChunkOwned(q)'
<1>. USE Roles
<1>. USE DEF Step, Unlock, wvars, cvars, fvars, svars, Still, Same, FunTypes, ChunkOwned
<1>. SUFFICES ASSUME NEW q \in Workers, \A o \in Workers : ChunkOwned(o) PROVE
                 ChunkOwned(q)'
  BY DEF Owned
<1>1. ASSUME NEW p \in Workers, Still, Same, Write(p) PROVE ChunkOwned(q)'
  BY <1>1 DEF Write
<1>2. ASSUME NEW p \in Workers, Still, Same, Crash(p) PROVE ChunkOwned(q)'
  BY <1>2 DEF Crash
<1>3. ASSUME NEW p \in Workers, Still, Same, LockProducer(p) PROVE ChunkOwned(q)'
  BY <1>3 DEF LockProducer
<1>4. ASSUME NEW p \in Workers, Still, Same, AllocFails(p) PROVE ChunkOwned(q)'
  BY <1>4 DEF AllocFails
<1>5. ASSUME NEW p \in Workers, Pushes(p, chunk[p]), Same, PushFull(p) PROVE
       ChunkOwned(q)'
  BY <1>5 DEF PushFull, Pushes
<1>6. ASSUME NEW p \in Workers, Links(p), Same, LinkFull(p) PROVE ChunkOwned(q)'
  BY <1>6 DEF LinkFull, Links
<1>7. ASSUME NEW p \in Workers, Still, NEW c \in free, Allocs(p, c) PROVE ChunkOwned(q)'
  <2>1. c \in Chunks /\ c \notin Queued /\ \A v \in Threads : c # moving[v] /\ c # hand[v]
    BY <1>7 DEF Owned, MovingOwned, HandOwned
  <2>2. \A o \in Workers : chunk[o] # c
    BY <1>7
  <2>. QED
    BY <1>7, <2>1, <2>2 DEF Allocs
<1>8. ASSUME NEW p \in Workers, Still, Appends(p) PROVE ChunkOwned(q)'
  BY <1>8 DEF Appends
<1>9. ASSUME NEW t \in Threads, Still, Same, TakeBusy(t) PROVE ChunkOwned(q)'
  BY <1>9 DEF TakeBusy
<1>10. ASSUME NEW t \in Threads, Still, Same, Busy(t) PROVE ChunkOwned(q)'
  BY <1>10 DEF Busy
<1>11. ASSUME NEW t \in Threads, Still, Same, Takes(t) PROVE ChunkOwned(q)'
  BY <1>11 DEF Takes
<1>12. ASSUME NEW t \in Threads, Still, Same, Skips(t) PROVE ChunkOwned(q)'
  BY <1>12 DEF Skips
<1>13. ASSUME NEW t \in Threads, Still, Same, Submitted(t) PROVE ChunkOwned(q)'
  BY <1>13 DEF Submitted
<1>14. ASSUME NEW t \in Threads, Still, Same, Sync(t) PROVE ChunkOwned(q)'
  BY <1>14 DEF Sync
<1>15. ASSUME NEW t \in Threads, Still, Same, Return(t) PROVE ChunkOwned(q)'
  BY <1>15 DEF Return
<1>16. ASSUME NEW t \in Threads, Pushes(t, moving[t]), Same, PushTaken(t) PROVE
       ChunkOwned(q)'
  BY <1>16 DEF PushTaken, Pushes
<1>17. ASSUME NEW t \in Threads, Links(t), Same, LinkTaken(t) PROVE ChunkOwned(q)'
  BY <1>17 DEF LinkTaken, Links
<1>18. ASSUME NEW t \in Threads, Pops(t), Same, Drain(t) PROVE ChunkOwned(q)'
  BY <1>18 DEF Drain, Pops
<1>19. ASSUME NEW t \in Threads, Lets(t), Same, Drained(t) PROVE ChunkOwned(q)'
  BY <1>19 DEF Drained, Lets
<1>20. ASSUME NEW t \in Threads, Lets(t), Same, FreeChunk(t) PROVE ChunkOwned(q)'
  BY <1>20 DEF FreeChunk, Lets
<1>21. ASSUME NEW t \in Threads, Still, Spills(t) PROVE ChunkOwned(q)'
  BY <1>21 DEF Spills
<1>22. ASSUME Still, Same, Tick PROVE ChunkOwned(q)'
  BY <1>22 DEF Tick
<1>23. ASSUME Still, Same, StopFlusher PROVE ChunkOwned(q)'
  BY <1>23 DEF StopFlusher
<1>24. ASSUME Still, Same, Deinit PROVE ChunkOwned(q)'
  BY <1>24 DEF Deinit
<1>25. ASSUME Still, Same, Close PROVE ChunkOwned(q)'
  <2>1. \A o \in Workers : chunk[o] = Null
    BY <1>25 DEF Close, Stopping
  <2>2. free' = free
    BY <1>25, <2>1 DEF Close
  <2>3. \A o \in Workers : chunk'[o] = Null
    BY <1>25 DEF Close
  <2>. QED
    BY <1>25, <2>1, <2>2, <2>3 DEF Close
<1>26. ASSUME Still, Same, UNCHANGED vars PROVE ChunkOwned(q)'
  BY <1>26 DEF vars
<1>. HIDE DEF Step, Unlock, wvars, cvars, fvars, svars, Still, Same, FunTypes,
            ChunkOwned
<1>. QED
  BY <1>1, <1>2, <1>3, <1>4, <1>5, <1>6, <1>7, <1>8, <1>9, <1>10, <1>11, <1>12,
     <1>13, <1>14, <1>15, <1>16, <1>17, <1>18, <1>19, <1>20, <1>21, <1>22, <1>23, <1>24,
     <1>25, <1>26 DEF LogStep

\* The chunk on its way to the queue is nowhere else.
LEMMA MovingStep ==
  ASSUME FunTypes, StagesOk, Alone, Stopping, Owned, InFlight, LogStep
  PROVE  \A u \in Threads : MovingOwned(u)'
<1>. USE Roles
<1>. USE DEF Step, Unlock, wvars, cvars, fvars, svars, Still, Same, FunTypes,
           MovingOwned
<1>. SUFFICES ASSUME NEW u \in Threads, MovingOwned(u) PROVE MovingOwned(u)'
  BY DEF Owned
<1>1. ASSUME NEW p \in Workers, Still, Same, Write(p) PROVE MovingOwned(u)'
  BY <1>1 DEF Write
<1>2. ASSUME NEW p \in Workers, Still, Same, Crash(p) PROVE MovingOwned(u)'
  BY <1>2 DEF Crash
<1>3. ASSUME NEW p \in Workers, Still, Same, LockProducer(p) PROVE MovingOwned(u)'
  BY <1>3 DEF LockProducer
<1>4. ASSUME NEW p \in Workers, Still, Same, AllocFails(p) PROVE MovingOwned(u)'
  BY <1>4 DEF AllocFails
<1>5. ASSUME NEW p \in Workers, Pushes(p, chunk[p]), Same, PushFull(p) PROVE
       MovingOwned(u)'
  <2>1. chunk[p] # Null /\ ChunkOwned(p)
    BY <1>5 DEF PushFull, Pushes, InFlight, Owned
  <2>. QED
    BY <1>5, <2>1 DEF PushFull, Pushes, ChunkOwned
<1>6. ASSUME NEW p \in Workers, Links(p), Same, LinkFull(p) PROVE MovingOwned(u)'
  BY <1>6 DEF LinkFull, Links
<1>7. ASSUME NEW p \in Workers, Still, NEW c \in free, Allocs(p, c) PROVE
       MovingOwned(u)'
  BY <1>7 DEF Allocs
<1>8. ASSUME NEW p \in Workers, Still, Appends(p) PROVE MovingOwned(u)'
  BY <1>8 DEF Appends
<1>9. ASSUME NEW t \in Threads, Still, Same, TakeBusy(t) PROVE MovingOwned(u)'
  BY <1>9 DEF TakeBusy
<1>10. ASSUME NEW t \in Threads, Still, Same, Busy(t) PROVE MovingOwned(u)'
  BY <1>10 DEF Busy
<1>11. ASSUME NEW t \in Threads, Still, Same, Takes(t) PROVE MovingOwned(u)'
  <2>1. ChunkOwned(at[t])
    BY <1>11 DEF Takes, Owned
  <2>2. moving[t] = Null
    BY <1>11 DEF Takes, InFlight
  <2>. QED
    BY <1>11, <2>1, <2>2 DEF Takes, ChunkOwned
<1>12. ASSUME NEW t \in Threads, Still, Same, Skips(t) PROVE MovingOwned(u)'
  BY <1>12 DEF Skips
<1>13. ASSUME NEW t \in Threads, Still, Same, Submitted(t) PROVE MovingOwned(u)'
  BY <1>13 DEF Submitted
<1>14. ASSUME NEW t \in Threads, Still, Same, Sync(t) PROVE MovingOwned(u)'
  BY <1>14 DEF Sync
<1>15. ASSUME NEW t \in Threads, Still, Same, Return(t) PROVE MovingOwned(u)'
  BY <1>15 DEF Return
<1>16. ASSUME NEW t \in Threads, Pushes(t, moving[t]), Same, PushTaken(t) PROVE
       MovingOwned(u)'
  <2>0. moving[t] # Null
    BY <1>16 DEF PushTaken, InFlight
  <2>1. MovingOwned(t) /\ \A v \in Threads : hand[v] = Null
    BY <2>0 DEF InFlight, Owned
  <2>2. \A v \in Threads : v # t => moving[v] = Null
    BY <2>0 DEF InFlight
  <2>. QED
    BY <1>16, <2>0, <2>1, <2>2 DEF PushTaken, Pushes, MovingOwned
<1>17. ASSUME NEW t \in Threads, Links(t), Same, LinkTaken(t) PROVE MovingOwned(u)'
  BY <1>17 DEF LinkTaken, Links
<1>18. ASSUME NEW t \in Threads, Pops(t), Same, Drain(t) PROVE MovingOwned(u)'
  BY <1>18 DEF Drain, Pops
<1>19. ASSUME NEW t \in Threads, Lets(t), Same, Drained(t) PROVE MovingOwned(u)'
  BY <1>19 DEF Drained, Lets
<1>20. ASSUME NEW t \in Threads, Lets(t), Same, FreeChunk(t) PROVE MovingOwned(u)'
  BY <1>20 DEF FreeChunk, Lets
<1>21. ASSUME NEW t \in Threads, Still, Spills(t) PROVE MovingOwned(u)'
  BY <1>21 DEF Spills
<1>22. ASSUME Still, Same, Tick PROVE MovingOwned(u)'
  BY <1>22 DEF Tick
<1>23. ASSUME Still, Same, StopFlusher PROVE MovingOwned(u)'
  BY <1>23 DEF StopFlusher
<1>24. ASSUME Still, Same, Deinit PROVE MovingOwned(u)'
  BY <1>24 DEF Deinit
<1>25. ASSUME Still, Same, Close PROVE MovingOwned(u)'
  <2>1. \A q \in Workers : chunk[q] = Null
    BY <1>25 DEF Close, Stopping
  <2>2. free' = free
    BY <1>25, <2>1 DEF Close
  <2>3. \A q \in Workers : chunk'[q] = Null
    BY <1>25 DEF Close
  <2>. QED
    BY <1>25, <2>1, <2>2, <2>3 DEF Close
<1>26. ASSUME Still, Same, UNCHANGED vars PROVE MovingOwned(u)'
  BY <1>26 DEF vars
<1>. HIDE DEF Step, Unlock, wvars, cvars, fvars, svars, Still, Same, FunTypes,
            MovingOwned
<1>. QED
  BY <1>1, <1>2, <1>3, <1>4, <1>5, <1>6, <1>7, <1>8, <1>9, <1>10, <1>11, <1>12,
     <1>13, <1>14, <1>15, <1>16, <1>17, <1>18, <1>19, <1>20, <1>21, <1>22, <1>23, <1>24,
     <1>25, <1>26 DEF LogStep

\* The chunk that is read out has left the queue.
LEMMA HandStep ==
  ASSUME FunTypes, StagesOk, Alone, Stopping, Owned, InFlight, LogStep
  PROVE  \A u \in Threads : HandOwned(u)'
<1>. USE Roles
<1>. USE DEF Step, Unlock, wvars, cvars, fvars, svars, Still, Same, FunTypes, HandOwned
<1>. SUFFICES ASSUME NEW u \in Threads, HandOwned(u) PROVE HandOwned(u)'
  BY DEF Owned
<1>1. ASSUME NEW p \in Workers, Still, Same, Write(p) PROVE HandOwned(u)'
  BY <1>1 DEF Write
<1>2. ASSUME NEW p \in Workers, Still, Same, Crash(p) PROVE HandOwned(u)'
  BY <1>2 DEF Crash
<1>3. ASSUME NEW p \in Workers, Still, Same, LockProducer(p) PROVE HandOwned(u)'
  BY <1>3 DEF LockProducer
<1>4. ASSUME NEW p \in Workers, Still, Same, AllocFails(p) PROVE HandOwned(u)'
  BY <1>4 DEF AllocFails
<1>5. ASSUME NEW p \in Workers, Pushes(p, chunk[p]), Same, PushFull(p) PROVE
       HandOwned(u)'
  <2>1. chunk[p] # Null /\ ChunkOwned(p)
    BY <1>5 DEF PushFull, Pushes, InFlight, Owned
  <2>. QED
    BY <1>5, <2>1 DEF PushFull, Pushes, ChunkOwned
<1>6. ASSUME NEW p \in Workers, Links(p), Same, LinkFull(p) PROVE HandOwned(u)'
  BY <1>6 DEF LinkFull, Links
<1>7. ASSUME NEW p \in Workers, Still, NEW c \in free, Allocs(p, c) PROVE HandOwned(u)'
  BY <1>7 DEF Allocs
<1>8. ASSUME NEW p \in Workers, Still, Appends(p) PROVE HandOwned(u)'
  BY <1>8 DEF Appends
<1>9. ASSUME NEW t \in Threads, Still, Same, TakeBusy(t) PROVE HandOwned(u)'
  BY <1>9 DEF TakeBusy
<1>10. ASSUME NEW t \in Threads, Still, Same, Busy(t) PROVE HandOwned(u)'
  BY <1>10 DEF Busy
<1>11. ASSUME NEW t \in Threads, Still, Same, Takes(t) PROVE HandOwned(u)'
  BY <1>11 DEF Takes
<1>12. ASSUME NEW t \in Threads, Still, Same, Skips(t) PROVE HandOwned(u)'
  BY <1>12 DEF Skips
<1>13. ASSUME NEW t \in Threads, Still, Same, Submitted(t) PROVE HandOwned(u)'
  BY <1>13 DEF Submitted
<1>14. ASSUME NEW t \in Threads, Still, Same, Sync(t) PROVE HandOwned(u)'
  BY <1>14 DEF Sync
<1>15. ASSUME NEW t \in Threads, Still, Same, Return(t) PROVE HandOwned(u)'
  BY <1>15 DEF Return
<1>16. ASSUME NEW t \in Threads, Pushes(t, moving[t]), Same, PushTaken(t) PROVE
       HandOwned(u)'
  <2>0. moving[t] # Null
    BY <1>16 DEF PushTaken, InFlight
  <2>1. MovingOwned(t) /\ \A v \in Threads : hand[v] = Null
    BY <2>0 DEF InFlight, Owned
  <2>2. \A v \in Threads : v # t => moving[v] = Null
    BY <2>0 DEF InFlight
  <2>. QED
    BY <1>16, <2>0, <2>1, <2>2 DEF PushTaken, Pushes, MovingOwned
<1>17. ASSUME NEW t \in Threads, Links(t), Same, LinkTaken(t) PROVE HandOwned(u)'
  BY <1>17 DEF LinkTaken, Links
<1>18. ASSUME NEW t \in Threads, Pops(t), Same, Drain(t) PROVE HandOwned(u)'
  <2>1. Queued \cap free = {}
    BY DEF Owned
  <2>. QED
    BY <1>18, <2>1 DEF Drain, Pops
<1>19. ASSUME NEW t \in Threads, Lets(t), Same, Drained(t) PROVE HandOwned(u)'
  BY <1>19 DEF Drained, Lets
<1>20. ASSUME NEW t \in Threads, Lets(t), Same, FreeChunk(t) PROVE HandOwned(u)'
  <2>1. hand[t] # Null /\ HandOwned(t) /\ \A v \in Threads : moving[v] = Null
    BY <1>20 DEF FreeChunk, Lets, InFlight, Owned
  <2>2. \A v \in Threads : v # t => hand[v] = Null
    BY <2>1 DEF InFlight
  <2>. QED
    BY <1>20, <2>1, <2>2 DEF FreeChunk, Lets, HandOwned
<1>21. ASSUME NEW t \in Threads, Still, Spills(t) PROVE HandOwned(u)'
  BY <1>21 DEF Spills
<1>22. ASSUME Still, Same, Tick PROVE HandOwned(u)'
  BY <1>22 DEF Tick
<1>23. ASSUME Still, Same, StopFlusher PROVE HandOwned(u)'
  BY <1>23 DEF StopFlusher
<1>24. ASSUME Still, Same, Deinit PROVE HandOwned(u)'
  BY <1>24 DEF Deinit
<1>25. ASSUME Still, Same, Close PROVE HandOwned(u)'
  <2>1. \A q \in Workers : chunk[q] = Null
    BY <1>25 DEF Close, Stopping
  <2>2. free' = free
    BY <1>25, <2>1 DEF Close
  <2>3. \A q \in Workers : chunk'[q] = Null
    BY <1>25 DEF Close
  <2>. QED
    BY <1>25, <2>1, <2>2, <2>3 DEF Close
<1>26. ASSUME Still, Same, UNCHANGED vars PROVE HandOwned(u)'
  BY <1>26 DEF vars
<1>. HIDE DEF Step, Unlock, wvars, cvars, fvars, svars, Still, Same, FunTypes, HandOwned
<1>. QED
  BY <1>1, <1>2, <1>3, <1>4, <1>5, <1>6, <1>7, <1>8, <1>9, <1>10, <1>11, <1>12,
     <1>13, <1>14, <1>15, <1>16, <1>17, <1>18, <1>19, <1>20, <1>21, <1>22, <1>23, <1>24,
     <1>25, <1>26 DEF LogStep

\* No chunk of the queue is free.
LEMMA QueuedStep ==
  ASSUME FunTypes, StagesOk, Alone, Stopping, Owned, InFlight, LogStep
  PROVE  (Queued \cap free = {})'
<1>. USE Roles
<1>. USE DEF Step, Unlock, wvars, cvars, fvars, svars, Still, Same, FunTypes
<1>. SUFFICES ASSUME Queued \cap free = {} PROVE (Queued \cap free = {})'
  BY DEF Owned
<1>1. ASSUME NEW p \in Workers, Still, Same, Write(p) PROVE (Queued \cap free = {})'
  BY <1>1 DEF Write
<1>2. ASSUME NEW p \in Workers, Still, Same, Crash(p) PROVE (Queued \cap free = {})'
  BY <1>2 DEF Crash
<1>3. ASSUME NEW p \in Workers, Still, Same, LockProducer(p) PROVE (Queued \cap free =
       {})'
  BY <1>3 DEF LockProducer
<1>4. ASSUME NEW p \in Workers, Still, Same, AllocFails(p) PROVE (Queued \cap free =
       {})'
  BY <1>4 DEF AllocFails
<1>5. ASSUME NEW p \in Workers, Pushes(p, chunk[p]), Same, PushFull(p) PROVE (Queued
       \cap free = {})'
  <2>1. chunk[p] # Null /\ ChunkOwned(p)
    BY <1>5 DEF PushFull, Pushes, InFlight, Owned
  <2>. QED
    BY <1>5, <2>1 DEF PushFull, Pushes, ChunkOwned
<1>6. ASSUME NEW p \in Workers, Links(p), Same, LinkFull(p) PROVE (Queued \cap free =
       {})'
  BY <1>6 DEF LinkFull, Links
<1>7. ASSUME NEW p \in Workers, Still, NEW c \in free, Allocs(p, c) PROVE (Queued \cap
       free = {})'
  BY <1>7 DEF Allocs
<1>8. ASSUME NEW p \in Workers, Still, Appends(p) PROVE (Queued \cap free = {})'
  BY <1>8 DEF Appends
<1>9. ASSUME NEW t \in Threads, Still, Same, TakeBusy(t) PROVE (Queued \cap free = {})'
  BY <1>9 DEF TakeBusy
<1>10. ASSUME NEW t \in Threads, Still, Same, Busy(t) PROVE (Queued \cap free = {})'
  BY <1>10 DEF Busy
<1>11. ASSUME NEW t \in Threads, Still, Same, Takes(t) PROVE (Queued \cap free = {})'
  BY <1>11 DEF Takes
<1>12. ASSUME NEW t \in Threads, Still, Same, Skips(t) PROVE (Queued \cap free = {})'
  BY <1>12 DEF Skips
<1>13. ASSUME NEW t \in Threads, Still, Same, Submitted(t) PROVE (Queued \cap free =
       {})'
  BY <1>13 DEF Submitted
<1>14. ASSUME NEW t \in Threads, Still, Same, Sync(t) PROVE (Queued \cap free = {})'
  BY <1>14 DEF Sync
<1>15. ASSUME NEW t \in Threads, Still, Same, Return(t) PROVE (Queued \cap free = {})'
  BY <1>15 DEF Return
<1>16. ASSUME NEW t \in Threads, Pushes(t, moving[t]), Same, PushTaken(t) PROVE (Queued
       \cap free = {})'
  <2>0. moving[t] # Null
    BY <1>16 DEF PushTaken, InFlight
  <2>1. MovingOwned(t) /\ \A v \in Threads : hand[v] = Null
    BY <2>0 DEF InFlight, Owned
  <2>2. \A v \in Threads : v # t => moving[v] = Null
    BY <2>0 DEF InFlight
  <2>. QED
    BY <1>16, <2>0, <2>1, <2>2 DEF PushTaken, Pushes, MovingOwned
<1>17. ASSUME NEW t \in Threads, Links(t), Same, LinkTaken(t) PROVE (Queued \cap free =
       {})'
  BY <1>17 DEF LinkTaken, Links
<1>18. ASSUME NEW t \in Threads, Pops(t), Same, Drain(t) PROVE (Queued \cap free = {})'
  BY <1>18 DEF Drain, Pops
<1>19. ASSUME NEW t \in Threads, Lets(t), Same, Drained(t) PROVE (Queued \cap free =
       {})'
  BY <1>19 DEF Drained, Lets
<1>20. ASSUME NEW t \in Threads, Lets(t), Same, FreeChunk(t) PROVE (Queued \cap free =
       {})'
  <2>1. hand[t] # Null /\ HandOwned(t) /\ \A v \in Threads : moving[v] = Null
    BY <1>20 DEF FreeChunk, Lets, InFlight, Owned
  <2>2. \A v \in Threads : v # t => hand[v] = Null
    BY <2>1 DEF InFlight
  <2>. QED
    BY <1>20, <2>1, <2>2 DEF FreeChunk, Lets, HandOwned
<1>21. ASSUME NEW t \in Threads, Still, Spills(t) PROVE (Queued \cap free = {})'
  BY <1>21 DEF Spills
<1>22. ASSUME Still, Same, Tick PROVE (Queued \cap free = {})'
  BY <1>22 DEF Tick
<1>23. ASSUME Still, Same, StopFlusher PROVE (Queued \cap free = {})'
  BY <1>23 DEF StopFlusher
<1>24. ASSUME Still, Same, Deinit PROVE (Queued \cap free = {})'
  BY <1>24 DEF Deinit
<1>25. ASSUME Still, Same, Close PROVE (Queued \cap free = {})'
  <2>1. \A q \in Workers : chunk[q] = Null
    BY <1>25 DEF Close, Stopping
  <2>2. free' = free
    BY <1>25, <2>1 DEF Close
  <2>3. \A q \in Workers : chunk'[q] = Null
    BY <1>25 DEF Close
  <2>. QED
    BY <1>25, <2>1, <2>2, <2>3 DEF Close
<1>26. ASSUME Still, Same, UNCHANGED vars PROVE (Queued \cap free = {})'
  BY <1>26 DEF vars
<1>. HIDE DEF Step, Unlock, wvars, cvars, fvars, svars, Still, Same, FunTypes
<1>. QED
  BY <1>1, <1>2, <1>3, <1>4, <1>5, <1>6, <1>7, <1>8, <1>9, <1>10, <1>11, <1>12,
     <1>13, <1>14, <1>15, <1>16, <1>17, <1>18, <1>19, <1>20, <1>21, <1>22, <1>23, <1>24,
     <1>25, <1>26 DEF LogStep

\* No chunk is forgotten.
LEMMA PlacedStep ==
  ASSUME FunTypes, StagesOk, Alone, Stopping, Owned, InFlight, LogStep
  PROVE  \A d \in Chunks : Placed(d)'
<1>. USE Roles
<1>. USE DEF Step, Unlock, wvars, cvars, fvars, svars, Still, Same, FunTypes, Placed
<1>. SUFFICES ASSUME NEW d \in Chunks, Placed(d) PROVE Placed(d)'
  BY DEF Owned
<1>1. ASSUME NEW p \in Workers, Still, Same, Write(p) PROVE Placed(d)'
  BY <1>1 DEF Write
<1>2. ASSUME NEW p \in Workers, Still, Same, Crash(p) PROVE Placed(d)'
  BY <1>2 DEF Crash
<1>3. ASSUME NEW p \in Workers, Still, Same, LockProducer(p) PROVE Placed(d)'
  BY <1>3 DEF LockProducer
<1>4. ASSUME NEW p \in Workers, Still, Same, AllocFails(p) PROVE Placed(d)'
  BY <1>4 DEF AllocFails
<1>5. ASSUME NEW p \in Workers, Pushes(p, chunk[p]), Same, PushFull(p) PROVE Placed(d)'
  BY <1>5 DEF PushFull, Pushes
<1>6. ASSUME NEW p \in Workers, Links(p), Same, LinkFull(p) PROVE Placed(d)'
  BY <1>6 DEF LinkFull, Links
<1>7. ASSUME NEW p \in Workers, Still, NEW c \in free, Allocs(p, c) PROVE Placed(d)'
  <2>1. chunk[p] = Null
    BY <1>7 DEF Allocs, InFlight
  <2>. QED
    BY <1>7, <2>1 DEF Allocs
<1>8. ASSUME NEW p \in Workers, Still, Appends(p) PROVE Placed(d)'
  BY <1>8 DEF Appends
<1>9. ASSUME NEW t \in Threads, Still, Same, TakeBusy(t) PROVE Placed(d)'
  BY <1>9 DEF TakeBusy
<1>10. ASSUME NEW t \in Threads, Still, Same, Busy(t) PROVE Placed(d)'
  BY <1>10 DEF Busy
<1>11. ASSUME NEW t \in Threads, Still, Same, Takes(t) PROVE Placed(d)'
  <2>1. ChunkOwned(at[t])
    BY <1>11 DEF Takes, Owned
  <2>2. moving[t] = Null
    BY <1>11 DEF Takes, InFlight
  <2>. QED
    BY <1>11, <2>1, <2>2 DEF Takes, ChunkOwned
<1>12. ASSUME NEW t \in Threads, Still, Same, Skips(t) PROVE Placed(d)'
  BY <1>12 DEF Skips
<1>13. ASSUME NEW t \in Threads, Still, Same, Submitted(t) PROVE Placed(d)'
  BY <1>13 DEF Submitted
<1>14. ASSUME NEW t \in Threads, Still, Same, Sync(t) PROVE Placed(d)'
  BY <1>14 DEF Sync
<1>15. ASSUME NEW t \in Threads, Still, Same, Return(t) PROVE Placed(d)'
  BY <1>15 DEF Return
<1>16. ASSUME NEW t \in Threads, Pushes(t, moving[t]), Same, PushTaken(t) PROVE
       Placed(d)'
  BY <1>16 DEF PushTaken, Pushes
<1>17. ASSUME NEW t \in Threads, Links(t), Same, LinkTaken(t) PROVE Placed(d)'
  BY <1>17 DEF LinkTaken, Links
<1>18. ASSUME NEW t \in Threads, Pops(t), Same, Drain(t) PROVE Placed(d)'
  BY <1>18 DEF Drain, Pops
<1>19. ASSUME NEW t \in Threads, Lets(t), Same, Drained(t) PROVE Placed(d)'
  <2>1. hand[t] = Null
    BY <1>19 DEF Drained, Lets, InFlight
  <2>. QED
    BY <1>19, <2>1 DEF Drained, Lets
<1>20. ASSUME NEW t \in Threads, Lets(t), Same, FreeChunk(t) PROVE Placed(d)'
  BY <1>20 DEF FreeChunk, Lets
<1>21. ASSUME NEW t \in Threads, Still, Spills(t) PROVE Placed(d)'
  BY <1>21 DEF Spills
<1>22. ASSUME Still, Same, Tick PROVE Placed(d)'
  BY <1>22 DEF Tick
<1>23. ASSUME Still, Same, StopFlusher PROVE Placed(d)'
  BY <1>23 DEF StopFlusher
<1>24. ASSUME Still, Same, Deinit PROVE Placed(d)'
  BY <1>24 DEF Deinit
<1>25. ASSUME Still, Same, Close PROVE Placed(d)'
  <2>1. \A q \in Workers : chunk[q] = Null
    BY <1>25 DEF Close, Stopping
  <2>2. free' = free
    BY <1>25, <2>1 DEF Close
  <2>3. \A q \in Workers : chunk'[q] = Null
    BY <1>25 DEF Close
  <2>. QED
    BY <1>25, <2>1, <2>2, <2>3 DEF Close
<1>26. ASSUME Still, Same, UNCHANGED vars PROVE Placed(d)'
  BY <1>26 DEF vars
<1>. HIDE DEF Step, Unlock, wvars, cvars, fvars, svars, Still, Same, FunTypes, Placed
<1>. QED
  BY <1>1, <1>2, <1>3, <1>4, <1>5, <1>6, <1>7, <1>8, <1>9, <1>10, <1>11, <1>12,
     <1>13, <1>14, <1>15, <1>16, <1>17, <1>18, <1>19, <1>20, <1>21, <1>22, <1>23, <1>24,
     <1>25, <1>26 DEF LogStep

\* No record is in two places.
LEMMA ApartStep ==
  ASSUME FunTypes, StagesOk, Stopping, Owned, InFlight, Apart, Accounts, Counted,
         LogStep
  PROVE  Apart'
<1>. USE Roles
<1>. USE DEF Step, Unlock, wvars, cvars, fvars, svars, Still, Same, FunTypes, Apart
<1>1. ASSUME NEW p \in Workers, Still, Same, Write(p) PROVE Apart'
  BY <1>1 DEF Out, Write
<1>2. ASSUME NEW p \in Workers, Still, Same, Crash(p) PROVE Apart'
  BY <1>2 DEF Out, Crash
<1>3. ASSUME NEW p \in Workers, Still, Same, LockProducer(p) PROVE Apart'
  BY <1>3 DEF Out, LockProducer
<1>4. ASSUME NEW p \in Workers, Still, Same, AllocFails(p) PROVE Apart'
  BY <1>4 DEF Out, AllocFails
<1>5. ASSUME NEW p \in Workers, Pushes(p, chunk[p]), Same, PushFull(p) PROVE Apart'
  BY <1>5 DEF Out, PushFull, Pushes
<1>6. ASSUME NEW p \in Workers, Links(p), Same, LinkFull(p) PROVE Apart'
  BY <1>6 DEF Out, LinkFull, Links
<1>7. ASSUME NEW p \in Workers, Still, NEW c \in free, Allocs(p, c) PROVE Apart'
  <2>1. c \in Chunks /\ Record(p) \notin Out /\ \A d \in Chunks \ free : Record(p) \notin Content[d]
    BY <1>7, FreshRecord
  <2>2. Content'[c] = {Record(p)} /\ \A d \in Chunks \ {c} : Content'[d] = Content[d]
    BY <1>7, <2>1 DEF Allocs
  <2>3. \A d \in Chunks \ free' : d = c \/ d \in Chunks \ free
    BY <1>7 DEF Allocs
  <2>4. Out' = Out
    BY <1>7 DEF Allocs, Out
  <2>. QED
    BY <2>1, <2>2, <2>3, <2>4
<1>8. ASSUME NEW p \in Workers, Still, Appends(p) PROVE Apart'
  <2>1. /\ chunk[p] \in Chunks \ free /\ Record(p) \notin Out
        /\ \A d \in Chunks \ free : Record(p) \notin Content[d]
    BY <1>8, FreshRecord DEF Appends, InFlight, Owned, ChunkOwned
  <2>2. /\ Content'[chunk[p]] = Content[chunk[p]] \cup {Record(p)}
        /\ \A d \in Chunks \ {chunk[p]} : Content'[d] = Content[d]
    BY <1>8, <2>1 DEF Appends
  <2>3. free' = free /\ Out' = Out
    BY <1>8 DEF Appends, Out
  <2>. QED
    BY <2>1, <2>2, <2>3
<1>9. ASSUME NEW t \in Threads, Still, Same, TakeBusy(t) PROVE Apart'
  BY <1>9 DEF Out, TakeBusy
<1>10. ASSUME NEW t \in Threads, Still, Same, Busy(t) PROVE Apart'
  BY <1>10 DEF Out, Busy
<1>11. ASSUME NEW t \in Threads, Still, Same, Takes(t) PROVE Apart'
  BY <1>11 DEF Out, Takes
<1>12. ASSUME NEW t \in Threads, Still, Same, Skips(t) PROVE Apart'
  BY <1>12 DEF Out, Skips
<1>13. ASSUME NEW t \in Threads, Still, Same, Submitted(t) PROVE Apart'
  BY <1>13 DEF Out, Submitted
<1>14. ASSUME NEW t \in Threads, Still, Same, Sync(t) PROVE Apart'
  BY <1>14, OutStep DEF Sync
<1>15. ASSUME NEW t \in Threads, Still, Same, Return(t) PROVE Apart'
  BY <1>15 DEF Out, Return
<1>16. ASSUME NEW t \in Threads, Pushes(t, moving[t]), Same, PushTaken(t) PROVE Apart'
  BY <1>16 DEF Out, PushTaken, Pushes
<1>17. ASSUME NEW t \in Threads, Links(t), Same, LinkTaken(t) PROVE Apart'
  BY <1>17 DEF Out, LinkTaken, Links
<1>18. ASSUME NEW t \in Threads, Pops(t), Same, Drain(t) PROVE Apart'
  BY <1>18 DEF Out, Drain, Pops
<1>19. ASSUME NEW t \in Threads, Lets(t), Same, Drained(t) PROVE Apart'
  BY <1>19 DEF Out, Drained, Lets
<1>20. ASSUME NEW t \in Threads, Lets(t), Same, FreeChunk(t) PROVE Apart'
  BY <1>20 DEF Out, FreeChunk, Lets
<1>21. ASSUME NEW t \in Threads, Still, Spills(t) PROVE Apart'
  <2>1. hand[t] \in Chunks \ free
    <3>1. hand[t] # Null
      BY <1>21 DEF Spills, InFlight
    <3>2. HandOwned(t)
      BY <1>21 DEF Owned
    <3>. QED
      BY <1>21, <3>1, <3>2 DEF HandOwned
  <2>2. PICK r \in Content[hand[t]] :
          /\ Content' = [Content EXCEPT ![hand[t]] = @ \ {r}]
          /\ Out' = Out \cup {r}
    BY <1>21 DEF Spills
  <2>3. /\ Content'[hand[t]] = Content[hand[t]] \ {r}
        /\ \A d \in Chunks \ {hand[t]} : Content'[d] = Content[d]
    BY <2>1, <2>2
  <2>4. free' = free
    BY <1>21 DEF Spills
  <2>. QED
    BY <2>1, <2>2, <2>3, <2>4
<1>22. ASSUME Still, Same, Tick PROVE Apart'
  BY <1>22 DEF Out, Tick
<1>23. ASSUME Still, Same, StopFlusher PROVE Apart'
  BY <1>23 DEF Out, StopFlusher
<1>24. ASSUME Still, Same, Deinit PROVE Apart'
  BY <1>24 DEF Out, Deinit
<1>25. ASSUME Still, Same, Close PROVE Apart'
  <2>1. \A q \in Workers : chunk[q] = Null
    BY <1>25 DEF Close, Stopping
  <2>2. free' = free
    BY <1>25, <2>1 DEF Close
  <2>3. \A q \in Workers : chunk'[q] = Null
    BY <1>25 DEF Close
  <2>. QED
    BY <1>25, OutStep, <2>1, <2>2, <2>3 DEF Close
<1>26. ASSUME Still, Same, UNCHANGED vars PROVE Apart'
  BY <1>26 DEF Out, vars
<1>. HIDE DEF Step, Unlock, wvars, cvars, fvars, svars, Still, Same, FunTypes, Apart
<1>. QED
  BY <1>1, <1>2, <1>3, <1>4, <1>5, <1>6, <1>7, <1>8, <1>9, <1>10, <1>11, <1>12,
     <1>13, <1>14, <1>15, <1>16, <1>17, <1>18, <1>19, <1>20, <1>21, <1>22, <1>23, <1>24,
     <1>25, <1>26 DEF LogStep

\* No record is forgotten, and none comes from nowhere.
LEMMA AccountsStep ==
  ASSUME FunTypes, LogTypeOK, StagesOk, Stopping, Owned, InFlight, Accounts, LogStep
  PROVE  Accounts'
<1>. USE Roles
<1>. USE DEF Step, Unlock, wvars, cvars, fvars, svars, Still, Same, FunTypes, Accounts
<1>1. ASSUME NEW p \in Workers, Still, Same, Write(p) PROVE Accounts'
  BY <1>1 DEF Out, Write
<1>2. ASSUME NEW p \in Workers, Still, Same, Crash(p) PROVE Accounts'
  BY <1>2 DEF Out, Crash
<1>3. ASSUME NEW p \in Workers, Still, Same, LockProducer(p) PROVE Accounts'
  BY <1>3 DEF Out, LockProducer
<1>4. ASSUME NEW p \in Workers, Still, Same, AllocFails(p) PROVE Accounts'
  BY <1>4 DEF Out, AllocFails
<1>5. ASSUME NEW p \in Workers, Pushes(p, chunk[p]), Same, PushFull(p) PROVE Accounts'
  BY <1>5 DEF Out, PushFull, Pushes
<1>6. ASSUME NEW p \in Workers, Links(p), Same, LinkFull(p) PROVE Accounts'
  BY <1>6 DEF Out, LinkFull, Links
<1>7. ASSUME NEW p \in Workers, Still, NEW c \in free, Allocs(p, c) PROVE Accounts'
  <2>1. c \in Chunks
    BY <1>7
  <2>2. Content'[c] = {Record(p)} /\ \A d \in Chunks \ {c} : Content'[d] = Content[d]
    BY <1>7, <2>1 DEF Allocs
  <2>3. \A d \in Chunks : d \in Chunks \ free' <=> d = c \/ d \in Chunks \ free
    BY <1>7 DEF Allocs
  <2>4. Out' = Out /\ accepted' = accepted \cup {Record(p)} /\ c \in free
    BY <1>7 DEF Allocs, Out
  <2>. QED
    BY <2>1, <2>2, <2>3, <2>4
<1>8. ASSUME NEW p \in Workers, Still, Appends(p) PROVE Accounts'
  <2>1. chunk[p] \in Chunks \ free
    BY <1>8 DEF Appends, InFlight, Owned, ChunkOwned
  <2>2. /\ Content'[chunk[p]] = Content[chunk[p]] \cup {Record(p)}
        /\ \A d \in Chunks \ {chunk[p]} : Content'[d] = Content[d]
    BY <1>8, <2>1 DEF Appends
  <2>3. free' = free /\ Out' = Out /\ accepted' = accepted \cup {Record(p)}
    BY <1>8 DEF Appends, Out
  <2>. QED
    BY <2>1, <2>2, <2>3
<1>9. ASSUME NEW t \in Threads, Still, Same, TakeBusy(t) PROVE Accounts'
  BY <1>9 DEF Out, TakeBusy
<1>10. ASSUME NEW t \in Threads, Still, Same, Busy(t) PROVE Accounts'
  BY <1>10 DEF Out, Busy
<1>11. ASSUME NEW t \in Threads, Still, Same, Takes(t) PROVE Accounts'
  BY <1>11 DEF Out, Takes
<1>12. ASSUME NEW t \in Threads, Still, Same, Skips(t) PROVE Accounts'
  BY <1>12 DEF Out, Skips
<1>13. ASSUME NEW t \in Threads, Still, Same, Submitted(t) PROVE Accounts'
  BY <1>13 DEF Out, Submitted
<1>14. ASSUME NEW t \in Threads, Still, Same, Sync(t) PROVE Accounts'
  BY <1>14, OutStep DEF Sync
<1>15. ASSUME NEW t \in Threads, Still, Same, Return(t) PROVE Accounts'
  BY <1>15 DEF Out, Return
<1>16. ASSUME NEW t \in Threads, Pushes(t, moving[t]), Same, PushTaken(t) PROVE
       Accounts'
  BY <1>16 DEF Out, PushTaken, Pushes
<1>17. ASSUME NEW t \in Threads, Links(t), Same, LinkTaken(t) PROVE Accounts'
  BY <1>17 DEF Out, LinkTaken, Links
<1>18. ASSUME NEW t \in Threads, Pops(t), Same, Drain(t) PROVE Accounts'
  BY <1>18 DEF Out, Drain, Pops
<1>19. ASSUME NEW t \in Threads, Lets(t), Same, Drained(t) PROVE Accounts'
  BY <1>19 DEF Out, Drained, Lets
<1>20. ASSUME NEW t \in Threads, Lets(t), Same, FreeChunk(t) PROVE Accounts'
  <2>1. hand[t] \in Chunks /\ Content[hand[t]] = {}
    <3>1. hand[t] # Null /\ data[hand[t]] = << >>
      BY <1>20 DEF FreeChunk, InFlight
    <3>. QED
      BY <1>20, <3>1, ContentOf
  <2>2. free' = free \cup {hand[t]} /\ Out' = Out /\ accepted' = accepted
    BY <1>20 DEF FreeChunk, Out
  <2>. QED
    BY <1>20, <2>1, <2>2
<1>21. ASSUME NEW t \in Threads, Still, Spills(t) PROVE Accounts'
  <2>1. hand[t] \in Chunks \ free
    <3>1. hand[t] # Null
      BY <1>21 DEF Spills, InFlight
    <3>2. HandOwned(t)
      BY <1>21 DEF Owned
    <3>. QED
      BY <1>21, <3>1, <3>2 DEF HandOwned
  <2>2. PICK r \in Content[hand[t]] :
          /\ Content' = [Content EXCEPT ![hand[t]] = @ \ {r}]
          /\ Out' = Out \cup {r}
    BY <1>21 DEF Spills
  <2>3. /\ Content'[hand[t]] = Content[hand[t]] \ {r}
        /\ \A d \in Chunks \ {hand[t]} : Content'[d] = Content[d]
    BY <2>1, <2>2
  <2>4. free' = free /\ accepted' = accepted
    BY <1>21 DEF Spills
  <2>5. \A x : (\E d \in Chunks \ free : x \in Content[d])
                 <=> x = r \/ (\E d \in Chunks \ free : x \in Content'[d])
    BY <2>1, <2>2, <2>3
  <2>. QED
    BY <2>2, <2>4, <2>5
<1>22. ASSUME Still, Same, Tick PROVE Accounts'
  BY <1>22 DEF Out, Tick
<1>23. ASSUME Still, Same, StopFlusher PROVE Accounts'
  BY <1>23 DEF Out, StopFlusher
<1>24. ASSUME Still, Same, Deinit PROVE Accounts'
  BY <1>24 DEF Out, Deinit
<1>25. ASSUME Still, Same, Close PROVE Accounts'
  <2>1. \A q \in Workers : chunk[q] = Null
    BY <1>25 DEF Close, Stopping
  <2>2. free' = free
    BY <1>25, <2>1 DEF Close
  <2>3. \A q \in Workers : chunk'[q] = Null
    BY <1>25 DEF Close
  <2>. QED
    BY <1>25, OutStep, <2>1, <2>2, <2>3 DEF Close
<1>26. ASSUME Still, Same, UNCHANGED vars PROVE Accounts'
  BY <1>26 DEF Out, vars
<1>. HIDE DEF Step, Unlock, wvars, cvars, fvars, svars, Still, Same, FunTypes, Accounts
<1>. QED
  BY <1>1, <1>2, <1>3, <1>4, <1>5, <1>6, <1>7, <1>8, <1>9, <1>10, <1>11, <1>12,
     <1>13, <1>14, <1>15, <1>16, <1>17, <1>18, <1>19, <1>20, <1>21, <1>22, <1>23, <1>24,
     <1>25, <1>26 DEF LogStep

\* The lines of a worker are counted down.
LEMMA CountedStep ==
  ASSUME FunTypes, Counted, accepted \subseteq Workers \X Nat, LogStep
  PROVE  Counted'
<1>. USE Roles
<1>. USE DEF Step, Unlock, wvars, cvars, fvars, svars, Still, Same, FunTypes
<1>1. ASSUME NEW p \in Workers, Still, Same, Write(p) PROVE Counted'
  BY <1>1 DEF Counted, Write
<1>2. ASSUME NEW p \in Workers, Still, Same, Crash(p) PROVE Counted'
  BY <1>2 DEF Counted, Crash
<1>3. ASSUME NEW p \in Workers, Still, Same, LockProducer(p) PROVE Counted'
  BY <1>3 DEF Counted, LockProducer
<1>4. ASSUME NEW p \in Workers, Still, Same, AllocFails(p) PROVE Counted'
  <2>1. /\ left'[p] = left[p] - 1 /\ left[p] \in Nat
        /\ \A o \in Workers \ {p} : left'[o] = left[o]
    BY <1>4 DEF AllocFails
  <2>2. ASSUME NEW o \in Workers PROVE left'[o] \in Int /\ left'[o] <= left[o] /\ left[o] \in Nat
    BY <2>1
  <2>3. ASSUME NEW r \in accepted PROVE r[2] > left'[r[1]]
    <3>1. r[1] \in Workers /\ r[2] \in Nat /\ r[2] > left[r[1]]
      BY DEF Counted
    <3>. QED
      BY <2>2, <3>1
  <2>4. Record(p)[2] > left'[Record(p)[1]]
    BY <2>1 DEF Record
  <2>5. accepted' \subseteq accepted \cup {Record(p)}
    BY <1>4 DEF AllocFails
  <2>. QED
    BY <2>3, <2>4, <2>5 DEF Counted
<1>5. ASSUME NEW p \in Workers, Pushes(p, chunk[p]), Same, PushFull(p) PROVE Counted'
  BY <1>5 DEF Counted, PushFull, Pushes
<1>6. ASSUME NEW p \in Workers, Links(p), Same, LinkFull(p) PROVE Counted'
  BY <1>6 DEF Counted, LinkFull, Links
<1>7. ASSUME NEW p \in Workers, Still, NEW c \in free, Allocs(p, c) PROVE Counted'
  <2>1. /\ left'[p] = left[p] - 1 /\ left[p] \in Nat
        /\ \A o \in Workers \ {p} : left'[o] = left[o]
    BY <1>7 DEF Allocs
  <2>2. ASSUME NEW o \in Workers PROVE left'[o] \in Int /\ left'[o] <= left[o] /\ left[o] \in Nat
    BY <2>1
  <2>3. ASSUME NEW r \in accepted PROVE r[2] > left'[r[1]]
    <3>1. r[1] \in Workers /\ r[2] \in Nat /\ r[2] > left[r[1]]
      BY DEF Counted
    <3>. QED
      BY <2>2, <3>1
  <2>4. Record(p)[2] > left'[Record(p)[1]]
    BY <2>1 DEF Record
  <2>5. accepted' \subseteq accepted \cup {Record(p)}
    BY <1>7 DEF Allocs
  <2>. QED
    BY <2>3, <2>4, <2>5 DEF Counted
<1>8. ASSUME NEW p \in Workers, Still, Appends(p) PROVE Counted'
  <2>1. /\ left'[p] = left[p] - 1 /\ left[p] \in Nat
        /\ \A o \in Workers \ {p} : left'[o] = left[o]
    BY <1>8 DEF Appends
  <2>2. ASSUME NEW o \in Workers PROVE left'[o] \in Int /\ left'[o] <= left[o] /\ left[o] \in Nat
    BY <2>1
  <2>3. ASSUME NEW r \in accepted PROVE r[2] > left'[r[1]]
    <3>1. r[1] \in Workers /\ r[2] \in Nat /\ r[2] > left[r[1]]
      BY DEF Counted
    <3>. QED
      BY <2>2, <3>1
  <2>4. Record(p)[2] > left'[Record(p)[1]]
    BY <2>1 DEF Record
  <2>5. accepted' \subseteq accepted \cup {Record(p)}
    BY <1>8 DEF Appends
  <2>. QED
    BY <2>3, <2>4, <2>5 DEF Counted
<1>9. ASSUME NEW t \in Threads, Still, Same, TakeBusy(t) PROVE Counted'
  BY <1>9 DEF Counted, TakeBusy
<1>10. ASSUME NEW t \in Threads, Still, Same, Busy(t) PROVE Counted'
  BY <1>10 DEF Counted, Busy
<1>11. ASSUME NEW t \in Threads, Still, Same, Takes(t) PROVE Counted'
  BY <1>11 DEF Counted, Takes
<1>12. ASSUME NEW t \in Threads, Still, Same, Skips(t) PROVE Counted'
  BY <1>12 DEF Counted, Skips
<1>13. ASSUME NEW t \in Threads, Still, Same, Submitted(t) PROVE Counted'
  BY <1>13 DEF Counted, Submitted
<1>14. ASSUME NEW t \in Threads, Still, Same, Sync(t) PROVE Counted'
  BY <1>14 DEF Counted, Sync
<1>15. ASSUME NEW t \in Threads, Still, Same, Return(t) PROVE Counted'
  BY <1>15 DEF Counted, Return
<1>16. ASSUME NEW t \in Threads, Pushes(t, moving[t]), Same, PushTaken(t) PROVE Counted'
  BY <1>16 DEF Counted, PushTaken, Pushes
<1>17. ASSUME NEW t \in Threads, Links(t), Same, LinkTaken(t) PROVE Counted'
  BY <1>17 DEF Counted, LinkTaken, Links
<1>18. ASSUME NEW t \in Threads, Pops(t), Same, Drain(t) PROVE Counted'
  BY <1>18 DEF Counted, Drain, Pops
<1>19. ASSUME NEW t \in Threads, Lets(t), Same, Drained(t) PROVE Counted'
  BY <1>19 DEF Counted, Drained, Lets
<1>20. ASSUME NEW t \in Threads, Lets(t), Same, FreeChunk(t) PROVE Counted'
  BY <1>20 DEF Counted, FreeChunk, Lets
<1>21. ASSUME NEW t \in Threads, Still, Spills(t) PROVE Counted'
  BY <1>21 DEF Counted, Spills
<1>22. ASSUME Still, Same, Tick PROVE Counted'
  BY <1>22 DEF Counted, Tick
<1>23. ASSUME Still, Same, StopFlusher PROVE Counted'
  BY <1>23 DEF Counted, StopFlusher
<1>24. ASSUME Still, Same, Deinit PROVE Counted'
  BY <1>24 DEF Counted, Deinit
<1>25. ASSUME Still, Same, Close PROVE Counted'
  BY <1>25 DEF Counted, Close
<1>26. ASSUME Still, Same, UNCHANGED vars PROVE Counted'
  BY <1>26 DEF Counted, vars
<1>. HIDE DEF Step, Unlock, wvars, cvars, fvars, svars, Still, Same, FunTypes
<1>. QED
  BY <1>1, <1>2, <1>3, <1>4, <1>5, <1>6, <1>7, <1>8, <1>9, <1>10, <1>11, <1>12,
     <1>13, <1>14, <1>15, <1>16, <1>17, <1>18, <1>19, <1>20, <1>21, <1>22, <1>23, <1>24,
     <1>25, <1>26 DEF LogStep

\* A line is written once, or lost.
LEMMA SinksStep ==
  ASSUME FunTypes, InFlight, Owned, Apart, Sinks, LogStep
  PROVE  Sinks'
<1>. USE Roles
<1>. USE DEF Step, Unlock, wvars, cvars, fvars, svars, Still, Same, FunTypes
<1>1. ASSUME NEW p \in Workers, Still, Same, Write(p) PROVE Sinks'
  BY <1>1 DEF Sinks, Write
<1>2. ASSUME NEW p \in Workers, Still, Same, Crash(p) PROVE Sinks'
  BY <1>2 DEF Sinks, Crash
<1>3. ASSUME NEW p \in Workers, Still, Same, LockProducer(p) PROVE Sinks'
  BY <1>3 DEF Sinks, LockProducer
<1>4. ASSUME NEW p \in Workers, Still, Same, AllocFails(p) PROVE Sinks'
  BY <1>4 DEF Sinks, AllocFails
<1>5. ASSUME NEW p \in Workers, Pushes(p, chunk[p]), Same, PushFull(p) PROVE Sinks'
  BY <1>5 DEF Sinks, PushFull, Pushes
<1>6. ASSUME NEW p \in Workers, Links(p), Same, LinkFull(p) PROVE Sinks'
  BY <1>6 DEF Sinks, LinkFull, Links
<1>7. ASSUME NEW p \in Workers, Still, NEW c \in free, Allocs(p, c) PROVE Sinks'
  BY <1>7 DEF Sinks, Allocs
<1>8. ASSUME NEW p \in Workers, Still, Appends(p) PROVE Sinks'
  BY <1>8 DEF Sinks, Appends
<1>9. ASSUME NEW t \in Threads, Still, Same, TakeBusy(t) PROVE Sinks'
  BY <1>9 DEF Sinks, TakeBusy
<1>10. ASSUME NEW t \in Threads, Still, Same, Busy(t) PROVE Sinks'
  BY <1>10 DEF Sinks, Busy
<1>11. ASSUME NEW t \in Threads, Still, Same, Takes(t) PROVE Sinks'
  BY <1>11 DEF Sinks, Takes
<1>12. ASSUME NEW t \in Threads, Still, Same, Skips(t) PROVE Sinks'
  BY <1>12 DEF Sinks, Skips
<1>13. ASSUME NEW t \in Threads, Still, Same, Submitted(t) PROVE Sinks'
  BY <1>13 DEF Sinks, Submitted
<1>14. ASSUME NEW t \in Threads, Still, Same, Sync(t) PROVE Sinks'
  BY <1>14 DEF Sinks, Sync
<1>15. ASSUME NEW t \in Threads, Still, Same, Return(t) PROVE Sinks'
  BY <1>15 DEF Sinks, Return
<1>16. ASSUME NEW t \in Threads, Pushes(t, moving[t]), Same, PushTaken(t) PROVE Sinks'
  BY <1>16 DEF Sinks, PushTaken, Pushes
<1>17. ASSUME NEW t \in Threads, Links(t), Same, LinkTaken(t) PROVE Sinks'
  BY <1>17 DEF Sinks, LinkTaken, Links
<1>18. ASSUME NEW t \in Threads, Pops(t), Same, Drain(t) PROVE Sinks'
  BY <1>18 DEF Sinks, Drain, Pops
<1>19. ASSUME NEW t \in Threads, Lets(t), Same, Drained(t) PROVE Sinks'
  BY <1>19 DEF Sinks, Drained, Lets
<1>20. ASSUME NEW t \in Threads, Lets(t), Same, FreeChunk(t) PROVE Sinks'
  BY <1>20 DEF Sinks, FreeChunk, Lets
<1>21. ASSUME NEW t \in Threads, Still, Spills(t) PROVE Sinks'
  <2>1. hand[t] \in Chunks \ free
    <3>1. hand[t] # Null
      BY <1>21 DEF Spills, InFlight
    <3>2. HandOwned(t)
      BY <1>21 DEF Owned
    <3>. QED
      BY <1>21, <3>1, <3>2 DEF HandOwned
  <2>2. Content[hand[t]] \cap Out = {}
    BY <2>1 DEF Apart
  <2>. QED
    BY <1>21, <2>2 DEF Spills
<1>22. ASSUME Still, Same, Tick PROVE Sinks'
  BY <1>22 DEF Sinks, Tick
<1>23. ASSUME Still, Same, StopFlusher PROVE Sinks'
  BY <1>23 DEF Sinks, StopFlusher
<1>24. ASSUME Still, Same, Deinit PROVE Sinks'
  BY <1>24 DEF Sinks, Deinit
<1>25. ASSUME Still, Same, Close PROVE Sinks'
  BY <1>25 DEF Sinks, Close
<1>26. ASSUME Still, Same, UNCHANGED vars PROVE Sinks'
  BY <1>26 DEF Sinks, vars
<1>. HIDE DEF Step, Unlock, wvars, cvars, fvars, svars, Still, Same, FunTypes
<1>. QED
  BY <1>1, <1>2, <1>3, <1>4, <1>5, <1>6, <1>7, <1>8, <1>9, <1>10, <1>11, <1>12,
     <1>13, <1>14, <1>15, <1>16, <1>17, <1>18, <1>19, <1>20, <1>21, <1>22, <1>23, <1>24,
     <1>25, <1>26 DEF LogStep

\* A pop that no push overlaps sees the whole queue.
LEMMA PopSeesStep ==
  ASSUME FunTypes, MpscAssumption, MInv, MInv', StagesOk, Alone, Covered, LogStep
  PROVE  \A u \in Threads : PopSees(u)'
<1>. USE Roles
<1>. USE DEF Step, Unlock, wvars, cvars, fvars, svars, Still, Same, FunTypes, PopSees
<1>. SUFFICES ASSUME NEW u \in Threads, PopSees(u), StageOk(u) PROVE PopSees(u)'
  BY DEF Covered, StagesOk
<1>1. ASSUME NEW p \in Workers, Still, Same, Write(p) PROVE PopSees(u)'
  BY <1>1 DEF Seen, Write
<1>2. ASSUME NEW p \in Workers, Still, Same, Crash(p) PROVE PopSees(u)'
  BY <1>2 DEF Seen, Crash
<1>3. ASSUME NEW p \in Workers, Still, Same, LockProducer(p) PROVE PopSees(u)'
  BY <1>3 DEF Seen, LockProducer
<1>4. ASSUME NEW p \in Workers, Still, Same, AllocFails(p) PROVE PopSees(u)'
  BY <1>4 DEF Seen, AllocFails
<1>5. ASSUME NEW p \in Workers, Pushes(p, chunk[p]), Same, PushFull(p) PROVE PopSees(u)'
  BY <1>5 DEF PushFull, Pushes
<1>6. ASSUME NEW p \in Workers, Links(p), Same, LinkFull(p) PROVE PopSees(u)'
  BY <1>6 DEF Seen, LinkFull, Links
<1>7. ASSUME NEW p \in Workers, Still, NEW c \in free, Allocs(p, c) PROVE PopSees(u)'
  BY <1>7 DEF Seen, Allocs
<1>8. ASSUME NEW p \in Workers, Still, Appends(p) PROVE PopSees(u)'
  BY <1>8 DEF Seen, Appends
<1>9. ASSUME NEW t \in Threads, Still, Same, TakeBusy(t) PROVE PopSees(u)'
  BY <1>9 DEF Seen, TakeBusy
<1>10. ASSUME NEW t \in Threads, Still, Same, Busy(t) PROVE PopSees(u)'
  BY <1>10 DEF Seen, Busy
<1>11. ASSUME NEW t \in Threads, Still, Same, Takes(t) PROVE PopSees(u)'
  BY <1>11 DEF Seen, Takes
<1>12. ASSUME NEW t \in Threads, Still, Same, Skips(t) PROVE PopSees(u)'
  BY <1>12 DEF Seen, Skips
<1>13. ASSUME NEW t \in Threads, Still, Same, Submitted(t) PROVE PopSees(u)'
  BY <1>13 DEF Seen, Submitted
<1>14. ASSUME NEW t \in Threads, Still, Same, Sync(t) PROVE PopSees(u)'
  BY <1>14 DEF Seen, Sync
<1>15. ASSUME NEW t \in Threads, Still, Same, Return(t) PROVE PopSees(u)'
  <2>1. u = t => pop[u] = "idle"
    BY <1>15 DEF Return, StageOk
  <2>. QED
    BY <1>15, <2>1 DEF Return, Seen
<1>16. ASSUME NEW t \in Threads, Pushes(t, moving[t]), Same, PushTaken(t) PROVE
       PopSees(u)'
  <2>1. pc[t] = "push" /\ (pop[u] # "idle" => pc[u] = "drain")
    BY <1>16 DEF PushTaken, Pushes, StageOk
  <2>2. pop[u] # "idle" => u = t
    BY <2>1 DEF Alone, Flushing
  <2>. QED
    BY <1>16, <2>1, <2>2 DEF PushTaken, Pushes
<1>17. ASSUME NEW t \in Threads, Links(t), Same, LinkTaken(t) PROVE PopSees(u)'
  <2>1. pc[t] = "linktaken" /\ (pop[u] # "idle" => pc[u] = "drain")
    BY <1>17 DEF LinkTaken, Links, StageOk
  <2>2. pop[u] # "idle" => u = t
    BY <2>1 DEF Alone, Flushing
  <2>. QED
    BY <1>17, <2>1, <2>2 DEF LinkTaken, Links
<1>18. ASSUME NEW t \in Threads, Pops(t), Same, Drain(t) PROVE PopSees(u)'
  <2>1. pc[t] = "drain" /\ (pop[u] # "idle" => pc[u] = "drain") /\ PopStep(t)
    BY <1>18 DEF Drain, StageOk
  <2>2. pop[u] # "idle" => u = t
    BY <2>1 DEF Alone, Flushing
  <2>3. u # t => pop'[u] = "idle"
    BY <1>18, <2>2 DEF Pops
  <2>4. CASE u = t /\ ~overlap'[u]
    <3>1. pop[t] = "idle" => Linking = {}
      BY <1>18, <2>4 DEF Drain, Linking
    <3>2. pop[t] # "idle" => Seen(t)
      BY <1>18, <2>4 DEF Drain
    <3>3. Seen(t)'
      BY <1>18, <2>1, <3>1, <3>2, SeenStep
    <3>. QED
      BY <2>4, <3>3
  <2>. QED
    BY <2>3, <2>4
<1>19. ASSUME NEW t \in Threads, Lets(t), Same, Drained(t) PROVE PopSees(u)'
  <2>1. pc[t] = "drain" /\ (pop[u] # "idle" => pc[u] = "drain")
    BY <1>19 DEF Drained, Lets, StageOk
  <2>2. pop[u] # "idle" => u = t
    BY <2>1 DEF Alone, Flushing
  <2>. QED
    BY <1>19, <2>1, <2>2 DEF Drained, Lets
<1>20. ASSUME NEW t \in Threads, Lets(t), Same, FreeChunk(t) PROVE PopSees(u)'
  <2>1. pc[t] = "drain" /\ (pop[u] # "idle" => pc[u] = "drain")
    BY <1>20 DEF FreeChunk, Lets, StageOk
  <2>2. pop[u] # "idle" => u = t
    BY <2>1 DEF Alone, Flushing
  <2>. QED
    BY <1>20, <2>1, <2>2 DEF FreeChunk, Lets
<1>21. ASSUME NEW t \in Threads, Still, Spills(t) PROVE PopSees(u)'
  BY <1>21 DEF Seen, Spills
<1>22. ASSUME Still, Same, Tick PROVE PopSees(u)'
  BY <1>22 DEF Seen, Tick
<1>23. ASSUME Still, Same, StopFlusher PROVE PopSees(u)'
  BY <1>23 DEF Seen, StopFlusher
<1>24. ASSUME Still, Same, Deinit PROVE PopSees(u)'
  BY <1>24 DEF Seen, Deinit
<1>25. ASSUME Still, Same, Close PROVE PopSees(u)'
  BY <1>25 DEF Seen, Close
<1>26. ASSUME Still, Same, UNCHANGED vars PROVE PopSees(u)'
  BY <1>26 DEF Seen, vars
<1>. HIDE DEF Step, Unlock, wvars, cvars, fvars, svars, Still, Same, FunTypes, PopSees
<1>. QED
  BY <1>1, <1>2, <1>3, <1>4, <1>5, <1>6, <1>7, <1>8, <1>9, <1>10, <1>11, <1>12,
     <1>13, <1>14, <1>15, <1>16, <1>17, <1>18, <1>19, <1>20, <1>21, <1>22, <1>23, <1>24,
     <1>25, <1>26 DEF LogStep

\* What a flush has to cover was stored before.
LEMMA StoredStep ==
  ASSUME FunTypes, Covered, LogStep
  PROVE  \A u \in Threads : (before[u] \subseteq accepted)'
<1>. USE DEF Step, Unlock, wvars, cvars, fvars, svars, Still, Same, FunTypes
<1>. SUFFICES ASSUME NEW u \in Threads, before[u] \subseteq accepted PROVE (before[u]
                 \subseteq accepted)'
  BY DEF Covered, CoversOk
<1>1. ASSUME NEW p \in Workers, Still, Same, Write(p) PROVE (before[u] \subseteq
       accepted)'
  BY <1>1 DEF Write
<1>2. ASSUME NEW p \in Workers, Still, Same, Crash(p) PROVE (before[u] \subseteq
       accepted)'
  BY <1>2 DEF Crash
<1>3. ASSUME NEW p \in Workers, Still, Same, LockProducer(p) PROVE (before[u] \subseteq
       accepted)'
  BY <1>3 DEF LockProducer
<1>4. ASSUME NEW p \in Workers, Still, Same, AllocFails(p) PROVE (before[u] \subseteq
       accepted)'
  BY <1>4 DEF AllocFails
<1>5. ASSUME NEW p \in Workers, Pushes(p, chunk[p]), Same, PushFull(p) PROVE (before[u]
       \subseteq accepted)'
  BY <1>5 DEF PushFull, Pushes
<1>6. ASSUME NEW p \in Workers, Links(p), Same, LinkFull(p) PROVE (before[u] \subseteq
       accepted)'
  BY <1>6 DEF LinkFull, Links
<1>7. ASSUME NEW p \in Workers, Still, NEW c \in free, Allocs(p, c) PROVE (before[u]
       \subseteq accepted)'
  BY <1>7 DEF Allocs
<1>8. ASSUME NEW p \in Workers, Still, Appends(p) PROVE (before[u] \subseteq accepted)'
  BY <1>8 DEF Appends
<1>9. ASSUME NEW t \in Threads, Still, Same, TakeBusy(t) PROVE (before[u] \subseteq
       accepted)'
  BY <1>9 DEF TakeBusy
<1>10. ASSUME NEW t \in Threads, Still, Same, Busy(t) PROVE (before[u] \subseteq
       accepted)'
  BY <1>10 DEF Busy
<1>11. ASSUME NEW t \in Threads, Still, Same, Takes(t) PROVE (before[u] \subseteq
       accepted)'
  BY <1>11 DEF Takes
<1>12. ASSUME NEW t \in Threads, Still, Same, Skips(t) PROVE (before[u] \subseteq
       accepted)'
  BY <1>12 DEF Skips
<1>13. ASSUME NEW t \in Threads, Still, Same, Submitted(t) PROVE (before[u] \subseteq
       accepted)'
  BY <1>13 DEF Submitted
<1>14. ASSUME NEW t \in Threads, Still, Same, Sync(t) PROVE (before[u] \subseteq
       accepted)'
  BY <1>14 DEF Sync
<1>15. ASSUME NEW t \in Threads, Still, Same, Return(t) PROVE (before[u] \subseteq
       accepted)'
  BY <1>15 DEF Return
<1>16. ASSUME NEW t \in Threads, Pushes(t, moving[t]), Same, PushTaken(t) PROVE
       (before[u] \subseteq accepted)'
  BY <1>16 DEF PushTaken, Pushes
<1>17. ASSUME NEW t \in Threads, Links(t), Same, LinkTaken(t) PROVE (before[u] \subseteq
       accepted)'
  BY <1>17 DEF LinkTaken, Links
<1>18. ASSUME NEW t \in Threads, Pops(t), Same, Drain(t) PROVE (before[u] \subseteq
       accepted)'
  BY <1>18 DEF Drain, Pops
<1>19. ASSUME NEW t \in Threads, Lets(t), Same, Drained(t) PROVE (before[u] \subseteq
       accepted)'
  BY <1>19 DEF Drained, Lets
<1>20. ASSUME NEW t \in Threads, Lets(t), Same, FreeChunk(t) PROVE (before[u] \subseteq
       accepted)'
  BY <1>20 DEF FreeChunk, Lets
<1>21. ASSUME NEW t \in Threads, Still, Spills(t) PROVE (before[u] \subseteq accepted)'
  BY <1>21 DEF Spills
<1>22. ASSUME Still, Same, Tick PROVE (before[u] \subseteq accepted)'
  BY <1>22 DEF Tick
<1>23. ASSUME Still, Same, StopFlusher PROVE (before[u] \subseteq accepted)'
  BY <1>23 DEF StopFlusher
<1>24. ASSUME Still, Same, Deinit PROVE (before[u] \subseteq accepted)'
  BY <1>24 DEF Deinit
<1>25. ASSUME Still, Same, Close PROVE (before[u] \subseteq accepted)'
  BY <1>25 DEF Close
<1>26. ASSUME Still, Same, UNCHANGED vars PROVE (before[u] \subseteq accepted)'
  BY <1>26 DEF vars
<1>. HIDE DEF Step, Unlock, wvars, cvars, fvars, svars, Still, Same, FunTypes
<1>. QED
  BY <1>1, <1>2, <1>3, <1>4, <1>5, <1>6, <1>7, <1>8, <1>9, <1>10, <1>11, <1>12,
     <1>13, <1>14, <1>15, <1>16, <1>17, <1>18, <1>19, <1>20, <1>21, <1>22, <1>23, <1>24,
     <1>25, <1>26 DEF LogStep

\* The producers a flush has passed hold nothing it has to cover.
LEMMA HandedStep ==
  ASSUME FunTypes, StagesOk, Stopping, Owned, InFlight, Accounts, Counted, Covered,
         LogStep
  PROVE  \A u \in Threads : HandedOver(u)'
<1>. USE Roles
<1>. USE DEF Step, Unlock, wvars, cvars, fvars, svars, Still, Same, FunTypes,
           HandedOver, Collecting, Behind
<1>. SUFFICES ASSUME NEW u \in Threads, HandedOver(u), before[u] \subseteq accepted,
                 StageOk(u) PROVE HandedOver(u)'
  BY DEF Covered, CoversOk, StagesOk
<1>1. ASSUME NEW p \in Workers, Still, Same, Write(p) PROVE HandedOver(u)'
  BY <1>1 DEF Write
<1>2. ASSUME NEW p \in Workers, Still, Same, Crash(p) PROVE HandedOver(u)'
  BY <1>2 DEF Crash
<1>3. ASSUME NEW p \in Workers, Still, Same, LockProducer(p) PROVE HandedOver(u)'
  BY <1>3 DEF LockProducer
<1>4. ASSUME NEW p \in Workers, Still, Same, AllocFails(p) PROVE HandedOver(u)'
  BY <1>4 DEF AllocFails
<1>5. ASSUME NEW p \in Workers, Pushes(p, chunk[p]), Same, PushFull(p) PROVE
       HandedOver(u)'
  BY <1>5 DEF PushFull, Pushes
<1>6. ASSUME NEW p \in Workers, Links(p), Same, LinkFull(p) PROVE HandedOver(u)'
  BY <1>6 DEF LinkFull, Links
<1>7. ASSUME NEW p \in Workers, Still, NEW c \in free, Allocs(p, c) PROVE HandedOver(u)'
  <2>1. c \in Chunks /\ Record(p) \notin before[u] /\ \A q \in Workers : chunk[q] # c
    BY <1>7, FreshRecord DEF Owned, ChunkOwned
  <2>2. Content'[c] = {Record(p)} /\ \A d \in Chunks \ {c} : Content'[d] = Content[d]
    BY <1>7, <2>1 DEF Allocs
  <2>3. /\ before' = before /\ at' = at /\ \A w \in Threads \ {p} : pc'[w] = pc[w]
        /\ chunk'[p] = c /\ \A q \in Workers \ {p} : chunk'[q] = chunk[q]
        /\ pc'[p] \in {"flush", "idle"}
    BY <1>7 DEF Allocs
  <2>4. ASSUME NEW q \in Workers, chunk'[q] # Null
        PROVE  Content'[chunk'[q]] \cap before[u] = {}
               \/ (chunk[q] # Null /\ Content'[chunk'[q]] = Content[chunk[q]])
    BY <2>1, <2>2, <2>3, <2>4
  <2>5. u = p => pc'[u] \in {"flush", "idle"}
    BY <2>3
  <2>6. u # p => pc'[u] = pc[u]
    BY <2>3
  <2>. QED
    BY <2>3, <2>4, <2>5, <2>6
<1>8. ASSUME NEW p \in Workers, Still, Appends(p) PROVE HandedOver(u)'
  <2>1. Record(p) \notin before[u] /\ chunk[p] \in Chunks
    BY <1>8, FreshRecord DEF Appends, InFlight
  <2>2. /\ Content'[chunk[p]] = Content[chunk[p]] \cup {Record(p)}
        /\ \A d \in Chunks \ {chunk[p]} : Content'[d] = Content[d]
    BY <1>8, <2>1 DEF Appends
  <2>3. /\ before' = before /\ at' = at /\ \A w \in Threads \ {p} : pc'[w] = pc[w]
        /\ chunk' = chunk /\ pc'[p] \in {"flush", "idle"}
    BY <1>8 DEF Appends
  <2>4. ASSUME NEW q \in Workers, chunk[q] # Null, Content[chunk[q]] \cap before[u] = {}
        PROVE  Content'[chunk[q]] \cap before[u] = {}
    <3>1. CASE chunk[q] = chunk[p]
      BY <2>1, <2>2, <2>4, <3>1
    <3>2. CASE chunk[q] # chunk[p]
      <4>1. chunk[q] \in Chunks
        BY <2>4
      <4>. QED
        BY <2>2, <2>4, <3>2, <4>1
    <3>. QED
      BY <3>1, <3>2
  <2>5. u = p => pc'[u] \in {"flush", "idle"}
    BY <2>3
  <2>6. u # p => pc'[u] = pc[u]
    BY <2>3
  <2>. QED
    BY <2>3, <2>4, <2>5, <2>6
<1>9. ASSUME NEW t \in Threads, Still, Same, TakeBusy(t) PROVE HandedOver(u)'
  <2>1. \A q \in Workers : ~(q < 1)
    BY Indices
  <2>2. at[t] = 1
    BY <1>9 DEF TakeBusy, StagesOk, StageOk
  <2>. QED
    BY <1>9, <2>1, <2>2 DEF TakeBusy
<1>10. ASSUME NEW t \in Threads, Still, Same, Busy(t) PROVE HandedOver(u)'
  BY <1>10 DEF Busy
<1>11. ASSUME NEW t \in Threads, Still, Same, Takes(t) PROVE HandedOver(u)'
  BY <1>11 DEF Takes
<1>12. ASSUME NEW t \in Threads, Still, Same, Skips(t) PROVE HandedOver(u)'
  <2>1. u = t => \A q \in Workers : Behind(t, q)' => q < at[t] \/ q = at[t]
    BY <1>12, Indices, BehindNext DEF Skips
  <2>. QED
    BY <1>12, <2>1 DEF Skips
<1>13. ASSUME NEW t \in Threads, Still, Same, Submitted(t) PROVE HandedOver(u)'
  <2>1. u = t => \A q \in Workers : q < at[t]
    BY <1>13, Indices DEF Submitted, StageOk
  <2>2. u = t => \A q \in Workers : chunk[q] # Null => Content[chunk[q]] \cap before[t] = {}
    BY <1>13, <2>1 DEF Submitted
  <2>3. /\ chunk' = chunk /\ before' = before /\ Content' = Content /\ pc'[t] \in {"flush", "drain"}
        /\ u # t => pc'[u] = pc[u] /\ at'[u] = at[u]
    BY <1>13 DEF Submitted
  <2>4. CASE u = t
    BY <2>2, <2>3, <2>4
  <2>5. CASE u # t
    BY <2>3, <2>5
  <2>. QED
    BY <2>4, <2>5
<1>14. ASSUME NEW t \in Threads, Still, Same, Sync(t) PROVE HandedOver(u)'
  BY <1>14 DEF Sync
<1>15. ASSUME NEW t \in Threads, Still, Same, Return(t) PROVE HandedOver(u)'
  BY <1>15 DEF Return
<1>16. ASSUME NEW t \in Threads, Pushes(t, moving[t]), Same, PushTaken(t) PROVE
       HandedOver(u)'
  BY <1>16 DEF PushTaken, Pushes
<1>17. ASSUME NEW t \in Threads, Links(t), Same, LinkTaken(t) PROVE HandedOver(u)'
  <2>1. u = t => \A q \in Workers : Behind(t, q)' => q < at[t] \/ q = at[t]
    BY <1>17, Indices, BehindNext DEF LinkTaken
  <2>. QED
    BY <1>17, <2>1 DEF LinkTaken, Links
<1>18. ASSUME NEW t \in Threads, Pops(t), Same, Drain(t) PROVE HandedOver(u)'
  BY <1>18 DEF Drain, Pops
<1>19. ASSUME NEW t \in Threads, Lets(t), Same, Drained(t) PROVE HandedOver(u)'
  BY <1>19 DEF Drained, Lets
<1>20. ASSUME NEW t \in Threads, Lets(t), Same, FreeChunk(t) PROVE HandedOver(u)'
  BY <1>20 DEF FreeChunk, Lets
<1>21. ASSUME NEW t \in Threads, Still, Spills(t) PROVE HandedOver(u)'
  <2>1. \A d \in Chunks : Content'[d] \subseteq Content[d]
    BY <1>21 DEF Spills
  <2>. QED
    BY <1>21, <2>1 DEF Spills
<1>22. ASSUME Still, Same, Tick PROVE HandedOver(u)'
  BY <1>22 DEF Tick
<1>23. ASSUME Still, Same, StopFlusher PROVE HandedOver(u)'
  BY <1>23 DEF StopFlusher
<1>24. ASSUME Still, Same, Deinit PROVE HandedOver(u)'
  <2>1. \A q \in Workers : ~(q < 1)
    BY Indices
  <2>2. at[Main] = 1
    BY <1>24 DEF Deinit, StagesOk, StageOk
  <2>. QED
    BY <1>24, <2>1, <2>2 DEF Deinit
<1>25. ASSUME Still, Same, Close PROVE HandedOver(u)'
  BY <1>25 DEF Close
<1>26. ASSUME Still, Same, UNCHANGED vars PROVE HandedOver(u)'
  BY <1>26 DEF vars
<1>. HIDE DEF Step, Unlock, wvars, cvars, fvars, svars, Still, Same, FunTypes,
            HandedOver, Collecting, Behind
<1>. QED
  BY <1>1, <1>2, <1>3, <1>4, <1>5, <1>6, <1>7, <1>8, <1>9, <1>10, <1>11, <1>12,
     <1>13, <1>14, <1>15, <1>16, <1>17, <1>18, <1>19, <1>20, <1>21, <1>22, <1>23, <1>24,
     <1>25, <1>26 DEF LogStep

\* A flush that no push overlaps has taken out what it has to cover.
LEMMA TakenStep ==
  ASSUME FunTypes, MInv, StagesOk, Alone, Owned, InFlight, Accounts, Charged, Covered,
         LogStep
  PROVE  \A u \in Threads : TakenOut(u)'
<1>. USE Roles
<1>. USE DEF Step, Unlock, wvars, cvars, fvars, svars, Still, Same, FunTypes, TakenOut
<1>. SUFFICES ASSUME NEW u \in Threads, TakenOut(u), StageOk(u) PROVE TakenOut(u)'
  BY DEF Covered, CoversOk, StagesOk
<1>1. ASSUME NEW p \in Workers, Still, Same, Write(p) PROVE TakenOut(u)'
  BY <1>1 DEF Out, Write
<1>2. ASSUME NEW p \in Workers, Still, Same, Crash(p) PROVE TakenOut(u)'
  BY <1>2 DEF Out, Crash
<1>3. ASSUME NEW p \in Workers, Still, Same, LockProducer(p) PROVE TakenOut(u)'
  BY <1>3 DEF Out, LockProducer
<1>4. ASSUME NEW p \in Workers, Still, Same, AllocFails(p) PROVE TakenOut(u)'
  BY <1>4 DEF Out, AllocFails
<1>5. ASSUME NEW p \in Workers, Pushes(p, chunk[p]), Same, PushFull(p) PROVE
       TakenOut(u)'
  BY <1>5 DEF PushFull, Out
<1>6. ASSUME NEW p \in Workers, Links(p), Same, LinkFull(p) PROVE TakenOut(u)'
  BY <1>6 DEF Out, LinkFull, Links
<1>7. ASSUME NEW p \in Workers, Still, NEW c \in free, Allocs(p, c) PROVE TakenOut(u)'
  BY <1>7 DEF Out, Allocs
<1>8. ASSUME NEW p \in Workers, Still, Appends(p) PROVE TakenOut(u)'
  BY <1>8 DEF Out, Appends
<1>9. ASSUME NEW t \in Threads, Still, Same, TakeBusy(t) PROVE TakenOut(u)'
  BY <1>9 DEF Out, TakeBusy
<1>10. ASSUME NEW t \in Threads, Still, Same, Busy(t) PROVE TakenOut(u)'
  BY <1>10 DEF Out, Busy
<1>11. ASSUME NEW t \in Threads, Still, Same, Takes(t) PROVE TakenOut(u)'
  BY <1>11 DEF Out, Takes
<1>12. ASSUME NEW t \in Threads, Still, Same, Skips(t) PROVE TakenOut(u)'
  BY <1>12 DEF Out, Skips
<1>13. ASSUME NEW t \in Threads, Still, Same, Submitted(t) PROVE TakenOut(u)'
  BY <1>13 DEF Out, Submitted
<1>14. ASSUME NEW t \in Threads, Still, Same, Sync(t) PROVE TakenOut(u)'
  <2>1. durable \cup lost \subseteq durable' \cup lost' /\ Out' = Out
    BY <1>14, OutStep DEF Sync
  <2>2. u # t => pc'[u] = pc[u] /\ ret'[u] = ret[u]
    BY <1>14 DEF Sync
  <2>3. u = t /\ ret'[t] = "ok" => Out \subseteq durable' \cup lost'
    BY <1>14 DEF Sync, Out, Charged
  <2>4. before' = before /\ overlap' = overlap /\ pc[t] = "sync" /\ pc'[t] = "returned"
    BY <1>14 DEF Sync
  <2>. QED
    BY <2>1, <2>2, <2>3, <2>4
<1>15. ASSUME NEW t \in Threads, Still, Same, Return(t) PROVE TakenOut(u)'
  BY <1>15 DEF Out, Return
<1>16. ASSUME NEW t \in Threads, Pushes(t, moving[t]), Same, PushTaken(t) PROVE
       TakenOut(u)'
  BY <1>16 DEF Out, PushTaken, Pushes
<1>17. ASSUME NEW t \in Threads, Links(t), Same, LinkTaken(t) PROVE TakenOut(u)'
  BY <1>17 DEF Out, LinkTaken, Links
<1>18. ASSUME NEW t \in Threads, Pops(t), Same, Drain(t) PROVE TakenOut(u)'
  BY <1>18 DEF Drain, Out
<1>19. ASSUME NEW t \in Threads, Lets(t), Same, Drained(t) PROVE TakenOut(u)'
  <2>1. Out' = Out /\ durable' = durable /\ lost' = lost
    BY <1>19 DEF Drained, Out
  <2>2. ASSUME u = t, ~overlap[t] PROVE before[t] \subseteq Out
    <3>1. pc[t] = "drain" /\ pop[t] = "empty"
      BY <1>19 DEF Drained
    <3>2. Queued = {}
      BY <1>19, <2>2, <3>1 DEF Covered, PopSees, Seen
    <3>3. \A w \in Threads : moving[w] = Null /\ hand[w] = Null
      <4>1. ASSUME NEW w \in Threads, moving[w] # Null \/ hand[w] # Null PROVE w = t
        <5>1. pc[w] \in {"push", "drain"}
          BY <4>1 DEF InFlight, StagesOk, StageOk
        <5>. QED
          BY <3>1, <5>1 DEF Alone, Flushing
      <4>. QED
        BY <1>19, <3>1, <4>1 DEF InFlight
    <3>4. ASSUME NEW d \in Chunks \ free PROVE Content[d] \cap before[t] = {}
      <4>1. PICK q \in Workers : chunk[q] = d
        BY <3>2, <3>3, <3>4 DEF Owned, Placed
      <4>. QED
        BY <1>19, <3>1, <4>1 DEF Covered, CoversOk, HandedOver
    <3>. QED
      BY <1>19, <3>4 DEF Accounts, Covered, CoversOk
  <2>. QED
    BY <1>19, <2>1, <2>2 DEF Drained
<1>20. ASSUME NEW t \in Threads, Lets(t), Same, FreeChunk(t) PROVE TakenOut(u)'
  BY <1>20 DEF Out, FreeChunk, Lets
<1>21. ASSUME NEW t \in Threads, Still, Spills(t) PROVE TakenOut(u)'
  BY <1>21 DEF Spills
<1>22. ASSUME Still, Same, Tick PROVE TakenOut(u)'
  BY <1>22 DEF Out, Tick
<1>23. ASSUME Still, Same, StopFlusher PROVE TakenOut(u)'
  BY <1>23 DEF Out, StopFlusher
<1>24. ASSUME Still, Same, Deinit PROVE TakenOut(u)'
  BY <1>24 DEF Out, Deinit
<1>25. ASSUME Still, Same, Close PROVE TakenOut(u)'
  <2>1. durable \cup lost \subseteq durable' \cup lost' /\ Out' = Out
    BY <1>25, OutStep DEF Close
  <2>. QED
    BY <1>25, <2>1 DEF Close
<1>26. ASSUME Still, Same, UNCHANGED vars PROVE TakenOut(u)'
  BY <1>26 DEF Out, vars
<1>. HIDE DEF Step, Unlock, wvars, cvars, fvars, svars, Still, Same, FunTypes, TakenOut
<1>. QED
  BY <1>1, <1>2, <1>3, <1>4, <1>5, <1>6, <1>7, <1>8, <1>9, <1>10, <1>11, <1>12,
     <1>13, <1>14, <1>15, <1>16, <1>17, <1>18, <1>19, <1>20, <1>21, <1>22, <1>23, <1>24,
     <1>25, <1>26 DEF LogStep

-----------------------------------------------------------------------------
(* Types, and what the failures of the file system cost.                   *)

ControlType ==
  /\ pc \in [Threads -> {"idle", "lock", "full", "linkfull", "alloc", "append", "flush", "submit",
                         "push", "linktaken", "drain", "sync", "returned", "join", "close",
                         "done", "dead"}]
  /\ left \in [Workers -> Nat] /\ lock \in [Workers -> BOOLEAN]
  /\ chunk \in [Workers -> Chunks \cup {Null}]
  /\ free \subseteq Chunks
  /\ busy \in BOOLEAN /\ at \in [Threads -> Nat]
  /\ moving \in [Threads -> Chunks \cup {Null}]
  /\ ret \in [Threads -> {"ok", "err", "busy", "deinit"}]
  /\ before \in [Threads -> SUBSET (Workers \X Nat)]
  /\ overlap \in [Threads -> BOOLEAN] /\ running \in BOOLEAN

RecordType ==
  /\ data \in [Chunks -> Seq(Workers \X Nat)]
  /\ accepted \subseteq Workers \X Nat

FileType ==
  /\ file \in [open : BOOLEAN, count : 0 .. FileCap, failed : BOOLEAN]
  /\ buffered \subseteq Workers \X Nat /\ durable \subseteq Workers \X Nat
  /\ lost \subseteq Workers \X Nat /\ faults \in Nat

LEMMA TypeParts == TypeOK /\ LogTypeOK <=> ControlType /\ RecordType /\ FileType
<1>1. {buffered, durable, lost, accepted} \subseteq SUBSET (Workers \X Nat)
        <=> /\ buffered \subseteq Workers \X Nat /\ durable \subseteq Workers \X Nat
            /\ lost \subseteq Workers \X Nat /\ accepted \subseteq Workers \X Nat
  OBVIOUS
<1>. QED
  BY <1>1, Zenon DEF TypeOK, LogTypeOK, ControlType, RecordType, FileType

\* Only these steps change the records and the file.
RecordStep ==
  \/ UNCHANGED <<data, accepted, fvars>>
  \/ \E p \in Workers : Alloc(p) \/ AppendRecord(p)
  \/ \E t \in Threads : \/ CloseFails(t) \/ OpenFails(t) \/ WriteFails(t) \/ WriteRecord(t)
                        \/ Sync(t)
  \/ Close

LEMMA NextIsRecordStep ==
  ASSUME Next \/ UNCHANGED vars
  PROVE  RecordStep
<1>1. ASSUME NEW p \in Workers, Write(p) \/ Crash(p) PROVE RecordStep
  BY <1>1 DEF Write, Crash, RecordStep, wvars
<1>2. ASSUME NEW p \in Workers, WriteStep(p) PROVE RecordStep
  BY <1>2 DEF WriteStep, LockProducer, PushFull, LinkFull, AllocFails, RecordStep, wvars
<1>3. ASSUME NEW t \in Threads, FlushStep(t) PROVE RecordStep
  BY <1>3 DEF FlushStep, TakeBusy, Busy, TakeChunk, PushTaken, LinkTaken, Submitted, Drain, Drained,
              FreeChunk, Return, RecordStep, wvars
<1>4. ASSUME Tick \/ StopFlusher \/ Deinit \/ Close \/ UNCHANGED vars PROVE RecordStep
  BY <1>4 DEF Tick, StopFlusher, Deinit, RecordStep, wvars, vars
<1>. QED
  BY <1>1, <1>2, <1>3, <1>4 DEF Next, ThreadStep, Finished

LEMMA RecordTyped ==
  ASSUME LogInv, RecordStep, LogStep
  PROVE  RecordType' /\ Distinct'
<1>1. /\ RecordType /\ Distinct /\ FunTypes /\ Counted /\ Accounts /\ LogTypeOK
      /\ \A t \in Threads : hand[t] # Null <=> pop[t] = "node"
      /\ \A p \in Workers : pc[p] = "append" => chunk[p] # Null /\ chunk[p] \notin free
  <2>1. TypeOK /\ LogTypeOK /\ MInv /\ StagesOk /\ Alone
    BY DEF LogInv
  <2>2. InFlight
    BY <2>1, OneInFlight
  <2>. QED
    BY <2>1, <2>2, FunTyped, TypeParts DEF LogInv, InFlight, Owned, ChunkOwned
<1>2. \A p \in Workers : left[p] \in Nat /\ Record(p) \in Workers \X Nat
  BY <1>1 DEF FunTypes, Record
<1>. QED
  <2>1. CASE UNCHANGED <<data, accepted, fvars>>
    BY <1>1, <2>1 DEF RecordType, Distinct, Injective
  <2>2. ASSUME NEW p \in Workers, Alloc(p)
        PROVE  RecordType' /\ Distinct'
    <3>1. PICK c \in free : data' = [data EXCEPT ![c] = <<Record(p)>>]
      BY <2>2 DEF Alloc
    <3>2. <<Record(p)>> \in Seq(Workers \X Nat) /\ Injective(<<Record(p)>>)
      BY <1>2 DEF Injective
    <3>3. accepted' = accepted \cup {Record(p)}
      BY <2>2 DEF Alloc
    <3>4. \A d \in Chunks : data'[d] = <<Record(p)>> \/ data'[d] = data[d]
      BY <1>1, <3>1 DEF RecordType
    <3>5. data' \in [Chunks -> Seq(Workers \X Nat)]
      BY <1>1, <3>1, <3>2 DEF RecordType
    <3>6. Distinct'
      BY <1>1, <3>2, <3>4, Zenon DEF Distinct
    <3>. QED
      BY <1>1, <1>2, <3>3, <3>5, <3>6 DEF RecordType
  <2>3. ASSUME NEW p \in Workers, AppendRecord(p)
        PROVE  RecordType' /\ Distinct'
    <3>1. PICK c \in Chunks : c = chunk[p] /\ c \notin free
      BY <1>1, <2>3 DEF FunTypes, AppendRecord, Unlock, Step
    <3>2. data' = [data EXCEPT ![c] = Append(data[c], Record(p))]
      BY <2>3, <3>1 DEF AppendRecord
    <3>3. accepted' = accepted \cup {Record(p)}
      BY <2>3 DEF AppendRecord
    <3>4. Record(p) \notin Elements(data[c])
      BY <1>1, <1>2, <3>1, FreshRecord, ContentOf
    <3>5. /\ Append(data[c], Record(p)) \in Seq(Workers \X Nat)
          /\ Injective(Append(data[c], Record(p)))
      BY <1>1, <1>2, <3>1, <3>4, ElementsAppend DEF RecordType, Distinct
    <3>6. \A d \in Chunks : data'[d] = Append(data[c], Record(p)) \/ data'[d] = data[d]
      BY <1>1, <3>2 DEF RecordType
    <3>7. data' \in [Chunks -> Seq(Workers \X Nat)]
      BY <1>1, <3>2, <3>5 DEF RecordType
    <3>8. Distinct'
      BY <1>1, <3>5, <3>6, Zenon DEF Distinct
    <3>. QED
      BY <1>1, <1>2, <3>3, <3>7, <3>8 DEF RecordType
  <2>4. ASSUME NEW t \in Threads, NextRecord(t)
        PROVE  RecordType' /\ Distinct'
    <3>1. PICK c \in Chunks : c = hand[t]
      BY <1>1, <2>4 DEF FunTypes, NextRecord
    <3>2. data' = [data EXCEPT ![c] = Tail(data[c])] /\ data[c] # << >> /\ accepted' = accepted
      BY <2>4, <3>1 DEF NextRecord
    <3>3. Tail(data[c]) \in Seq(Workers \X Nat) /\ Injective(Tail(data[c]))
      BY <1>1, <3>1, <3>2, ElementsTail DEF RecordType, Distinct
    <3>4. \A d \in Chunks : data'[d] = Tail(data[c]) \/ data'[d] = data[d]
      BY <1>1, <3>2 DEF RecordType
    <3>5. data' \in [Chunks -> Seq(Workers \X Nat)]
      BY <1>1, <3>2, <3>3 DEF RecordType
    <3>6. Distinct'
      BY <1>1, <3>3, <3>4, Zenon DEF Distinct
    <3>. QED
      BY <1>1, <3>2, <3>5, <3>6 DEF RecordType
  <2>5. ASSUME NEW t \in Threads, Sync(t) PROVE UNCHANGED <<data, accepted>>
    BY <2>5 DEF Sync, wvars
  <2>6. Close => UNCHANGED <<data, accepted>>
    BY DEF Close
  <2>7. CASE UNCHANGED <<data, accepted>>
    BY <1>1, <2>7 DEF RecordType, Distinct, Injective
  <2>. QED
    BY <2>1, <2>2, <2>3, <2>4, <2>5, <2>6, <2>7
       DEF RecordStep, CloseFails, OpenFails, WriteFails, WriteRecord

\* The types of the control state.
LEMMA ControlTyped ==
  ASSUME ControlType, FunTypes, StagesOk, accepted \subseteq Workers \X Nat, LogStep
  PROVE  ControlType'
<1>. USE Roles
<1>. USE DEF Step, Unlock, wvars, cvars, fvars, svars, Still, Same, ControlType
<1>1. ASSUME NEW p \in Workers, Still, Same, Write(p) PROVE ControlType'
  BY <1>1 DEF Write
<1>2. ASSUME NEW p \in Workers, Still, Same, Crash(p) PROVE ControlType'
  BY <1>2 DEF Crash
<1>3. ASSUME NEW p \in Workers, Still, Same, LockProducer(p) PROVE ControlType'
  BY <1>3 DEF LockProducer
<1>4. ASSUME NEW p \in Workers, Still, Same, AllocFails(p) PROVE ControlType'
  <2>1. left[p] > 0
    BY <1>4 DEF AllocFails, StagesOk, WriterOk
  <2>2. left[p] - 1 \in Nat
    BY <1>4, <2>1
  <2>. QED
    BY <1>4, <2>2 DEF AllocFails
<1>5. ASSUME NEW p \in Workers, Pushes(p, chunk[p]), Same, PushFull(p) PROVE
       ControlType'
  BY <1>5 DEF PushFull
<1>6. ASSUME NEW p \in Workers, Links(p), Same, LinkFull(p) PROVE ControlType'
  BY <1>6 DEF LinkFull, Links
<1>7. ASSUME NEW p \in Workers, Still, NEW c \in free, Allocs(p, c) PROVE ControlType'
  <2>1. left[p] > 0
    BY <1>7 DEF Allocs, StagesOk, WriterOk
  <2>2. left[p] - 1 \in Nat
    BY <1>7, <2>1
  <2>. QED
    BY <1>7, <2>2 DEF Allocs
<1>8. ASSUME NEW p \in Workers, Still, Appends(p) PROVE ControlType'
  <2>1. left[p] > 0
    BY <1>8 DEF Appends, StagesOk, WriterOk
  <2>2. left[p] - 1 \in Nat
    BY <1>8, <2>1
  <2>. QED
    BY <1>8, <2>2 DEF Appends
<1>9. ASSUME NEW t \in Threads, Still, Same, TakeBusy(t) PROVE ControlType'
  BY <1>9 DEF TakeBusy
<1>10. ASSUME NEW t \in Threads, Still, Same, Busy(t) PROVE ControlType'
  BY <1>10 DEF Busy
<1>11. ASSUME NEW t \in Threads, Still, Same, Takes(t) PROVE ControlType'
  BY <1>11 DEF Takes
<1>12. ASSUME NEW t \in Threads, Still, Same, Skips(t) PROVE ControlType'
  BY <1>12 DEF Skips
<1>13. ASSUME NEW t \in Threads, Still, Same, Submitted(t) PROVE ControlType'
  BY <1>13 DEF Submitted
<1>14. ASSUME NEW t \in Threads, Still, Same, Sync(t) PROVE ControlType'
  BY <1>14 DEF Sync
<1>15. ASSUME NEW t \in Threads, Still, Same, Return(t) PROVE ControlType'
  <2>1. ret' \in [Threads -> {"ok", "err", "busy", "deinit"}]
    BY <1>15 DEF Return
  <2>2. before' \in [Threads -> SUBSET (Workers \X Nat)]
    BY <1>15 DEF Return
  <2>. QED
    BY <1>15, <2>1, <2>2 DEF Return
<1>16. ASSUME NEW t \in Threads, Pushes(t, moving[t]), Same, PushTaken(t) PROVE
       ControlType'
  BY <1>16 DEF PushTaken
<1>17. ASSUME NEW t \in Threads, Links(t), Same, LinkTaken(t) PROVE ControlType'
  BY <1>17 DEF LinkTaken, Links
<1>18. ASSUME NEW t \in Threads, Pops(t), Same, Drain(t) PROVE ControlType'
  BY <1>18 DEF Drain
<1>19. ASSUME NEW t \in Threads, Lets(t), Same, Drained(t) PROVE ControlType'
  BY <1>19 DEF Drained
<1>20. ASSUME NEW t \in Threads, Lets(t), Same, FreeChunk(t) PROVE ControlType'
  <2>1. hand[t] \in Chunks
    <3>1. StageOk(t) /\ pop[t] = "node"
      BY <1>20 DEF FreeChunk, StagesOk
    <3>2. hand[t] # Null
      BY <3>1 DEF StageOk
    <3>. QED
      BY <1>20, <3>2 DEF FunTypes
  <2>. QED
    BY <1>20, <2>1 DEF FreeChunk
<1>21. ASSUME NEW t \in Threads, Still, Spills(t) PROVE ControlType'
  BY <1>21 DEF Spills
<1>22. ASSUME Still, Same, Tick PROVE ControlType'
  BY <1>22 DEF Tick
<1>23. ASSUME Still, Same, StopFlusher PROVE ControlType'
  BY <1>23 DEF StopFlusher
<1>24. ASSUME Still, Same, Deinit PROVE ControlType'
  BY <1>24 DEF Deinit
<1>25. ASSUME Still, Same, Close PROVE ControlType'
  BY <1>25 DEF Close
<1>26. ASSUME Still, Same, UNCHANGED vars PROVE ControlType'
  BY <1>26 DEF vars
<1>. HIDE DEF Step, Unlock, wvars, cvars, fvars, svars, Still, Same, ControlType
<1>. QED
  BY <1>1, <1>2, <1>3, <1>4, <1>5, <1>6, <1>7, <1>8, <1>9, <1>10, <1>11, <1>12,
     <1>13, <1>14, <1>15, <1>16, <1>17, <1>18, <1>19, <1>20, <1>21, <1>22, <1>23, <1>24,
     <1>25, <1>26 DEF LogStep

LEMMA Budget ==
  ASSUME NEW cap \in Nat \ {0}, NEW n \in Nat
  PROVE  /\ (cap + 1) * n \in Nat
         /\ (cap + 1) * (n + 1) = (cap + 1) * n + cap + 1
<1>1. \A k, m \in Nat : k * m \in Nat /\ k * (m + 1) = k * m + k
  OBVIOUS
<1>2. cap + 1 \in Nat
  OBVIOUS
<1>3. (cap + 1) * n \in Nat /\ (cap + 1) * (n + 1) = (cap + 1) * n + (cap + 1)
  BY <1>1, <1>2
<1>. QED
  BY <1>3

LEMMA UnionCost ==
  ASSUME NEW A, NEW B, IsFiniteSet(A), IsFiniteSet(B)
  PROVE  /\ IsFiniteSet(A \cup B)
         /\ Cardinality(A) \in Nat /\ Cardinality(B) \in Nat /\ Cardinality(A \cup B) \in Nat
         /\ Cardinality(A \cup B) <= Cardinality(A) + Cardinality(B)
<1>1. IsFiniteSet(A \cup B) /\ IsFiniteSet(A \cap B)
  BY FS_Union, FS_Intersection
<1>2. Cardinality(A \cup B) = Cardinality(A) + Cardinality(B) - Cardinality(A \cap B)
  BY FS_Union
<1>3. /\ Cardinality(A) \in Nat /\ Cardinality(B) \in Nat /\ Cardinality(A \cup B) \in Nat
      /\ Cardinality(A \cap B) \in Nat
  BY <1>1, FS_CardinalityType
<1>. QED
  BY <1>1, <1>2, <1>3

LEMMA RecordCost ==
  ASSUME NEW A, NEW r, IsFiniteSet(A)
  PROVE  /\ IsFiniteSet(A \cup {r})
         /\ Cardinality(A) \in Nat /\ Cardinality(A \cup {r}) \in Nat
         /\ Cardinality(A \cup {r}) <= Cardinality(A) + 1
<1>1. IsFiniteSet({r}) /\ Cardinality({r}) = 1
  BY FS_Singleton
<1>. QED
  BY <1>1, UnionCost

LEMMA EmptyCost == IsFiniteSet({}) /\ Cardinality({}) = 0
BY FS_EmptySet

\* A failure costs at most a full buffer and the line that met it.
LEMMA FileTyped ==
  ASSUME LogInv, RecordStep
  PROVE  FileType' /\ Charged'
<1>. DEFINE K == (FileCap + 1) * faults
<1>1. /\ FileType /\ Charged /\ LogTypeOK /\ Distinct
      /\ \A t \in Threads : pop[t] = "node" => hand[t] \in Chunks
  <2>1. TypeOK /\ LogTypeOK /\ MInv /\ StagesOk /\ Charged /\ Distinct
    BY DEF LogInv
  <2>2. \A t \in Threads : pop[t] = "node" => hand[t] \in Chunks
    BY <2>1 DEF StagesOk, StageOk, MInv, MTypeOK
  <2>. QED
    BY <2>1, <2>2, TypeParts
<1>2. /\ FileCap \in Nat \ {0} /\ faults \in Nat /\ K \in Nat
      /\ faults' = faults + 1 => (FileCap + 1) * faults' = K + FileCap + 1
      /\ faults' = faults => (FileCap + 1) * faults' = K
  BY <1>1, LogAssumption, Budget DEF FileType
<1>. HIDE DEF K
<1>3. ASSUME UNCHANGED fvars PROVE FileType' /\ Charged'
  BY <1>1, <1>3 DEF fvars, FileType, Charged
<1>4. /\ file = [open |-> file.open, count |-> file.count, failed |-> file.failed]
      /\ file.open \in BOOLEAN /\ file.failed \in BOOLEAN /\ file.count \in 0 .. FileCap
      /\ file.count \in Nat
  BY <1>1 DEF FileType
<1>5. /\ IsFiniteSet(buffered) /\ IsFiniteSet(lost) /\ IsFiniteSet(lost \cup buffered)
      /\ Cardinality(buffered) \in Nat /\ Cardinality(lost) \in Nat
      /\ Cardinality(lost \cup buffered) \in Nat
      /\ Cardinality(lost \cup buffered) <= Cardinality(lost) + Cardinality(buffered)
      /\ Cardinality(buffered) <= file.count /\ Cardinality(lost) <= K
      /\ ~file.open => buffered = {}
      /\ file.open /\ file.failed => Cardinality(lost) < K
  BY <1>1, UnionCost DEF Charged, K
<1>6. ASSUME NEW t \in Threads, NextRecord(t)
      PROVE  /\ data[hand[t]][1] \in Workers \X Nat
  BY <1>1, <1>6, NextEffect, ContentOf DEF NextRecord
<1>7. ASSUME NEW t \in Threads, CloseFails(t) PROVE FileType' /\ Charged'
  <2>1. PICK r \in Workers \X Nat : r = data[hand[t]][1]
    BY <1>6, <1>7 DEF CloseFails
  <2>2. /\ file' = [file EXCEPT !.open = FALSE, !.failed = TRUE] /\ buffered' = {}
        /\ file.open /\ file.count = FileCap
        /\ \/ faults' = faults + 1 /\ lost' = (lost \cup buffered) \cup {r} /\ durable' = durable
           \/ /\ file.failed /\ faults' = faults
              /\ lost' = lost \cup {r} /\ durable' = durable \cup buffered
    <3>1. lost' = lost \cup {r} \cup {} \/ lost' = lost \cup {r} \cup buffered
      BY <1>7, <2>1 DEF CloseFails, DropRecord
    <3>. QED
      BY <1>7, <2>1 DEF CloseFails, DropRecord, Fault, Full
  <2>3. /\ file'.open = FALSE /\ file'.count = file.count
        /\ file' \in [open : BOOLEAN, count : 0 .. FileCap, failed : BOOLEAN]
    BY <1>1, <2>2 DEF FileType
  <2>4. FileType'
    BY <1>1, <2>2, <2>3 DEF FileType
  <2>5. /\ IsFiniteSet(lost') /\ Cardinality(lost') \in Nat
        /\ faults' = faults + 1 => Cardinality(lost') <= K + FileCap + 1
        /\ faults' = faults => Cardinality(lost') <= K
    <3>1. CASE faults' = faults + 1 /\ lost' = (lost \cup buffered) \cup {r}
      <4>1. /\ IsFiniteSet(lost') /\ Cardinality(lost') \in Nat
            /\ Cardinality(lost') <= Cardinality(lost \cup buffered) + 1
        BY <1>5, <3>1, RecordCost
      <4>. QED
        BY <1>2, <1>4, <1>5, <2>2, <3>1, <4>1
    <3>2. CASE file.failed /\ faults' = faults /\ lost' = lost \cup {r}
      <4>1. /\ IsFiniteSet(lost') /\ Cardinality(lost') \in Nat
            /\ Cardinality(lost') <= Cardinality(lost) + 1
        BY <1>5, <3>2, RecordCost
      <4>. QED
        BY <1>2, <1>4, <1>5, <2>2, <3>2, <4>1
    <3>. QED
      BY <2>2, <3>1, <3>2
  <2>6. Cardinality(lost') <= (FileCap + 1) * faults'
    BY <1>2, <2>2, <2>5
  <2>. QED
    BY <1>4, <2>2, <2>3, <2>4, <2>5, <2>6, EmptyCost DEF Charged
<1>8. ASSUME NEW t \in Threads, OpenFails(t) PROVE FileType' /\ Charged'
  <2>1. PICK r \in Workers \X Nat : r = data[hand[t]][1]
    BY <1>6, <1>8 DEF OpenFails
  <2>2. /\ file' = [file EXCEPT !.open = FALSE] /\ buffered' = {} /\ faults' = faults + 1
        /\ lost' = lost \cup {r} /\ durable' \subseteq durable \cup buffered
    <3>1. lost' = lost \cup {r} \cup {}
      BY <1>8, <2>1 DEF OpenFails, DropRecord
    <3>. QED
      BY <1>8, <3>1 DEF OpenFails, Fault, Rotate
  <2>3. /\ file'.open = FALSE /\ file'.count = file.count
        /\ file' \in [open : BOOLEAN, count : 0 .. FileCap, failed : BOOLEAN]
    BY <1>1, <2>2 DEF FileType
  <2>4. FileType'
    BY <1>1, <2>2, <2>3 DEF FileType
  <2>5. /\ IsFiniteSet(lost') /\ Cardinality(lost') \in Nat
        /\ Cardinality(lost') <= Cardinality(lost) + 1
    BY <1>5, <2>2, RecordCost
  <2>6. Cardinality(lost') <= (FileCap + 1) * faults'
    BY <1>2, <1>5, <2>2, <2>5
  <2>. QED
    BY <1>4, <2>2, <2>3, <2>4, <2>5, <2>6, EmptyCost DEF Charged
<1>9. ASSUME NEW t \in Threads, WriteFails(t) PROVE FileType' /\ Charged'
  <2>1. PICK r \in Workers \X Nat : r = data[hand[t]][1]
    BY <1>6, <1>9 DEF WriteFails
  <2>2. /\ file' = [open |-> TRUE, count |-> IF CanWrite THEN file.count ELSE 0, failed |-> TRUE]
        /\ buffered' = (IF CanWrite THEN buffered ELSE {}) /\ faults' = faults + 1
        /\ lost' = lost \cup {r} /\ durable' \subseteq durable \cup buffered
    <3>1. lost' = lost \cup {r} \cup {}
      BY <1>9, <2>1 DEF WriteFails, DropRecord
    <3>. QED
      BY <1>9, <3>1 DEF WriteFails, Fault, Rotate
  <2>3. /\ file'.open = TRUE /\ file'.failed = TRUE
        /\ file'.count = IF CanWrite THEN file.count ELSE 0
        /\ file' \in [open : BOOLEAN, count : 0 .. FileCap, failed : BOOLEAN]
    BY <1>2, <1>4, <2>2
  <2>4. FileType'
    BY <1>1, <2>2, <2>3 DEF FileType
  <2>5. /\ IsFiniteSet(lost') /\ Cardinality(lost') \in Nat
        /\ Cardinality(lost') <= Cardinality(lost) + 1
    BY <1>5, <2>2, RecordCost
  <2>6. Cardinality(lost') < (FileCap + 1) * faults'
    BY <1>2, <1>5, <2>2, <2>5
  <2>7. Cardinality(lost') <= (FileCap + 1) * faults'
    BY <1>2, <2>2, <2>5, <2>6
  <2>8. IsFiniteSet(buffered') /\ Cardinality(buffered') <= file'.count
    BY <1>4, <1>5, <2>2, <2>3, EmptyCost
  <2>. QED
    BY <2>3, <2>4, <2>5, <2>6, <2>7, <2>8 DEF Charged
<1>10. ASSUME NEW t \in Threads, WriteRecord(t) PROVE FileType' /\ Charged'
  <2>1. PICK r \in Workers \X Nat : r = data[hand[t]][1]
    BY <1>6, <1>10 DEF WriteRecord
  <2>2. /\ file' = IF CanWrite THEN [file EXCEPT !.count = @ + 1]
                   ELSE [open |-> TRUE, count |-> 1, failed |-> FALSE]
        /\ buffered' = (IF CanWrite THEN buffered ELSE {}) \cup {r} /\ faults' = faults
        /\ lost' = lost /\ durable' \subseteq durable \cup buffered
    BY <1>10, <2>1 DEF WriteRecord, Rotate
  <2>3. CASE CanWrite
    <3>1. /\ file' = [open |-> file.open, count |-> file.count + 1, failed |-> file.failed]
          /\ file.open /\ file.count # FileCap
      BY <1>4, <2>2, <2>3 DEF CanWrite, Full
    <3>2. /\ file'.open = file.open /\ file'.failed = file.failed /\ file'.count = file.count + 1
          /\ file' \in [open : BOOLEAN, count : 0 .. FileCap, failed : BOOLEAN]
      <4>1. file.count + 1 \in 0 .. FileCap
        BY <1>2, <1>4, <3>1
      <4>. QED
        BY <1>4, <3>1, <4>1
    <3>3. /\ IsFiniteSet(buffered') /\ Cardinality(buffered') \in Nat
          /\ Cardinality(buffered') <= Cardinality(buffered) + 1
      BY <1>5, <2>2, <2>3, RecordCost
    <3>4. Cardinality(buffered') <= file'.count
      BY <1>4, <1>5, <3>2, <3>3
    <3>5. FileType'
      BY <1>1, <2>2, <2>3, <3>2 DEF FileType
    <3>. QED
      BY <1>2, <1>5, <2>2, <3>1, <3>2, <3>3, <3>4, <3>5 DEF Charged
  <2>4. CASE ~CanWrite
    <3>1. file' = [open |-> TRUE, count |-> 1, failed |-> FALSE] /\ buffered' = {} \cup {r}
      BY <2>2, <2>4
    <3>2. /\ file'.open = TRUE /\ file'.failed = FALSE /\ file'.count = 1
          /\ file' \in [open : BOOLEAN, count : 0 .. FileCap, failed : BOOLEAN]
      BY <1>2, <3>1
    <3>3. IsFiniteSet(buffered') /\ Cardinality(buffered') \in Nat /\ Cardinality(buffered') <= 0 + 1
      BY <3>1, EmptyCost, RecordCost
    <3>4. FileType'
      BY <1>1, <2>2, <3>1, <3>2 DEF FileType
    <3>. QED
      BY <1>2, <1>5, <2>2, <3>2, <3>3, <3>4 DEF Charged
  <2>. QED
    BY <2>3, <2>4
<1>11. ASSUME NEW t \in Threads, Sync(t) PROVE FileType' /\ Charged'
  <2>1. lost' = lost
    BY <1>11 DEF Sync
  <2>2. CASE durable' = durable \cup buffered /\ buffered' = {} /\ UNCHANGED <<file, faults>>
    <3>1. FileType'
      BY <1>1, <2>1, <2>2 DEF FileType
    <3>. QED
      BY <1>1, <1>4, <2>1, <2>2, <3>1, EmptyCost DEF Charged
  <2>3. CASE faults' = faults + 1 /\ file' = [file EXCEPT !.failed = TRUE] /\ UNCHANGED <<durable, buffered>>
    <3>1. /\ file'.open = file.open /\ file'.count = file.count
          /\ file' \in [open : BOOLEAN, count : 0 .. FileCap, failed : BOOLEAN]
      BY <1>1, <2>3 DEF FileType
    <3>2. FileType'
      BY <1>1, <2>1, <2>3, <3>1 DEF FileType
    <3>3. Cardinality(lost) < (FileCap + 1) * faults' /\ Cardinality(lost) <= (FileCap + 1) * faults'
      BY <1>2, <1>5, <2>3
    <3>. QED
      BY <1>1, <1>5, <2>1, <2>3, <3>1, <3>2, <3>3 DEF Charged
  <2>4. CASE UNCHANGED <<file, faults, durable, buffered>>
    BY <1>3, <2>1, <2>4 DEF fvars
  <2>. QED
    BY <1>11, <2>2, <2>3, <2>4 DEF Sync, Fault
<1>12. ASSUME Close PROVE FileType' /\ Charged'
  <2>1. /\ buffered' = {} /\ file' = IF file.open THEN [file EXCEPT !.open = FALSE] ELSE file
        /\ \/ durable' = durable \cup buffered /\ lost' = lost /\ faults' = faults
           \/ faults' = faults + 1 /\ lost' = lost \cup buffered /\ durable' = durable
    BY <1>12 DEF Close, Fault
  <2>2. /\ file'.open = FALSE /\ file'.count = file.count
        /\ file' \in [open : BOOLEAN, count : 0 .. FileCap, failed : BOOLEAN]
    BY <1>1, <2>1 DEF FileType
  <2>3. FileType'
    BY <1>1, <2>1, <2>2 DEF FileType
  <2>4. IsFiniteSet(lost') /\ Cardinality(lost') \in Nat /\ Cardinality(lost') <= (FileCap + 1) * faults'
    <3>1. CASE lost' = lost /\ faults' = faults
      BY <1>2, <1>5, <3>1
    <3>2. CASE faults' = faults + 1 /\ lost' = lost \cup buffered
      <4>1. Cardinality(lost \cup buffered) <= K + FileCap + 1
        BY <1>2, <1>4, <1>5
      <4>. QED
        BY <1>2, <1>5, <3>2, <4>1
    <3>. QED
      BY <2>1, <3>1, <3>2
  <2>. QED
    BY <1>4, <2>1, <2>2, <2>3, <2>4, EmptyCost DEF Charged
<1>. QED
  BY <1>3, <1>7, <1>8, <1>9, <1>10, <1>11, <1>12 DEF RecordStep, Alloc, AppendRecord

-----------------------------------------------------------------------------
(* The theorems.                                                           *)

LEMMA InitLogInv == ASSUME Init PROVE LogInv
<1>. USE LogAssumption, MpscAssumption
<1>1. MInit /\ MInv
  BY InitMInv DEF Init
<1>2. Queued = {} /\ Linking = {}
  <2>1. order = <<Stub>> /\ link = [t \in Threads |-> Null]
    BY <1>1 DEF MInit
  <2>2. InQueue = {Stub}
    BY <2>1 DEF InQueue
  <2>. QED
    BY <2>1, <2>2 DEF Queued, Linking
<1>3. \A c \in Chunks : data[c] = << >> /\ Content[c] = {}
  BY DEF Init, Content, Records
<1>4. /\ pc = [t \in Threads |-> "idle"] /\ pop = [t \in Threads |-> "idle"]
      /\ hand = [t \in Threads |-> Null] /\ moving = [t \in Threads |-> Null]
      /\ chunk = [p \in Workers |-> Null] /\ lock = [p \in Workers |-> FALSE]
      /\ at = [t \in Threads |-> 1] /\ ret = [t \in Threads |-> "ok"]
      /\ before = [t \in Threads |-> {}] /\ overlap = [t \in Threads |-> FALSE]
      /\ free = Chunks /\ accepted = {} /\ buffered = {} /\ durable = {} /\ lost = {}
      /\ faults = 0 /\ busy = FALSE /\ running = TRUE /\ file = Closed /\ left = Writes
  BY <1>1 DEF Init, MInit
<1>5. \A t \in Threads : pc[t] = "idle" /\ pop[t] = "idle" /\ hand[t] = Null /\ moving[t] = Null
  BY <1>4
<1>6. TypeOK /\ LogTypeOK
  <2>1. ControlType
    BY <1>4 DEF ControlType
  <2>2. RecordType
    <3>1. data = [c \in Chunks |-> << >>] /\ << >> \in Seq(Workers \X Nat)
      BY DEF Init
    <3>. QED
      BY <1>4, <3>1 DEF RecordType
  <2>3. FileType
    BY <1>4 DEF FileType, Closed
  <2>. QED
    BY <2>1, <2>2, <2>3, TypeParts
<1>7. StagesOk
  BY <1>2, <1>4, <1>5 DEF StagesOk, StageOk, WriterOk, Collecting
<1>8. Alone
  BY <1>5 DEF Alone, Flushing
<1>9. Stopping
  BY <1>4, <1>5, Roles DEF Stopping, Collecting
<1>10. Owned
  BY <1>2, <1>4, <1>5 DEF Owned, ChunkOwned, MovingOwned, HandOwned, Placed
<1>11. Distinct /\ Apart /\ Sinks /\ Accounts /\ Counted
  <2>1. Distinct
    <3>1. \A c \in Chunks : Len(data[c]) = 0
      BY <1>3
    <3>. QED
      BY <3>1 DEF Distinct, Injective
  <2>. QED
    BY <1>4, <2>1 DEF Apart, Sinks, Accounts, Counted, Out
<1>12. Charged
  <2>1. (FileCap + 1) * 0 = 0
    OBVIOUS
  <2>. QED
    BY <1>4, <2>1, EmptyCost DEF Charged, Closed
<1>13. Covered
  BY <1>4, <1>5 DEF Covered, CoversOk, HandedOver, TakenOut, Collecting, PopSees
<1>. QED
  BY <1>1, <1>6, <1>7, <1>8, <1>9, <1>10, <1>11, <1>12, <1>13 DEF LogInv

LEMMA NextLogInv ==
  ASSUME LogInv, Next \/ UNCHANGED vars
  PROVE  LogInv' /\ (MNext \/ UNCHANGED mvars)
<1>1. /\ MInv /\ TypeOK /\ LogTypeOK /\ StagesOk /\ Alone /\ Stopping /\ Owned /\ Distinct /\ Apart
      /\ Sinks /\ Accounts /\ Counted /\ Charged /\ Covered
  BY DEF LogInv
<1>2. ControlType /\ RecordType /\ FileType /\ accepted \subseteq Workers \X Nat
  BY <1>1, TypeParts DEF RecordType
<1>3. FunTypes /\ InFlight
  BY <1>1, FunTyped, OneInFlight
<1>4. MInv' /\ (MNext \/ UNCHANGED mvars) /\ LogStep
  BY NextIsLogStep
<1>5. RecordStep
  BY NextIsRecordStep
<1>6. TypeOK' /\ LogTypeOK' /\ Distinct' /\ Charged'
  <2>1. ControlType'
    BY <1>1, <1>2, <1>3, <1>4, ControlTyped
  <2>2. RecordType' /\ Distinct'
    BY <1>4, <1>5, RecordTyped
  <2>3. FileType' /\ Charged'
    BY <1>5, FileTyped
  <2>4. {buffered', durable', lost', accepted'} \subseteq SUBSET (Workers \X Nat)
    BY <2>2, <2>3 DEF RecordType, FileType
  <2>. QED
    BY <2>1, <2>2, <2>3, <2>4 DEF TypeOK, LogTypeOK, ControlType, RecordType, FileType
<1>7. StagesOk'
  BY <1>1, <1>3, <1>4, StageStep, WriterStep DEF StagesOk
<1>8. Alone'
  BY <1>1, <1>3, <1>4, BusyStep, AloneStep DEF Alone
<1>9. Stopping'
  BY <1>1, <1>3, <1>4, StopStep
<1>10. Owned'
  <2>1. (\A p \in Workers : ChunkOwned(p)')
    BY <1>1, <1>3, <1>4, ChunkStep
  <2>2. \A t \in Threads : MovingOwned(t)' /\ HandOwned(t)'
    BY <1>1, <1>3, <1>4, MovingStep, HandStep
  <2>3. (Queued \cap free = {})' /\ \A c \in Chunks : Placed(c)'
    BY <1>1, <1>3, <1>4, QueuedStep, PlacedStep
  <2>. QED
    BY <2>1, <2>2, <2>3 DEF Owned
<1>11. Apart' /\ Sinks' /\ Accounts' /\ Counted'
  BY <1>1, <1>2, <1>3, <1>4, ApartStep, SinksStep, AccountsStep, CountedStep
<1>12. Covered'
  <2>1. \A t \in Threads : PopSees(t)'
    BY <1>1, <1>3, <1>4, PopSeesStep, MpscAssumption
  <2>2. \A t \in Threads : (before[t] \subseteq accepted)'
    BY <1>1, <1>3, <1>4, StoredStep
  <2>3. \A t \in Threads : HandedOver(t)'
    BY <1>1, <1>3, <1>4, HandedStep
  <2>4. \A t \in Threads : TakenOut(t)'
    BY <1>1, <1>3, <1>4, TakenStep
  <2>. QED
    BY <2>1, <2>2, <2>3, <2>4 DEF Covered, CoversOk
<1>. QED
  BY <1>4, <1>6, <1>7, <1>8, <1>9, <1>10, <1>11, <1>12 DEF LogInv

\* The invariant of the log holds whoever is preempted, fails, crashes or stops.
THEOREM LogInvariant == Spec => []LogInv
<1>1. LogInv /\ [Next]_vars => LogInv'
  BY NextLogInv
<1>. QED
  BY <1>1, InitLogInv, PTL DEF Spec

\* Every variable of the log keeps its type.
THEOREM TypeCorrect == Spec => []TypeOK
<1>1. LogInv => TypeOK
  BY DEF LogInv
<1>. QED
  BY <1>1, LogInvariant, PTL

\* The log pushes only chunks it owns alone and pops on one thread at a time
\* (mpsc.h), so that the queue is the FIFO of module FifoQueue to it.
THEOREM QueueKept == Spec => QueueContract
<1>1. Init => MInit
  BY DEF Init
<1>2. LogInv /\ [Next]_vars => [MNext]_mvars
  BY NextLogInv
<1>3. Spec => MSpec
  BY <1>1, <1>2, LogInvariant, PTL DEF Spec, MSpec
<1>. QED
  BY <1>3, MpscIsFifo, PTL DEF QueueContract

\* A record log_write stored is in one place and stays in one, and a failure of
\* the file system costs at most a buffer and a line.
THEOREM Conserved == Spec => []RecordsConserved
<1>1. ASSUME LogInv PROVE RecordsConserved
  <2>1. Apart /\ Sinks /\ Accounts /\ Cardinality(lost) <= (FileCap + 1) * faults
    BY <1>1 DEF LogInv, Charged
  <2>2. \A c \in Chunks : Content[c] = Records(c)
    BY DEF Content
  <2>3. ASSUME NEW r \in accepted
        PROVE  Cardinality({c \in Chunks \ free : r \in Records(c)})
                 + Cardinality({s \in {1, 2, 3} : r \in <<buffered, durable, lost>>[s]}) = 1
    <3>. DEFINE A == {c \in Chunks \ free : r \in Records(c)}
                B == {s \in {1, 2, 3} : r \in <<buffered, durable, lost>>[s]}
    <3>1. B = {s \in {1, 2, 3} : \/ s = 1 /\ r \in buffered
                                 \/ s = 2 /\ r \in durable
                                 \/ s = 3 /\ r \in lost}
      OBVIOUS
    <3>2. CASE r \in Out
      <4>1. A = {}
        BY <2>1, <2>2, <3>2 DEF Apart
      <4>2. B = {1} \/ B = {2} \/ B = {3}
        BY <2>1, <3>1, <3>2 DEF Sinks, Out
      <4>. HIDE DEF A, B
      <4>3. Cardinality(A) = 0 /\ Cardinality(B) = 1
        BY <4>1, <4>2, FS_EmptySet, FS_Singleton
      <4>. QED
        BY <4>3 DEF A, B
    <3>3. CASE r \notin Out
      <4>1. B = {}
        BY <3>1, <3>3 DEF Out
      <4>2. PICK c \in Chunks \ free : r \in Content[c]
        BY <2>1, <3>3 DEF Accounts
      <4>3. A = {c}
        BY <2>1, <2>2, <4>2 DEF Apart
      <4>. HIDE DEF A, B
      <4>4. Cardinality(A) = 1 /\ Cardinality(B) = 0
        BY <4>1, <4>3, FS_EmptySet, FS_Singleton
      <4>. QED
        BY <4>4 DEF A, B
    <3>. QED
      BY <3>2, <3>3
  <2>. QED
    BY <2>1, <2>3 DEF RecordsConserved
<1>. QED
  BY <1>1, LogInvariant, PTL

\* A flush that returns 0 has written or reported what was stored before it,
\* unless a push overlapped its last pop.
THEOREM FlushesCover == Spec => []FlushCovers
<1>1. LogInv => FlushCovers
  BY DEF LogInv, Covered, CoversOk, TakenOut, FlushCovers
<1>. QED
  BY <1>1, LogInvariant, PTL
=============================================================================
