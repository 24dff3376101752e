-------------------------- MODULE HssSamplerProofs --------------------------
(***************************************************************************)
(* Proofs about HssSampler for any layouts, frame sizes, buffer, counter   *)
(* width and sampling period: what is published is whole frames of the     *)
(* running session, with true times and without gaps.                      *)
(*                                                                         *)
(* The bytes of the host buffer and of the probe's are one line of cells,  *)
(* which a read only splits elsewhere.  Placed and Clocked say where in    *)
(* that line the cells of a frame are and how their time stamps follow one *)
(* another; taking frames from its front or adding one at its end keeps    *)
(* both.  Nothing is known of a stream whose restart is due (Broken), and  *)
(* nothing is published from it.                                           *)
(***************************************************************************)
EXTENDS HssSampler, SequenceTheorems, WellFoundedInduction, NaturalsInduction, TLAPS

(* Numbers.                                                                *)

\* Induction as an argument by the least counterexample.
LEMMA LeastOf ==
  ASSUME NEW T \in SUBSET Nat, T # {}
  PROVE  \E x \in T : \A y \in T : x <= y
<1>. DEFINE R == OpToRel(<, Nat)
<1>1. IsWellFoundedOn(R, Nat)
  BY NatLessThanWellFounded, Zenon
<1>2. PICK x \in T : \A y \in T : <<y, x>> \notin R
  <2>. HIDE DEF R
  <2>. QED
    BY <1>1, WFMin, Zenon
<1>3. \A y \in T : <<y, x>> \in Nat \X Nat
  OBVIOUS
<1>4. \A y \in T : ~(y < x)
  BY <1>2, <1>3 DEF OpToRel
<1>. QED
  BY <1>4

LEMMA Division ==
  ASSUME NEW t \in Int, NEW s \in Nat \ {0}
  PROVE  /\ t \div s \in Int /\ t % s \in 0 .. s - 1 /\ (t \in Nat => t \div s \in Nat)
         /\ t = (t \div s) * s + (t % s)
OBVIOUS

LEMMA Remainder ==
  ASSUME NEW s \in Nat \ {0}, NEW r \in 0 .. s - 1, NEW q \in Int
  PROVE  (q * s + r) % s = r
OBVIOUS

LEMMA SmallRemainder ==
  ASSUME NEW s \in Nat \ {0}, NEW r \in 0 .. s - 1
  PROVE  r % s = r /\ (r + s) % s = r
<1>1. (0 * s + r) % s = r
  OBVIOUS
<1>2. (1 * s + r) % s = r
  OBVIOUS
<1>. QED
  BY <1>1, <1>2

\* A position is in one place of one frame.
LEMMA OnePlace ==
  ASSUME NEW s \in Nat \ {0}, NEW a \in Int, NEW b \in Int,
         NEW p \in 1 .. s, NEW q \in 1 .. s, a * s + p = b * s + q
  PROVE  a = b /\ p = q
OBVIOUS

\* The ticks between two readings of the counter, across one wrap of it.
LEMMA Wrapped ==
  ASSUME NEW w \in Nat \ {0}, NEW a \in Int, NEW p \in Nat, p < w
  PROVE  (((a + p) % w) - (a % w) + w) % w = p
<1>1. PICK q \in Int, r \in 0 .. w - 1 : a = q * w + r /\ a % w = r
  BY Division
<1>2. CASE r + p < w
  <2>1. a + p = q * w + (r + p) /\ r + p \in 0 .. w - 1
    BY <1>1, <1>2
  <2>2. (a + p) % w = r + p
    BY <1>1, <2>1, Remainder
  <2>3. (r + p) - r + w = p + w /\ p \in 0 .. w - 1
    BY <1>1
  <2>4. (p + w) % w = p
    BY <2>3, SmallRemainder
  <2>. QED
    BY <1>1, <2>2, <2>3, <2>4
<1>3. CASE r + p >= w
  <2>1. a + p = (q + 1) * w + (r + p - w) /\ r + p - w \in 0 .. w - 1
    BY <1>1, <1>3
  <2>2. PICK y \in Int, z \in 0 .. w - 1 : y = q + 1 /\ z = r + p - w
    BY <1>1, <2>1
  <2>3. (y * w + z) % w = z
    BY <2>2, Remainder
  <2>4. (a + p) % w = r + p - w
    BY <2>1, <2>2, <2>3
  <2>5. (r + p - w) - r + w = p /\ p \in 0 .. w - 1
    BY <1>1
  <2>. QED
    BY <1>1, <2>4, <2>5, SmallRemainder
<1>. QED
  BY <1>1, <1>2, <1>3

\* Position i of a line of t cells holds part p of frame a, the n-th being the last.
Sits(s, t, i, n, a, p) == t - i = (n - a) * s + s - p

LEMMA SitsBehind ==
  ASSUME NEW s \in Nat \ {0}, NEW t \in Int, NEW i \in Int, NEW n \in Int,
         NEW a \in Int, NEW p \in Int, Sits(s, t, i, n, a, p),
         NEW u \in Int, NEW j \in Int, u - j = t - i
  PROVE  Sits(s, u, j, n, a, p)
BY DEF Sits

LEMMA SitsBefore ==
  ASSUME NEW s \in Nat \ {0}, NEW t \in Int, NEW i \in Int, NEW n \in Int,
         NEW a \in Int, NEW p \in Int, Sits(s, t, i, n, a, p)
  PROVE  Sits(s, t + s, i, n + 1, a, p)
BY DEF Sits

LEMMA SitsNew ==
  ASSUME NEW s \in Nat \ {0}, NEW t \in Int, NEW n \in Int, NEW j \in Int
  PROVE  Sits(s, t + s, t + j, n, n, j)
BY DEF Sits

LEMMA SitsOn ==
  ASSUME NEW s \in Nat \ {0}, NEW t \in Int, NEW i \in Int, NEW n \in Int,
         NEW a \in Int, NEW p \in 1 .. s, Sits(s, t, i, n, a, p),
         NEW b \in Int, NEW q \in 1 .. s, Sits(s, t, i + s, n, b, q)
  PROVE  b = a + 1
<1>1. (n - a - 1) * s + q = (n - b) * s + p
  BY DEF Sits
<1>2. n - a - 1 = n - b /\ q = p
  BY <1>1, OnePlace
<1>. QED
  BY <1>2

LEMMA SitsLast ==
  ASSUME NEW s \in Nat \ {0}, NEW t \in Int, NEW i \in Int, NEW n \in Int,
         NEW a \in Int, NEW p \in 1 .. s, Sits(s, t, i, n, a, p), t = i + s - 1
  PROVE  a = n
<1>1. (n - a) * s + 1 = 0 * s + p
  BY DEF Sits
<1>2. n - a = 0
  BY <1>1, OnePlace
<1>. QED
  BY <1>2

LEMMA SitsAligned ==
  ASSUME NEW s \in Nat \ {0}, NEW n \in Int, NEW a \in Int, NEW p \in 1 .. s,
         NEW m \in Int, NEW f \in Int, NEW j \in 1 .. s,
         Sits(s, m * s, (f - 1) * s + j, n, a, p)
  PROVE  p = j
<1>1. PICK d \in Int : d = n - a - m + f
  OBVIOUS
<1>2. d * s + j = 0 * s + p
  BY <1>1 DEF Sits
<1>. QED
  BY <1>2, OnePlace

LEMMA FrameAligned ==
  ASSUME NEW s \in Nat \ {0}, NEW n \in Int, NEW a \in Int, NEW p \in 1 .. s,
         NEW m \in Int, NEW f \in Int, NEW j \in 1 .. s,
         Sits(s, m * s, (f - 1) * s + j, n, a, p)
  PROVE  a = n + f - m
<1>1. PICK d \in Int : d = n - a - m + f
  OBVIOUS
<1>2. d * s + j = 0 * s + p
  BY <1>1 DEF Sits
<1>3. d = 0
  BY <1>2, OnePlace
<1>. QED
  BY <1>1, <1>3

\* The positions of the f-th of the first m frames of a line.
LEMMA Positions ==
  ASSUME NEW s \in Nat \ {0}, NEW t \in Nat, NEW m \in Nat, m * s <= t,
         NEW f \in 1 .. m, NEW j \in 1 .. s
  PROVE  /\ (f - 1) * s + j \in 1 .. t
         /\ (f - 1) * s \in Nat /\ f * s \in Nat
         /\ f * s = (f - 1) * s + s /\ f * s <= t
<1>1. (f - 1) * s >= 0 /\ (f - 1) * s \in Int /\ f * s \in Int /\ m * s \in Int
  OBVIOUS
<1>2. f * s = (f - 1) * s + s
  OBVIOUS
<1>3. f * s <= m * s
  OBVIOUS
<1>. QED
  BY <1>1, <1>2, <1>3

-----------------------------------------------------------------------------
(* The line of cells.                                                      *)

Cell == [layout : Layouts, no : Nat, stamp : Nat, part : Nat]

LEMMA Fields ==
  \A c \in Cell : c.layout \in Layouts /\ c.no \in Nat /\ c.stamp \in Nat /\ c.part \in Nat
BY DEF Cell

\* The cells are of layout l, and each is where the parts of its frame and
\* the frames up to the n-th, the last sampled, put it.
Placed(line, size, l, n) ==
  \A i \in 1 .. Len(line) :
    /\ line[i].part \in 1 .. size /\ line[i].no <= n /\ line[i].layout = l
    /\ Sits(size, Len(line), i, n, line[i].no, line[i].part)

\* A frame has one time stamp, the next frame the same or the next one;
\* the stamp of the n-th is st.
Clocked(line, n, st) ==
  \A i \in 1 .. Len(line) :
    /\ line[i].no = n => line[i].stamp = st
    /\ \A j \in 1 .. Len(line) :
         /\ line[i].no = line[j].no => line[i].stamp = line[j].stamp
         /\ line[j].no = line[i].no + 1 => line[j].stamp - line[i].stamp \in {0, Period}

\* A function on 1 .. n is a sequence.
LEMMA CellsFromFunction ==
  ASSUME NEW S, NEW n \in Nat, NEW g \in [1 .. n -> S]
  PROVE  g \in Seq(S) /\ Len(g) = n
OBVIOUS

\* A read moves cells from the probe's buffer to the host's.
LEMMA Regrouped ==
  ASSUME NEW b \in Seq(Cell), NEW f \in Seq(Cell), NEW k \in 0 .. Len(f)
  PROVE  \E x \in Seq(Cell), y \in Seq(Cell) :
           /\ x = b \o SubSeq(f, 1, k) /\ y = SubSeq(f, k + 1, Len(f))
           /\ Len(x) = Len(b) + k /\ x \o y = b \o f
<1>1. PICK x \in Seq(Cell) : x = SubSeq(f, 1, k) /\ Len(x) = k
  <2>1. SubSeq(f, 1, k) \in Seq(Cell) /\ Len(SubSeq(f, 1, k)) = k
    OBVIOUS
  <2>. QED
    BY <2>1, Zenon
<1>2. PICK y \in Seq(Cell) : y = SubSeq(f, k + 1, Len(f))
  <2>1. SubSeq(f, k + 1, Len(f)) \in Seq(Cell)
    OBVIOUS
  <2>. QED
    BY <2>1, Zenon
<1>3. x \o y = f
  <2>1. 1 \in 1 .. Len(f) + 1 /\ k \in 1 - 1 .. Len(f) /\ Len(f) \in k .. Len(f)
    OBVIOUS
  <2>2. SubSeq(f, 1, k) \o SubSeq(f, k + 1, Len(f)) = SubSeq(f, 1, Len(f))
    BY <2>1, ConcatAdjacentSubSeq
  <2>. QED
    BY <1>1, <1>2, <2>2, SubSeqFull
<1>4. (b \o x) \o y = b \o (x \o y)
  BY ConcatAssociative, SMTT(30)
<1>5. b \o x \in Seq(Cell) /\ Len(b \o x) = Len(b) + k
  BY <1>1, ConcatProperties
<1>. QED
  BY <1>1, <1>2, <1>3, <1>4, <1>5

\* Dropping cells from the host's buffer drops them from the line.
LEMMA CutFront ==
  ASSUME NEW S, NEW b \in Seq(S), NEW f \in Seq(S), NEW k \in 0 .. Len(b)
  PROVE  /\ SubSeq(b, k + 1, Len(b)) \in Seq(S)
         /\ Len(SubSeq(b, k + 1, Len(b))) = Len(b) - k
         /\ SubSeq(b, k + 1, Len(b)) \o f = SubSeq(b \o f, k + 1, Len(b \o f))
<1>1. PICK x \in Seq(S) : x = SubSeq(b, k + 1, Len(b))
  <2>1. SubSeq(b, k + 1, Len(b)) \in Seq(S)
    OBVIOUS
  <2>. QED
    BY <2>1, Zenon
<1>2. Len(x) = Len(b) - k /\ \A i \in 1 .. Len(b) - k : x[i] = b[k + i]
  BY <1>1
<1>3. PICK z \in Seq(S) : z = b \o f
  <2>1. b \o f \in Seq(S)
    OBVIOUS
  <2>. QED
    BY <2>1, Zenon
<1>4. /\ Len(z) = Len(b) + Len(f)
      /\ \A i \in 1 .. Len(z) : z[i] = IF i <= Len(b) THEN b[i] ELSE f[i - Len(b)]
  BY <1>3
<1>5. PICK y \in Seq(S) : y = SubSeq(z, k + 1, Len(z))
  <2>1. SubSeq(z, k + 1, Len(z)) \in Seq(S)
    BY <1>4
  <2>. QED
    BY <2>1, Zenon
<1>6. Len(y) = Len(z) - k /\ \A i \in 1 .. Len(z) - k : y[i] = z[k + i]
  BY <1>4, <1>5
<1>7. PICK u \in Seq(S) : u = x \o f
  <2>1. x \o f \in Seq(S)
    OBVIOUS
  <2>. QED
    BY <2>1, Zenon
<1>8. /\ Len(u) = Len(x) + Len(f)
      /\ \A i \in 1 .. Len(u) : u[i] = IF i <= Len(x) THEN x[i] ELSE f[i - Len(x)]
  BY <1>7
<1>9. Len(u) = Len(y)
  BY <1>2, <1>4, <1>6, <1>8
<1>10. \A i \in 1 .. Len(u) : u[i] = y[i]
  <2>. SUFFICES ASSUME NEW i \in 1 .. Len(u) PROVE u[i] = y[i]
    OBVIOUS
  <2>1. y[i] = z[k + i] /\ k + i \in 1 .. Len(z)
    BY <1>4, <1>6, <1>9
  <2>2. CASE i <= Len(x)
    <3>1. u[i] = x[i] /\ i \in 1 .. Len(b) - k /\ k + i <= Len(b)
      BY <1>2, <1>8, <2>2
    <3>2. x[i] = b[k + i] /\ z[k + i] = b[k + i]
      BY <1>2, <1>4, <2>1, <3>1
    <3>. QED
      BY <2>1, <3>1, <3>2
  <2>3. CASE ~(i <= Len(x))
    <3>1. u[i] = f[i - Len(x)] /\ ~(k + i <= Len(b)) /\ i - Len(x) = k + i - Len(b)
      BY <1>2, <1>8, <2>3
    <3>2. z[k + i] = f[k + i - Len(b)]
      BY <1>4, <2>1, <3>1, SMTT(30)
    <3>. QED
      BY <2>1, <3>1, <3>2
  <2>. QED
    BY <2>2, <2>3
<1>11. u = y
  BY <1>9, <1>10, SeqEqual
<1>. QED
  BY <1>1, <1>2, <1>3, <1>5, <1>7, <1>11

\* What is left of the line behind its first k cells.
LEMMA Rest ==
  ASSUME NEW line \in Seq(Cell), NEW k \in 0 .. Len(line), NEW size \in Nat \ {0},
         NEW l, NEW n \in Nat, NEW st \in Nat,
         Placed(line, size, l, n), Clocked(line, n, st)
  PROVE  \E rest \in Seq(Cell) :
           /\ rest = SubSeq(line, k + 1, Len(line)) /\ Len(rest) = Len(line) - k
           /\ \A i \in 1 .. Len(rest) : rest[i] = line[k + i]
           /\ Placed(rest, size, l, n) /\ Clocked(rest, n, st)
<1>. PICK rest \in Seq(Cell) : rest = SubSeq(line, k + 1, Len(line))
  <2>1. SubSeq(line, k + 1, Len(line)) \in Seq(Cell)
    OBVIOUS
  <2>. QED
    BY <2>1, Zenon
<1>1. /\ Len(rest) = Len(line) - k
      /\ \A i \in 1 .. Len(rest) : rest[i] = line[k + i]
  OBVIOUS
<1>2. \A i \in 1 .. Len(rest) : k + i \in 1 .. Len(line) /\ Len(rest) - i = Len(line) - (k + i)
  BY <1>1
<1>3. Placed(rest, size, l, n)
  <2>. SUFFICES ASSUME NEW i \in 1 .. Len(rest)
                PROVE  /\ rest[i].part \in 1 .. size /\ rest[i].no <= n /\ rest[i].layout = l
                       /\ Sits(size, Len(rest), i, n, rest[i].no, rest[i].part)
    BY DEF Placed
  <2>0. k + i \in 1 .. Len(line)
    BY <1>2
  <2>1. k + i \in 1 .. Len(line) /\ rest[i] = line[k + i] /\ line[k + i] \in Cell
    BY <1>1, <2>0
  <2>2. /\ rest[i].part \in 1 .. size /\ rest[i].no <= n /\ rest[i].layout = l
        /\ Sits(size, Len(line), k + i, n, rest[i].no, rest[i].part)
    BY <2>1 DEF Placed
  <2>3. rest[i].no \in Int /\ rest[i].part \in Int
    BY <2>1, Fields, SMTT(30)
  <2>4. Len(rest) - i = Len(line) - (k + i) /\ k + i \in Int /\ i \in Int
        /\ Len(line) \in Int /\ Len(rest) \in Int /\ n \in Int
    BY <1>1
  <2>5. Sits(size, Len(rest), i, n, rest[i].no, rest[i].part)
    BY <2>2, <2>3, <2>4, SitsBehind, Zenon
  <2>. QED
    BY <2>2, <2>5
<1>4. Clocked(rest, n, st)
  <2>. SUFFICES ASSUME NEW i \in 1 .. Len(rest), NEW j \in 1 .. Len(rest)
                PROVE  /\ rest[i].no = n => rest[i].stamp = st
                       /\ rest[i].no = rest[j].no => rest[i].stamp = rest[j].stamp
                       /\ rest[j].no = rest[i].no + 1 =>
                            rest[j].stamp - rest[i].stamp \in {0, Period}
    BY DEF Clocked
  <2>1. k + i \in 1 .. Len(line) /\ k + j \in 1 .. Len(line)
    BY <1>2
  <2>2. rest[i] = line[k + i] /\ rest[j] = line[k + j]
    BY <1>1
  <2>. QED
    BY <2>1, <2>2, SMTT(30) DEF Clocked
<1>. QED
  BY <1>1, <1>3, <1>4

LEMMA FrameCells ==
  ASSUME NEW l \in Layouts, NEW m \in Nat, NEW st \in Nat
  PROVE  /\ Frame(l, m, st) \in Seq(Cell) /\ Len(Frame(l, m, st)) = FrameSize[l]
         /\ \A i \in 1 .. FrameSize[l] :
              Frame(l, m, st)[i] = [layout |-> l, no |-> m, stamp |-> st, part |-> i]
<1>1. PICK s \in Nat : s = FrameSize[l]
  BY HssAssumption
<1>2. \A i \in 1 .. s : [layout |-> l, no |-> m, stamp |-> st, part |-> i] \in Cell
  BY DEF Cell
<1>3. PICK fr : fr = Frame(l, m, st)
  OBVIOUS
<1>4. fr = [i \in 1 .. s |-> [layout |-> l, no |-> m, stamp |-> st, part |-> i]]
  BY <1>1, <1>3 DEF Frame
<1>5. fr \in [1 .. s -> Cell]
  BY <1>2, <1>4
<1>6. fr \in Seq(Cell) /\ Len(fr) = s
  BY <1>5, CellsFromFunction
<1>. QED
  BY <1>1, <1>3, <1>4, <1>6

\* One more frame behind the last of a line.
Longer(line, more, size, l, m, st) ==
  /\ Len(more) = Len(line) + size
  /\ \A i \in 1 .. Len(line) : more[i] = line[i]
  /\ \A i \in Len(line) + 1 .. Len(more) :
       /\ more[i].layout = l /\ more[i].no = m /\ more[i].stamp = st
       /\ more[i].part = i - Len(line)

LEMMA MorePlaced ==
  ASSUME NEW line \in Seq(Cell), NEW l, NEW n \in Int, n + 1 \in Nat, NEW nextSt,
         NEW size \in Nat \ {0}, Placed(line, size, l, n),
         NEW more \in Seq(Cell), Longer(line, more, size, l, n + 1, nextSt)
  PROVE  Placed(more, size, l, n + 1)
<1>. SUFFICES ASSUME NEW m \in Nat, m = n + 1, Longer(line, more, size, l, m, nextSt)
              PROVE  Placed(more, size, l, m)
  OBVIOUS
<1>1. ASSUME NEW i \in 1 .. Len(line)
      PROVE  /\ more[i].part \in 1 .. size /\ more[i].no <= m /\ more[i].layout = l
             /\ Sits(size, Len(more), i, m, more[i].no, more[i].part)
  <2>1. /\ Sits(size, Len(line), i, n, line[i].no, line[i].part) /\ line[i].layout = l
        /\ line[i].part \in 1 .. size /\ line[i].no <= n
    BY DEF Placed
  <2>2. line[i] \in Cell
    OBVIOUS
  <2>3. /\ line[i].no \in Int /\ line[i].part \in Int /\ Len(line) \in Int
        /\ i \in Int /\ n \in Int
    BY <2>2, Fields
  <2>4. Sits(size, Len(line) + size, i, n + 1, line[i].no, line[i].part)
    BY <2>1, <2>3, SitsBefore, Zenon
  <2>5. Len(more) = Len(line) + size /\ more[i] = line[i]
    BY DEF Longer
  <2>6. line[i].no <= m
    BY <2>1, <2>3
  <2>. QED
    BY <2>1, <2>4, <2>5, <2>6
<1>2. ASSUME NEW i \in Len(line) + 1 .. Len(more)
      PROVE  /\ more[i].part \in 1 .. size /\ more[i].no <= m /\ more[i].layout = l
             /\ Sits(size, Len(more), i, m, more[i].no, more[i].part)
  <2>1. /\ Len(more) = Len(line) + size
        /\ more[i].layout = l /\ more[i].no = m /\ more[i].part = i - Len(line)
    BY DEF Longer
  <2>2. i - Len(line) \in 1 .. size
    BY <2>1
  <2>3. PICK j \in 1 .. size : j = i - Len(line)
    BY <2>2, Zenon
  <2>4. i = Len(line) + j
    BY <2>3
  <2>5. Len(line) \in Int /\ m \in Int /\ j \in Int
    OBVIOUS
  <2>6. Sits(size, Len(line) + size, Len(line) + j, m, m, j)
    BY <2>5, SitsNew, Zenon
  <2>. QED
    BY <2>1, <2>3, <2>4, <2>6
<1>3. \A i \in 1 .. Len(more) : i \in 1 .. Len(line) \/ i \in Len(line) + 1 .. Len(more)
  OBVIOUS
<1>. QED
  BY <1>1, <1>2, <1>3 DEF Placed

LEMMA MoreClocked ==
  ASSUME NEW line \in Seq(Cell), NEW l, NEW n \in Int, n + 1 \in Nat,
         NEW st \in Nat, NEW nextSt \in Nat, nextSt - st \in {0, Period},
         NEW size \in Nat \ {0}, Placed(line, size, l, n), Clocked(line, n, st),
         NEW more \in Seq(Cell), Longer(line, more, size, l, n + 1, nextSt)
  PROVE  Clocked(more, n + 1, nextSt)
<1>. SUFFICES ASSUME NEW m \in Nat, m = n + 1, Longer(line, more, size, l, m, nextSt)
              PROVE  Clocked(more, m, nextSt)
  OBVIOUS
<1>1. \A i \in 1 .. Len(line) : more[i] = line[i] /\ line[i] \in Cell
  BY DEF Longer
<1>2. \A i \in 1 .. Len(line) : line[i].no \in Nat /\ line[i].no <= n
  BY <1>1, Fields DEF Placed
<1>3. \A i \in Len(line) + 1 .. Len(more) : more[i].no = m /\ more[i].stamp = nextSt
  BY DEF Longer
<1>4. \A i \in 1 .. Len(more) : i \in 1 .. Len(line) \/ i \in Len(line) + 1 .. Len(more)
  OBVIOUS
<1>5. \A i \in 1 .. Len(more) : more[i].no = m => more[i].stamp = nextSt
  BY <1>1, <1>2, <1>3, <1>4
<1>6. \A i \in 1 .. Len(more) : more[i].no <= m
  BY <1>1, <1>2, <1>3, <1>4, SMTT(30)
<1>7. ASSUME NEW i \in 1 .. Len(more), NEW j \in 1 .. Len(more), more[i].no = more[j].no
      PROVE  more[i].stamp = more[j].stamp
  <2>1. CASE i \in 1 .. Len(line) /\ j \in 1 .. Len(line)
    BY <1>1, <1>7, <2>1 DEF Clocked
  <2>2. CASE more[i].no = m
    BY <1>5, <1>7, <2>2
  <2>. QED
    BY <1>3, <1>4, <1>7, <2>1, <2>2
<1>8. ASSUME NEW i \in 1 .. Len(more), NEW j \in 1 .. Len(more), more[j].no = more[i].no + 1
      PROVE  more[j].stamp - more[i].stamp \in {0, Period}
  <2>1. i \in 1 .. Len(line)
    <3>1. CASE i \in Len(line) + 1 .. Len(more)
      BY <1>3, <1>6, <1>8, <3>1
    <3>. QED
      BY <1>4, <3>1
  <2>2. CASE j \in 1 .. Len(line)
    BY <1>1, <1>8, <2>1, <2>2 DEF Clocked
  <2>3. CASE j \in Len(line) + 1 .. Len(more)
    <3>1. more[j].no = m /\ more[j].stamp = nextSt
      BY <1>3, <2>3
    <3>2. line[i].no = n
      BY <1>1, <1>2, <1>8, <2>1, <3>1
    <3>3. more[i].stamp = st
      BY <1>1, <2>1, <3>2 DEF Clocked
    <3>. QED
      BY <3>1, <3>3
  <2>. QED
    BY <1>4, <2>2, <2>3
<1>. QED
  BY <1>5, <1>7, <1>8 DEF Clocked

LEMMA Appended ==
  ASSUME NEW line \in Seq(Cell), NEW l \in Layouts, NEW m \in Nat, NEW st \in Nat
  PROVE  /\ line \o Frame(l, m, st) \in Seq(Cell)
         /\ Longer(line, line \o Frame(l, m, st), FrameSize[l], l, m, st)
<1>1. PICK size \in Nat \ {0} : size = FrameSize[l]
  BY HssAssumption
<1>2. PICK fr \in Seq(Cell) : fr = Frame(l, m, st)
  BY FrameCells, Zenon
<1>3. /\ Len(fr) = size
      /\ \A i \in 1 .. size : fr[i] = [layout |-> l, no |-> m, stamp |-> st, part |-> i]
  BY <1>1, <1>2, FrameCells
<1>4. PICK more \in Seq(Cell) : more = line \o fr
  <2>1. line \o fr \in Seq(Cell)
    OBVIOUS
  <2>. QED
    BY <2>1, Zenon
<1>5. /\ Len(more) = Len(line) + size
      /\ \A i \in 1 .. Len(line) + size :
           more[i] = IF i <= Len(line) THEN line[i] ELSE fr[i - Len(line)]
  <2>1. /\ Len(more) = Len(line) + Len(fr)
        /\ \A i \in 1 .. Len(line) + Len(fr) :
             more[i] = IF i <= Len(line) THEN line[i] ELSE fr[i - Len(line)]
    BY <1>4
  <2>2. Len(fr) = size
    BY <1>3
  <2>. QED
    BY <2>1, <2>2
<1>6. \A i \in 1 .. Len(line) : more[i] = line[i]
  <2>1. \A i \in 1 .. Len(line) : i \in 1 .. Len(line) + size /\ i <= Len(line)
    BY <1>1
  <2>. QED
    BY <1>5, <2>1
<1>7. ASSUME NEW i \in Len(line) + 1 .. Len(more)
      PROVE  /\ more[i].layout = l /\ more[i].no = m /\ more[i].stamp = st
             /\ more[i].part = i - Len(line)
  <2>1. i - Len(line) \in 1 .. size /\ i \in 1 .. Len(line) + size /\ ~(i <= Len(line))
    BY <1>1, <1>5
  <2>2. PICK j \in 1 .. size : j = i - Len(line)
    BY <2>1
  <2>3. more[i] = [layout |-> l, no |-> m, stamp |-> st, part |-> j]
    BY <1>3, <1>5, <2>1, <2>2
  <2>. QED
    BY <2>2, <2>3
<1>8. Longer(line, more, size, l, m, st)
  BY <1>5, <1>6, <1>7 DEF Longer
<1>. QED
  BY <1>1, <1>2, <1>4, <1>8

\* The probe samples one more frame.
LEMMA OneMore ==
  ASSUME NEW line \in Seq(Cell), NEW l \in Layouts, NEW n \in Int, n + 1 \in Nat,
         NEW st \in Nat, NEW nextSt \in Nat, nextSt - st \in {0, Period},
         Placed(line, FrameSize[l], l, n), Clocked(line, n, st)
  PROVE  /\ line \o Frame(l, n + 1, nextSt) \in Seq(Cell)
         /\ Longer(line, line \o Frame(l, n + 1, nextSt), FrameSize[l], l, n + 1, nextSt)
         /\ Placed(line \o Frame(l, n + 1, nextSt), FrameSize[l], l, n + 1)
         /\ Clocked(line \o Frame(l, n + 1, nextSt), n + 1, nextSt)
<1>1. FrameSize[l] \in Nat \ {0}
  BY HssAssumption
<1>2. /\ line \o Frame(l, n + 1, nextSt) \in Seq(Cell)
      /\ Longer(line, line \o Frame(l, n + 1, nextSt), FrameSize[l], l, n + 1, nextSt)
  BY Appended, Zenon
<1>3. Placed(line \o Frame(l, n + 1, nextSt), FrameSize[l], l, n + 1)
  BY <1>1, <1>2, MorePlaced, Zenon
<1>4. Clocked(line \o Frame(l, n + 1, nextSt), n + 1, nextSt)
  BY <1>1, <1>2, MoreClocked, Zenon
<1>. QED
  BY <1>2, <1>3, <1>4, Zenon

\* One frame further on in the line is the same part of the next frame.
LEMMA FrameOn ==
  ASSUME NEW line \in Seq(Cell), NEW size \in Nat \ {0}, NEW l, NEW n \in Nat, NEW st \in Nat,
         Placed(line, size, l, n), Clocked(line, n, st),
         NEW i \in 1 .. Len(line), i + size <= Len(line)
  PROVE  /\ line[i + size].no = line[i].no + 1
         /\ line[i + size].stamp - line[i].stamp \in {0, Period}
<1>1. i + size \in 1 .. Len(line)
  OBVIOUS
<1>2. /\ line[i].part \in 1 .. size
      /\ Sits(size, Len(line), i, n, line[i].no, line[i].part)
      /\ line[i + size].part \in 1 .. size
      /\ Sits(size, Len(line), i + size, n, line[i + size].no, line[i + size].part)
  BY <1>1 DEF Placed
<1>3. line[i] \in Cell /\ line[i + size] \in Cell
  BY <1>1
<1>4. /\ line[i].no \in Int /\ line[i + size].no \in Int
      /\ Len(line) \in Int /\ n \in Int /\ i \in Int
  BY <1>3, Fields
<1>5. line[i + size].no = line[i].no + 1
  BY <1>2, <1>4, SitsOn, Zenon
<1>. QED
  BY <1>1, <1>5 DEF Clocked

\* The last cells of the line belong to the last frame: with size cells left
\* the first of them starts it.
LEMMA LastFrame ==
  ASSUME NEW line \in Seq(Cell), NEW size \in Nat \ {0}, NEW l, NEW n \in Nat, NEW st \in Nat,
         Placed(line, size, l, n), Clocked(line, n, st),
         NEW i \in 1 .. Len(line), Len(line) = i + size - 1
  PROVE  line[i].no = n /\ line[i].stamp = st
<1>1. line[i].part \in 1 .. size /\ Sits(size, Len(line), i, n, line[i].no, line[i].part)
  BY DEF Placed
<1>2. line[i] \in Cell
  OBVIOUS
<1>3. line[i].no \in Int /\ Len(line) \in Int /\ n \in Int /\ i \in Int
  BY <1>2, Fields
<1>4. line[i].no = n
  BY <1>1, <1>3, SitsLast, Zenon
<1>. QED
  BY <1>4 DEF Clocked

\* The line holds q whole frames.
Filled(line, size, q) == Len(line) = q * size

\* Position i is the j-th of the f-th frame cut from the front.
At(i, f, j, size) == i = (f - 1) * size + j

\* In a line of whole frames every cell is in its frame's place.
LEMMA InPlace ==
  ASSUME NEW line \in Seq(Cell), NEW size \in Nat \ {0}, NEW l, NEW n \in Nat,
         Placed(line, size, l, n), NEW q \in Nat, Filled(line, size, q),
         NEW f \in Int, NEW j \in 1 .. size, NEW i \in 1 .. Len(line), At(i, f, j, size)
  PROVE  line[i].part = j /\ line[i].no = n + f - q
<1>1. line[i].part \in 1 .. size /\ Sits(size, Len(line), i, n, line[i].no, line[i].part)
  BY DEF Placed
<1>2. line[i] \in Cell
  OBVIOUS
<1>3. line[i].no \in Int /\ n \in Int /\ q \in Int
  BY <1>2, Fields
<1>4. Sits(size, q * size, (f - 1) * size + j, n, line[i].no, line[i].part)
  BY <1>1 DEF Filled, At
<1>5. line[i].part = j
  BY <1>1, <1>3, <1>4, SitsAligned, Zenon
<1>6. line[i].no = n + f - q
  BY <1>1, <1>3, <1>4, FrameAligned, Zenon
<1>. QED
  BY <1>5, <1>6

-----------------------------------------------------------------------------
(* A batch of frames.                                                      *)

\* The frames before the first of a set, counted as PublishBatch counts them.
UpTo(N, Q) == {f \in 1 .. N : \A g \in 1 .. f : g \notin Q}

Most(acc) == IF acc = {} THEN 0 ELSE CHOOSE m \in acc : \A f \in acc : f <= m

LEMMA UpToFirst ==
  ASSUME NEW N \in Nat, NEW Q \in SUBSET (1 .. N)
  PROVE  /\ Most(UpTo(N, Q)) \in 0 .. N
         /\ \A f \in 1 .. Most(UpTo(N, Q)) : f \notin Q
         /\ Most(UpTo(N, Q)) < N => Most(UpTo(N, Q)) + 1 \in Q
<1>. SUFFICES ASSUME NEW acc, acc = UpTo(N, Q), NEW n, n = Most(acc)
              PROVE  /\ n \in 0 .. N
                     /\ \A f \in 1 .. n : f \notin Q
                     /\ n < N => n + 1 \in Q
  OBVIOUS
<1>1. PICK k \in 0 .. N : (\A f \in 1 .. k : f \notin Q) /\ (k < N => k + 1 \in Q)
  <2>1. CASE Q = {}
    BY <2>1
  <2>2. CASE Q # {}
    <3>1. PICK x \in Q : \A y \in Q : x <= y
      BY <2>2, LeastOf
    <3>2. x - 1 \in 0 .. N /\ (x - 1) + 1 = x /\ \A f \in 1 .. x - 1 : f \notin Q
      BY <3>1
    <3>. QED
      BY <3>1, <3>2
  <2>. QED
    BY <2>1, <2>2
<1>2. acc = 1 .. k
  <2>1. ASSUME NEW f \in 1 .. k
        PROVE  f \in acc
    BY <1>1, <2>1 DEF UpTo
  <2>2. ASSUME NEW f \in acc
        PROVE  f \in 1 .. k
    <3>1. f \in 1 .. N /\ \A g \in 1 .. f : g \notin Q
      BY <2>2 DEF UpTo
    <3>2. SUFFICES ASSUME ~(f <= k) PROVE FALSE
      BY <3>1
    <3>3. k < N /\ k + 1 \in 1 .. f
      BY <3>1, <3>2
    <3>. QED
      BY <1>1, <3>1, <3>3
  <2>. QED
    BY <2>1, <2>2
<1>3. n = k
  <2>1. CASE k = 0
    <3>1. acc = {}
      BY <1>2, <2>1
    <3>. QED
      BY <2>1, <3>1 DEF Most
  <2>2. CASE k # 0
    <3>1. k \in acc /\ \A f \in acc : f <= k
      <4>1. k \in 1 .. k /\ \A f \in 1 .. k : f <= k
        BY <2>2
      <4>. QED
        BY <1>2, <4>1, Zenon
    <3>2. n \in acc /\ \A f \in acc : f <= n
      BY <3>1 DEF Most
    <3>. QED
      BY <1>2, <3>1, <3>2
  <2>. QED
    BY <2>1, <2>2
<1>. QED
  BY <1>1, <1>3

\* The sums are the function that adds up the gaps.
LEMMA SumsAre ==
  ASSUME Count \in Nat,
         NEW A, A = [f \in 0 .. Count |->
                       IF f = 0 THEN IF synced THEN accum ELSE 0 ELSE A[f - 1] + Gap(f)]
  PROVE  \A f \in 0 .. Count : Sums[f] = A[f]
<1>1. Sums = [f \in 0 .. Count |->
                IF f = 0 THEN IF synced THEN accum ELSE 0 ELSE Sums[f - 1] + Gap(f)]
  BY Zenon DEF Sums
<1>2. \A f \in 0 .. Count :
        /\ A[f] = IF f = 0 THEN IF synced THEN accum ELSE 0 ELSE A[f - 1] + Gap(f)
        /\ Sums[f] = IF f = 0 THEN IF synced THEN accum ELSE 0 ELSE Sums[f - 1] + Gap(f)
  BY <1>1, Zenon
<1>. DEFINE T == {f \in 0 .. Count : Sums[f] # A[f]}
<1>3. SUFFICES ASSUME T # {} PROVE FALSE
  OBVIOUS
<1>4. PICK x \in T : \A y \in T : x <= y
  <2>1. T \in SUBSET Nat
    OBVIOUS
  <2>. QED
    BY <1>3, <2>1, LeastOf, Zenon
<1>5. x \in 0 .. Count /\ Sums[x] # A[x]
  OBVIOUS
<1>6. x # 0
  BY <1>2, <1>5
<1>7. x - 1 \in 0 .. Count /\ x - 1 \notin T
  BY <1>4, <1>5, <1>6
<1>8. Sums[x - 1] = A[x - 1]
  BY <1>7
<1>. QED
  BY <1>2, <1>5, <1>6, <1>8

\* What grows from each to the next grows over any distance.
LEMMA Growing ==
  ASSUME NEW n \in Nat, NEW A \in [1 .. n -> Int],
         \A f \in 2 .. n : A[f - 1] < A[f]
  PROVE  \A f \in 1 .. n : \A g \in 1 .. f - 1 : A[g] < A[f]
<1>. SUFFICES ASSUME NEW h \in 1 .. n
              PROVE  \A f \in 1 .. n : h < f => A[h] < A[f]
  OBVIOUS
<1>. DEFINE T == {f \in 1 .. n : h < f /\ ~(A[h] < A[f])}
<1>1. SUFFICES ASSUME T # {} PROVE FALSE
  OBVIOUS
<1>2. PICK x \in T : \A y \in T : x <= y
  <2>1. T \in SUBSET Nat
    OBVIOUS
  <2>. QED
    BY <1>1, <2>1, LeastOf, Zenon
<1>3. x \in 1 .. n /\ h < x /\ ~(A[h] < A[x])
  OBVIOUS
<1>4. x \in 2 .. n /\ x - 1 \in 1 .. n /\ x - 1 \notin T
  BY <1>2, <1>3
<1>5. A[x - 1] < A[x] /\ A[x] \in Int /\ A[h] \in Int /\ A[x - 1] \in Int
  BY <1>4
<1>6. CASE h = x - 1
  BY <1>3, <1>5, <1>6
<1>7. CASE h < x - 1
  <2>1. A[h] < A[x - 1]
    BY <1>4, <1>7
  <2>. QED
    BY <1>3, <1>5, <2>1
<1>. QED
  BY <1>3, <1>6, <1>7

-----------------------------------------------------------------------------
(* The inductive invariant.                                                *)

Line == buf \o fifo

\* A restart of the running stream is due: nothing more is read from it.
Broken ==
  \/ pc \in {"watchdog", "refresh", "connected", "changed"} /\ restartReq
  \/ pc = "stop" /\ changed

\* Nothing was torn out of the line: whole frames, those of the session
\* before gone with the first batch, and the next one first.
Clean ==
  /\ \E q \in Nat : Len(Line) = q * Size
  /\ ~discardFirst => \A i \in 1 .. Len(Line) : Line[i].no > 0
  /\ synced => IF Line = << >> THEN produced = lastNo ELSE Line[1].no = lastNo + 1

\* The time line ends at the frame before the line's first.
TimeBase ==
  synced =>
    /\ lastTs = (syncStamp + accum) % Width
    /\ IF Line = << >> THEN stamp = syncStamp + accum
                       ELSE Line[1].stamp - (syncStamp + accum) \in {0, Period}

Stream ==
  hssRunning /\ ~Broken =>
    /\ Placed(Line, Size, layout, produced) /\ Clocked(Line, produced, stamp)
    /\ TimeBase
    /\ ~torn => Clean

\* Where the thread is, which session runs, and what it decodes with.
Session ==
  /\ (layout # 0) = hssRunning
  /\ hssRunning => prev = layout
  /\ hssRunning /\ pc = "start" => ~changed
  /\ pc \in {"stop", "start"} /\ desired => cfg # 0
  /\ pc = "frames" => carryLen \in 0 .. Len(buf)
  /\ pc # "frames" => carryLen = Len(buf)
  /\ pc \notin {"read", "watchdog"} => published = << >>

Types ==
  /\ want \in Layouts \cup {0} /\ cfg \in Layouts \cup {0}
  /\ prev \in Layouts \cup {0} /\ layout \in Layouts \cup {0}
  /\ buf \in Seq(Cell) /\ fifo \in Seq(Cell)
  /\ produced \in Nat /\ stamp \in Nat
  /\ syncStamp \in Nat /\ accum \in Int /\ lastNo \in Nat

IInv == Types /\ Session /\ Stream /\ WholeFrames /\ TimeFaithful

LEMMA LineOf ==
  ASSUME Types
  PROVE  /\ Line \in Seq(Cell) /\ Len(Line) = Len(buf) + Len(fifo)
         /\ \A i \in 1 .. Len(buf) : Line[i] = buf[i]
BY DEF Types, Line

\* A stream that only moves between the buffers stays as it is.
LEMMA Quiet ==
  ASSUME Stream, Line' = Line, Broken => Broken',
         UNCHANGED <<hssRunning, layout, produced, stamp, discardFirst, synced, lastTs,
                     accum, syncStamp, lastNo, torn>>
  PROVE  Stream'
BY DEF Stream, TimeBase, Clean, Size

LEMMA NothingNew ==
  ASSUME WholeFrames, TimeFaithful,
         published' = << >> \/ (UNCHANGED <<published, syncStamp>> /\ (torn => torn'))
  PROVE  WholeFrames' /\ TimeFaithful'
BY DEF WholeFrames, TimeFaithful, Whole

LEMMA QuietStep ==
  ASSUME IInv, Session', Broken => Broken',
         want' \in Layouts \cup {0}, cfg' \in Layouts \cup {0}, prev' \in Layouts \cup {0},
         UNCHANGED <<hssRunning, layout, produced, stamp, discardFirst, synced, lastTs,
                     accum, syncStamp, lastNo, torn, buf, fifo>>,
         published' \in {published, << >>}
  PROVE  IInv'
<1>1. Types'
  BY DEF IInv, Types
<1>2. Stream'
  BY Quiet DEF IInv, Line
<1>3. WholeFrames' /\ TimeFaithful'
  BY NothingNew DEF IInv
<1>. QED
  BY <1>1, <1>2, <1>3 DEF IInv

LEMMA BatchSizes ==
  ASSUME Types, layout # 0
  PROVE  /\ Size \in Nat \ {0} /\ Len(buf) \in Nat /\ Count \in Nat
         /\ Count * Size \in 0 .. Len(buf) /\ Total % Size \in 0 .. Size - 1
         /\ Len(buf) = Count * Size + (Total % Size)
<1>1. PICK s \in Nat \ {0} : s = Size
  BY HssAssumption DEF Types, Size
<1>2. PICK t \in Nat : t = Len(buf) /\ t = Total
  BY DEF Types, Total
<1>3. /\ t \div s \in Nat /\ t % s \in 0 .. s - 1
      /\ t = (t \div s) * s + (t % s)
  <2>1. t \in Int
    OBVIOUS
  <2>. QED
    BY <2>1, Division, Zenon
<1>4. (t \div s) * s \in 0 .. t
  BY <1>3
<1>5. Count = t \div s
  BY <1>1, <1>2 DEF Count
<1>. QED
  BY <1>1, <1>2, <1>3, <1>4, <1>5

-----------------------------------------------------------------------------
(* What a batch holds.                                                     *)

Start(f) == buf[(f - 1) * Size + 1]

\* The probe time the first frame's gap is counted from.
Base == IF synced THEN syncStamp + accum ELSE Start(1).stamp

Before(f) == IF f = 1 THEN Base ELSE Start(f - 1).stamp

\* The first cells of the frames of a batch.
LEMMA Starts ==
  ASSUME Types, layout # 0, NEW f \in 1 .. Count
  PROVE  /\ (f - 1) * Size + 1 \in 1 .. Len(buf)
         /\ Start(f) = Line[(f - 1) * Size + 1] /\ Start(f) \in Cell
         /\ Start(f).stamp \in Nat /\ Start(f).no \in Nat
<1>1. Size \in Nat \ {0} /\ Len(buf) \in Nat /\ Count \in Nat /\ Count * Size <= Len(buf)
  BY BatchSizes
<1>2. 1 \in 1 .. Size
  BY <1>1
<1>3. (f - 1) * Size + 1 \in 1 .. Len(buf)
  BY <1>1, <1>2, Positions
<1>4. Start(f) = Line[(f - 1) * Size + 1]
  BY <1>3, LineOf DEF Start
<1>5. Start(f) \in Cell
  <2>1. buf \in Seq(Cell)
    BY DEF Types
  <2>. QED
    BY <1>3, <2>1 DEF Start
<1>. QED
  BY <1>3, <1>4, <1>5, Fields

\* Each frame of a batch follows the one before.
LEMMA NextStart ==
  ASSUME Types, layout # 0, NEW f \in 2 .. Count,
         Placed(Line, Size, layout, produced), Clocked(Line, produced, stamp)
  PROVE  /\ Start(f).no = Start(f - 1).no + 1
         /\ Start(f).stamp - Start(f - 1).stamp \in {0, Period}
<1>1. Size \in Nat \ {0} /\ Len(buf) \in Nat /\ Count \in Nat /\ Count * Size <= Len(buf)
  BY BatchSizes
<1>2. f - 1 \in 1 .. Count /\ f \in 1 .. Count
  BY <1>1
<1>3. PICK i \in 1 .. Len(buf) : i = (f - 1 - 1) * Size + 1 /\ Start(f - 1) = Line[i]
  BY <1>2, Starts
<1>4. PICK j \in 1 .. Len(buf) : j = (f - 1) * Size + 1 /\ Start(f) = Line[j]
  BY <1>2, Starts
<1>5. j = i + Size
  <2>1. PICK g \in Int : g = f - 2
    BY <1>1
  <2>2. (g + 1) * Size = g * Size + Size
    BY <1>1
  <2>. QED
    BY <1>1, <1>3, <1>4, <2>1, <2>2
<1>6. Line \in Seq(Cell) /\ Len(Line) >= Len(buf) /\ Len(Line) \in Nat
  BY LineOf DEF Types
<1>7. i \in 1 .. Len(Line) /\ i + Size <= Len(Line)
  BY <1>1, <1>4, <1>5, <1>6
<1>8. produced \in Nat /\ stamp \in Nat
  BY DEF Types
<1>9. /\ Line[i + Size].no = Line[i].no + 1
      /\ Line[i + Size].stamp - Line[i].stamp \in {0, Period}
  BY <1>1, <1>6, <1>7, <1>8, FrameOn, Zenon
<1>. QED
  BY <1>3, <1>4, <1>5, <1>9

\* The gap before a frame is the probe time that passed, across a wrap.
LEMMA TrueGap ==
  ASSUME Types, layout # 0, Count > 0, TimeBase, NEW f \in 1 .. Count,
         Start(f).stamp - Before(f) \in {0, Period}, Before(f) \in Int
  PROVE  /\ Gap(f) = Start(f).stamp - Before(f)
         /\ Rejected(f) <=> (synced \/ f > 1) /\ Start(f).stamp = Before(f)
<1>1. Size \in Nat \ {0} /\ Count \in Nat
  BY BatchSizes
<1>2. \A g \in 1 .. Count : HwTs(g) = Start(g).stamp % Width
  BY DEF HwTs, Start
<1>3. f # 1 => f - 1 \in 1 .. Count
  BY <1>1
<1>4. PICK w \in Nat \ {0} : w = Width
  BY HssAssumption
<1>5. Period \in Nat \ {0} /\ Period < w \div 2 /\ Period < w /\ w \div 2 \in Nat
  BY <1>4, HssAssumption
<1>6. PICK p \in {0, Period} : p = Start(f).stamp - Before(f)
  OBVIOUS
<1>7. PICK a \in Int : a = Before(f)
  OBVIOUS
<1>8. Start(f).stamp = a + p
  <2>1. Start(f).stamp \in Nat
    BY Starts
  <2>. QED
    BY <1>5, <1>6, <1>7, <2>1
<1>9. (((a + p) % w) - (a % w) + w) % w = p
  <2>1. p \in Nat /\ p < w
    BY <1>5
  <2>. QED
    BY <2>1, Wrapped, Zenon
<1>10. Elapsed(a % w, (a + p) % w) = p
  BY <1>4, <1>9 DEF Elapsed
<1>11. HwTs(f) = (a + p) % w
  BY <1>2, <1>4, <1>8
<1>12. synced \/ f > 1 => TsBefore(f) = a % w
  <2>1. CASE f = 1 /\ synced
    BY <1>4, <1>7, <2>1 DEF TsBefore, Before, Base, TimeBase
  <2>2. CASE f # 1
    BY <1>2, <1>3, <1>4, <1>7, <2>2 DEF TsBefore, Before
  <2>. QED
    BY <1>1, <2>1, <2>2
<1>13. Gap(f) = p
  <2>1. CASE f = 1 /\ ~synced
    <3>1. Gap(f) = Elapsed((a + p) % w, (a + p) % w)
      BY <1>11, <2>1 DEF Gap
    <3>2. a = Start(f).stamp
      BY <1>7, <2>1 DEF Before, Base
    <3>3. p = 0
      BY <1>5, <1>8, <3>2
    <3>. QED
      BY <1>10, <3>1, <3>3
  <2>2. CASE ~(f = 1 /\ ~synced)
    <3>1. Gap(f) = Elapsed(TsBefore(f), HwTs(f))
      BY <2>2 DEF Gap, TsBefore
    <3>. QED
      BY <1>1, <1>10, <1>11, <1>12, <2>2, <3>1
  <2>. QED
    BY <2>1, <2>2
<1>14. synced \/ f > 1 => (TimestampAdvances(TsBefore(f), HwTs(f)) <=> p # 0)
  BY <1>4, <1>5, <1>10, <1>11, <1>12 DEF TimestampAdvances
<1>15. Rejected(f) <=> (synced \/ f > 1) /\ p = 0
  BY <1>14 DEF Rejected
<1>16. p = 0 <=> Start(f).stamp = Before(f)
  BY <1>5, <1>7, <1>8
<1>. QED
  BY <1>6, <1>13, <1>15, <1>16

LEMMA Steps ==
  ASSUME Types, layout # 0, TimeBase, NEW f \in 1 .. Count,
         Placed(Line, Size, layout, produced), Clocked(Line, produced, stamp)
  PROVE  Before(f) \in Int /\ Start(f).stamp - Before(f) \in {0, Period}
<1>1. Size \in Nat \ {0} /\ Count \in Nat
  BY BatchSizes
<1>2. CASE f = 1 /\ synced
  <2>1. (1 - 1) * Size + 1 = 1
    BY <1>1
  <2>2. 1 \in 1 .. Len(buf) /\ Start(1) = Line[1]
    BY <1>2, <2>1, Starts
  <2>3. Line # << >>
    BY <2>2, LineOf DEF Types
  <2>4. Line[1].stamp - (syncStamp + accum) \in {0, Period}
    BY <1>2, <2>3 DEF TimeBase
  <2>. QED
    BY <1>2, <2>2, <2>4 DEF Before, Base, Types
<1>3. CASE f = 1 /\ ~synced
  <2>1. Start(1).stamp \in Nat
    BY <1>3, Starts
  <2>. QED
    BY <1>3, <2>1 DEF Before, Base
<1>4. CASE f # 1
  <2>1. f \in 2 .. Count /\ f - 1 \in 1 .. Count
    BY <1>1, <1>4
  <2>2. Start(f).stamp - Start(f - 1).stamp \in {0, Period}
    BY <2>1, NextStart
  <2>3. Start(f - 1).stamp \in Nat
    BY <2>1, Starts
  <2>. QED
    BY <1>4, <2>2, <2>3 DEF Before
<1>. QED
  BY <1>2, <1>3, <1>4

\* The probe time at which the published times start.
Zero == IF synced THEN syncStamp ELSE Start(1).stamp

LEMMA FrameTimes ==
  ASSUME Types, layout # 0, TimeBase, Count > 0,
         Placed(Line, Size, layout, produced), Clocked(Line, produced, stamp)
  PROVE  \A f \in 1 .. Count : FrameTime(f) = Start(f).stamp - Zero
<1>1. Count \in Nat
  BY BatchSizes
<1>2. \A f \in 1 .. Count : Gap(f) = Start(f).stamp - Before(f)
  BY Steps, TrueGap
<1>3. \A f \in 1 .. Count : Start(f).stamp \in Nat
  BY Starts
<1>. DEFINE A == [f \in 0 .. Count |->
                   IF f = 0 THEN IF synced THEN accum ELSE 0 ELSE Start(f).stamp - Zero]
<1>4. ASSUME NEW f \in 0 .. Count
      PROVE  A[f] = IF f = 0 THEN IF synced THEN accum ELSE 0 ELSE A[f - 1] + Gap(f)
  <2>1. CASE f = 0
    BY <2>1
  <2>2. CASE f = 1
    <3>1. A[1 - 1] = IF synced THEN accum ELSE 0
      BY <1>1
    <3>2. A[1] = Start(1).stamp - Zero
      BY <1>1
    <3>3. Gap(1) = Start(1).stamp - Base /\ Start(1).stamp \in Nat
      BY <1>1, <1>2, <1>3 DEF Before
    <3>. QED
      BY <2>2, <3>1, <3>2, <3>3 DEF Zero, Base, Types
  <2>3. CASE f > 1
    <3>1. f \in 1 .. Count /\ f - 1 \in 1 .. Count /\ f # 0 /\ f - 1 # 0 /\ f - 1 \in 0 .. Count
      BY <1>1, <2>3
    <3>2. A[f] = Start(f).stamp - Zero /\ A[f - 1] = Start(f - 1).stamp - Zero
      BY <3>1
    <3>3. Gap(f) = Start(f).stamp - Start(f - 1).stamp
      BY <1>2, <2>3, <3>1 DEF Before
    <3>4. Start(f).stamp \in Nat /\ Start(f - 1).stamp \in Nat /\ Zero \in Int
      BY <1>1, <1>3, <3>1 DEF Zero, Types
    <3>. QED
      BY <3>1, <3>2, <3>3, <3>4
  <2>. QED
    BY <1>1, <2>1, <2>2, <2>3
<1>5. PICK B : B = A
  OBVIOUS
<1>6. B = [f \in 0 .. Count |->
             IF f = 0 THEN IF synced THEN accum ELSE 0 ELSE B[f - 1] + Gap(f)]
  BY <1>4, <1>5
<1>7. \A f \in 0 .. Count : Sums[f] = B[f]
  BY <1>1, <1>6, SumsAre
<1>8. \A f \in 1 .. Count : f \in 0 .. Count /\ A[f] = Start(f).stamp - Zero
  BY <1>1
<1>. QED
  BY <1>5, <1>7, <1>8 DEF FrameTime

\* The cells of a frame of the batch.
LEMMA CutOut ==
  ASSUME Types, layout # 0, NEW f \in 1 .. Count,
         NEW c, c = SubSeq(buf, (f - 1) * Size + 1, f * Size)
  PROVE  /\ Len(c) = Size /\ c[1] = Start(f)
         /\ \A i \in 1 .. Size : (f - 1) * Size + i \in 1 .. Len(buf)
                              /\ c[i] = buf[(f - 1) * Size + i]
<1>1. Size \in Nat \ {0} /\ Len(buf) \in Nat /\ Count \in Nat /\ Count * Size <= Len(buf)
  BY BatchSizes
<1>2. \A i \in 1 .. Size : (f - 1) * Size + i \in 1 .. Len(buf)
  BY <1>1, Positions
<1>3. 1 \in 1 .. Size
  BY <1>1
<1>4. /\ (f - 1) * Size \in Nat /\ f * Size \in Nat
      /\ f * Size = (f - 1) * Size + Size /\ f * Size <= Len(buf)
  BY <1>1, <1>3, Positions
<1>5. PICK a \in Nat : a = (f - 1) * Size
  BY <1>4
<1>6. PICK b \in Nat : b = f * Size
  BY <1>4
<1>7. b = a + Size /\ b <= Len(buf) /\ c = SubSeq(buf, a + 1, b)
  BY <1>4, <1>5, <1>6
<1>8. Len(c) = Size /\ \A i \in 1 .. Size : c[i] = buf[a + i]
  <2>1. buf \in Seq(Cell)
    BY DEF Types
  <2>. QED
    BY <1>1, <1>7, <2>1
<1>9. \A i \in 1 .. Size : c[i] = buf[(f - 1) * Size + i]
  BY <1>5, <1>8
<1>. QED
  BY <1>2, <1>3, <1>8, <1>9 DEF Start

\* What PublishBatch does, by the number of frames it takes.
Publishes(n) ==
  /\ published' = [f \in 1 .. n |->
       [cells |-> SubSeq(buf, (f - 1) * Size + 1, f * Size),
        as |-> prev, time |-> FrameTime(f)]]
  /\ syncStamp' = IF synced \/ n = 0 THEN syncStamp ELSE buf[1].stamp
  /\ lastNo' = IF n = 0 THEN lastNo ELSE buf[n * Size].no
  /\ IF n = Count
     THEN /\ RetainTail /\ AfterBatch
          /\ synced' = TRUE /\ lastTs' = HwTs(n) /\ accum' = FrameTime(n)
          /\ UNCHANGED <<full, discardFirst, restartReq>>
     ELSE Resync /\ pc' = "watchdog"

LEMMA Taken ==
  ASSUME Types, PublishBatch
  PROVE  \E n \in 0 .. Count :
           /\ Publishes(n)
           /\ \A f \in 1 .. n : ~Rejected(f)
           /\ n < Count => Rejected(n + 1)
<1>1. Count \in Nat
  BY BatchSizes DEF PublishBatch
<1>2. PICK n : n = Most(Accepted)
  OBVIOUS
<1>3. Publishes(n)
  BY <1>2 DEF PublishBatch, Publishes, Most
<1>. DEFINE Q == {f \in 1 .. Count : Rejected(f)}
<1>4. Accepted = UpTo(Count, Q)
  BY <1>1 DEF Accepted, UpTo
<1>5. Q \in SUBSET (1 .. Count)
  OBVIOUS
<1>6. /\ n \in 0 .. Count /\ \A f \in 1 .. n : f \notin Q
      /\ n < Count => n + 1 \in Q
  <2>. HIDE DEF Q
  <2>1. /\ Most(UpTo(Count, Q)) \in 0 .. Count
        /\ \A f \in 1 .. Most(UpTo(Count, Q)) : f \notin Q
        /\ Most(UpTo(Count, Q)) < Count => Most(UpTo(Count, Q)) + 1 \in Q
    BY <1>1, <1>5, UpToFirst, Zenon
  <2>. QED
    BY <1>2, <1>4, <2>1
<1>7. \A f \in 1 .. n : ~Rejected(f)
  BY <1>1, <1>6
<1>. QED
  BY <1>3, <1>6, <1>7

LEMMA Cutting ==
  ASSUME IInv, pc = "frames", layout # 0
  PROVE  /\ Types /\ hssRunning /\ prev = layout
         /\ Placed(Line, Size, layout, produced) /\ Clocked(Line, produced, stamp)
         /\ TimeBase /\ (~torn => Clean)
BY DEF IInv, Session, Stream, Broken

\* In a clean line the cells of a batch are in their frames' places.
LEMMA CleanCell ==
  ASSUME IInv, pc = "frames", layout # 0, ~torn, NEW q \in Nat, Filled(Line, Size, q),
         NEW f \in 1 .. Count, NEW j \in 1 .. Size
  PROVE  /\ buf[(f - 1) * Size + j].layout = layout /\ buf[(f - 1) * Size + j].part = j
         /\ buf[(f - 1) * Size + j].no = produced + f - q
         /\ ~discardFirst => buf[(f - 1) * Size + j].no > 0
<1>1. /\ Types /\ Placed(Line, Size, layout, produced) /\ Clean
  BY Cutting
<1>2. Size \in Nat \ {0} /\ Len(buf) \in Nat /\ Count \in Nat /\ Count * Size <= Len(buf)
  BY <1>1, BatchSizes
<1>3. (f - 1) * Size + j \in 1 .. Len(buf)
  BY <1>2, Positions
<1>4. /\ Line \in Seq(Cell) /\ Len(Line) = Len(buf) + Len(fifo)
      /\ \A i \in 1 .. Len(buf) : Line[i] = buf[i]
  BY <1>1, LineOf
<1>5. PICK i \in 1 .. Len(Line) : i = (f - 1) * Size + j /\ Line[i] = buf[i]
  BY <1>1, <1>2, <1>3, <1>4 DEF Types
<1>6. produced \in Nat /\ f \in Int
  BY <1>1, <1>2 DEF Types
<1>7. Line[i].part = j /\ Line[i].no = produced + f - q
  <2>1. Line \in Seq(Cell) /\ Size \in Nat \ {0}
    BY <1>2, <1>4
  <2>2. At(i, f, j, Size)
    BY <1>5 DEF At
  <2>3. Placed(Line, Size, layout, produced)
    BY <1>1
  <2>. QED
    BY <1>6, <2>1, <2>2, <2>3, InPlace, SMTT(30)
<1>8. Line[i].layout = layout
  BY <1>1 DEF Placed
<1>9. ~discardFirst => Line[i].no > 0
  BY <1>1 DEF Clean
<1>. QED
  BY <1>5, <1>7, <1>8, <1>9

LEMMA PublishesWhole ==
  ASSUME IInv, PublishBatch
  PROVE  WholeFrames'
<1>1. pc = "frames" /\ layout # 0 /\ ~discardFirst /\ torn' = torn
  BY DEF PublishBatch
<1>2. Types /\ prev = layout /\ (~torn => Clean)
  BY <1>1, Cutting
<1>3. Size \in Nat \ {0} /\ Count \in Nat /\ Size = FrameSize[prev]
  BY <1>1, <1>2, BatchSizes DEF Size
<1>4. PICK n \in 0 .. Count : Publishes(n)
  BY <1>2, Taken
<1>5. ASSUME ~torn, NEW f \in 1 .. n
      PROVE  Whole([cells |-> SubSeq(buf, (f - 1) * Size + 1, f * Size),
                    as |-> prev, time |-> FrameTime(f)])
  <2>1. f \in 1 .. Count
    BY <1>3
  <2>2. PICK c : c = SubSeq(buf, (f - 1) * Size + 1, f * Size)
    OBVIOUS
  <2>3. Len(c) = Size /\ \A i \in 1 .. Size : c[i] = buf[(f - 1) * Size + i]
    BY <1>1, <1>2, <2>1, <2>2, CutOut
  <2>4. PICK q \in Nat : Filled(Line, Size, q)
    BY <1>2, <1>5 DEF Clean, Filled
  <2>5. \A i \in 1 .. Size : c[i].layout = layout /\ c[i].part = i
                          /\ c[i].no = produced + f - q /\ c[i].no > 0
    <3>. TAKE i \in 1 .. Size
    <3>1. /\ buf[(f - 1) * Size + i].layout = layout /\ buf[(f - 1) * Size + i].part = i
          /\ buf[(f - 1) * Size + i].no = produced + f - q
          /\ ~discardFirst => buf[(f - 1) * Size + i].no > 0
      BY <1>1, <1>5, <2>1, <2>4, CleanCell, Zenon
    <3>. QED
      BY <1>1, <2>3, <3>1
  <2>6. 1 \in 1 .. Size
    BY <1>3
  <2>7. \A i \in 1 .. Len(c) : /\ c[i].layout = prev /\ c[i].part = i
                               /\ c[i].no = c[1].no /\ c[i].no > 0
    BY <1>2, <2>3, <2>5, <2>6
  <2>8. prev # 0 /\ Len(c) = FrameSize[prev]
    BY <1>1, <1>2, <1>3, <2>3
  <2>. QED
    BY <2>2, <2>7, <2>8 DEF Whole
<1>6. /\ Len(published') = n
      /\ \A f \in 1 .. n : published'[f] = [cells |-> SubSeq(buf, (f - 1) * Size + 1, f * Size),
                                            as |-> prev, time |-> FrameTime(f)]
  BY <1>3, <1>4 DEF Publishes
<1>. QED
  BY <1>1, <1>5, <1>6 DEF WholeFrames

LEMMA PublishesTrue ==
  ASSUME IInv, PublishBatch
  PROVE  TimeFaithful'
<1>1. pc = "frames" /\ layout # 0 /\ Count > 0
  BY DEF PublishBatch
<1>2. /\ Types /\ TimeBase
      /\ Placed(Line, Size, layout, produced) /\ Clocked(Line, produced, stamp)
  BY <1>1, Cutting
<1>3. Size \in Nat \ {0} /\ Count \in Nat
  BY <1>1, <1>2, BatchSizes
<1>4. PICK n \in 0 .. Count : Publishes(n) /\ \A f \in 1 .. n : ~Rejected(f)
  BY <1>2, Taken
<1>5. /\ Len(published') = n
      /\ \A f \in 1 .. n : published'[f] = [cells |-> SubSeq(buf, (f - 1) * Size + 1, f * Size),
                                            as |-> prev, time |-> FrameTime(f)]
  BY <1>3, <1>4 DEF Publishes
<1>6. \A f \in 1 .. n : published'[f].cells[1] = Start(f) /\ published'[f].time = FrameTime(f)
  <2>. SUFFICES ASSUME NEW f \in 1 .. n
                PROVE  published'[f].cells[1] = Start(f) /\ published'[f].time = FrameTime(f)
    OBVIOUS
  <2>1. f \in 1 .. Count
    BY <1>3
  <2>2. SubSeq(buf, (f - 1) * Size + 1, f * Size)[1] = Start(f)
    BY <1>1, <1>2, <2>1, CutOut
  <2>3. PICK c : c = SubSeq(buf, (f - 1) * Size + 1, f * Size)
    OBVIOUS
  <2>4. published'[f] = [cells |-> c, as |-> prev, time |-> FrameTime(f)]
    BY <1>5, <2>3
  <2>5. c[1] = Start(f)
    BY <2>2, <2>3
  <2>. QED
    BY <2>4, <2>5
<1>7. \A f \in 1 .. n : f \in 1 .. Count
  BY <1>3
<1>8. \A f \in 1 .. n : FrameTime(f) = Start(f).stamp - Zero /\ Start(f).stamp \in Nat
  BY <1>1, <1>2, <1>7, FrameTimes, Starts
<1>9. n # 0 => syncStamp' = Zero
  <2>1. (1 - 1) * Size + 1 = 1
    BY <1>3
  <2>. QED
    BY <1>4, <2>1 DEF Publishes, Zero, Start
<1>10. PICK A \in [1 .. n -> Int] : A = [f \in 1 .. n |-> Start(f).stamp]
  <2>1. [f \in 1 .. n |-> Start(f).stamp] \in [1 .. n -> Int]
    BY <1>8
  <2>. QED
    BY <2>1, Zenon
<1>11. ASSUME NEW f \in 2 .. n
       PROVE  A[f - 1] < A[f]
  <2>1. f \in 2 .. Count /\ f \in 1 .. Count /\ f - 1 \in 1 .. n /\ f \in 1 .. n /\ f # 1 /\ f > 1
    BY <1>3
  <2>2. Start(f).stamp - Before(f) \in {0, Period} /\ Before(f) \in Int
    BY <1>1, <1>2, <2>1, Steps
  <2>3. Start(f).stamp # Before(f)
    BY <1>1, <1>2, <1>4, <2>1, <2>2, TrueGap
  <2>4. Period \in Nat
    BY HssAssumption
  <2>5. Before(f) = Start(f - 1).stamp
    BY <2>1 DEF Before
  <2>6. Start(f - 1).stamp < Start(f).stamp
    BY <1>8, <2>1, <2>2, <2>3, <2>4, <2>5
  <2>. QED
    BY <1>10, <2>1, <2>6
<1>12. \A f \in 1 .. n : \A g \in 1 .. f - 1 : A[g] < A[f]
  <2>1. n \in Nat
    BY <1>3
  <2>. QED
    BY <1>11, <2>1, Growing, Zenon
<1>13. ASSUME NEW f \in 1 .. n
       PROVE  /\ published'[f].time = published'[f].cells[1].stamp - syncStamp'
              /\ \A g \in 1 .. f - 1 : published'[g].time < published'[f].time
  <2>1. n # 0 /\ \A g \in 1 .. f - 1 : g \in 1 .. n
    BY <1>3
  <2>2. published'[f].time = published'[f].cells[1].stamp - syncStamp'
    BY <1>6, <1>8, <1>9, <2>1
  <2>3. ASSUME NEW g \in 1 .. f - 1
        PROVE  published'[g].time < published'[f].time
    <3>1. Start(g).stamp < Start(f).stamp
      BY <1>10, <1>12, <2>1
    <3>2. Zero \in Int
      BY <1>2, <1>3, <1>1, Starts DEF Zero, Types
    <3>. QED
      BY <1>6, <1>8, <2>1, <3>1, <3>2
  <2>. QED
    BY <2>2, <2>3
<1>. QED
  BY <1>5, <1>13 DEF TimeFaithful

-----------------------------------------------------------------------------
(* What a batch leaves.                                                    *)

LEMMA FramesLess ==
  ASSUME NEW s \in Nat \ {0}, NEW q \in Nat, NEW c \in Nat, c * s <= q * s
  PROVE  /\ q - c \in Nat /\ (q * s) - (c * s) = (q - c) * s
         /\ q * s = c * s => q = c
OBVIOUS

LEMMA Retained ==
  ASSUME IInv, pc = "frames", layout # 0, RetainTail, UNCHANGED fifo
  PROVE  /\ buf' \in Seq(Cell) /\ carryLen' = Len(buf')
         /\ Count * Size \in 0 .. Len(Line)
         /\ Line' \in Seq(Cell) /\ Len(Line') = Len(Line) - Count * Size
         /\ \A i \in 1 .. Len(Line') : Line'[i] = Line[Count * Size + i]
         /\ Placed(Line', Size, layout, produced) /\ Clocked(Line', produced, stamp)
<1>1. /\ Types /\ Placed(Line, Size, layout, produced) /\ Clocked(Line, produced, stamp)
  BY Cutting
<1>2. /\ Size \in Nat \ {0} /\ Len(buf) \in Nat /\ Count * Size \in 0 .. Len(buf)
      /\ Len(buf) = Count * Size + (Total % Size) /\ Total % Size \in 0 .. Size - 1
  BY <1>1, BatchSizes
<1>3. PICK k \in 0 .. Len(buf) : k = Count * Size
  BY <1>2
<1>4. Line \in Seq(Cell) /\ Len(Line) = Len(buf) + Len(fifo) /\ Len(fifo) \in Nat
  BY <1>1, LineOf DEF Types
<1>5. buf' = SubSeq(buf, k + 1, Len(buf)) /\ carryLen' = Total % Size
  BY <1>3 DEF RetainTail, Total
<1>6. buf \in Seq(Cell) /\ fifo \in Seq(Cell) /\ produced \in Nat /\ stamp \in Nat
  BY <1>1 DEF Types
<1>7. /\ SubSeq(buf, k + 1, Len(buf)) \in Seq(Cell)
      /\ Len(SubSeq(buf, k + 1, Len(buf))) = Len(buf) - k
      /\ SubSeq(buf, k + 1, Len(buf)) \o fifo = SubSeq(buf \o fifo, k + 1, Len(buf \o fifo))
  BY <1>6, CutFront, Zenon
<1>8. buf' \in Seq(Cell) /\ Len(buf') = Len(buf) - k /\ Line' = SubSeq(Line, k + 1, Len(Line))
  BY <1>5, <1>7 DEF Line
<1>9. carryLen' = Len(buf')
  BY <1>2, <1>3, <1>5, <1>8
<1>10. k \in 0 .. Len(Line)
  BY <1>2, <1>4
<1>11. PICK rest \in Seq(Cell) :
         /\ rest = SubSeq(Line, k + 1, Len(Line)) /\ Len(rest) = Len(Line) - k
         /\ \A i \in 1 .. Len(rest) : rest[i] = Line[k + i]
         /\ Placed(rest, Size, layout, produced) /\ Clocked(rest, produced, stamp)
  <2>1. Line \in Seq(Cell) /\ Size \in Nat \ {0} /\ produced \in Nat /\ stamp \in Nat
    BY <1>2, <1>4, <1>6
  <2>. QED
    BY <1>1, <1>10, <2>1, Rest, Zenon
<1>. QED
  BY <1>3, <1>8, <1>9, <1>10, <1>11

\* The last frame of a batch is the last before what is left.
LEMMA LastStart ==
  ASSUME IInv, pc = "frames", layout # 0, Count > 0
  PROVE  /\ Len(Line) = Count * Size => stamp = Start(Count).stamp
         /\ Len(Line) > Count * Size =>
              Line[Count * Size + 1].stamp - Start(Count).stamp \in {0, Period}
<1>1. /\ Types /\ Placed(Line, Size, layout, produced) /\ Clocked(Line, produced, stamp)
  BY Cutting
<1>2. Size \in Nat \ {0} /\ Count \in Nat \ {0} /\ Count * Size \in Nat
  BY <1>1, BatchSizes
<1>3. Line \in Seq(Cell) /\ Len(Line) = Len(buf) + Len(fifo) /\ Len(Line) \in Nat
      /\ Len(buf) \in Nat /\ Len(fifo) \in Nat
  BY <1>1, LineOf DEF Types
<1>4. Count \in 1 .. Count
  BY <1>2
<1>5. PICK i \in 1 .. Len(buf) : i = (Count - 1) * Size + 1 /\ Start(Count) = Line[i]
  BY <1>1, <1>4, Starts
<1>6. Count * Size + 1 = i + Size
  <2>1. Count * Size = (Count - 1) * Size + Size
    BY <1>2
  <2>. QED
    BY <1>2, <1>5, <2>1
<1>7. i \in 1 .. Len(Line) /\ produced \in Nat /\ stamp \in Nat
  BY <1>1, <1>3 DEF Types
<1>8. CASE Len(Line) = Count * Size
  <2>1. Len(Line) = i + Size - 1
    BY <1>2, <1>6, <1>8
  <2>2. Line[i].stamp = stamp
    BY <1>1, <1>2, <1>3, <1>7, <2>1, LastFrame
  <2>. QED
    BY <1>5, <1>8, <2>2
<1>9. CASE Len(Line) > Count * Size
  <2>1. i + Size <= Len(Line)
    BY <1>2, <1>3, <1>6, <1>9
  <2>2. Line[i + Size].stamp - Line[i].stamp \in {0, Period}
    BY <1>1, <1>2, <1>3, <1>7, <2>1, FrameOn
  <2>. QED
    BY <1>2, <1>3, <1>5, <1>6, <1>9, <2>2, SMTT(30)
<1>. QED
  BY <1>2, <1>3, <1>8, <1>9

-----------------------------------------------------------------------------
(* The steps of the thread on a batch.                                     *)

LEMMA NoFramesKeeps ==
  ASSUME IInv, NoFrames
  PROVE  IInv'
<1>1. pc = "frames" /\ layout # 0 /\ Count = 0 /\ RetainTail /\ UNCHANGED fifo /\ pc' # "frames"
  BY DEF NoFrames, AfterBatch, probeVars
<1>2. Types /\ hssRunning
  BY <1>1, Cutting
<1>3. Size \in Nat \ {0} /\ Len(buf) \in Nat /\ Count * Size = 0
  BY <1>1, <1>2, BatchSizes
<1>4. buf' = buf /\ carryLen' = Len(buf)
  <2>1. buf \in Seq(Cell)
    BY <1>2 DEF Types
  <2>2. carryLen' = Len(buf') /\ buf' = SubSeq(buf, 1, Len(buf))
    <3>1. carryLen' = Len(buf')
      BY <1>1, Retained
    <3>2. Count * Size + 1 = 1
      BY <1>3
    <3>. QED
      BY <1>1, <3>1, <3>2, Zenon DEF RetainTail, Total
  <2>. QED
    BY <2>1, <2>2, SubSeqFull
<1>5. Session'
  BY <1>1, <1>4 DEF NoFrames, AfterBatch, IInv, Session, linkVars, probeVars, evalVars,
     taskVars, histVars
<1>6. Broken => Broken'
  BY <1>1 DEF Broken
<1>. QED
  BY <1>2, <1>4, <1>5, <1>6, QuietStep
     DEF NoFrames, Types, guiVars, linkVars, probeVars, taskVars, histVars

\* Behind a first batch there are only frames of the session.
LEMMA DiscardClean ==
  ASSUME IInv, DiscardBatch, ~torn
  PROVE  Clean'
<1>1. /\ pc = "frames" /\ layout # 0 /\ Count > 0 /\ RetainTail /\ UNCHANGED fifo
      /\ synced' = FALSE /\ layout' = layout
  BY DEF DiscardBatch, probeVars, Unsync
<1>2. /\ Types /\ Placed(Line, Size, layout, produced) /\ Clocked(Line, produced, stamp) /\ Clean
  BY <1>1, Cutting
<1>3. Size \in Nat \ {0} /\ Count \in Nat \ {0}
  BY <1>1, <1>2, BatchSizes
<1>4. /\ Line' \in Seq(Cell) /\ Len(Line') = Len(Line) - Count * Size
      /\ Count * Size \in 0 .. Len(Line)
      /\ \A i \in 1 .. Len(Line') : Line'[i] = Line[Count * Size + i]
  BY <1>1, Retained
<1>5. PICK q \in Nat : Len(Line) = q * Size
  BY <1>2 DEF Clean
<1>6. q - Count \in Nat /\ (q * Size) - (Count * Size) = (q - Count) * Size
  <2>1. Count \in Nat /\ Count * Size <= q * Size
    BY <1>3, <1>4, <1>5
  <2>. QED
    BY <1>3, <2>1, FramesLess
<1>7. ASSUME NEW i \in 1 .. Len(Line')
      PROVE  Line'[i].no > 0
  <2>1. Line \in Seq(Cell) /\ Len(Line) \in Nat
    BY <1>2, LineOf
  <2>2. PICK k \in Nat : k = Count * Size
    BY <1>3
  <2>3. k >= Size
    BY <1>3, <2>2
  <2>4. PICK j \in 1 .. Len(Line) : j = k + i - Size
    BY <1>3, <1>4, <2>1, <2>2, <2>3
  <2>5. j + Size = k + i /\ j + Size <= Len(Line)
    BY <1>3, <1>4, <2>1, <2>2, <2>4
  <2>6. produced \in Nat /\ stamp \in Nat
    BY <1>2 DEF Types
  <2>7. Line[j + Size].no = Line[j].no + 1
    BY <1>2, <1>3, <2>1, <2>5, <2>6, FrameOn
  <2>8. Line[j] \in Cell
    BY <2>1
  <2>9. Line[j].no \in Nat
    BY <2>8, Fields
  <2>. QED
    BY <1>4, <2>2, <2>5, <2>7, <2>9, SMTT(30)
<1>8. Size' = Size
  BY <1>1 DEF Size
<1>. QED
  BY <1>1, <1>4, <1>5, <1>6, <1>7, <1>8 DEF Clean

LEMMA DiscardBatchKeeps ==
  ASSUME IInv, DiscardBatch
  PROVE  IInv'
<1>1. /\ pc = "frames" /\ layout # 0 /\ RetainTail /\ UNCHANGED fifo /\ synced' = FALSE
      /\ accum' = 0 /\ pc' \in {"read", "watchdog"}
  BY DEF DiscardBatch, probeVars, Unsync, AfterBatch
<1>2. Types /\ hssRunning
  BY <1>1, Cutting
<1>3. /\ buf' \in Seq(Cell) /\ carryLen' = Len(buf')
      /\ Placed(Line', Size, layout, produced) /\ Clocked(Line', produced, stamp)
  BY <1>1, Retained
<1>4. Types'
  BY <1>1, <1>2, <1>3 DEF Types, DiscardBatch, guiVars, probeVars, taskVars
<1>5. Session'
  BY <1>1, <1>3 DEF DiscardBatch, IInv, Session, linkVars, probeVars, evalVars, taskVars
<1>6. Stream'
  <2>1. Size' = Size /\ layout' = layout /\ produced' = produced /\ stamp' = stamp /\ torn' = torn
    BY DEF Size, DiscardBatch, probeVars
  <2>2. TimeBase'
    BY <1>1 DEF TimeBase
  <2>3. ~torn' => Clean'
    BY <2>1, DiscardClean
  <2>. QED
    BY <1>3, <2>1, <2>2, <2>3 DEF Stream
<1>7. WholeFrames' /\ TimeFaithful'
  BY NothingNew DEF IInv, DiscardBatch
<1>. QED
  BY <1>4, <1>5, <1>6, <1>7 DEF IInv

\* The stream goes on behind the frames that were taken.
LEMMA PublishClean ==
  ASSUME IInv, PublishBatch, Publishes(Count), ~torn
  PROVE  Clean'
<1>1. /\ pc = "frames" /\ layout # 0 /\ Count > 0 /\ ~discardFirst /\ UNCHANGED fifo
      /\ layout' = layout /\ produced' = produced
  BY DEF PublishBatch, probeVars
<1>2. /\ RetainTail /\ UNCHANGED discardFirst
  BY DEF Publishes
<1>3. /\ Types /\ Placed(Line, Size, layout, produced) /\ Clean
  BY <1>1, Cutting
<1>4. Size \in Nat \ {0} /\ Count \in Nat \ {0} /\ Count * Size \in Nat
  BY <1>1, <1>3, BatchSizes
<1>5. /\ Line' \in Seq(Cell) /\ Len(Line') = Len(Line) - Count * Size
      /\ Count * Size \in 0 .. Len(Line)
      /\ \A i \in 1 .. Len(Line') : Line'[i] = Line[Count * Size + i]
  BY <1>1, <1>2, Retained
<1>6. Line \in Seq(Cell) /\ Len(Line) \in Nat
  BY <1>3, LineOf
<1>7. PICK q \in Nat : Filled(Line, Size, q) /\ Len(Line) = q * Size
  BY <1>3 DEF Clean, Filled
<1>8. /\ q - Count \in Nat /\ (q * Size) - (Count * Size) = (q - Count) * Size
      /\ q * Size = Count * Size => q = Count
  <2>1. Count \in Nat /\ Count * Size <= q * Size
    BY <1>4, <1>5, <1>7
  <2>. QED
    BY <1>4, <2>1, FramesLess
<1>9. lastNo' = produced + Count - q
  <2>1. Count \in 1 .. Count /\ Size \in 1 .. Size /\ Count # 0
    BY <1>4
  <2>2. buf[(Count - 1) * Size + Size].no = produced + Count - q
    BY <1>1, <1>7, <2>1, CleanCell
  <2>3. (Count - 1) * Size + Size = Count * Size
    BY <1>4
  <2>. QED
    BY <2>1, <2>2, <2>3 DEF Publishes
<1>10. CASE Line' = << >>
  <2>1. q = Count
    BY <1>4, <1>5, <1>7, <1>8, <1>10
  <2>2. produced' = lastNo'
    BY <1>1, <1>3, <1>4, <1>9, <2>1 DEF Types
  <2>. QED
    BY <1>1, <1>5, <1>7, <1>8, <1>10, <2>2 DEF Clean, Size
<1>11. CASE Line' # << >>
  <2>1. Len(Line') \in Nat \ {0}
    BY <1>5, <1>11
  <2>2. PICK i \in 1 .. Len(Line) : i = Count * Size + 1 /\ Line'[1] = Line[i]
    BY <1>4, <1>5, <1>6, <2>1
  <2>3. PICK f \in Int : f = Count + 1
    BY <1>4
  <2>4. At(i, f, 1, Size)
    BY <1>4, <2>2, <2>3 DEF At
  <2>5. 1 \in 1 .. Size /\ produced \in Nat
    BY <1>3, <1>4 DEF Types
  <2>6. Line[i].no = produced + f - q
    BY <1>3, <1>4, <1>6, <1>7, <2>4, <2>5, InPlace
  <2>7. Line'[1].no = lastNo' + 1
    BY <1>4, <1>9, <2>2, <2>3, <2>5, <2>6, SMTT(30)
  <2>8. \A j \in 1 .. Len(Line') : Line'[j].no > 0
    <3>1. \A j \in 1 .. Len(Line) : Line[j].no > 0
      BY <1>1, <1>3 DEF Clean
    <3>2. \A j \in 1 .. Len(Line') : Count * Size + j \in 1 .. Len(Line)
      BY <1>4, <1>5, <1>6, <2>1
    <3>. QED
      BY <1>5, <3>1, <3>2
  <2>. QED
    BY <1>1, <1>5, <1>7, <1>8, <1>11, <2>7, <2>8 DEF Clean, Size
<1>. QED
  BY <1>10, <1>11

LEMMA PublishTimeBase ==
  ASSUME IInv, PublishBatch, Publishes(Count)
  PROVE  TimeBase' /\ accum' \in Int
<1>1. /\ pc = "frames" /\ layout # 0 /\ Count > 0 /\ UNCHANGED fifo
      /\ layout' = layout /\ stamp' = stamp
  BY DEF PublishBatch, probeVars
<1>2. /\ Types /\ TimeBase
      /\ Placed(Line, Size, layout, produced) /\ Clocked(Line, produced, stamp)
  BY <1>1, Cutting
<1>3. Size \in Nat \ {0} /\ Count \in Nat \ {0} /\ Count * Size \in Nat /\ Count \in 1 .. Count
  BY <1>1, <1>2, BatchSizes
<1>4. RetainTail /\ lastTs' = HwTs(Count) /\ accum' = FrameTime(Count)
  BY DEF Publishes
<1>5. /\ Line' \in Seq(Cell) /\ Len(Line') = Len(Line) - Count * Size
      /\ Count * Size \in 0 .. Len(Line)
      /\ \A i \in 1 .. Len(Line') : Line'[i] = Line[Count * Size + i]
  BY <1>1, <1>4, Retained
<1>6. syncStamp' = Zero
  <2>1. (1 - 1) * Size + 1 = 1
    BY <1>3
  <2>. QED
    BY <1>3, <2>1 DEF Publishes, Zero, Start
<1>7. Start(Count).stamp \in Nat /\ Zero \in Int
  <2>1. 1 \in 1 .. Count
    BY <1>3
  <2>. QED
    BY <1>1, <1>2, <1>3, <2>1, Starts DEF Zero, Types
<1>8. accum' = Start(Count).stamp - Zero
  BY <1>1, <1>2, <1>3, <1>4, FrameTimes
<1>9. syncStamp' + accum' = Start(Count).stamp /\ accum' \in Int
  BY <1>6, <1>7, <1>8
<1>10. lastTs' = Start(Count).stamp % Width
  BY <1>4 DEF HwTs, Start
<1>11. IF Line' = << >> THEN stamp' = Start(Count).stamp
                        ELSE Line'[1].stamp - Start(Count).stamp \in {0, Period}
  <2>1. Len(Line) \in Nat
    BY <1>2, LineOf
  <2>2. CASE Line' = << >>
    <3>1. Len(Line) = Count * Size
      BY <1>3, <1>5, <2>1, <2>2
    <3>. QED
      BY <1>1, <2>2, <3>1, LastStart
  <2>3. CASE Line' # << >>
    <3>1. Len(Line') \in Nat \ {0}
      BY <1>5, <2>3
    <3>2. Len(Line) > Count * Size /\ Line'[1] = Line[Count * Size + 1]
      BY <1>3, <1>5, <2>1, <3>1
    <3>. QED
      BY <1>1, <2>3, <3>2, LastStart
  <2>. QED
    BY <2>2, <2>3
<1>. QED
  BY <1>9, <1>10, <1>11 DEF TimeBase

LEMMA PublishBatchKeeps ==
  ASSUME IInv, PublishBatch
  PROVE  IInv'
<1>1. /\ pc = "frames" /\ layout # 0 /\ Count > 0 /\ UNCHANGED fifo /\ ~discardFirst
      /\ UNCHANGED <<want, cfg, prev, layout, produced, stamp, hssRunning, changed, desired, torn>>
  BY DEF PublishBatch, probeVars, taskVars, linkVars, evalVars
<1>2. /\ Types /\ Session /\ hssRunning
      /\ Placed(Line, Size, layout, produced) /\ Clocked(Line, produced, stamp)
  BY <1>1, Cutting DEF IInv
<1>3. Size \in Nat \ {0} /\ Count \in Nat \ {0} /\ Count * Size \in 0 .. Len(buf) /\ buf \in Seq(Cell)
  BY <1>1, <1>2, BatchSizes DEF Types
<1>4. PICK n \in 0 .. Count : Publishes(n) /\ (n < Count => Rejected(n + 1))
  BY <1>2, Taken
<1>5. syncStamp' \in Nat /\ lastNo' \in Nat
  <2>1. CASE n = 0
    BY <1>2, <1>4, <2>1 DEF Publishes, Types
  <2>2. CASE n # 0
    <3>1. n \in 1 .. Count /\ Size \in 1 .. Size
      BY <1>3, <2>2
    <3>2. (n - 1) * Size + Size \in 1 .. Len(buf) /\ n * Size = (n - 1) * Size + Size
      BY <1>3, <3>1, Positions
    <3>3. n * Size \in 1 .. Len(buf) /\ 1 \in 1 .. Len(buf)
      BY <1>3, <3>2
    <3>4. buf[n * Size] \in Cell /\ buf[1] \in Cell
      BY <1>3, <3>3
    <3>. QED
      BY <1>2, <1>4, <2>2, <3>4, Fields DEF Publishes, Types
  <2>. QED
    BY <2>1, <2>2
<1>6. WholeFrames' /\ TimeFaithful'
  BY PublishesWhole, PublishesTrue
<1>7. CASE n = Count
  <2>1. Publishes(Count)
    BY <1>4, <1>7
  <2>2. RetainTail /\ AfterBatch
    BY <2>1 DEF Publishes
  <2>3. /\ buf' \in Seq(Cell) /\ carryLen' = Len(buf')
        /\ Placed(Line', Size, layout, produced) /\ Clocked(Line', produced, stamp)
    BY <1>1, <2>2, Retained
  <2>4. TimeBase' /\ accum' \in Int
    BY <2>1, PublishTimeBase
  <2>5. ~torn => Clean'
    BY <2>1, PublishClean
  <2>6. Types'
    BY <1>1, <1>2, <1>5, <2>3, <2>4 DEF Types
  <2>7. Session'
    BY <1>1, <1>2, <2>2, <2>3 DEF Session, AfterBatch
  <2>8. Stream'
    BY <1>1, <2>3, <2>4, <2>5 DEF Stream, Size
  <2>. QED
    BY <1>6, <2>6, <2>7, <2>8 DEF IInv
<1>8. CASE n # Count
  <2>1. Resync /\ pc' = "watchdog"
    BY <1>4, <1>8 DEF Publishes
  <2>2. /\ carryLen' = 0 /\ buf' = << >> /\ accum' = 0 /\ restartReq' = TRUE
    BY <2>1 DEF Resync, Unsync
  <2>3. << >> \in Seq(Cell) /\ Len(<< >>) = 0
    OBVIOUS
  <2>4. Types'
    BY <1>1, <1>2, <1>5, <2>2, <2>3 DEF Types
  <2>5. Session'
    BY <1>1, <1>2, <2>1, <2>2, <2>3 DEF Session
  <2>6. Stream'
    BY <2>1, <2>2 DEF Stream, Broken
  <2>. QED
    BY <1>6, <2>4, <2>5, <2>6 DEF IInv
<1>. QED
  BY <1>7, <1>8

-----------------------------------------------------------------------------
(* The other steps.                                                        *)

\* A stopped stream asks nothing; nor does one whose restart is due.
LEMMA NoStream ==
  ASSUME ~hssRunning' \/ Broken'
  PROVE  Stream'
BY DEF Stream

LEMMA NoCells == << >> \in Seq(Cell) /\ Len(<< >>) = 0
OBVIOUS

LEMMA ProduceKeeps ==
  ASSUME IInv, NEW glitch \in BOOLEAN, Produce(glitch)
  PROVE  IInv'
<1>1. /\ hssRunning /\ produced' = produced + 1
      /\ stamp' = (IF glitch THEN stamp ELSE stamp + Period)
      /\ fifo' = fifo \o Frame(layout, produced + 1, stamp')
      /\ UNCHANGED <<hssRunning, layout, buf, discardFirst, synced, lastTs, accum, carryLen,
                     syncStamp, lastNo, torn, published, pc, changed, restartReq, desired,
                     cfg, prev, want>>
  BY DEF Produce, guiVars, linkVars, taskVars, evalVars, streamVars, histVars
<1>2. Types /\ Session /\ Stream /\ layout \in Layouts
  BY <1>1 DEF IInv, Session, Types
<1>3. /\ produced \in Nat /\ produced \in Int /\ produced + 1 \in Nat /\ stamp \in Nat
      /\ stamp' \in Nat /\ stamp' - stamp \in {0, Period}
  <2>1. PICK p \in Nat : p = Period
    BY HssAssumption
  <2>2. produced \in Nat /\ stamp \in Nat
    BY <1>2 DEF Types
  <2>. QED
    BY <1>1, <2>1, <2>2
<1>4. buf \in Seq(Cell) /\ fifo \in Seq(Cell) /\ Line \in Seq(Cell)
  BY <1>2, LineOf DEF Types
<1>5. Frame(layout, produced + 1, stamp') \in Seq(Cell)
  BY <1>2, <1>3, FrameCells
<1>6. fifo' \in Seq(Cell) /\ Line' = Line \o Frame(layout, produced + 1, stamp')
  BY <1>1, <1>4, <1>5, ConcatAssociative, SMTT(30) DEF Line
<1>7. Types'
  BY <1>1, <1>2, <1>3, <1>6 DEF Types
<1>8. Session'
  BY <1>1, <1>2 DEF Session
<1>9. WholeFrames' /\ TimeFaithful'
  BY <1>1, NothingNew DEF IInv
<1>10. CASE Broken
  BY <1>1, <1>7, <1>8, <1>9, <1>10, NoStream DEF IInv, Broken
<1>11. CASE ~Broken
  <2>1. /\ Placed(Line, FrameSize[layout], layout, produced) /\ Clocked(Line, produced, stamp)
        /\ TimeBase /\ (~torn => Clean)
    BY <1>1, <1>2, <1>11 DEF Stream, Size
  <2>2. PICK size \in Nat \ {0} : size = FrameSize[layout]
    BY <1>2, HssAssumption
  <2>3. /\ Line \o Frame(layout, produced + 1, stamp') \in Seq(Cell)
        /\ Longer(Line, Line \o Frame(layout, produced + 1, stamp'), FrameSize[layout],
                  layout, produced + 1, stamp')
        /\ Placed(Line \o Frame(layout, produced + 1, stamp'), FrameSize[layout],
                  layout, produced + 1)
        /\ Clocked(Line \o Frame(layout, produced + 1, stamp'), produced + 1, stamp')
    BY <1>2, <1>3, <1>4, <2>1, OneMore, Zenon
  <2>4. /\ Line' \in Seq(Cell) /\ Longer(Line, Line', size, layout, produced', stamp')
        /\ Placed(Line', Size', layout', produced') /\ Clocked(Line', produced', stamp')
    BY <1>1, <1>6, <2>2, <2>3 DEF Size
  <2>5. /\ Len(Line') = Len(Line) + size /\ Len(Line) \in Nat
        /\ \A i \in 1 .. Len(Line) : Line'[i] = Line[i]
        /\ \A i \in Len(Line) + 1 .. Len(Line') :
             Line'[i].no = produced + 1 /\ Line'[i].stamp = stamp'
    BY <1>1, <1>4, <2>4 DEF Longer
  <2>6. Line' # << >> /\ 1 \in 1 .. Len(Line')
    BY <2>2, <2>4, <2>5
  <2>7. CASE Line = << >>
    <3>1. 1 \in Len(Line) + 1 .. Len(Line')
      BY <2>5, <2>6, <2>7
    <3>2. Line'[1].no = produced + 1 /\ Line'[1].stamp = stamp'
      BY <2>5, <3>1
    <3>3. TimeBase'
      BY <1>1, <1>3, <2>1, <2>6, <2>7, <3>2 DEF TimeBase
    <3>4. ~torn' => Clean'
      <4>1. SUFFICES ASSUME ~torn PROVE Clean'
        BY <1>1
      <4>2. Len(Line') = 1 * Size' /\ 1 \in Nat
        BY <1>1, <2>2, <2>5, <2>7 DEF Size
      <4>3. \A i \in 1 .. Len(Line') : Line'[i].no > 0
        BY <1>3, <2>5, <2>7
      <4>4. synced' => Line'[1].no = lastNo' + 1
        BY <1>1, <2>1, <2>7, <3>2, <4>1 DEF Clean
      <4>. QED
        BY <2>6, <4>2, <4>3, <4>4 DEF Clean
    <3>. QED
      BY <1>7, <1>8, <1>9, <2>4, <3>3, <3>4 DEF IInv, Stream
  <2>8. CASE Line # << >>
    <3>1. 1 \in 1 .. Len(Line)
      BY <1>4, <2>5, <2>8
    <3>2. Line'[1] = Line[1]
      BY <2>5, <3>1
    <3>3. TimeBase'
      BY <1>1, <2>1, <2>6, <2>8, <3>2 DEF TimeBase
    <3>4. ~torn' => Clean'
      <4>1. SUFFICES ASSUME ~torn PROVE Clean'
        BY <1>1
      <4>2. PICK q \in Nat : Len(Line) = q * size
        BY <2>1, <2>2, <4>1 DEF Clean, Size
      <4>3. Len(Line') = (q + 1) * Size' /\ q + 1 \in Nat
        <5>1. (q + 1) * size = (q * size) + size
          OBVIOUS
        <5>. QED
          BY <1>1, <2>2, <2>5, <4>2, <5>1 DEF Size
      <4>4. ~discardFirst' => \A i \in 1 .. Len(Line') : Line'[i].no > 0
        <5>1. \A i \in 1 .. Len(Line') : i \in 1 .. Len(Line) \/ i \in Len(Line) + 1 .. Len(Line')
          BY <2>2, <2>5
        <5>2. \A i \in Len(Line) + 1 .. Len(Line') : Line'[i].no > 0
          BY <1>3, <2>5
        <5>. QED
          BY <1>1, <2>1, <2>5, <4>1, <5>1, <5>2 DEF Clean
      <4>5. synced' => Line'[1].no = lastNo' + 1
        BY <1>1, <2>1, <2>8, <3>2, <4>1 DEF Clean
      <4>. QED
        BY <2>6, <4>3, <4>4, <4>5 DEF Clean
    <3>. QED
      BY <1>7, <1>8, <1>9, <2>4, <3>3, <3>4 DEF IInv, Stream
  <2>. QED
    BY <2>7, <2>8
<1>. QED
  BY <1>10, <1>11

LEMMA StreamStops ==
  ASSUME IInv, hssRunning' = FALSE, layout' = 0, fifo' = << >>, produced' = 0, stamp' = 0,
         UNCHANGED <<want, cfg, prev, syncStamp, accum, lastNo, published, torn,
                     pc, desired>>,
         buf' \in Seq(Cell), UNCHANGED <<buf, carryLen>> \/ (buf' = << >> /\ carryLen' = 0)
  PROVE  IInv'
<1>1. Types'
  BY NoCells DEF IInv, Types
<1>2. Session'
  <2>1. Session
    BY DEF IInv
  <2>2. pc' = "frames" => carryLen' \in 0 .. Len(buf')
    BY <2>1, NoCells DEF Session
  <2>3. pc' # "frames" => carryLen' = Len(buf')
    BY <2>1, NoCells DEF Session
  <2>. QED
    BY <2>1, <2>2, <2>3 DEF Session
<1>3. WholeFrames' /\ TimeFaithful'
  BY NothingNew DEF IInv
<1>. QED
  BY <1>1, <1>2, <1>3, NoStream DEF IInv

LEMMA EnvironmentKeeps ==
  ASSUME IInv, Environment
  PROVE  IInv'
<1>1. ASSUME NEW l \in Layouts \cup {0}, SetWant(l) PROVE IInv'
  <2>1. Session' /\ (Broken => Broken')
    BY <1>1 DEF SetWant, IInv, Session, Broken, linkVars, probeVars, taskVars, evalVars,
       streamVars, histVars
  <2>. QED
    BY <1>1, <2>1, QuietStep DEF SetWant, IInv, Types, linkVars, probeVars, taskVars,
       streamVars, histVars
<1>2. CASE ReqRestart
  <2>1. Session' /\ (Broken => Broken')
    BY <1>2 DEF ReqRestart, IInv, Session, Broken, linkVars, probeVars, taskVars, evalVars,
       streamVars, histVars
  <2>. QED
    BY <1>2, <2>1, QuietStep DEF ReqRestart, IInv, Types, linkVars, probeVars, taskVars,
       streamVars, histVars
<1>3. CASE RequestClear
  <2>1. Session' /\ (Broken => Broken')
    BY <1>3 DEF RequestClear, IInv, Session, Broken, linkVars, probeVars, taskVars, evalVars,
       streamVars, histVars
  <2>. QED
    BY <1>3, <2>1, QuietStep DEF RequestClear, IInv, Types, linkVars, probeVars, taskVars,
       streamVars, histVars
<1>4. CASE OtherStops
  BY <1>4, StreamStops DEF OtherStops, StopProbe, IInv, Types, guiVars, taskVars, evalVars,
     streamVars
<1>5. CASE Disconnects
  BY <1>5, StreamStops DEF Disconnects, StopProbe, IInv, Types, guiVars, evalVars, streamVars
<1>6. CASE Reconnects
  <2>1. Session' /\ (Broken => Broken')
    BY <1>6 DEF Reconnects, IInv, Session, Broken, guiVars, probeVars, evalVars,
       streamVars, histVars
  <2>. QED
    BY <1>6, <2>1, QuietStep DEF Reconnects, IInv, Types, guiVars, probeVars,
       streamVars, histVars
<1>7. CASE EpochMoves
  <2>1. Session' /\ (Broken => Broken')
    BY <1>7 DEF EpochMoves, IInv, Session, Broken, guiVars, linkVars, probeVars, evalVars,
       streamVars, histVars
  <2>. QED
    BY <1>7, <2>1, QuietStep DEF EpochMoves, IInv, Types, guiVars, linkVars, probeVars,
       streamVars, histVars
<1>8. CASE Produce(TRUE) \/ Produce(FALSE)
  BY <1>8, ProduceKeeps
<1>. QED
  BY <1>1, <1>2, <1>3, <1>4, <1>5, <1>6, <1>7, <1>8 DEF Environment

LEMMA RefreshKeeps ==
  ASSUME IInv, Refresh
  PROVE  IInv'
<1>1. /\ pc = "refresh" /\ pc' = "connected" /\ cfg' = want /\ published = << >>
      /\ ApplyClear
      /\ UNCHANGED <<want, restartReq, hssRunning, layout, fifo, produced, stamp, changed,
                     desired, prev, published, syncStamp, lastNo>>
  BY DEF Refresh, IInv, Session, linkVars, probeVars, evalVars
<1>2. Types /\ Session /\ Stream
  BY DEF IInv
<1>3. Broken => Broken'
  BY <1>1 DEF Broken
<1>4. CASE ~pendingClear
  <2>1. UNCHANGED <<carryLen, buf, discardFirst, synced, lastTs, accum, torn>>
    BY <1>1, <1>4 DEF ApplyClear
  <2>2. Session'
    BY <1>1, <1>2, <2>1 DEF Session
  <2>. QED
    BY <1>1, <1>2, <1>3, <2>1, <2>2, QuietStep DEF Types
<1>5. CASE pendingClear
  <2>1. /\ carryLen' = 0 /\ buf' = << >> /\ discardFirst' = TRUE /\ synced' = FALSE
        /\ accum' = 0 /\ torn' = (torn \/ (hssRunning /\ carryLen > 0))
    BY <1>1, <1>5 DEF ApplyClear, Unsync
  <2>2. Types'
    BY <1>1, <1>2, <2>1, NoCells DEF Types
  <2>3. Session'
    BY <1>1, <1>2, <2>1, NoCells DEF Session
  <2>4. WholeFrames' /\ TimeFaithful'
    BY <1>1, NothingNew DEF IInv
  <2>5. CASE ~hssRunning \/ Broken
    BY <1>1, <1>3, <2>2, <2>3, <2>4, <2>5, NoStream DEF IInv
  <2>6. CASE hssRunning /\ ~Broken
    <3>1. /\ Placed(Line, Size, layout, produced) /\ Clocked(Line, produced, stamp)
          /\ (~torn => Clean)
      BY <1>2, <2>6 DEF Stream
    <3>2. /\ carryLen = Len(buf) /\ buf \in Seq(Cell) /\ fifo \in Seq(Cell)
          /\ produced \in Nat /\ stamp \in Nat /\ layout # 0
      BY <1>1, <1>2, <2>6 DEF Session, Types
    <3>3. Line \in Seq(Cell) /\ Size \in Nat \ {0} /\ Size' = Size
      BY <1>1, <1>2, <3>2, LineOf, BatchSizes DEF Size
    <3>4. Line' = fifo
      <4>1. << >> \o fifo = fifo
        BY <3>2, ConcatEmptySeq
      <4>. QED
        BY <1>1, <2>1, <4>1 DEF Line
    <3>5. Len(buf) \in 0 .. Len(Line) /\ fifo = SubSeq(Line, Len(buf) + 1, Len(Line))
      <4>1. Len(buf) \in 0 .. Len(buf)
        BY <3>2
      <4>2. /\ SubSeq(buf, Len(buf) + 1, Len(buf)) \in Seq(Cell)
            /\ Len(SubSeq(buf, Len(buf) + 1, Len(buf))) = Len(buf) - Len(buf)
            /\ SubSeq(buf, Len(buf) + 1, Len(buf)) \o fifo
                 = SubSeq(buf \o fifo, Len(buf) + 1, Len(buf \o fifo))
        BY <3>2, <4>1, CutFront, Zenon
      <4>3. SubSeq(buf, Len(buf) + 1, Len(buf)) = << >>
        BY <3>2, <4>2
      <4>4. Len(Line) = Len(buf) + Len(fifo)
        BY <1>2, LineOf
      <4>5. << >> \o fifo = fifo
        BY <3>2, ConcatEmptySeq
      <4>. QED
        BY <3>2, <4>2, <4>3, <4>4, <4>5 DEF Line
    <3>6. Placed(fifo, Size, layout, produced) /\ Clocked(fifo, produced, stamp)
      <4>1. PICK rest \in Seq(Cell) :
              /\ rest = SubSeq(Line, Len(buf) + 1, Len(Line))
              /\ Placed(rest, Size, layout, produced) /\ Clocked(rest, produced, stamp)
        BY <3>1, <3>2, <3>3, <3>5, Rest
      <4>. QED
        BY <3>5, <4>1
    <3>7. TimeBase'
      BY <2>1 DEF TimeBase
    <3>8. ASSUME ~torn' PROVE Clean'
      <4>1. ~torn /\ Len(buf) = 0
        <5>1. Len(buf) \in Nat
          BY <3>2
        <5>2. ~torn /\ ~(carryLen > 0)
          BY <2>1, <2>6, <3>8
        <5>. QED
          BY <3>2, <5>1, <5>2
      <4>2. Len(fifo) = Len(Line)
        BY <1>2, <3>2, <4>1, LineOf
      <4>3. \E q \in Nat : Len(Line) = q * Size
        BY <3>1, <4>1 DEF Clean
      <4>. QED
        BY <2>1, <3>3, <3>4, <4>2, <4>3 DEF Clean
    <3>9. Stream'
      BY <1>1, <3>3, <3>4, <3>6, <3>7, <3>8 DEF Stream
    <3>. QED
      BY <2>2, <2>3, <2>4, <3>9 DEF IInv
  <2>. QED
    BY <2>5, <2>6
<1>. QED
  BY <1>4, <1>5

LEMMA StopIfChangedKeeps ==
  ASSUME IInv, StopIfChanged
  PROVE  IInv'
<1>1. /\ pc = "stop" /\ pc' = "start" /\ changed' = (changed \/ (desired /\ ~hssRunning))
      /\ UNCHANGED <<want, cfg, prev, desired, discardFirst, synced, lastTs, accum,
                     published, syncStamp, lastNo, torn>>
  BY DEF StopIfChanged, guiVars, taskVars
<1>2. Types /\ Session /\ Stream /\ published = << >>
  BY <1>1 DEF IInv, Session
<1>3. WholeFrames' /\ TimeFaithful'
  BY <1>1, NothingNew DEF IInv
<1>4. CASE changed /\ hssRunning
  <2>1. /\ hssRunning' = FALSE /\ layout' = 0 /\ fifo' = << >> /\ produced' = 0 /\ stamp' = 0
        /\ carryLen' = 0 /\ buf' = << >>
    BY <1>4 DEF StopIfChanged, StopProbe
  <2>2. Types'
    BY <1>1, <1>2, <2>1, NoCells DEF Types
  <2>3. Session'
    BY <1>1, <1>2, <2>1, NoCells DEF Session
  <2>. QED
    BY <1>3, <2>1, <2>2, <2>3, NoStream DEF IInv
<1>5. CASE ~(changed /\ hssRunning)
  <2>1. UNCHANGED <<hssRunning, layout, fifo, produced, stamp, carryLen, buf>>
    BY <1>5 DEF StopIfChanged, probeVars
  <2>2. Session'
    BY <1>1, <1>2, <1>5, <2>1 DEF Session
  <2>3. CASE hssRunning
    <3>1. Broken => Broken'
      BY <1>1, <1>5, <2>3 DEF Broken
    <3>. QED
      BY <1>1, <1>2, <2>1, <2>2, <3>1, QuietStep DEF Types
  <2>4. CASE ~hssRunning
    <3>1. Types'
      BY <1>1, <1>2, <2>1 DEF Types
    <3>. QED
      BY <1>3, <2>1, <2>2, <2>4, <3>1, NoStream DEF IInv
  <2>. QED
    BY <2>3, <2>4
<1>. QED
  BY <1>4, <1>5

LEMMA NotStartingKeeps ==
  ASSUME IInv, NotStarting
  PROVE  IInv'
<1>1. /\ pc = "start" /\ pc' = "read"
      /\ UNCHANGED <<want, restartReq, hssRunning, layout, fifo, produced, stamp, cfg,
                     changed, desired, published, syncStamp, lastNo, torn>>
  BY DEF NotStarting, guiVars, linkVars, probeVars, taskVars, evalVars, histVars
<1>2. Types /\ Session /\ published = << >>
  BY <1>1 DEF IInv, Session
<1>3. ~Broken
  BY <1>1 DEF Broken
<1>4. CASE ~changed
  <2>1. UNCHANGED <<prev, buf, carryLen, discardFirst, synced, lastTs, accum>>
    BY <1>4 DEF NotStarting, streamVars
  <2>2. Session'
    BY <1>1, <1>2, <2>1 DEF Session
  <2>. QED
    BY <1>1, <1>2, <1>3, <2>1, <2>2, QuietStep DEF Types
<1>5. CASE changed
  <2>1. ~hssRunning
    BY <1>1, <1>2, <1>5 DEF Session
  <2>2. prev' = cfg /\ carryLen' = 0 /\ buf' = << >> /\ accum' = 0
    BY <1>5 DEF NotStarting, ResetStream, Unsync
  <2>3. Types'
    BY <1>1, <1>2, <2>2, NoCells DEF Types
  <2>4. Session'
    BY <1>1, <1>2, <2>1, <2>2, NoCells DEF Session
  <2>5. WholeFrames' /\ TimeFaithful'
    BY <1>1, NothingNew DEF IInv
  <2>. QED
    BY <1>1, <2>1, <2>3, <2>4, <2>5, NoStream DEF IInv
<1>. QED
  BY <1>4, <1>5

LEMMA StartFailsKeeps ==
  ASSUME IInv, StartFails
  PROVE  IInv'
<1>1. /\ pc = "start" /\ pc' = "read" /\ prev' = 0 /\ ~hssRunning
      /\ UNCHANGED <<want, hssRunning, layout, fifo, produced, stamp, cfg, desired, buf, carryLen,
                     discardFirst, synced, lastTs, accum, changed, published, syncStamp, lastNo, torn>>
  BY DEF StartFails, MayTry, guiVars, linkVars, probeVars, taskVars, evalVars, streamVars, histVars
<1>2. Types /\ Session
  BY DEF IInv
<1>3. Types'
  BY <1>1, <1>2 DEF Types
<1>4. Session'
  BY <1>1, <1>2 DEF Session
<1>5. WholeFrames' /\ TimeFaithful'
  BY <1>1, NothingNew DEF IInv
<1>. QED
  BY <1>1, <1>3, <1>4, <1>5, NoStream DEF IInv

\* A stream starts with nothing, or with a frame of the session before.
LEMMA StartStreamKeeps ==
  ASSUME IInv, StartStream
  PROVE  IInv'
<1>1. /\ pc = "start" /\ pc' = "read" /\ desired /\ ~hssRunning
      /\ hssRunning' = TRUE /\ layout' = cfg /\ prev' = cfg /\ produced' = 0 /\ stamp' = 0
      /\ fifo' = << >> \/ fifo' = Frame(cfg, 0, 0)
      /\ carryLen' = 0 /\ buf' = << >> /\ discardFirst' = TRUE /\ synced' = FALSE /\ accum' = 0
      /\ UNCHANGED <<want, cfg, changed, desired, published, syncStamp, lastNo>>
  BY DEF StartStream, MayTry, ResetStream, Unsync, guiVars, taskVars, evalVars
<1>2. Types /\ Session /\ published = << >> /\ cfg \in Layouts /\ cfg # 0
  BY <1>1 DEF IInv, Session, Types
<1>3. PICK size \in Nat \ {0} : size = FrameSize[cfg]
  BY <1>2, HssAssumption
<1>4. Frame(cfg, 0, 0) \in Seq(Cell) /\ Len(Frame(cfg, 0, 0)) = size
  <2>1. 0 \in Nat
    OBVIOUS
  <2>. QED
    BY <1>2, <1>3, <2>1, FrameCells
<1>5. fifo' \in Seq(Cell)
  BY <1>1, <1>4, NoCells
<1>6. Line' = fifo'
  <2>1. << >> \o fifo' = fifo'
    BY <1>5, ConcatEmptySeq
  <2>. QED
    BY <1>1, <2>1 DEF Line
<1>7. Types'
  BY <1>1, <1>2, <1>5, NoCells DEF Types
<1>8. Session'
  BY <1>1, <1>2, NoCells DEF Session
<1>9. WholeFrames' /\ TimeFaithful'
  BY <1>1, <1>2, NothingNew DEF IInv
<1>10. Size' = size
  BY <1>1, <1>3 DEF Size
<1>11. TimeBase'
  BY <1>1 DEF TimeBase
<1>12. \A l, n, st : Placed(<< >>, size, l, n) /\ Clocked(<< >>, n, st)
  BY NoCells DEF Placed, Clocked
<1>13. /\ Placed(fifo', size, cfg, 0) /\ Clocked(fifo', 0, 0)
       /\ \E q \in Nat : Len(fifo') = q * size
  <2>1. CASE fifo' = << >>
    <3>1. Len(fifo') = 0 * size
      BY <2>1, NoCells
    <3>. QED
      BY <1>12, <2>1, <3>1
  <2>2. CASE fifo' = Frame(cfg, 0, 0)
    <3>1. PICK m \in Int : m = 0 - 1
      OBVIOUS
    <3>2. m + 1 = 0 /\ m + 1 \in Nat /\ 0 \in Nat /\ 0 - 0 \in {0, Period} /\ << >> \in Seq(Cell)
      BY <3>1, NoCells
    <3>3. /\ Placed(<< >>, FrameSize[cfg], cfg, m) /\ Clocked(<< >>, m, 0)
      BY <1>3, <1>12
    <3>4. /\ Placed(<< >> \o Frame(cfg, m + 1, 0), FrameSize[cfg], cfg, m + 1)
          /\ Clocked(<< >> \o Frame(cfg, m + 1, 0), m + 1, 0)
      BY <1>2, <3>2, <3>3, OneMore, Zenon
    <3>5. << >> \o Frame(cfg, 0, 0) = Frame(cfg, 0, 0)
      BY <1>4, ConcatEmptySeq
    <3>6. Placed(fifo', size, cfg, 0) /\ Clocked(fifo', 0, 0)
      BY <1>3, <2>2, <3>2, <3>4, <3>5
    <3>7. Len(fifo') = 1 * size
      BY <1>4, <2>2
    <3>. QED
      BY <3>6, <3>7
  <2>. QED
    BY <1>1, <2>1, <2>2
<1>14. Clean'
  BY <1>1, <1>6, <1>10, <1>13 DEF Clean
<1>15. Stream'
  BY <1>1, <1>6, <1>10, <1>11, <1>13, <1>14 DEF Stream
<1>. QED
  BY <1>7, <1>8, <1>9, <1>15 DEF IInv

LEMMA HssReadKeeps ==
  ASSUME IInv, NEW k \in 0 .. BufCap, HssRead(k)
  PROVE  IInv'
<1>1. /\ pc = "read" /\ pc' = "frames" /\ k \in 0 .. Len(fifo) /\ published' = << >>
      /\ buf' = SubSeq(buf, 1, carryLen) \o SubSeq(fifo, 1, k)
      /\ fifo' = SubSeq(fifo, k + 1, Len(fifo))
      /\ UNCHANGED <<want, restartReq, hssRunning, layout, produced, stamp, cfg, changed, desired,
                     prev, carryLen, discardFirst, synced, lastTs, accum, syncStamp, lastNo, torn>>
  BY DEF HssRead, Carried, guiVars, linkVars, taskVars, evalVars
<1>2. Types /\ Session /\ Stream
  BY DEF IInv
<1>3. buf \in Seq(Cell) /\ fifo \in Seq(Cell) /\ carryLen = Len(buf)
  BY <1>1, <1>2 DEF Types, Session
<1>4. SubSeq(buf, 1, carryLen) = buf
  BY <1>3, SubSeqFull
<1>5. PICK x \in Seq(Cell), y \in Seq(Cell) :
        /\ x = buf \o SubSeq(fifo, 1, k) /\ y = SubSeq(fifo, k + 1, Len(fifo))
        /\ Len(x) = Len(buf) + k /\ x \o y = buf \o fifo
  <2>1. k \in 0 .. Len(fifo) /\ buf \in Seq(Cell) /\ fifo \in Seq(Cell)
    BY <1>1, <1>3
  <2>. QED
    BY <2>1, Regrouped, Zenon
<1>6. /\ buf' \in Seq(Cell) /\ fifo' \in Seq(Cell) /\ Line' = Line
      /\ Len(buf') = Len(buf) + k
  BY <1>1, <1>4, <1>5 DEF Line
<1>7. carryLen' \in 0 .. Len(buf')
  <2>1. Len(buf) \in Nat /\ k \in Nat
    BY <1>1, <1>3
  <2>2. carryLen' = Len(buf)
    BY <1>1, <1>3
  <2>3. Len(buf') = Len(buf) + k
    BY <1>6
  <2>. QED
    BY <2>1, <2>2, <2>3
<1>8. Types'
  BY <1>1, <1>2, <1>6 DEF Types
<1>9. Session'
  BY <1>1, <1>2, <1>7 DEF Session
<1>10. Stream'
  <2>1. Broken => Broken'
    BY <1>1 DEF Broken
  <2>. QED
    BY <1>1, <1>2, <1>6, <2>1, Quiet
<1>11. WholeFrames' /\ TimeFaithful'
  BY <1>1, NothingNew DEF IInv
<1>. QED
  BY <1>8, <1>9, <1>10, <1>11 DEF IInv

LEMMA HssReadFailsKeeps ==
  ASSUME IInv, NEW k \in 0 .. BufCap, HssReadFails(k)
  PROVE  IInv'
<1>1. /\ pc' = "watchdog" /\ k \in 0 .. Len(fifo) /\ published' = << >>
      /\ fifo' = SubSeq(fifo, k + 1, Len(fifo))
      /\ carryLen' = 0 /\ buf' = << >> /\ accum' = 0 /\ restartReq' = TRUE
      /\ UNCHANGED <<want, hssRunning, layout, produced, stamp, cfg, desired, prev,
                     syncStamp, lastNo>>
  BY DEF HssReadFails, Resync, Unsync, linkVars, taskVars, evalVars
<1>2. Types /\ Session
  BY DEF IInv
<1>3. fifo' \in Seq(Cell)
  BY <1>1, <1>2 DEF Types
<1>4. Types'
  BY <1>1, <1>2, <1>3, NoCells DEF Types
<1>5. Session'
  BY <1>1, <1>2, NoCells DEF Session
<1>6. Broken'
  BY <1>1 DEF Broken
<1>7. WholeFrames' /\ TimeFaithful'
  BY <1>1, NothingNew DEF IInv
<1>. QED
  BY <1>4, <1>5, <1>6, <1>7, NoStream DEF IInv

LEMMA FramesStoppedKeeps ==
  ASSUME IInv, FramesStopped
  PROVE  IInv'
<1>1. /\ pc = "frames" /\ layout = 0 /\ pc' = "watchdog" /\ buf' = SubSeq(buf, 1, carryLen)
      /\ UNCHANGED <<want, hssRunning, layout, fifo, produced, stamp, cfg, desired, changed, prev,
                     carryLen, accum, published, syncStamp, lastNo, torn>>
  BY DEF FramesStopped, Carried, guiVars, linkVars, probeVars, taskVars, evalVars, histVars
<1>2. Types /\ Session /\ ~hssRunning
  BY <1>1 DEF IInv, Session
<1>3. buf' \in Seq(Cell) /\ Len(buf') = carryLen
  <2>1. buf \in Seq(Cell) /\ carryLen \in 0 .. Len(buf)
    BY <1>1, <1>2 DEF Types, Session
  <2>. QED
    BY <1>1, <2>1
<1>4. Types'
  BY <1>1, <1>2, <1>3 DEF Types
<1>5. Session'
  BY <1>1, <1>2, <1>3 DEF Session
<1>6. WholeFrames' /\ TimeFaithful'
  BY <1>1, NothingNew DEF IInv
<1>. QED
  BY <1>1, <1>2, <1>4, <1>5, <1>6, NoStream DEF IInv

\* The steps that read and write what the stream does not consist of.
LEMMA SamplerKeeps ==
  ASSUME IInv, SamplerStep
  PROVE  IInv'
<1>1. CASE SkipRefresh
  <2>1. Session' /\ (Broken => Broken')
    BY <1>1 DEF SkipRefresh, IInv, Session, Broken, guiVars, linkVars, probeVars, evalVars, streamVars
  <2>. QED
    BY <1>1, <2>1, QuietStep DEF SkipRefresh, IInv, Types, guiVars, linkVars, probeVars, streamVars
<1>2. CASE ReadConnected
  <2>1. Session' /\ (Broken => Broken')
    BY <1>2 DEF ReadConnected, IInv, Session, Broken, guiVars, linkVars, probeVars, taskVars,
       streamVars, histVars
  <2>. QED
    BY <1>2, <2>1, QuietStep DEF ReadConnected, IInv, Types, guiVars, linkVars, probeVars,
       taskVars, streamVars, histVars
<1>3. CASE EvalChanged
  <2>1. Session' /\ (Broken => Broken')
    BY <1>3 DEF EvalChanged, IInv, Session, Broken, linkVars, probeVars, taskVars,
       streamVars, histVars
  <2>. QED
    BY <1>3, <2>1, QuietStep DEF EvalChanged, IInv, Types, linkVars, probeVars,
       taskVars, streamVars, histVars
<1>4. CASE RetryLater
  <2>1. Session' /\ (Broken => Broken')
    BY <1>4 DEF RetryLater, IInv, Session, Broken, guiVars, linkVars, probeVars, taskVars,
       evalVars, streamVars, histVars
  <2>. QED
    BY <1>4, <2>1, QuietStep DEF RetryLater, IInv, Types, guiVars, linkVars, probeVars,
       taskVars, streamVars, histVars
<1>5. CASE DoneReading
  <2>1. Session' /\ (Broken => Broken')
    BY <1>5 DEF DoneReading, IInv, Session, Broken, guiVars, linkVars, probeVars, taskVars,
       evalVars, streamVars
  <2>. QED
    BY <1>5, <2>1, QuietStep DEF DoneReading, IInv, Types, guiVars, linkVars, probeVars,
       taskVars, streamVars
<1>6. CASE Watchdog
  <2>1. /\ pc = "watchdog" /\ pc' = "refresh" /\ changed' = FALSE /\ desired' = FALSE
        /\ published' = << >> /\ (restartReq' = TRUE \/ UNCHANGED restartReq)
        /\ UNCHANGED <<want, cfg, prev, hssRunning, layout, fifo, produced, stamp, buf, carryLen,
                       discardFirst, synced, lastTs, accum, syncStamp, lastNo, torn>>
    BY <1>6 DEF Watchdog, EndIteration, linkVars, probeVars, taskVars
  <2>2. Session' /\ (Broken => Broken')
    BY <2>1 DEF IInv, Session, Broken
  <2>. QED
    BY <2>1, <2>2, QuietStep DEF IInv, Types
<1>. QED
  BY <1>1, <1>2, <1>3, <1>4, <1>5, <1>6, RefreshKeeps, StopIfChangedKeeps, NotStartingKeeps,
     StartFailsKeeps, StartStreamKeeps, HssReadKeeps, HssReadFailsKeeps, FramesStoppedKeeps,
     NoFramesKeeps, DiscardBatchKeeps, PublishBatchKeeps
     DEF SamplerStep

-----------------------------------------------------------------------------
\* The stream's invariant: while it runs and no restart is due, the host's and
\* the probe's buffer together are the frames of the session in order, cut where
\* the decoder will cut them, with the time line ending where they begin.
THEOREM StreamInvariant == Spec => []IInv
<1>1. Init => IInv
  <2>1. Init => Types
    BY NoCells DEF Init, Types
  <2>2. Init => Session
    BY NoCells DEF Init, Session
  <2>3. Init => Stream
    BY DEF Init, Stream
  <2>4. Init => WholeFrames /\ TimeFaithful
    BY NoCells DEF Init, WholeFrames, TimeFaithful
  <2>. QED
    BY <2>1, <2>2, <2>3, <2>4 DEF IInv
<1>2. IInv /\ [Next]_vars => IInv'
  <2>. SUFFICES ASSUME IInv, [Next]_vars PROVE IInv'
    OBVIOUS
  <2>1. CASE UNCHANGED vars
    <3>1. /\ Session' /\ (Broken => Broken')
      BY <2>1 DEF vars, guiVars, linkVars, probeVars, taskVars, evalVars, streamVars, histVars,
         IInv, Session, Broken
    <3>. QED
      BY <2>1, <3>1, QuietStep DEF vars, guiVars, linkVars, probeVars, taskVars, streamVars,
         histVars, IInv, Types
  <2>. QED
    BY <2>1, SamplerKeeps, EnvironmentKeeps DEF Next
<1>. QED
  BY <1>1, <1>2, PTL DEF Spec

\* Every published frame is one frame of the running session, whole and in
\* place, decoded with the layout it was sampled with (processHss, retainTail).
THEOREM FramesWhole == Spec => []WholeFrames
<1>1. IInv => WholeFrames
  BY DEF IInv
<1>. QED
  BY <1>1, StreamInvariant, PTL

\* Published times are the probe time passed since the stream was synchronised,
\* over any number of wraps of its counter, and they grow (timestampDelta).
THEOREM TimesFaithful == Spec => []TimeFaithful
<1>1. IInv => TimeFaithful
  BY DEF IInv
<1>. QED
  BY <1>1, StreamInvariant, PTL

\* Only PublishBatch publishes, or cuts the stream at a batch.
LEMMA OthersPublishNothing ==
  ASSUME [Next]_vars, ~PublishBatch
  PROVE  /\ published' \in {published, << >>}
         /\ pc = "frames" /\ discardFirst' => discardFirst
<1>1. CASE UNCHANGED vars
  BY <1>1 DEF vars, streamVars, histVars
<1>2. CASE Environment
  BY <1>2 DEF Environment, Produce, SetWant, ReqRestart, RequestClear, OtherStops, Disconnects,
     Reconnects, EpochMoves, streamVars, histVars
<1>3. CASE Refresh \/ SkipRefresh \/ ReadConnected \/ EvalChanged \/ StopIfChanged
  BY <1>3 DEF Refresh, SkipRefresh, ReadConnected, EvalChanged, StopIfChanged,
     streamVars, histVars
<1>4. CASE NotStarting \/ RetryLater \/ StartFails \/ StartStream
  BY <1>4 DEF NotStarting, RetryLater, StartFails, StartStream, histVars
<1>5. CASE \E k \in 0 .. BufCap : HssRead(k) \/ HssReadFails(k)
  BY <1>5 DEF HssRead, HssReadFails
<1>6. CASE DoneReading \/ FramesStopped \/ NoFrames \/ DiscardBatch \/ Watchdog
  BY <1>6 DEF DoneReading, FramesStopped, NoFrames, DiscardBatch, Watchdog, EndIteration,
     streamVars, histVars
<1>. QED
  BY <1>1, <1>2, <1>3, <1>4, <1>5, <1>6 DEF Next, SamplerStep

\* In a clean line the first frame of a batch is the one after the last published.
LEMMA NextNumbers ==
  ASSUME IInv, PublishBatch, published' # << >>
  PROVE  /\ ~torn /\ synced => published'[1].cells[1].no = lastNo + 1
         /\ \A f \in 2 .. Len(published') :
              published'[f].cells[1].no = published'[f - 1].cells[1].no + 1
<1>1. pc = "frames" /\ layout # 0 /\ Count > 0
  BY DEF PublishBatch
<1>2. /\ Types /\ Placed(Line, Size, layout, produced) /\ Clocked(Line, produced, stamp)
      /\ (~torn => Clean)
  BY <1>1, Cutting
<1>3. Size \in Nat \ {0} /\ Count \in Nat
  BY <1>1, <1>2, BatchSizes
<1>4. PICK n \in 0 .. Count : Publishes(n)
  BY <1>2, Taken
<1>5. /\ Len(published') = n
      /\ \A f \in 1 .. n : published'[f] = [cells |-> SubSeq(buf, (f - 1) * Size + 1, f * Size),
                                            as |-> prev, time |-> FrameTime(f)]
      /\ n # 0
  BY <1>3, <1>4 DEF Publishes
<1>6. \A f \in 1 .. n : f \in 1 .. Count /\ published'[f].cells[1] = Start(f)
  <2>. TAKE f \in 1 .. n
  <2>1. f \in 1 .. Count
    BY <1>3
  <2>2. PICK c : c = SubSeq(buf, (f - 1) * Size + 1, f * Size)
    OBVIOUS
  <2>3. c[1] = Start(f)
    BY <1>1, <1>2, <2>1, <2>2, CutOut
  <2>4. published'[f] = [cells |-> c, as |-> prev, time |-> FrameTime(f)]
    BY <1>5, <2>2
  <2>. QED
    BY <2>1, <2>3, <2>4
<1>7. ASSUME NEW f \in 2 .. n
      PROVE  published'[f].cells[1].no = published'[f - 1].cells[1].no + 1
  <2>1. f \in 2 .. Count /\ f \in 1 .. n /\ f - 1 \in 1 .. n
    BY <1>3
  <2>2. Start(f).no = Start(f - 1).no + 1
    BY <1>1, <1>2, <2>1, NextStart
  <2>. QED
    BY <1>6, <2>1, <2>2
<1>8. ASSUME ~torn, synced
      PROVE  published'[1].cells[1].no = lastNo + 1
  <2>1. 1 \in 1 .. n /\ 1 \in 1 .. Count /\ (1 - 1) * Size + 1 = 1
    BY <1>3, <1>5
  <2>2. 1 \in 1 .. Len(buf) /\ Start(1) = Line[1]
    BY <1>1, <1>2, <2>1, Starts
  <2>3. Line # << >>
    BY <1>2, <2>2, LineOf DEF Types
  <2>4. Line[1].no = lastNo + 1
    BY <1>2, <1>8, <2>3 DEF Clean
  <2>. QED
    BY <1>6, <2>1, <2>2, <2>4
<1>. QED
  BY <1>5, <1>7, <1>8

\* A batch is cut only at a frame whose probe time has not moved on.
LEMMA CutWhereStill ==
  ASSUME IInv, PublishBatch, discardFirst'
  PROVE  \E f \in 1 .. Count :
           buf[(f - 1) * Size + 1].stamp <=
             (IF f = 1 THEN syncStamp + accum ELSE buf[(f - 2) * Size + 1].stamp)
<1>1. pc = "frames" /\ layout # 0 /\ Count > 0 /\ ~discardFirst
  BY DEF PublishBatch
<1>2. /\ Types /\ TimeBase
      /\ Placed(Line, Size, layout, produced) /\ Clocked(Line, produced, stamp)
  BY <1>1, Cutting
<1>3. Size \in Nat \ {0} /\ Count \in Nat
  BY <1>1, <1>2, BatchSizes
<1>4. PICK n \in 0 .. Count : Publishes(n) /\ (n < Count => Rejected(n + 1))
  BY <1>2, Taken
<1>5. n # Count
  BY <1>1, <1>4 DEF Publishes
<1>6. PICK f \in 1 .. Count : Rejected(f)
  <2>1. n + 1 \in 1 .. Count /\ n < Count
    BY <1>3, <1>5
  <2>. QED
    BY <1>4, <2>1
<1>7. (synced \/ f > 1) /\ Start(f).stamp = Before(f) /\ Start(f).stamp \in Nat
  <2>1. Before(f) \in Int /\ Start(f).stamp - Before(f) \in {0, Period}
    BY <1>1, <1>2, Steps
  <2>2. Rejected(f) <=> (synced \/ f > 1) /\ Start(f).stamp = Before(f)
    BY <1>1, <1>2, <2>1, TrueGap
  <2>. QED
    BY <1>1, <1>2, <1>6, <2>2, Starts
<1>8. Before(f) = IF f = 1 THEN syncStamp + accum ELSE buf[(f - 2) * Size + 1].stamp
  <2>1. CASE f = 1
    BY <1>7, <2>1 DEF Before, Base
  <2>2. CASE f # 1
    <3>1. f - 1 - 1 = f - 2
      BY <1>3
    <3>. QED
      BY <2>2, <3>1 DEF Before, Start
  <2>. QED
    BY <2>1, <2>2
<1>9. buf[(f - 1) * Size + 1].stamp <=
        (IF f = 1 THEN syncStamp + accum ELSE buf[(f - 2) * Size + 1].stamp)
  <2>1. Start(f).stamp <= Before(f)
    BY <1>7
  <2>. QED
    BY <1>8, <2>1 DEF Start
<1>. QED
  BY <1>9

\* Between two synchronisations the published frames are all those of the
\* session, in order; and the stream is cut only where the probe's clock stood
\* still, never at a wrap of its counter (processHss).
THEOREM FramesFollow == Spec => NoGap
<1>. DEFINE A ==
       /\ ~torn /\ published = << >> /\ published' # << >> =>
            /\ synced => published'[1].cells[1].no = lastNo + 1
            /\ \A f \in 2 .. Len(published') :
                 published'[f].cells[1].no = published'[f - 1].cells[1].no + 1
       /\ pc = "frames" /\ pc' = "watchdog" /\ ~discardFirst /\ discardFirst' =>
            \E f \in 1 .. Count :
              buf[(f - 1) * Size + 1].stamp <=
                (IF f = 1 THEN syncStamp + accum ELSE buf[(f - 2) * Size + 1].stamp)
<1>1. IInv /\ [Next]_vars => [A]_vars
  <2>. SUFFICES ASSUME IInv, [Next]_vars PROVE A
    OBVIOUS
  <2>1. CASE PublishBatch
    <3>1. ~torn /\ published = << >> /\ published' # << >> =>
            /\ synced => published'[1].cells[1].no = lastNo + 1
            /\ \A f \in 2 .. Len(published') :
                 published'[f].cells[1].no = published'[f - 1].cells[1].no + 1
      BY <2>1, NextNumbers
    <3>2. discardFirst' =>
            \E f \in 1 .. Count :
              buf[(f - 1) * Size + 1].stamp <=
                (IF f = 1 THEN syncStamp + accum ELSE buf[(f - 2) * Size + 1].stamp)
      BY <2>1, CutWhereStill
    <3>. QED
      BY <3>1, <3>2
  <2>2. CASE ~PublishBatch
    BY <2>2, OthersPublishNothing
  <2>. QED
    BY <2>1, <2>2
<1>2. Spec => [][A]_vars
  BY <1>1, StreamInvariant, PTL DEF Spec
<1>. QED
  BY <1>2 DEF NoGap
=============================================================================
