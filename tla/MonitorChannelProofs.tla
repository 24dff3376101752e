------------------------ MODULE MonitorChannelProofs ------------------------
(***************************************************************************)
(* That the history of a monitored variable and the GUI's copy of it stay  *)
(* views of one series, and that a time stamp stays as it was shown.       *)
(*                                                                         *)
(* Both stores keep an exact time per block and a rounded offset per       *)
(* sample, and their blocks are out of step.  What makes the copy grow is  *)
(* that the writer's stamps are spaced by half of what a float resolves    *)
(* and that, wherever the copy takes a sample inside a block of its own,   *)
(* it either hits the writer's stamps exactly or ends the block first.     *)
(***************************************************************************)
EXTENDS MonitorChannel, SequenceTheorems, FiniteSetTheorems, WellFoundedInduction, TLAPS

-----------------------------------------------------------------------------
(* Numbers.                                                                *)

\* Induction as an argument by the least counterexample.
LEMMA LeastOf ==
  ASSUME NEW T \in SUBSET Nat, T # {}
  PROVE  \E x \in T : \A y \in T : x <= y
<1>. DEFINE R == OpToRel(<, Nat)
<1>1. IsWellFoundedOn(R, Nat)
  BY NatLessThanWellFounded, Zenon
<1>2. PICK x \in T : \A y \in T : <<y, x>> \notin R
  <2>. HIDE DEF R
  <2>. QED
    BY <1>1, WFMin, Zenon
<1>3. \A y \in T : <<y, x>> \in Nat \X Nat
  OBVIOUS
<1>4. \A y \in T : ~(y < x)
  BY <1>2, <1>3 DEF OpToRel
<1>. QED
  BY <1>4

LEMMA Division ==
  ASSUME NEW t \in Int, NEW s \in Nat \ {0}
  PROVE  /\ t \div s \in Int /\ t % s \in 0 .. s - 1 /\ (t \in Nat => t \div s \in Nat)
         /\ t = (t \div s) * s + (t % s)
OBVIOUS

LEMMA Quotient ==
  ASSUME NEW s \in Nat \ {0}, NEW r \in 0 .. s - 1, NEW q \in Int
  PROVE  (q * s + r) % s = r /\ (q * s + r) \div s = q
OBVIOUS

LEMMA BlockNat == Block \in Nat \ {0} /\ Resolution \in Nat \ {0}
BY DeltaTsAssumption

LEMMA PlaceOf ==
  ASSUME NEW p \in Nat
  PROVE  /\ p \div Block \in Nat /\ p % Block \in 0 .. Block - 1
         /\ p = (p \div Block) * Block + (p % Block)
<1>1. Block \in Nat \ {0} /\ p \in Int
  BY BlockNat
<1>. QED
  BY <1>1, Division, Zenon

LEMMA PlaceIs ==
  ASSUME NEW q \in Int, NEW r \in 0 .. Block - 1, NEW p \in Nat, p = q * Block + r
  PROVE  p % Block = r /\ p \div Block = q
<1>1. Block \in Nat \ {0}
  BY BlockNat
<1>2. (q * Block + r) % Block = r /\ (q * Block + r) \div Block = q
  BY <1>1, Quotient, Zenon
<1>. QED
  BY <1>2, Zenon

\* From one position to the next.
LEMMA NextPlace ==
  ASSUME NEW p \in Nat
  PROVE  /\ p \div Block \in Nat /\ p % Block \in 0 .. Block - 1
         /\ (p + 1) \div Block \in Nat /\ (p + 1) % Block \in 0 .. Block - 1
         /\ p % Block = Block - 1 =>
              (p + 1) % Block = 0 /\ (p + 1) \div Block = (p \div Block) + 1
         /\ p % Block # Block - 1 =>
              (p + 1) % Block = (p % Block) + 1 /\ (p + 1) \div Block = p \div Block
<1>1. PICK q \in Nat, r \in 0 .. Block - 1 :
        /\ q = p \div Block /\ r = p % Block
        /\ p = q * Block + r
  BY PlaceOf, Zenon
<1>2. p = q * Block + r
  BY <1>1, Zenon
<1>3. p + 1 \in Nat
  OBVIOUS
<1>4. (p + 1) % Block \in 0 .. Block - 1 /\ (p + 1) \div Block \in Nat
  BY <1>3, PlaceOf, Zenon
<1>5. r = Block - 1 => (p + 1) % Block = 0 /\ (p + 1) \div Block = q + 1
  <2>. SUFFICES ASSUME r = Block - 1 PROVE (p + 1) % Block = 0 /\ (p + 1) \div Block = q + 1
    OBVIOUS
  <2>1. (q + 1) * Block = q * Block + Block
    BY BlockNat
  <2>2. p + 1 = (q + 1) * Block + 0 /\ q + 1 \in Int /\ 0 \in 0 .. Block - 1
    BY <1>2, <2>1, BlockNat
  <2>. QED
    BY <1>3, <2>2, PlaceIs, Zenon
<1>6. r # Block - 1 => (p + 1) % Block = r + 1 /\ (p + 1) \div Block = q
  <2>. SUFFICES ASSUME r # Block - 1 PROVE (p + 1) % Block = r + 1 /\ (p + 1) \div Block = q
    OBVIOUS
  <2>1. p + 1 = q * Block + (r + 1) /\ q \in Int /\ r + 1 \in 0 .. Block - 1
    BY <1>2, BlockNat
  <2>. QED
    BY <1>3, <2>1, PlaceIs, Zenon
<1>7. q \in Nat /\ r \in 0 .. Block - 1
  OBVIOUS
<1>. QED
  BY <1>1, <1>4, <1>5, <1>6, <1>7, Zenon

LEMMA BlocksGrow ==
  ASSUME NEW p \in Nat, NEW r \in Nat, p <= r
  PROVE  p \div Block <= r \div Block
<1>1. PICK a \in Nat, x \in 0 .. Block - 1 : a = p \div Block /\ p = a * Block + x
  BY PlaceOf, Zenon
<1>2. PICK b \in Nat, y \in 0 .. Block - 1 : b = r \div Block /\ r = b * Block + y
  BY PlaceOf, Zenon
<1>3. a <= b
  <2>1. SUFFICES ASSUME a >= b + 1 PROVE FALSE
    OBVIOUS
  <2>2. a * Block >= (b + 1) * Block
    BY <2>1, BlockNat
  <2>. QED
    BY <1>1, <1>2, <2>2, BlockNat
<1>. QED
  BY <1>1, <1>2, <1>3

-----------------------------------------------------------------------------
(* The inductive invariant.                                                *)

Congruent(x, y) == \E k \in Int : x - y = k * Resolution

Buffers == [off : Seq(Int), anch : Seq(Int), exact : Seq(Int), exactMode : BOOLEAN,
            frontAbs : Nat, anchBase : Nat]

\* Absolute positions: the next one of a buffer, the blocks begun before p,
\* the anchor of the block p is in.
End(b)         == b.frontAbs + Len(b.off)
Begun(p)       == IF p % Block = 0 THEN p \div Block ELSE p \div Block + 1
AnchorAt(b, p) == b.anch[AnchorOf(b, p)]

\* The anchors are those of the blocks from the front's to the newest
\* sample's, and a sample is its anchor and a float.
Sound(b) ==
  /\ b \in Buffers
  /\ ~b.exactMode =>
       /\ b.anchBase = b.frontAbs \div Block
       /\ Len(b.anch) = Begun(End(b)) - b.anchBase
       /\ \A i \in 1 .. Len(b.off) : Congruent(b.off[i], 0)

IsSeries(s) == s = [ts |-> s.ts, vals |-> s.vals, levels |-> s.levels]

\* Samples and stamps grow.
Rising(v, b) ==
  \A i \in 1 .. Size(b) : \A j \in i + 1 .. Size(b) : v[i] < v[j] /\ At(b, i) < At(b, j)

\* By half of what a float resolves, or rounding could make them equal.
Spaced(b) ==
  ~b.exactMode => \A i \in 2 .. Size(b) : 2 * (At(b, i) - At(b, i - 1)) >= Resolution

\* t is about to take the sample of b at absolute position p.  If both are
\* inside a block, then either the offsets of t hit b's stamps exactly, or b
\* began its block after t did, so that t ends its block before b does.
InStep(t, b, p) ==
  End(t) % Block # 0 /\ p % Block # 0 =>
    Congruent(AnchorAt(t, End(t)), AnchorAt(b, p)) \/ p % Block < End(t) % Block

\* The writer's b and v, of which the first p are published, with n the
\* newest sample and new its time, against the GUI's copy.
Writer(b, v, n, new) ==
  /\ Sound(b) /\ v \in Seq(Nat) /\ Len(v) = Size(b) /\ b.exactMode = preserve
  /\ Rising(v, b) /\ Spaced(b)
  /\ \A j \in 1 .. Size(b) : v[j] <= n
  /\ new \in Int
  /\ Size(b) # 0 =>
       At(b, Size(b)) <= new /\ (~preserve => At(b, Size(b)) = new)

Reader ==
  /\ Sound(read.ts) /\ IsSeries(read) /\ read.vals \in Seq(Nat)
  /\ Len(read.vals) = Size(read.ts) /\ read.ts.exactMode = preserve
  /\ Rising(read.vals, read.ts) /\ Spaced(read.ts)
  /\ \A i \in 1 .. Size(read.ts) : read.vals[i] <= shown

\* The published ones are the last of the GUI's, at nearly the same times;
\* what the writer took after a sample the GUI shows, it took later than the
\* GUI shows it.
Published(b, v, p) ==
  /\ p \in Int /\ p <= Size(b) /\ p <= Size(read.ts)
  /\ \A j \in 1 .. Size(b) : v[j] <= shown <=> j <= p
  /\ \A j \in 1 .. p :
       LET i == Size(read.ts) - p + j
       IN /\ v[j] = read.vals[i]
          /\ 2 * (At(read.ts, i) - At(b, j)) \in -Resolution .. Resolution

Later(b, v) ==
  \A i \in 1 .. Size(read.ts), j \in 1 .. Size(b) :
    read.vals[i] < v[j] =>
      /\ At(read.ts, i) < At(b, j)
      /\ ~preserve => 2 * (At(b, j) - At(read.ts, i)) >= Resolution

Newest(b, new) ==
  Size(read.ts) # 0 =>
    \/ At(read.ts, Size(read.ts)) < new
    \/ Size(b) # 0 /\ At(b, Size(b)) = new

Agree(b, v, p, n, new) ==
  /\ Writer(b, v, n, new) /\ Published(b, v, p) /\ Later(b, v) /\ Newest(b, new)
  /\ ~preserve /\ Size(b) = 0 => Size(read.ts) = 0
  /\ ~preserve /\ p >= 0 => InStep(read.ts, b, b.frontAbs + p)
  /\ \A j \in 1 .. Size(b) : v[j] \notin gone

Counts ==
  /\ {sampleCount, publishedEnd, taken, shown} \subseteq Nat
  /\ preserve \in BOOLEAN
  /\ Size(rTs) <= sampleCount /\ Size(read.ts) <= publishedEnd
  /\ publishedEnd <= sampleCount /\ shown <= taken
  /\ gone \subseteq 0 .. taken
  /\ \A i \in 1 .. Size(read.ts) : read.vals[i] \notin gone

IInv == Counts /\ Reader /\ Agree(rTs, rVals, publishedEnd - StoredStart, taken, newest)

\* A later position has begun no fewer blocks.
LEMMA BegunGrow ==
  ASSUME NEW p \in Nat, NEW r \in Nat, p < r
  PROVE  Begun(r) >= p \div Block + 1 /\ Begun(p) <= Begun(r) /\ p \div Block < Begun(r)
<1>1. PICK k \in Nat : r = k + 1
  BY SMT
<1>2. p <= k
  BY <1>1
<1>3. p \div Block <= k \div Block /\ p \div Block <= r \div Block
  BY <1>1, <1>2, BlocksGrow
<1>4. /\ k \div Block \in Nat /\ r \div Block \in Nat /\ p \div Block \in Nat
      /\ r % Block = 0 => r \div Block = k \div Block + 1
      /\ r % Block # 0 => r \div Block = k \div Block
  BY <1>1, NextPlace
<1>5. Begun(r) = k \div Block + 1
  BY <1>4 DEF Begun
<1>. QED
  BY <1>3, <1>4, <1>5 DEF Begun

-----------------------------------------------------------------------------
(* Rounding.                                                               *)
LEMMA CongruentSum ==
  ASSUME NEW x \in Int, NEW y \in Int, NEW z \in Int, Congruent(x, y)
  PROVE  Congruent(x + z, y + z) /\ Congruent(y, x) /\ (Congruent(y, z) => Congruent(x, z))
<1>1. PICK k \in Int : x - y = k * Resolution
  BY DEF Congruent
<1>2. Congruent(x + z, y + z)
  BY <1>1 DEF Congruent
<1>3. Congruent(y, x)
  <2>1. y - x = (-k) * Resolution
    BY <1>1, BlockNat
  <2>. QED
    BY <2>1 DEF Congruent
<1>4. ASSUME Congruent(y, z) PROVE Congruent(x, z)
  <2>1. PICK m \in Int : y - z = m * Resolution
    BY <1>4 DEF Congruent
  <2>2. x - z = (k + m) * Resolution
    BY <1>1, <2>1, BlockNat
  <2>. QED
    BY <2>2 DEF Congruent
<1>. QED
  BY <1>2, <1>3, <1>4

LEMMA CongruentSelf == \A x \in Int : Congruent(x, x)
<1>. SUFFICES ASSUME NEW x \in Int PROVE Congruent(x, x)
  OBVIOUS
<1>1. x - x = 0 * Resolution
  BY BlockNat
<1>. QED
  BY <1>1 DEF Congruent

LEMMA CongruentApart ==
  ASSUME NEW x \in Int, NEW y \in Int, Congruent(x, y), y < x
  PROVE  y + Resolution <= x
<1>1. PICK k \in Int : x - y = k * Resolution
  BY DEF Congruent
<1>2. k >= 1
  <2>1. SUFFICES ASSUME k <= 0 PROVE FALSE
    OBVIOUS
  <2>2. k * Resolution <= 0
    BY <2>1, BlockNat
  <2>. QED
    BY <1>1, <2>2
<1>3. k * Resolution >= Resolution
  BY <1>2, BlockNat
<1>. QED
  BY <1>1, <1>3, BlockNat

LEMMA RoundedNear ==
  ASSUME NEW d \in Int
  PROVE  /\ Rounded(d) \in Int /\ Congruent(Rounded(d), 0)
         /\ 2 * (Rounded(d) - d) <= Resolution /\ -Resolution < 2 * (Rounded(d) - d)
<1>. DEFINE q == (2 * d + Resolution) \div (2 * Resolution)
            r == (2 * d + Resolution) % (2 * Resolution)
<1>1. 2 * Resolution \in Nat \ {0} /\ 2 * d + Resolution \in Int
  BY BlockNat
<1>2. /\ q \in Int /\ r \in 0 .. 2 * Resolution - 1
      /\ 2 * d + Resolution = q * (2 * Resolution) + r
  BY <1>1, Division
<1>3. Rounded(d) = Resolution * q
  BY DEF Rounded
<1>. HIDE DEF q, r
<1>4. PICK m \in Int : m = q * Resolution
  BY <1>2, BlockNat
<1>5. Rounded(d) = m /\ q * (2 * Resolution) = 2 * m
  BY <1>2, <1>3, <1>4, BlockNat
<1>6. Congruent(Rounded(d), 0)
  BY <1>2, <1>4, <1>5 DEF Congruent
<1>. QED
  BY <1>2, <1>5, <1>6, BlockNat

\* What a float can hold is held, and half a step up rounds up.
LEMMA RoundedExact ==
  ASSUME NEW d \in Int, Congruent(d, 0)
  PROVE  Rounded(d) = d
<1>1. /\ Rounded(d) \in Int /\ Congruent(Rounded(d), 0)
      /\ 2 * (Rounded(d) - d) <= Resolution /\ -Resolution < 2 * (Rounded(d) - d)
  BY RoundedNear
<1>2. Congruent(Rounded(d), d) /\ Congruent(d, Rounded(d))
  BY <1>1, CongruentSum
<1>3. CASE Rounded(d) > d
  BY <1>1, <1>2, <1>3, CongruentApart, BlockNat
<1>4. CASE Rounded(d) < d
  BY <1>1, <1>2, <1>4, CongruentApart, BlockNat
<1>. QED
  BY <1>1, <1>3, <1>4

LEMMA RoundedUp ==
  ASSUME NEW d \in Int, NEW c \in Int, Congruent(c, 0), 2 * (d - c) >= Resolution
  PROVE  Rounded(d) >= c + Resolution
<1>1. /\ Rounded(d) \in Int /\ Congruent(Rounded(d), 0)
      /\ 2 * (Rounded(d) - d) <= Resolution /\ -Resolution < 2 * (Rounded(d) - d)
  BY RoundedNear
<1>2. Congruent(Rounded(d), c)
  BY <1>1, CongruentSum
<1>3. Rounded(d) > c
  BY <1>1, BlockNat
<1>. QED
  BY <1>1, <1>2, <1>3, CongruentApart
-----------------------------------------------------------------------------
(* One buffer.                                                             *)

LEMMA BegunNat ==
  ASSUME NEW p \in Nat
  PROVE  Begun(p) \in Nat /\ Begun(p + 1) = p \div Block + 1
<1>1. p \div Block \in Nat
  BY PlaceOf, Zenon
<1>2. /\ (p + 1) % Block = 0 => (p + 1) \div Block = p \div Block + 1
      /\ (p + 1) % Block # 0 => (p + 1) \div Block = p \div Block
  <2>1. /\ p % Block = Block - 1 =>
             (p + 1) % Block = 0 /\ (p + 1) \div Block = p \div Block + 1
        /\ p % Block # Block - 1 =>
             (p + 1) % Block = (p % Block) + 1 /\ (p + 1) \div Block = p \div Block
        /\ p % Block \in 0 .. Block - 1
    BY NextPlace, Zenon
  <2>. QED
    BY <2>1, BlockNat
<1>. QED
  BY <1>1, <1>2 DEF Begun

LEMMA Fields ==
  ASSUME NEW b \in Buffers
  PROVE  /\ b.off \in Seq(Int) /\ b.anch \in Seq(Int) /\ b.exact \in Seq(Int)
         /\ b.exactMode \in BOOLEAN /\ b.frontAbs \in Nat /\ b.anchBase \in Nat
         /\ Len(b.off) \in Nat /\ Len(b.anch) \in Nat /\ Len(b.exact) \in Nat
         /\ End(b) \in Nat /\ b.frontAbs <= End(b) /\ Size(b) \in Nat
BY DEF Buffers, End, Size

\* The positions whose block has an anchor.
Anchored(b, p) == p \in b.frontAbs .. End(b) /\ (p = End(b) => p % Block # 0)

LEMMA AnchorInside ==
  ASSUME NEW b, Sound(b), ~b.exactMode, NEW p \in Nat, Anchored(b, p)
  PROVE  AnchorOf(b, p) \in 1 .. Len(b.anch) /\ AnchorAt(b, p) \in Int
<1>1. /\ b \in Buffers
      /\ b.anchBase = b.frontAbs \div Block
      /\ Len(b.anch) = Begun(End(b)) - b.anchBase
  BY DEF Sound
<1>2. End(b) \in Nat /\ b.frontAbs \in Nat /\ b.anch \in Seq(Int)
  BY <1>1, Fields
<1>3. b.frontAbs \div Block <= p \div Block
  BY <1>2, BlocksGrow DEF Anchored
<1>4. p \div Block < Begun(End(b))
  <2>1. CASE p < End(b)
    BY <1>2, <2>1, BegunGrow
  <2>2. CASE p = End(b)
    <3>1. p % Block # 0 /\ p \div Block \in Nat
      BY <2>2, PlaceOf DEF Anchored
    <3>. QED
      BY <2>2, <3>1 DEF Begun
  <2>. QED
    BY <1>2, <2>1, <2>2 DEF Anchored
<1>5. /\ p \div Block \in Nat /\ b.frontAbs \div Block \in Nat
      /\ Begun(End(b)) \in Nat
  BY <1>2, PlaceOf, BegunNat, Zenon
<1>6. AnchorOf(b, p) = p \div Block - b.anchBase + 1
  BY DEF AnchorOf
<1>7. AnchorOf(b, p) \in 1 .. Len(b.anch)
  BY <1>1, <1>3, <1>4, <1>5, <1>6
<1>. QED
  BY <1>2, <1>7 DEF AnchorAt

LEMMA AtIs ==
  ASSUME NEW b, Sound(b), NEW i \in 1 .. Size(b)
  PROVE  /\ At(b, i) \in Int
         /\ b.exactMode => At(b, i) = b.exact[i]
         /\ ~b.exactMode =>
              /\ b.frontAbs + i - 1 \in Nat /\ Anchored(b, b.frontAbs + i - 1)
              /\ b.off[i] \in Int /\ Congruent(b.off[i], 0)
              /\ AnchorAt(b, b.frontAbs + i - 1) \in Int
              /\ At(b, i) = AnchorAt(b, b.frontAbs + i - 1) + b.off[i]
<1>1. b \in Buffers
  BY DEF Sound
<1>2. /\ b.off \in Seq(Int) /\ b.exact \in Seq(Int) /\ b.exactMode \in BOOLEAN
      /\ b.frontAbs \in Nat /\ Len(b.off) \in Nat /\ Len(b.exact) \in Nat
  BY <1>1, Fields
<1>3. CASE b.exactMode
  <2>1. Size(b) = Len(b.exact) /\ At(b, i) = b.exact[i]
    BY <1>3 DEF Size, At
  <2>. QED
    BY <1>2, <1>3, <2>1
<1>4. CASE ~b.exactMode
  <2>1. Size(b) = Len(b.off)
    BY <1>4 DEF Size
  <2>2. b.frontAbs + i - 1 \in Nat /\ Anchored(b, b.frontAbs + i - 1)
    BY <1>2, <2>1 DEF Anchored, End
  <2>3. AnchorAt(b, b.frontAbs + i - 1) \in Int
    BY <1>4, <2>2, AnchorInside
  <2>4. b.off[i] \in Int /\ Congruent(b.off[i], 0)
    BY <1>2, <1>4, <2>1 DEF Sound
  <2>5. At(b, i) = AnchorAt(b, b.frontAbs + i - 1) + b.off[i]
    BY <1>4 DEF At, AnchorAt
  <2>. QED
    BY <1>4, <2>2, <2>3, <2>4, <2>5
<1>. QED
  BY <1>2, <1>3, <1>4

LEMMA SizeNat == ASSUME NEW b, Sound(b) PROVE Size(b) \in Nat /\ b.exactMode \in BOOLEAN
<1>1. b \in Buffers
  BY DEF Sound
<1>. QED
  BY <1>1, Fields

\* Exact stamps are kept as they come.
LEMMA PushExact ==
  ASSUME NEW b, Sound(b), b.exactMode, NEW ts \in Int
  PROVE  /\ Sound(PushBack(b, ts)) /\ PushBack(b, ts).exactMode
         /\ Size(PushBack(b, ts)) = Size(b) + 1
         /\ \A i \in 1 .. Size(b) : At(PushBack(b, ts), i) = At(b, i)
         /\ At(PushBack(b, ts), Size(b) + 1) = ts
<1>1. b \in Buffers
  BY DEF Sound
<1>2. b.exact \in Seq(Int)
  BY <1>1, Fields
<1>. DEFINE c == [b EXCEPT !.exact = Append(@, ts)]
<1>3. PushBack(b, ts) = c
  BY DEF PushBack
<1>4. c \in Buffers /\ c.exactMode /\ c.exact = Append(b.exact, ts)
  <2>1. Append(b.exact, ts) \in Seq(Int)
    BY <1>2
  <2>. QED
    BY <1>1, <2>1 DEF Buffers
<1>. HIDE DEF c
<1>5. Size(c) = Len(c.exact) /\ Size(b) = Len(b.exact)
  BY <1>4 DEF Size
<1>6. \A i : At(c, i) = c.exact[i] /\ At(b, i) = b.exact[i]
  BY <1>4 DEF At
<1>7. Sound(c)
  BY <1>4 DEF Sound
<1>8. /\ Len(c.exact) = Len(b.exact) + 1 /\ c.exact[Len(b.exact) + 1] = ts
      /\ \A i \in 1 .. Len(b.exact) : c.exact[i] = b.exact[i]
  BY <1>2, <1>4
<1>. QED
  BY <1>3, <1>4, <1>5, <1>6, <1>7, <1>8

\* A rounded one counts from its block's anchor, which it is if it is the first.
LEMMA PushRounded ==
  ASSUME NEW b, Sound(b), ~b.exactMode, NEW ts \in Int
  PROVE  /\ Sound(PushBack(b, ts)) /\ ~PushBack(b, ts).exactMode
         /\ Size(PushBack(b, ts)) = Size(b) + 1
         /\ PushBack(b, ts).frontAbs = b.frontAbs
         /\ End(PushBack(b, ts)) = End(b) + 1
         /\ \A p \in Nat : Anchored(b, p) => AnchorAt(PushBack(b, ts), p) = AnchorAt(b, p)
         /\ \A i \in 1 .. Size(b) : At(PushBack(b, ts), i) = At(b, i)
         /\ Anchored(PushBack(b, ts), End(b))
         /\ End(b) % Block = 0 => AnchorAt(PushBack(b, ts), End(b)) = ts
         /\ At(PushBack(b, ts), Size(b) + 1) =
              AnchorAt(PushBack(b, ts), End(b)) + Rounded(ts - AnchorAt(PushBack(b, ts), End(b)))
<1>1. /\ b \in Buffers
      /\ b.anchBase = b.frontAbs \div Block
      /\ Len(b.anch) = Begun(End(b)) - b.anchBase
      /\ \A i \in 1 .. Len(b.off) : Congruent(b.off[i], 0)
  BY DEF Sound
<1>2. /\ b.off \in Seq(Int) /\ b.anch \in Seq(Int) /\ b.frontAbs \in Nat /\ b.anchBase \in Nat
      /\ Len(b.off) \in Nat /\ Len(b.anch) \in Nat /\ End(b) \in Nat /\ b.frontAbs <= End(b)
      /\ End(b) = b.frontAbs + Len(b.off)
  BY <1>1, Fields DEF End
<1>. DEFINE a == AnchorOf(b, End(b))
            anch == IF a > Len(b.anch) THEN Append(b.anch, ts) ELSE b.anch
            f == Rounded(ts - anch[a])
            c == [b EXCEPT !.anch = anch, !.off = Append(@, f)]
<1>3. PushBack(b, ts) = c
  BY DEF PushBack, End
<1>4. /\ a = End(b) \div Block - b.anchBase + 1 /\ End(b) \div Block \in Nat
      /\ b.frontAbs \div Block <= End(b) \div Block
  BY <1>2, PlaceOf, BlocksGrow DEF AnchorOf
<1>5. /\ a \in Nat \ {0}
      /\ End(b) % Block = 0 => a = Len(b.anch) + 1
      /\ End(b) % Block # 0 => a = Len(b.anch)
  BY <1>1, <1>2, <1>4 DEF Begun
<1>. HIDE DEF a
<1>6. /\ anch \in Seq(Int) /\ Len(anch) = a
      /\ \A x \in 1 .. Len(b.anch) : anch[x] = b.anch[x]
      /\ End(b) % Block = 0 => anch[a] = ts
  <2>1. CASE End(b) % Block = 0
    <3>1. anch = Append(b.anch, ts)
      BY <1>2, <1>5, <2>1
    <3>. HIDE DEF anch
    <3>. QED
      BY <1>2, <1>5, <2>1, <3>1
  <2>2. CASE End(b) % Block # 0
    <3>1. anch = b.anch
      BY <1>2, <1>5, <2>2
    <3>. HIDE DEF anch
    <3>. QED
      BY <1>2, <1>5, <2>2, <3>1
  <2>. QED
    BY <2>1, <2>2
<1>. HIDE DEF anch
<1>7. anch[a] \in Int
  BY <1>5, <1>6
<1>8. f \in Int /\ Congruent(f, 0)
  BY <1>7, RoundedNear
<1>. HIDE DEF f
<1>9. /\ c \in Buffers /\ c.exactMode = b.exactMode /\ c.frontAbs = b.frontAbs /\ c.anchBase = b.anchBase
      /\ c.anch = anch /\ c.off = Append(b.off, f)
  <2>1. Append(b.off, f) \in Seq(Int)
    BY <1>2, <1>8
  <2>. QED
    BY <1>1, <1>6, <2>1 DEF Buffers
<1>. HIDE DEF c
<1>10. /\ Len(c.off) = Len(b.off) + 1 /\ c.off[Len(b.off) + 1] = f
       /\ \A i \in 1 .. Len(b.off) : c.off[i] = b.off[i]
  BY <1>2, <1>8, <1>9
<1>11. End(c) = End(b) + 1
  BY <1>2, <1>9, <1>10 DEF End
<1>12. Begun(End(c)) = End(b) \div Block + 1
  BY <1>2, <1>11, BegunNat, Zenon
<1>13. Len(c.anch) = Begun(End(c)) - c.anchBase
  BY <1>1, <1>2, <1>4, <1>6, <1>9, <1>12, SMTT(30)
<1>14. \A i \in 1 .. Len(c.off) : Congruent(c.off[i], 0)
  <2>. TAKE i \in 1 .. Len(c.off)
  <2>1. i \in 1 .. Len(b.off) \/ i = Len(b.off) + 1
    BY <1>2, <1>10
  <2>. QED
    BY <1>1, <1>8, <1>10, <2>1
<1>15. Sound(c)
  BY <1>1, <1>9, <1>13, <1>14 DEF Sound
<1>16. Size(b) = Len(b.off) /\ Size(c) = Len(b.off) + 1
  BY <1>9, <1>10 DEF Size
<1>17. \A p \in Nat : Anchored(b, p) => AnchorAt(c, p) = AnchorAt(b, p)
  <2>. SUFFICES ASSUME NEW p \in Nat, Anchored(b, p)
                PROVE  AnchorAt(c, p) = AnchorAt(b, p)
    OBVIOUS
  <2>1. AnchorOf(b, p) \in 1 .. Len(b.anch)
    BY AnchorInside
  <2>2. AnchorOf(c, p) = AnchorOf(b, p)
    BY <1>9 DEF AnchorOf
  <2>. QED
    BY <1>6, <1>9, <2>1, <2>2 DEF AnchorAt
<1>18. AnchorAt(c, End(b)) = anch[a]
  <2>1. AnchorOf(c, End(b)) = a
    BY <1>9 DEF AnchorOf, a
  <2>. QED
    BY <1>9, <2>1 DEF AnchorAt
<1>19. \A i \in 1 .. Size(b) : At(c, i) = At(b, i)
  <2>. TAKE i \in 1 .. Size(b)
  <2>1. /\ b.frontAbs + i - 1 \in Nat /\ Anchored(b, b.frontAbs + i - 1)
        /\ At(b, i) = AnchorAt(b, b.frontAbs + i - 1) + b.off[i]
    BY AtIs
  <2>2. i \in 1 .. Size(c)
    BY <1>2, <1>16
  <2>3. At(c, i) = AnchorAt(c, c.frontAbs + i - 1) + c.off[i]
    BY <1>9, <1>15, <2>2, AtIs
  <2>4. AnchorAt(c, c.frontAbs + i - 1) = AnchorAt(b, b.frontAbs + i - 1)
    BY <1>9, <1>17, <2>1
  <2>5. c.off[i] = b.off[i]
    BY <1>10, <1>16
  <2>. QED
    BY <2>1, <2>3, <2>4, <2>5
<1>20. At(c, Size(b) + 1) = anch[a] + f
  <2>1. Size(b) + 1 \in 1 .. Size(c)
    BY <1>2, <1>16
  <2>2. At(c, Size(b) + 1) = AnchorAt(c, c.frontAbs + (Size(b) + 1) - 1) + c.off[Size(b) + 1]
    BY <1>9, <1>15, <2>1, AtIs
  <2>3. c.frontAbs + (Size(b) + 1) - 1 = End(b)
    BY <1>2, <1>9, <1>16
  <2>. QED
    BY <1>10, <1>16, <1>18, <2>2, <2>3
<1>21. Anchored(c, End(b))
  BY <1>2, <1>9, <1>11 DEF Anchored
<1>. QED
  BY <1>2, <1>3, <1>6, <1>9, <1>11, <1>15, <1>16, <1>17, <1>18, <1>19, <1>20, <1>21 DEF f

\* c is b without its first n samples.
Dropped(b, c, n) ==
  /\ Sound(c) /\ c.exactMode = b.exactMode /\ Size(c) = Size(b) - n
  /\ \A i \in 1 .. Size(c) : At(c, i) = At(b, i + n)
  /\ ~b.exactMode =>
       /\ c.frontAbs = b.frontAbs + n /\ End(c) = End(b)
       /\ \A p \in Nat : Anchored(c, p) => AnchorAt(c, p) = AnchorAt(b, p)

LEMMA PopExact ==
  ASSUME NEW b, Sound(b), Size(b) # 0, b.exactMode
  PROVE  Dropped(b, PopFront(b), 1)
<1>1. b \in Buffers
  BY DEF Sound
<1>2. b.exact \in Seq(Int) /\ Size(b) = Len(b.exact)
  BY <1>1, Fields DEF Size
<1>. DEFINE c == [b EXCEPT !.exact = Tail(@)]
<1>3. PopFront(b) = c
  BY DEF PopFront
<1>4. /\ Tail(b.exact) \in Seq(Int) /\ Len(Tail(b.exact)) = Len(b.exact) - 1
      /\ \A i \in 1 .. Len(b.exact) - 1 : Tail(b.exact)[i] = b.exact[i + 1]
  BY <1>2
<1>5. c \in Buffers /\ c.exactMode /\ c.exact = Tail(b.exact)
  BY <1>1, <1>4 DEF Buffers
<1>. HIDE DEF c
<1>6. Sound(c)
  BY <1>5 DEF Sound
<1>7. Size(c) = Len(b.exact) - 1
  BY <1>4, <1>5 DEF Size
<1>8. \A i : At(c, i) = c.exact[i] /\ At(b, i) = b.exact[i]
  BY <1>5 DEF At
<1>. QED
  BY <1>2, <1>3, <1>4, <1>5, <1>6, <1>7, <1>8 DEF Dropped

LEMMA PopRounded ==
  ASSUME NEW b, Sound(b), Size(b) # 0, ~b.exactMode
  PROVE  Dropped(b, PopFront(b), 1)
<1>1. /\ b \in Buffers
      /\ b.anchBase = b.frontAbs \div Block
      /\ Len(b.anch) = Begun(End(b)) - b.anchBase
      /\ \A i \in 1 .. Len(b.off) : Congruent(b.off[i], 0)
  BY DEF Sound
<1>2. /\ b.off \in Seq(Int) /\ b.anch \in Seq(Int) /\ b.frontAbs \in Nat /\ b.anchBase \in Nat
      /\ Len(b.off) \in Nat /\ Len(b.anch) \in Nat /\ End(b) \in Nat
      /\ End(b) = b.frontAbs + Len(b.off) /\ Size(b) = Len(b.off)
  BY <1>1, Fields DEF End, Size
<1>. DEFINE past == IF AnchorOf(b, b.frontAbs + 1) > 1 /\ b.anch # << >> THEN 1 ELSE 0
            c == [b EXCEPT !.off = Tail(@), !.frontAbs = @ + 1,
                           !.anch = SubSeq(@, past + 1, Len(@)), !.anchBase = @ + past]
<1>3. PopFront(b) = c
  <2>1. b.off # << >>
    BY <1>2
  <2>. QED
    BY <2>1 DEF PopFront
<1>4. /\ b.frontAbs \div Block \in Nat /\ (b.frontAbs + 1) \div Block \in Nat
      /\ (b.frontAbs + 1) \div Block \in {b.frontAbs \div Block, b.frontAbs \div Block + 1}
  <2>1. /\ b.frontAbs \div Block \in Nat /\ (b.frontAbs + 1) \div Block \in Nat
        /\ b.frontAbs % Block = Block - 1 => (b.frontAbs + 1) \div Block = b.frontAbs \div Block + 1
        /\ b.frontAbs % Block # Block - 1 => (b.frontAbs + 1) \div Block = b.frontAbs \div Block
    BY <1>2, NextPlace, Zenon
  <2>. QED
    BY <2>1, Zenon
<1>5. Begun(End(b)) >= b.frontAbs \div Block + 1 /\ Begun(End(b)) \in Nat
  <2>1. b.frontAbs < End(b)
    BY <1>2
  <2>. QED
    BY <1>2, <2>1, BegunGrow, BegunNat
<1>6. AnchorOf(b, b.frontAbs + 1) = (b.frontAbs + 1) \div Block - b.anchBase + 1
  BY DEF AnchorOf
<1>7. /\ past \in 0 .. 1 /\ past <= Len(b.anch)
      /\ b.anchBase + past = (b.frontAbs + 1) \div Block
  <2>1. Len(b.anch) >= 1 /\ b.anch # << >>
    BY <1>1, <1>2, <1>4, <1>5
  <2>. QED
    BY <1>1, <1>2, <1>4, <1>6, <2>1, SMTT(30)
<1>. HIDE DEF past
<1>8. /\ Tail(b.off) \in Seq(Int) /\ Len(Tail(b.off)) = Len(b.off) - 1
      /\ \A i \in 1 .. Len(b.off) - 1 : Tail(b.off)[i] = b.off[i + 1]
  BY <1>2
<1>9. /\ SubSeq(b.anch, past + 1, Len(b.anch)) \in Seq(Int)
      /\ Len(SubSeq(b.anch, past + 1, Len(b.anch))) = Len(b.anch) - past
      /\ \A i \in 1 .. Len(b.anch) - past :
           SubSeq(b.anch, past + 1, Len(b.anch))[i] = b.anch[i + past]
  BY <1>2, <1>7, SMTT(30)
<1>10. /\ c \in Buffers /\ c.exactMode = b.exactMode /\ c.off = Tail(b.off)
       /\ c.frontAbs = b.frontAbs + 1 /\ c.anchBase = b.anchBase + past
       /\ c.anch = SubSeq(b.anch, past + 1, Len(b.anch))
  <2>1. b.frontAbs + 1 \in Nat /\ b.anchBase + past \in Nat
    BY <1>2, <1>7, SMTT(30)
  <2>. QED
    BY <1>1, <1>8, <1>9, <2>1 DEF Buffers
<1>. HIDE DEF c
<1>11. End(c) = End(b) /\ Size(c) = Size(b) - 1 /\ Len(c.off) = Len(b.off) - 1
  BY <1>2, <1>8, <1>10 DEF End, Size
<1>12. Sound(c)
  <2>1. \A i \in 1 .. Len(c.off) : Congruent(c.off[i], 0)
    <3>. TAKE i \in 1 .. Len(c.off)
    <3>1. i + 1 \in 1 .. Len(b.off) /\ c.off[i] = b.off[i + 1]
      BY <1>2, <1>8, <1>10, <1>11
    <3>. QED
      BY <1>1, <3>1
  <2>2. c.anchBase = c.frontAbs \div Block
    BY <1>7, <1>10, Zenon
  <2>3. Len(c.anch) = Begun(End(c)) - c.anchBase
    BY <1>1, <1>2, <1>5, <1>7, <1>9, <1>10, <1>11
  <2>. QED
    BY <1>10, <2>1, <2>2, <2>3 DEF Sound
<1>13. ASSUME NEW p \in Nat, Anchored(c, p)
       PROVE  AnchorAt(c, p) = AnchorAt(b, p)
  <2>1. AnchorOf(c, p) \in 1 .. Len(c.anch)
    BY <1>10, <1>12, <1>13, AnchorInside
  <2>2. p \div Block \in Nat
    BY PlaceOf, Zenon
  <2>3. AnchorOf(b, p) = AnchorOf(c, p) + past
    BY <1>2, <1>7, <1>10, <2>2 DEF AnchorOf
  <2>. QED
    BY <1>2, <1>7, <1>9, <1>10, <2>1, <2>3 DEF AnchorAt
<1>14. ASSUME NEW i \in 1 .. Size(c)
       PROVE  At(c, i) = At(b, i + 1)
  <2>1. i + 1 \in 1 .. Size(b) /\ b.frontAbs + (i + 1) - 1 = c.frontAbs + i - 1
    BY <1>2, <1>10, <1>11, SMTT(30)
  <2>2. At(b, i + 1) = AnchorAt(b, b.frontAbs + (i + 1) - 1) + b.off[i + 1]
    BY <2>1, AtIs
  <2>3. /\ c.frontAbs + i - 1 \in Nat /\ Anchored(c, c.frontAbs + i - 1)
        /\ At(c, i) = AnchorAt(c, c.frontAbs + i - 1) + c.off[i]
    BY <1>10, <1>12, AtIs
  <2>4. AnchorAt(c, c.frontAbs + i - 1) = AnchorAt(b, c.frontAbs + i - 1)
    BY <1>13, <2>3
  <2>5. c.off[i] = b.off[i + 1]
    BY <1>2, <1>8, <1>10, <1>11
  <2>. QED
    BY <2>1, <2>2, <2>3, <2>4, <2>5
<1>15. /\ c.exactMode = b.exactMode /\ Size(c) = Size(b) - 1
       /\ c.frontAbs = b.frontAbs + 1 /\ End(c) = End(b)
  BY <1>10, <1>11
<1>. QED
  BY <1>3, <1>12, <1>13, <1>14, <1>15 DEF Dropped

LEMMA DroppedMore ==
  ASSUME NEW b, Sound(b), NEW n \in Nat, n < Size(b), NEW c, Dropped(b, c, n)
  PROVE  Dropped(b, PopFront(c), n + 1)
<1>1. Sound(c) /\ Size(b) \in Nat /\ Size(c) = Size(b) - n
  BY SizeNat DEF Dropped
<1>2. Dropped(c, PopFront(c), 1)
  <2>1. Size(c) # 0 /\ c.exactMode \in BOOLEAN
    BY <1>1, SizeNat
  <2>. QED
    BY <1>1, <2>1, PopExact, PopRounded
<1>3. ~b.exactMode => b.frontAbs \in Nat
  BY Fields DEF Sound
<1>. DEFINE d == PopFront(c)
<1>. HIDE DEF d
<1>4. Dropped(c, d, 1)
  BY <1>2 DEF d
<1>5. Size(d) = Size(b) - (n + 1) /\ Sound(d) /\ d.exactMode = b.exactMode
  BY <1>1, <1>4 DEF Dropped
<1>6. ASSUME NEW i \in 1 .. Size(d)
      PROVE  At(d, i) = At(b, i + (n + 1))
  <2>1. i + 1 \in 1 .. Size(c) /\ (i + 1) + n = i + (n + 1)
    BY <1>1, <1>5
  <2>2. At(d, i) = At(c, i + 1) /\ At(c, i + 1) = At(b, (i + 1) + n)
    BY <1>4, <2>1 DEF Dropped
  <2>. QED
    BY <2>1, <2>2
<1>7. ~b.exactMode =>
       /\ d.frontAbs = b.frontAbs + (n + 1) /\ End(d) = End(b)
       /\ \A p \in Nat : Anchored(d, p) => AnchorAt(d, p) = AnchorAt(b, p)
  <2>. SUFFICES ASSUME ~b.exactMode
                PROVE  /\ d.frontAbs = b.frontAbs + (n + 1) /\ End(d) = End(b)
                       /\ \A p \in Nat : Anchored(d, p) => AnchorAt(d, p) = AnchorAt(b, p)
    OBVIOUS
  <2>1. /\ d.frontAbs = c.frontAbs + 1 /\ End(d) = End(c)
        /\ \A p \in Nat : Anchored(d, p) => AnchorAt(d, p) = AnchorAt(c, p)
        /\ c.frontAbs = b.frontAbs + n /\ End(c) = End(b)
        /\ \A p \in Nat : Anchored(c, p) => AnchorAt(c, p) = AnchorAt(b, p)
    BY <1>4 DEF Dropped
  <2>2. d.frontAbs = b.frontAbs + (n + 1) /\ End(d) = End(b) /\ c.frontAbs \in Nat
    BY <1>3, <2>1
  <2>3. \A p \in Nat : Anchored(d, p) => Anchored(c, p)
    <3>1. End(c) \in Nat
      BY <1>1, Fields DEF Sound
    <3>. QED
      BY <2>1, <2>2, <3>1 DEF Anchored
  <2>. QED
    BY <2>1, <2>2, <2>3
<1>8. Dropped(b, d, n + 1)
  BY <1>5, <1>6, <1>7 DEF Dropped
<1>. QED
  BY <1>8 DEF d

LEMMA PoppedIs ==
  ASSUME NEW b, Sound(b), NEW n \in Nat, n <= Size(b)
  PROVE  Dropped(b, Popped(b, n), n)
<1>. DEFINE Pops(f, m) == f = [i \in 0 .. m |-> IF i = 0 THEN b ELSE PopFront(f[i - 1])]
            T == {m \in 0 .. n : ~ \E f : Pops(f, m)}
<1>1. T = {}
  <2>1. SUFFICES ASSUME T # {} PROVE FALSE
    OBVIOUS
  <2>2. PICK x \in T : \A y \in T : x <= y
    <3>1. T \in SUBSET Nat
      OBVIOUS
    <3>. QED
      BY <2>1, <3>1, LeastOf, Zenon
  <2>3. x \in 0 .. n /\ ~ \E f : Pops(f, x)
    OBVIOUS
  <2>4. x # 0
    <3>1. Pops([i \in 0 .. 0 |-> b], 0)
      OBVIOUS
    <3>. QED
      BY <2>3, <3>1
  <2>5. x - 1 \in 0 .. n /\ x - 1 \notin T
    <3>. HIDE DEF T
    <3>. QED
      BY <2>2, <2>3, <2>4
  <2>6. PICK f : Pops(f, x - 1)
    BY <2>5
  <2>. DEFINE g == [i \in 0 .. x |-> IF i = x THEN PopFront(f[x - 1]) ELSE f[i]]
  <2>7. Pops(g, x)
    <3>1. \A i \in 0 .. x : g[i] = IF i = 0 THEN b ELSE PopFront(g[i - 1])
      <4>. TAKE i \in 0 .. x
      <4>1. \A j \in 0 .. x - 1 : f[j] = IF j = 0 THEN b ELSE PopFront(f[j - 1])
        BY <2>6
      <4>2. CASE i = x
        BY <2>3, <2>4, <4>2
      <4>3. CASE i # x
        BY <2>3, <2>4, <4>1, <4>3
      <4>. QED
        BY <4>2, <4>3
    <3>. QED
      BY <3>1
  <2>. QED
    BY <2>3, <2>7
<1>2. \E f : Pops(f, n)
  BY <1>1
<1>3. PICK f : Pops(f, n) /\ Popped(b, n) = f[n]
  <2>1. Pops(CHOOSE f : Pops(f, n), n)
    BY <1>2
  <2>2. Popped(b, n) = (CHOOSE f : Pops(f, n))[n]
    BY DEF Popped
  <2>. QED
    BY <2>1, <2>2
<1>. DEFINE U == {m \in 0 .. n : ~Dropped(b, f[m], m)}
<1>4. U = {}
  <2>1. SUFFICES ASSUME U # {} PROVE FALSE
    OBVIOUS
  <2>2. PICK x \in U : \A y \in U : x <= y
    <3>1. U \in SUBSET Nat
      OBVIOUS
    <3>. QED
      BY <2>1, <3>1, LeastOf, Zenon
  <2>3. x \in 0 .. n /\ ~Dropped(b, f[x], x)
    OBVIOUS
  <2>4. \A i \in 0 .. n : f[i] = IF i = 0 THEN b ELSE PopFront(f[i - 1])
    BY <1>3
  <2>5. CASE x = 0
    <3>1. f[0] = b
      BY <2>4
    <3>2. Size(b) \in Nat /\ (~b.exactMode => b.frontAbs \in Nat)
      BY SizeNat, Fields DEF Sound
    <3>3. \A i \in 1 .. Size(b) : i + 0 = i
      BY <3>2
    <3>. QED
      BY <2>3, <2>5, <3>1, <3>2, <3>3 DEF Dropped
  <2>6. CASE x # 0
    <3>1. x - 1 \in 0 .. n /\ x - 1 \notin U /\ (x - 1) + 1 = x /\ x - 1 \in Nat
      BY <2>2, <2>3, <2>6
    <3>2. Dropped(b, f[x - 1], x - 1) /\ x - 1 < Size(b)
      BY <2>3, <3>1, SizeNat
    <3>3. f[x] = PopFront(f[x - 1])
      BY <2>3, <2>4, <2>6
    <3>4. Dropped(b, PopFront(f[x - 1]), (x - 1) + 1)
      BY <3>1, <3>2, DroppedMore
    <3>. QED
      BY <2>3, <3>1, <3>3, <3>4
  <2>. QED
    BY <2>5, <2>6
<1>5. Dropped(b, f[n], n)
  BY <1>4
<1>. QED
  BY <1>3, <1>5

LEMMA PreserveKeeps ==
  ASSUME NEW b, Sound(b)
  PROVE  /\ Sound(PreserveExact(b)) /\ PreserveExact(b).exactMode
         /\ Size(PreserveExact(b)) = Size(b)
         /\ \A i \in 1 .. Size(b) : At(PreserveExact(b), i) = At(b, i)
         /\ b.exactMode => PreserveExact(b) = b
<1>1. CASE b.exactMode
  <2>1. PreserveExact(b) = b
    BY <1>1 DEF PreserveExact
  <2>. QED
    BY <1>1, <2>1
<1>2. CASE ~b.exactMode
  <2>. DEFINE c == [Blank EXCEPT !.exact = Times(b), !.exactMode = TRUE]
  <2>1. PreserveExact(b) = c
    BY <1>2 DEF PreserveExact
  <2>2. Times(b) \in Seq(Int) /\ Len(Times(b)) = Size(b) /\ \A i \in 1 .. Size(b) : Times(b)[i] = At(b, i)
    <3>1. Size(b) \in Nat
      BY SizeNat
    <3>2. \A i \in 1 .. Size(b) : At(b, i) \in Int
      BY AtIs
    <3>. QED
      BY <3>1, <3>2 DEF Times
  <2>3. c \in Buffers /\ c.exactMode /\ c.exact = Times(b)
    <3>1. Blank \in Buffers
      BY DEF Blank, Buffers
    <3>. QED
      BY <2>2, <3>1 DEF Buffers
  <2>. HIDE DEF c
  <2>4. Sound(c) /\ Size(c) = Size(b)
    BY <2>2, <2>3 DEF Sound, Size
  <2>5. \A i \in 1 .. Size(b) : At(c, i) = At(b, i)
    BY <2>2, <2>3 DEF At
  <2>. QED
    BY <1>2, <2>1, <2>3, <2>4, <2>5
<1>. QED
  BY <1>1, <1>2, SizeNat

\* Which i-th sample is left when f+1 .. f+k go.
Old(i, f, k) == IF i <= f THEN i ELSE i + k

Gap(f, l) == IF f < l THEN l - f ELSE 0

LEMMA Joined ==
  ASSUME NEW x \in Seq(Int), NEW y \in Seq(Int)
  PROVE  /\ x \o y \in Seq(Int) /\ Len(x \o y) = Len(x) + Len(y)
         /\ \A i \in 1 .. Len(x) : (x \o y)[i] = x[i]
         /\ \A i \in 1 .. Len(y) : (x \o y)[Len(x) + i] = y[i]
OBVIOUS

LEMMA WithoutInt ==
  ASSUME NEW s \in Seq(Int), NEW f \in Nat, NEW l \in Nat, f < l, l <= Len(s)
  PROVE  /\ Without(s, f, l) \in Seq(Int) /\ Len(Without(s, f, l)) = Len(s) - Gap(f, l)
         /\ \A i \in 1 .. Len(Without(s, f, l)) :
              Without(s, f, l)[i] = s[Old(i, f, Gap(f, l))]
<1>1. /\ SubSeq(s, 1, f) \in Seq(Int) /\ Len(SubSeq(s, 1, f)) = f
      /\ \A i \in 1 .. f : SubSeq(s, 1, f)[i] = s[i]
  OBVIOUS
<1>2. /\ SubSeq(s, l + 1, Len(s)) \in Seq(Int) /\ Len(SubSeq(s, l + 1, Len(s))) = Len(s) - l
      /\ \A i \in 1 .. Len(s) - l : SubSeq(s, l + 1, Len(s))[i] = s[i + l]
  OBVIOUS
<1>. DEFINE x == SubSeq(s, 1, f)
            y == SubSeq(s, l + 1, Len(s))
<1>3. Without(s, f, l) = x \o y
  BY DEF Without
<1>. HIDE DEF x, y
<1>4. /\ x \in Seq(Int) /\ y \in Seq(Int) /\ Len(x) = f /\ Len(y) = Len(s) - l
      /\ \A i \in 1 .. f : x[i] = s[i]
      /\ \A i \in 1 .. Len(s) - l : y[i] = s[i + l]
  BY <1>1, <1>2 DEF x, y
<1>5. /\ x \o y \in Seq(Int) /\ Len(x \o y) = Len(x) + Len(y)
      /\ \A i \in 1 .. Len(x) : (x \o y)[i] = x[i]
      /\ \A i \in 1 .. Len(y) : (x \o y)[Len(x) + i] = y[i]
  <2>1. x \in Seq(Int) /\ y \in Seq(Int)
    BY <1>4
  <2>. QED
    BY <2>1, Joined, Zenon
<1>6. Len(s) \in Nat /\ Len(x \o y) = Len(s) - (l - f)
  BY <1>4, <1>5
<1>7. ASSUME NEW i \in 1 .. Len(x \o y)
      PROVE  (x \o y)[i] = s[IF i <= f THEN i ELSE i + (l - f)]
  <2>1. CASE i <= f
    <3>1. i \in 1 .. f
      BY <1>6, <2>1
    <3>2. (x \o y)[i] = x[i]
      BY <1>4, <1>5, <3>1
    <3>. QED
      BY <1>4, <2>1, <3>1, <3>2
  <2>2. CASE i > f
    <3>1. i - f \in 1 .. Len(s) - l /\ f + (i - f) = i /\ (i - f) + l = i + (l - f)
      BY <1>6, <2>2
    <3>2. (x \o y)[f + (i - f)] = y[i - f]
      BY <1>4, <1>5, <3>1
    <3>3. y[i - f] = s[(i - f) + l]
      BY <1>4, <3>1
    <3>4. ~(i <= f)
      BY <1>6, <2>2
    <3>. QED
      BY <3>1, <3>2, <3>3, <3>4
  <2>. QED
    BY <1>6, <2>1, <2>2, SMTT(30)
<1>8. Gap(f, l) = l - f
  BY DEF Gap
<1>. QED
  BY <1>3, <1>5, <1>7, <1>8, <1>6 DEF Old

LEMMA OldIn ==
  ASSUME NEW n \in Nat, NEW f \in Nat, NEW l \in Nat, l <= n, NEW i \in 1 .. n - Gap(f, l)
  PROVE  Old(i, f, Gap(f, l)) \in 1 .. n
BY DEF Old, Gap

\* What is left of the samples, whether or not any went.
Remaining(v, f, l) == IF f < l THEN Without(v, f, l) ELSE v

LEMMA ValsLeft ==
  ASSUME NEW v \in Seq(Nat), NEW f \in Nat, NEW l \in Nat, l <= Len(v)
  PROVE  /\ Remaining(v, f, l) \in Seq(Nat) /\ Len(Remaining(v, f, l)) = Len(v) - Gap(f, l)
         /\ \A i \in 1 .. Len(Remaining(v, f, l)) :
              Remaining(v, f, l)[i] = v[Old(i, f, Gap(f, l))]
<1>. DEFINE w == Remaining(v, f, l)
<1>1. w = IF f < l THEN Without(v, f, l) ELSE v
  BY DEF Remaining
<1>. SUFFICES /\ w \in Seq(Nat) /\ Len(w) = Len(v) - Gap(f, l)
              /\ \A i \in 1 .. Len(w) : w[i] = v[Old(i, f, Gap(f, l))]
  BY DEF w
<1>. HIDE DEF w
<1>2. CASE f < l
  <2>1. v \in Seq(Int)
    OBVIOUS
  <2>2. /\ w \in Seq(Int) /\ Len(w) = Len(v) - Gap(f, l)
        /\ \A i \in 1 .. Len(w) : w[i] = v[Old(i, f, Gap(f, l))]
    BY <1>1, <1>2, <2>1, WithoutInt
  <2>3. \A i \in 1 .. Len(w) : w[i] \in Nat
    <3>. TAKE i \in 1 .. Len(w)
    <3>1. Len(v) \in Nat /\ i \in 1 .. Len(v) - Gap(f, l)
      BY <2>2
    <3>2. Old(i, f, Gap(f, l)) \in 1 .. Len(v)
      BY <3>1, OldIn
    <3>3. \A j \in 1 .. Len(v) : v[j] \in Nat
      OBVIOUS
    <3>4. w[i] = v[Old(i, f, Gap(f, l))]
      BY <2>2
    <3>. QED
      BY <3>2, <3>3, <3>4, Zenon
  <2>4. w \in Seq(Nat)
    <3>1. w \in [1 .. Len(w) -> Int] /\ Len(w) \in Nat
      BY <2>2
    <3>2. w \in [1 .. Len(w) -> Nat]
      BY <2>3, <3>1
    <3>. QED
      BY <3>1, <3>2
  <2>. QED
    BY <2>2, <2>4
<1>3. CASE ~(f < l)
  BY <1>1, <1>3 DEF Gap, Old
<1>. QED
  BY <1>2, <1>3

\* c is exact and b without the samples f+1 .. f+k.
Cut(b, c, f, k) ==
  /\ Sound(c) /\ c.exactMode /\ Size(c) = Size(b) - k
  /\ \A i \in 1 .. Size(c) : At(c, i) = At(b, Old(i, f, k))

LEMMA EraseCuts ==
  ASSUME NEW b, Sound(b), NEW f \in Nat, NEW l \in Nat, l <= Size(b)
  PROVE  Cut(b, PreserveExact(EraseRange(b, f, l)), f, Gap(f, l))
<1>. DEFINE p == PreserveExact(b)
<1>. HIDE DEF p
<1>1. /\ Sound(p) /\ p.exactMode /\ Size(p) = Size(b)
      /\ \A i \in 1 .. Size(b) : At(p, i) = At(b, i)
      /\ Size(b) \in Nat
  BY PreserveKeeps, SizeNat DEF p
<1>2. CASE ~(f < l)
  <2>1. EraseRange(b, f, l) = b
    BY <1>2 DEF EraseRange
  <2>2. Gap(f, l) = 0 /\ \A i \in 1 .. Size(b) : Old(i, f, 0) = i
    BY <1>2 DEF Gap, Old
  <2>. QED
    BY <1>1, <2>1, <2>2 DEF Cut, p
<1>3. CASE f < l
  <2>. DEFINE c == [p EXCEPT !.exact = Without(@, f, l)]
              w == Without(p.exact, f, l)
  <2>1. EraseRange(b, f, l) = c
    BY <1>3 DEF EraseRange, p
  <2>2. p \in Buffers /\ p.exact \in Seq(Int) /\ Len(p.exact) = Size(b)
    BY <1>1, Fields DEF Sound, Size
  <2>3. /\ w \in Seq(Int) /\ Len(w) = Size(b) - Gap(f, l)
        /\ \A i \in 1 .. Len(w) : w[i] = p.exact[Old(i, f, Gap(f, l))]
    BY <1>3, <2>2, WithoutInt
  <2>. HIDE DEF w
  <2>4. c \in Buffers /\ c.exactMode /\ c.exact = w
    <3>1. c = [p EXCEPT !.exact = w]
      BY <2>2 DEF w, Buffers
    <3>. QED
      BY <1>1, <2>2, <2>3, <3>1 DEF Buffers
  <2>. HIDE DEF c
  <2>5. Sound(c) /\ Size(c) = Size(b) - Gap(f, l)
    BY <2>3, <2>4 DEF Sound, Size
  <2>6. PreserveExact(c) = c
    BY <2>4 DEF PreserveExact
  <2>7. ASSUME NEW i \in 1 .. Size(c)
        PROVE  At(c, i) = At(b, Old(i, f, Gap(f, l)))
    <3>1. Old(i, f, Gap(f, l)) \in 1 .. Size(b)
      BY <1>1, <2>5, OldIn
    <3>2. At(c, i) = w[i] /\ At(p, Old(i, f, Gap(f, l))) = p.exact[Old(i, f, Gap(f, l))]
      BY <1>1, <2>4 DEF At
    <3>. QED
      BY <1>1, <2>3, <2>5, <3>1, <3>2
  <2>. QED
    BY <2>1, <2>4, <2>5, <2>6, <2>7 DEF Cut
<1>. QED
  BY <1>2, <1>3

\* A set of positions closed downwards is those up to their number.
LEMMA Prefix ==
  ASSUME NEW n \in Nat, NEW K \in SUBSET (1 .. n),
         \A i \in K : \A j \in 1 .. i : j \in K
  PROVE  Cardinality(K) \in 0 .. n /\ \A i \in 1 .. n : i \in K <=> i <= Cardinality(K)
<1>1. PICK k \in 0 .. n : K = 1 .. k
  <2>. DEFINE T == (1 .. n) \ K
  <2>1. CASE T = {}
    <3>1. K = 1 .. n
      BY <2>1
    <3>. QED
      BY <3>1
  <2>2. CASE T # {}
    <3>1. PICK x \in T : \A y \in T : x <= y
      <4>1. T \in SUBSET Nat
        OBVIOUS
      <4>. QED
        BY <2>2, <4>1, LeastOf, Zenon
    <3>2. x \in 1 .. n /\ x \notin K
      OBVIOUS
    <3>3. K = 1 .. x - 1
      <4>1. ASSUME NEW i \in 1 .. x - 1 PROVE i \in K
        <5>1. i \in 1 .. n /\ i \notin T
          BY <3>1, <3>2
        <5>. QED
          BY <5>1
      <4>2. ASSUME NEW i \in K PROVE i \in 1 .. x - 1
        <5>1. i \in 1 .. n
          OBVIOUS
        <5>2. ~(x <= i)
          BY <3>2, <5>1
        <5>. QED
          BY <3>2, <5>1, <5>2
      <4>. QED
        BY <4>1, <4>2
    <3>4. x - 1 \in 0 .. n
      BY <3>2
    <3>. QED
      BY <3>3, <3>4
  <2>. QED
    BY <2>1, <2>2
<1>2. Cardinality(1 .. k) = k
  <2>1. 1 \in Int /\ k \in Int
    OBVIOUS
  <2>2. Cardinality(1 .. k) = IF 1 > k THEN 0 ELSE k - 1 + 1
    BY <2>1, FS_Interval
  <2>. QED
    BY <2>2
<1>. QED
  BY <1>1, <1>2

-----------------------------------------------------------------------------
(* A series copied to another one, from other anchors.                     *)

LEMMA CongruentDiff ==
  ASSUME NEW x \in Int, NEW y \in Int
  PROVE  /\ Congruent(x, y) => Congruent(x - y, 0)
         /\ Congruent(y, 0) => Congruent(x + y, x)
<1>1. (x - y) - 0 = x - y /\ (x + y) - x = y - 0
  OBVIOUS
<1>. QED
  BY <1>1, Zenon DEF Congruent

\* Inside a block the anchor stays.
LEMMA SameAnchor ==
  ASSUME NEW b, NEW p \in Nat, (p + 1) % Block # 0
  PROVE  /\ AnchorAt(b, p + 1) = AnchorAt(b, p)
         /\ (p + 1) % Block = (p % Block) + 1 /\ p % Block \in 0 .. Block - 1
<1>1. /\ p % Block = Block - 1 => (p + 1) % Block = 0
      /\ p % Block # Block - 1 =>
           (p + 1) % Block = (p % Block) + 1 /\ (p + 1) \div Block = p \div Block
      /\ p % Block \in 0 .. Block - 1
  BY NextPlace, Zenon
<1>2. (p + 1) % Block = (p % Block) + 1 /\ (p + 1) \div Block = p \div Block
  BY <1>1, Zenon
<1>3. AnchorOf(b, p + 1) = AnchorOf(b, p)
  BY <1>2 DEF AnchorOf
<1>. QED
  BY <1>1, <1>2, <1>3 DEF AnchorAt

\* Within a block stamps are multiples of what a float resolves apart.
LEMMA ApartInBlock ==
  ASSUME NEW b, Sound(b), ~b.exactMode, Spaced(b), NEW i \in 1 .. Size(b), i + 1 <= Size(b),
         (b.frontAbs + i) % Block # 0
  PROVE  At(b, i) + Resolution <= At(b, i + 1)
<1>1. Size(b) \in Nat /\ b.frontAbs \in Nat
  BY SizeNat, Fields DEF Sound
<1>2. /\ At(b, i) \in Int /\ b.frontAbs + i - 1 \in Nat /\ b.off[i] \in Int /\ Congruent(b.off[i], 0)
      /\ AnchorAt(b, b.frontAbs + i - 1) \in Int
      /\ At(b, i) = AnchorAt(b, b.frontAbs + i - 1) + b.off[i]
  BY AtIs
<1>3. /\ At(b, i + 1) \in Int /\ b.off[i + 1] \in Int /\ Congruent(b.off[i + 1], 0)
      /\ At(b, i + 1) = AnchorAt(b, b.frontAbs + (i + 1) - 1) + b.off[i + 1]
  BY <1>1, AtIs
<1>4. AnchorAt(b, b.frontAbs + (i + 1) - 1) = AnchorAt(b, b.frontAbs + i - 1)
  <2>1. b.frontAbs + (i + 1) - 1 = (b.frontAbs + i - 1) + 1 /\ (b.frontAbs + i - 1) + 1 = b.frontAbs + i
    BY <1>1
  <2>. QED
    BY <1>2, <2>1, SameAnchor
<1>5. 2 * (At(b, i + 1) - At(b, i)) >= Resolution
  <2>1. i + 1 \in 2 .. Size(b) /\ (i + 1) - 1 = i
    BY <1>1
  <2>. QED
    BY <2>1 DEF Spaced
<1>6. Congruent(b.off[i + 1], b.off[i])
  BY <1>2, <1>3, CongruentSum
<1>7. b.off[i] < b.off[i + 1]
  BY <1>2, <1>3, <1>4, <1>5, BlockNat
<1>8. b.off[i] + Resolution <= b.off[i + 1]
  BY <1>2, <1>3, <1>6, <1>7, CongruentApart
<1>. QED
  BY <1>2, <1>3, <1>4, <1>8, BlockNat

\* A stamp given to a buffer is off by at most half of what a float resolves,
\* and not closer to the last one than it was given, if that is more.
LEMMA PushNear ==
  ASSUME NEW t, Sound(t), ~t.exactMode, NEW ts \in Int, NEW x, x = At(PushBack(t, ts), Size(t) + 1)
  PROVE  /\ x \in Int /\ 2 * (x - ts) <= Resolution /\ -Resolution < 2 * (x - ts)
         /\ Size(t) # 0 /\ 2 * (ts - At(t, Size(t))) >= Resolution =>
              2 * (x - At(t, Size(t))) >= Resolution
         /\ Size(t) # 0 /\ ts - At(t, Size(t)) >= Resolution => x - At(t, Size(t)) >= Resolution
<1>. DEFINE c  == PushBack(t, ts)
            pT == End(t)
            a  == AnchorAt(c, pT)
<1>1. /\ Size(t) \in Nat /\ pT \in Nat /\ t.frontAbs \in Nat
      /\ Size(t) = Len(t.off) /\ pT = t.frontAbs + Size(t)
  BY SizeNat, Fields DEF Sound, Size, End
<1>2. /\ Sound(c) /\ ~c.exactMode
      /\ \A p \in Nat : Anchored(t, p) => AnchorAt(c, p) = AnchorAt(t, p)
      /\ Anchored(c, pT)
      /\ pT % Block = 0 => a = ts
      /\ x = a + Rounded(ts - a)
  BY PushRounded
<1>3. a \in Int
  BY <1>1, <1>2, AnchorInside
<1>. HIDE DEF c, pT, a
<1>4. /\ Rounded(ts - a) \in Int /\ 2 * (Rounded(ts - a) - (ts - a)) <= Resolution
      /\ -Resolution < 2 * (Rounded(ts - a) - (ts - a))
  BY <1>3, RoundedNear
<1>5. x \in Int /\ 2 * (x - ts) <= Resolution /\ -Resolution < 2 * (x - ts)
  BY <1>2, <1>3, <1>4, BlockNat
<1>6. CASE pT % Block = 0
  <2>1. Congruent(ts - a, 0) /\ ts - a = 0 /\ a = ts
    BY <1>2, <1>6, CongruentSelf
  <2>2. Rounded(ts - a) = ts - a
    BY <1>3, <2>1, RoundedExact
  <2>3. x = ts
    BY <1>2, <1>3, <2>1, <2>2
  <2>. QED
    BY <1>5, <2>3
<1>7. CASE pT % Block # 0
  <2>1. Size(t) # 0 => pT - 1 \in Nat /\ (pT - 1) + 1 = pT /\ pT - 1 = t.frontAbs + Size(t) - 1
    BY <1>1, SMTT(30)
  <2>. SUFFICES ASSUME Size(t) # 0, 2 * (ts - At(t, Size(t))) >= Resolution
                PROVE  x - At(t, Size(t)) >= Resolution /\ At(t, Size(t)) \in Int
    <3>1. Size(t) # 0 => At(t, Size(t)) \in Int
      <4>1. Size(t) # 0 => Size(t) \in 1 .. Size(t)
        BY <1>1
      <4>. QED
        BY <4>1, AtIs
    <3>. QED
      BY <1>5, <3>1, BlockNat
  <2>2. Size(t) \in 1 .. Size(t) /\ At(t, Size(t)) \in Int
    <3>1. Size(t) \in 1 .. Size(t)
      BY <1>1
    <3>. QED
      BY <3>1, AtIs
  <2>3. pT - 1 \in Nat /\ (pT - 1) + 1 = pT /\ pT - 1 = t.frontAbs + Size(t) - 1
    BY <2>1
  <2>4. AnchorAt(t, pT) = AnchorAt(t, pT - 1)
    BY <1>7, <2>3, SameAnchor
  <2>5. /\ t.off[Size(t)] \in Int /\ Congruent(t.off[Size(t)], 0)
        /\ At(t, Size(t)) = AnchorAt(t, t.frontAbs + Size(t) - 1) + t.off[Size(t)]
    BY <2>2, AtIs
  <2>6. a = AnchorAt(t, pT)
    <3>1. Anchored(t, pT)
      BY <1>1, <1>7 DEF Anchored, pT
    <3>. QED
      BY <1>1, <1>2, <3>1 DEF a
  <2>7. At(t, Size(t)) = a + t.off[Size(t)]
    BY <2>3, <2>4, <2>5, <2>6
  <2>8. 2 * ((ts - a) - t.off[Size(t)]) >= Resolution /\ ts - a \in Int
    BY <1>3, <2>2, <2>5, <2>7
  <2>9. Rounded(ts - a) >= t.off[Size(t)] + Resolution
    BY <2>5, <2>8, RoundedUp
  <2>. QED
    BY <1>2, <1>3, <1>4, <2>2, <2>5, <2>7, <2>9, BlockNat
<1>. QED
  BY <1>5, <1>6, <1>7

\* The stamp of b at j may be the next of t.
Fits(t, b, j) ==
  /\ InStep(t, b, b.frontAbs + j - 1)
  /\ Size(t) # 0 /\ j <= Size(b) => 2 * (At(b, j) - At(t, Size(t))) >= Resolution

LEMMA PushFits ==
  ASSUME NEW t, NEW b, Sound(t), Sound(b), ~t.exactMode, ~b.exactMode, Spaced(t), Spaced(b),
         NEW j \in 1 .. Size(b), Fits(t, b, j)
  PROVE  /\ Spaced(PushBack(t, At(b, j))) /\ Fits(PushBack(t, At(b, j)), b, j + 1)
         /\ 2 * (At(PushBack(t, At(b, j)), Size(t) + 1) - At(b, j)) \in -Resolution .. Resolution
<1>. DEFINE ts == At(b, j)
            c  == PushBack(t, ts)
            pS == b.frontAbs + j - 1
            pT == End(t)
<1>1. /\ Size(t) \in Nat /\ Size(b) \in Nat /\ b.frontAbs \in Nat /\ pT \in Nat /\ t.frontAbs \in Nat
      /\ Size(t) = Len(t.off) /\ pT = t.frontAbs + Size(t) /\ Size(b) = Len(b.off) /\ b.frontAbs <= End(b)
  BY SizeNat, Fields DEF Sound, Size, End
<1>2. /\ ts \in Int /\ pS \in Nat /\ b.off[j] \in Int /\ Congruent(b.off[j], 0)
      /\ AnchorAt(b, pS) \in Int /\ ts = AnchorAt(b, pS) + b.off[j]
  BY AtIs
<1>3. /\ Sound(c) /\ ~c.exactMode /\ Size(c) = Size(t) + 1 /\ c.frontAbs = t.frontAbs /\ End(c) = pT + 1
      /\ \A p \in Nat : Anchored(t, p) => AnchorAt(c, p) = AnchorAt(t, p)
      /\ \A i \in 1 .. Size(t) : At(c, i) = At(t, i)
      /\ Anchored(c, pT)
      /\ pT % Block = 0 => AnchorAt(c, pT) = ts
      /\ At(c, Size(t) + 1) = AnchorAt(c, pT) + Rounded(ts - AnchorAt(c, pT))
  BY <1>2, PushRounded
<1>. DEFINE a == AnchorAt(c, pT)
            x == At(c, Size(t) + 1)
<1>4. a \in Int
  BY <1>1, <1>3, AnchorInside
<1>. HIDE DEF ts, c, pT, pS, a, x
<1>5. x = a + Rounded(ts - a) /\ x \in Int /\ 2 * (x - ts) <= Resolution /\ -Resolution < 2 * (x - ts)
  <2>1. x = a + Rounded(ts - a)
    BY <1>3 DEF a, x
  <2>2. /\ Rounded(ts - a) \in Int /\ 2 * (Rounded(ts - a) - (ts - a)) <= Resolution
        /\ -Resolution < 2 * (Rounded(ts - a) - (ts - a))
    BY <1>2, <1>4, RoundedNear
  <2>. QED
    BY <1>2, <1>4, <2>1, <2>2, BlockNat
<1>6. Congruent(a, ts) => x = ts
  <2>. SUFFICES ASSUME Congruent(a, ts) PROVE x = ts
    OBVIOUS
  <2>1. Congruent(ts, a)
    BY <1>2, <1>4, CongruentSum
  <2>2. Congruent(ts - a, 0)
    BY <1>2, <1>4, <2>1, CongruentDiff
  <2>3. Rounded(ts - a) = ts - a
    BY <1>2, <1>4, <2>2, RoundedExact
  <2>. QED
    BY <1>2, <1>4, <1>5, <2>3
<1>7. pT % Block = 0 => a = ts /\ x = ts
  BY <1>2, <1>3, <1>6, CongruentSelf DEF a
<1>8. pT % Block # 0 => a = AnchorAt(t, pT)
  <2>1. pT % Block # 0 => Anchored(t, pT)
    BY <1>1 DEF Anchored, pT
  <2>. QED
    BY <1>1, <1>3, <2>1 DEF a
<1>9. Congruent(ts, AnchorAt(b, pS))
  <2>1. Congruent(AnchorAt(b, pS) + b.off[j], AnchorAt(b, pS))
    BY <1>2, CongruentDiff
  <2>. QED
    BY <1>2, <2>1, Zenon
<1>10. Size(t) # 0 => 2 * (x - At(t, Size(t))) >= Resolution
  <2>1. Size(t) # 0 => 2 * (ts - At(t, Size(t))) >= Resolution
    BY DEF Fits, ts
  <2>. QED
    BY <1>2, <2>1, PushNear DEF x, c
<1>11. Spaced(c)
  <2>. SUFFICES ASSUME NEW i \in 2 .. Size(c)
                PROVE  2 * (At(c, i) - At(c, i - 1)) >= Resolution
    BY DEF Spaced
  <2>1. CASE i = Size(c)
    <3>1. i = Size(t) + 1 /\ i - 1 = Size(t) /\ Size(t) # 0 /\ i - 1 \in 1 .. Size(t)
      BY <1>1, <1>3, <2>1
    <3>. QED
      BY <1>3, <1>10, <3>1 DEF x
  <2>2. CASE i # Size(c)
    <3>1. i \in 2 .. Size(t) /\ i \in 1 .. Size(t) /\ i - 1 \in 1 .. Size(t)
      BY <1>1, <1>3, <2>2
    <3>2. 2 * (At(t, i) - At(t, i - 1)) >= Resolution
      BY <3>1 DEF Spaced
    <3>. QED
      BY <1>3, <3>1, <3>2
  <2>. QED
    BY <2>1, <2>2
<1>12. InStep(t, b, pS)
  BY DEF Fits, pS
<1>13. InStep(c, b, pS + 1)
  <2>. SUFFICES ASSUME (pT + 1) % Block # 0, (pS + 1) % Block # 0
                PROVE  \/ Congruent(AnchorAt(c, pT + 1), AnchorAt(b, pS + 1))
                       \/ (pS + 1) % Block < (pT + 1) % Block
    BY <1>3 DEF InStep
  <2>1. /\ AnchorAt(c, pT + 1) = a
        /\ (pT + 1) % Block = (pT % Block) + 1 /\ pT % Block \in 0 .. Block - 1
    BY <1>1, SameAnchor DEF a
  <2>2. /\ AnchorAt(b, pS + 1) = AnchorAt(b, pS)
        /\ (pS + 1) % Block = (pS % Block) + 1 /\ pS % Block \in 0 .. Block - 1
    BY <1>2, SameAnchor
  <2>3. CASE pT % Block = 0
    BY <1>7, <1>9, <2>1, <2>2, <2>3
  <2>4. CASE pT % Block # 0 /\ pS % Block = 0
    BY <2>1, <2>2, <2>4, BlockNat
  <2>5. CASE pT % Block # 0 /\ pS % Block # 0
    <3>1. Congruent(AnchorAt(t, pT), AnchorAt(b, pS)) \/ pS % Block < pT % Block
      BY <1>12, <2>5 DEF InStep, pT
    <3>2. CASE Congruent(AnchorAt(t, pT), AnchorAt(b, pS))
      BY <1>8, <2>1, <2>2, <2>5, <3>2
    <3>3. CASE pS % Block < pT % Block
      BY <2>1, <2>2, <3>3, BlockNat
    <3>. QED
      BY <3>1, <3>2, <3>3
  <2>. QED
    BY <2>3, <2>4, <2>5
<1>14. j + 1 <= Size(b) => 2 * (At(b, j + 1) - x) >= Resolution
  <2>. SUFFICES ASSUME j + 1 <= Size(b) PROVE 2 * (At(b, j + 1) - x) >= Resolution
    OBVIOUS
  <2>1. At(b, j + 1) \in Int /\ 2 * (At(b, j + 1) - ts) >= Resolution
    <3>1. j + 1 \in 1 .. Size(b) /\ j + 1 \in 2 .. Size(b) /\ (j + 1) - 1 = j
      BY <1>1
    <3>. QED
      BY <3>1, AtIs DEF Spaced, ts
  <2>2. CASE (pS + 1) % Block # 0
    <3>1. b.frontAbs + j = pS + 1
      BY <1>1 DEF pS
    <3>2. ts + Resolution <= At(b, j + 1)
      BY <2>2, <3>1, ApartInBlock DEF ts
    <3>. QED
      BY <1>2, <1>5, <2>1, <3>2, BlockNat
  <2>3. CASE (pS + 1) % Block = 0
    <3>1. x = ts
      <4>1. SUFFICES ASSUME pT % Block # 0 PROVE x = ts
        BY <1>7
      <4>2. pS % Block = Block - 1 /\ pT % Block \in 0 .. Block - 1
        <5>1. /\ pS % Block # Block - 1 => (pS + 1) % Block = (pS % Block) + 1
              /\ pS % Block \in 0 .. Block - 1
          BY <1>2, NextPlace, Zenon
        <5>2. pT % Block \in 0 .. Block - 1
          BY <1>1, PlaceOf, Zenon
        <5>. QED
          BY <2>3, <5>1, <5>2, BlockNat
      <4>3. pS % Block # 0
        BY <4>1, <4>2, BlockNat
      <4>4. Congruent(AnchorAt(t, pT), AnchorAt(b, pS))
        BY <1>12, <4>1, <4>2, <4>3, BlockNat DEF InStep, pT
      <4>5. Congruent(a, AnchorAt(b, pS)) /\ Congruent(AnchorAt(b, pS), ts)
        BY <1>2, <1>8, <1>9, <4>1, <4>4, CongruentSum
      <4>. QED
        BY <1>2, <1>4, <1>6, <4>5, CongruentSum
    <3>. QED
      BY <2>1, <3>1
  <2>. QED
    BY <2>2, <2>3
<1>15. Fits(c, b, j + 1)
  <2>1. b.frontAbs + (j + 1) - 1 = pS + 1
    BY <1>1 DEF pS
  <2>2. Size(c) = Size(t) + 1
    BY <1>3
  <2>. QED
    BY <1>13, <1>14, <2>1, <2>2 DEF Fits, x
<1>16. 2 * (x - ts) \in -Resolution .. Resolution
  BY <1>2, <1>5, BlockNat
<1>. QED
  BY <1>11, <1>15, <1>16 DEF c, ts, x

LEMMA PushIs ==
  ASSUME NEW s, NEW v, NEW t
  PROVE  /\ Push(s, v, t).ts = PushBack(s.ts, t) /\ Push(s, v, t).vals = Append(s.vals, v)
         /\ IsSeries(Push(s, v, t))
<1>. DEFINE l == FeedLevel(s.levels, Leaf(v, t))
            b == PushBack(s.ts, t)
            w == Append(s.vals, v)
<1>1. Push(s, v, t) = [ts |-> b, vals |-> w, levels |-> l]
  BY DEF Push
<1>. HIDE DEF l, b, w
<1>2. Push(s, v, t).ts = b /\ Push(s, v, t).vals = w /\ IsSeries(Push(s, v, t))
  BY <1>1 DEF IsSeries
<1>. QED
  BY <1>2 DEF b, w

\* PushAll pushes one after the other.
InTurn(s, vals, times) ==
  \E f : /\ f[0] = s /\ PushAll(s, vals, times) = f[Len(vals)]
         /\ \A i \in 1 .. Len(vals) : f[i] = Push(f[i - 1], vals[i], times[i])

LEMMA Pushes ==
  ASSUME NEW s, NEW vals \in Seq(Nat), NEW times
  PROVE  InTurn(s, vals, times)
<1>. DEFINE n == Len(vals)
            Runs(f, m) == f = [i \in 0 .. m |-> IF i = 0 THEN s ELSE Push(f[i - 1], vals[i], times[i])]
            T == {m \in 0 .. n : ~ \E f : Runs(f, m)}
<1>1. n \in Nat
  OBVIOUS
<1>2. T = {}
  <2>1. SUFFICES ASSUME T # {} PROVE FALSE
    OBVIOUS
  <2>2. PICK x \in T : \A y \in T : x <= y
    <3>1. T \in SUBSET Nat
      OBVIOUS
    <3>. QED
      BY <2>1, <3>1, LeastOf, Zenon
  <2>3. x \in 0 .. n /\ ~ \E f : Runs(f, x)
    OBVIOUS
  <2>4. x # 0
    <3>1. Runs([i \in 0 .. 0 |-> s], 0)
      OBVIOUS
    <3>. QED
      BY <2>3, <3>1
  <2>5. x - 1 \in 0 .. n /\ x - 1 \notin T
    <3>. HIDE DEF T, n
    <3>. QED
      BY <1>1, <2>2, <2>3, <2>4
  <2>6. PICK f : Runs(f, x - 1)
    BY <2>5
  <2>. DEFINE g == [i \in 0 .. x |-> IF i = x THEN Push(f[x - 1], vals[x], times[x]) ELSE f[i]]
  <2>7. Runs(g, x)
    <3>1. \A i \in 0 .. x : g[i] = IF i = 0 THEN s ELSE Push(g[i - 1], vals[i], times[i])
      <4>. TAKE i \in 0 .. x
      <4>1. \A j \in 0 .. x - 1 : f[j] = IF j = 0 THEN s ELSE Push(f[j - 1], vals[j], times[j])
        BY <2>6
      <4>2. CASE i = x
        BY <2>3, <2>4, <4>2
      <4>3. CASE i # x
        BY <2>3, <2>4, <4>1, <4>3
      <4>. QED
        BY <4>2, <4>3
    <3>. QED
      BY <3>1
  <2>. QED
    BY <2>3, <2>7
<1>3. \E f : Runs(f, n)
  BY <1>1, <1>2
<1>4. PICK f : Runs(f, n) /\ PushAll(s, vals, times) = f[n]
  <2>1. Runs(CHOOSE f : Runs(f, n), n)
    BY <1>3
  <2>2. PushAll(s, vals, times) = (CHOOSE f : Runs(f, n))[n]
    BY DEF PushAll
  <2>. QED
    BY <2>1, <2>2
<1>5. \A i \in 0 .. n : f[i] = IF i = 0 THEN s ELSE Push(f[i - 1], vals[i], times[i])
  BY <1>4
<1>6. f[0] = s /\ \A i \in 1 .. n : f[i] = Push(f[i - 1], vals[i], times[i])
  BY <1>1, <1>5
<1>. QED
  BY <1>4, <1>6 DEF InTurn

\* r is s with the first k of vals behind its own.
Grown(s, r, vals, k) ==
  /\ Sound(r.ts) /\ r.ts.exactMode = s.ts.exactMode /\ IsSeries(r)
  /\ Size(r.ts) = Size(s.ts) + k
  /\ \A i \in 1 .. Size(s.ts) : At(r.ts, i) = At(s.ts, i)
  /\ r.vals \in Seq(Nat) /\ Len(r.vals) = Len(s.vals) + k
  /\ \A i \in 1 .. Len(s.vals) : r.vals[i] = s.vals[i]
  /\ \A i \in 1 .. k : r.vals[Len(s.vals) + i] = vals[i]

LEMMA PushSound ==
  ASSUME NEW b, Sound(b), NEW t \in Int
  PROVE  /\ Sound(PushBack(b, t)) /\ PushBack(b, t).exactMode = b.exactMode
         /\ Size(PushBack(b, t)) = Size(b) + 1
         /\ \A i \in 1 .. Size(b) : At(PushBack(b, t), i) = At(b, i)
<1>1. b.exactMode \in BOOLEAN /\ PushBack(b, t).exactMode \in BOOLEAN
  <2>1. Sound(PushBack(b, t))
    BY SizeNat, PushExact, PushRounded
  <2>. QED
    BY <2>1, SizeNat
<1>2. CASE b.exactMode
  BY <1>1, <1>2, PushExact
<1>3. CASE ~b.exactMode
  BY <1>1, <1>3, PushRounded
<1>. QED
  BY <1>1, <1>2, <1>3

LEMMA Appending ==
  ASSUME NEW v \in Seq(Nat), NEW x \in Nat
  PROVE  /\ Append(v, x) \in Seq(Nat) /\ Len(Append(v, x)) = Len(v) + 1
         /\ \A i \in 1 .. Len(v) : Append(v, x)[i] = v[i]
         /\ Append(v, x)[Len(v) + 1] = x
OBVIOUS

LEMMA GrownMore ==
  ASSUME NEW s, Sound(s.ts), s.vals \in Seq(Nat), NEW vals \in Seq(Nat), NEW k \in Nat, k < Len(vals),
         NEW r, Grown(s, r, vals, k), NEW t \in Int
  PROVE  Grown(s, Push(r, vals[k + 1], t), vals, k + 1)
<1>. DEFINE q == Push(r, vals[k + 1], t)
<1>1. q.ts = PushBack(r.ts, t) /\ q.vals = Append(r.vals, vals[k + 1]) /\ IsSeries(q)
  BY PushIs
<1>. HIDE DEF q
<1>2. /\ Sound(r.ts) /\ r.ts.exactMode = s.ts.exactMode /\ Size(r.ts) = Size(s.ts) + k
      /\ \A i \in 1 .. Size(s.ts) : At(r.ts, i) = At(s.ts, i)
      /\ r.vals \in Seq(Nat) /\ Len(r.vals) = Len(s.vals) + k
      /\ \A i \in 1 .. Len(s.vals) : r.vals[i] = s.vals[i]
      /\ \A i \in 1 .. k : r.vals[Len(s.vals) + i] = vals[i]
  BY DEF Grown
<1>3. Size(s.ts) \in Nat /\ Len(s.vals) \in Nat /\ vals[k + 1] \in Nat
  BY SizeNat
<1>4. /\ Sound(q.ts) /\ q.ts.exactMode = s.ts.exactMode /\ Size(q.ts) = Size(s.ts) + (k + 1)
      /\ \A i \in 1 .. Size(r.ts) : At(q.ts, i) = At(r.ts, i)
  <2>1. /\ Sound(PushBack(r.ts, t)) /\ PushBack(r.ts, t).exactMode = r.ts.exactMode
        /\ Size(PushBack(r.ts, t)) = Size(r.ts) + 1
        /\ \A i \in 1 .. Size(r.ts) : At(PushBack(r.ts, t), i) = At(r.ts, i)
    BY <1>2, PushSound, Zenon
  <2>2. (Size(s.ts) + k) + 1 = Size(s.ts) + (k + 1)
    BY <1>3
  <2>. QED
    BY <1>1, <1>2, <2>1, <2>2, Zenon
<1>5. \A i \in 1 .. Size(s.ts) : At(q.ts, i) = At(s.ts, i)
  <2>. TAKE i \in 1 .. Size(s.ts)
  <2>1. i \in 1 .. Size(r.ts)
    BY <1>2, <1>3
  <2>. QED
    BY <1>2, <1>4, <2>1, Zenon
<1>6. /\ q.vals \in Seq(Nat) /\ Len(q.vals) = Len(s.vals) + (k + 1)
      /\ \A i \in 1 .. Len(r.vals) : q.vals[i] = r.vals[i]
      /\ q.vals[Len(r.vals) + 1] = vals[k + 1]
  <2>. DEFINE w == Append(r.vals, vals[k + 1])
  <2>1. /\ w \in Seq(Nat) /\ Len(w) = Len(r.vals) + 1
        /\ \A i \in 1 .. Len(r.vals) : w[i] = r.vals[i]
        /\ w[Len(r.vals) + 1] = vals[k + 1]
    BY <1>2, <1>3, Appending, Zenon
  <2>. HIDE DEF w
  <2>2. q.vals = w
    BY <1>1 DEF w
  <2>3. Len(r.vals) + 1 = Len(s.vals) + (k + 1)
    <3>1. \A x, y \in Nat : (x + y) + 1 = x + (y + 1)
      OBVIOUS
    <3>. QED
      BY <1>2, <1>3, <3>1, Zenon
  <2>. QED
    BY <2>1, <2>2, <2>3, Zenon
<1>7. \A i \in 1 .. Len(s.vals) : q.vals[i] = s.vals[i]
  BY <1>2, <1>3, <1>6
<1>8. ASSUME NEW i \in 1 .. k + 1
      PROVE  q.vals[Len(s.vals) + i] = vals[i]
  <2>1. CASE i = k + 1
    <3>1. Len(s.vals) + i = Len(r.vals) + 1
      <4>1. \A x, y \in Nat : (x + y) + 1 = x + (y + 1)
        OBVIOUS
      <4>. QED
        BY <1>2, <1>3, <2>1, <4>1, Zenon
    <3>. QED
      BY <1>6, <2>1, <3>1
  <2>2. CASE i # k + 1
    <3>1. i \in 1 .. k
      BY <2>2
    <3>2. Len(r.vals) = Len(s.vals) + k
      BY <1>2
    <3>3. Len(s.vals) + i \in 1 .. Len(r.vals)
      BY <1>3, <3>1, <3>2
    <3>. QED
      BY <1>2, <1>6, <3>1, <3>3, Zenon
  <2>. QED
    BY <2>1, <2>2
<1>9. Grown(s, q, vals, k + 1)
  BY <1>1, <1>4, <1>5, <1>6, <1>7, <1>8 DEF Grown
<1>. QED
  BY <1>9 DEF q

LEMMA GrownNot ==
  ASSUME NEW s, Sound(s.ts), IsSeries(s), s.vals \in Seq(Nat), NEW vals
  PROVE  Grown(s, s, vals, 0)
BY SizeNat DEF Grown

AreInts(times, n) == \A i \in 1 .. n : times[i] \in Int

LEMMA AllExact ==
  ASSUME NEW s, Sound(s.ts), s.ts.exactMode, IsSeries(s), s.vals \in Seq(Nat),
         NEW vals \in Seq(Nat), NEW times, AreInts(times, Len(vals))
  PROVE  /\ Grown(s, PushAll(s, vals, times), vals, Len(vals))
         /\ \A i \in 1 .. Len(vals) :
              At(PushAll(s, vals, times).ts, Size(s.ts) + i) = times[i]
<1>1. PICK f : /\ f[0] = s /\ PushAll(s, vals, times) = f[Len(vals)]
               /\ \A i \in 1 .. Len(vals) : f[i] = Push(f[i - 1], vals[i], times[i])
  <2>1. InTurn(s, vals, times)
    BY Pushes
  <2>. QED
    BY <2>1 DEF InTurn
<1>. DEFINE Good(k) == /\ Grown(s, f[k], vals, k)
                       /\ \A i \in 1 .. k : At(f[k].ts, Size(s.ts) + i) = times[i]
            n == Len(vals)
            U == {k \in 0 .. n : ~Good(k)}
<1>2. n \in Nat /\ Size(s.ts) \in Nat
  BY SizeNat
<1>3. Good(0)
  BY <1>1, GrownNot
<1>4. ASSUME NEW k \in Nat, k < n, Good(k)
      PROVE  Good(k + 1)
  <2>1. k + 1 \in 1 .. n /\ (k + 1) - 1 = k
    BY <1>2, <1>4
  <2>2. f[k + 1] = Push(f[k], vals[k + 1], times[k + 1]) /\ times[k + 1] \in Int
    BY <1>1, <2>1 DEF AreInts
  <2>3. Grown(s, f[k + 1], vals, k + 1)
    BY <1>4, <2>2, GrownMore
  <2>4. /\ Sound(f[k].ts) /\ f[k].ts.exactMode /\ Size(f[k].ts) = Size(s.ts) + k
    BY <1>4 DEF Grown
  <2>5. f[k + 1].ts = PushBack(f[k].ts, times[k + 1])
    BY <2>2, PushIs
  <2>6. /\ \A i \in 1 .. Size(f[k].ts) : At(f[k + 1].ts, i) = At(f[k].ts, i)
        /\ At(f[k + 1].ts, Size(f[k].ts) + 1) = times[k + 1]
    <3>1. /\ \A i \in 1 .. Size(f[k].ts) : At(PushBack(f[k].ts, times[k + 1]), i) = At(f[k].ts, i)
          /\ At(PushBack(f[k].ts, times[k + 1]), Size(f[k].ts) + 1) = times[k + 1]
      BY <2>2, <2>4, PushExact, Zenon
    <3>. QED
      BY <2>5, <3>1, Zenon
  <2>7. ASSUME NEW i \in 1 .. k + 1
        PROVE  At(f[k + 1].ts, Size(s.ts) + i) = times[i]
    <3>1. CASE i = k + 1
      <4>1. Size(s.ts) + i = Size(f[k].ts) + 1
        BY <1>2, <2>4, <3>1
      <4>. QED
        BY <2>6, <3>1, <4>1
    <3>2. CASE i # k + 1
      <4>1. i \in 1 .. k /\ Size(s.ts) + i \in 1 .. Size(f[k].ts)
        BY <1>2, <2>4, <3>2
      <4>. QED
        BY <1>4, <2>6, <4>1
    <3>. QED
      BY <3>1, <3>2
  <2>. QED
    BY <2>3, <2>7
<1>. HIDE DEF Good, n
<1>5. U = {}
  <2>1. SUFFICES ASSUME U # {} PROVE FALSE
    OBVIOUS
  <2>2. PICK x \in U : \A y \in U : x <= y
    <3>1. U \in SUBSET Nat
      BY <1>2
    <3>. QED
      BY <2>1, <3>1, LeastOf, Zenon
  <2>3. x \in 0 .. n /\ ~Good(x) /\ x # 0
    BY <1>3
  <2>4. x - 1 \in 0 .. n /\ x - 1 \in Nat /\ x - 1 < n /\ (x - 1) + 1 = x /\ ~(x <= x - 1)
    BY <1>2, <2>3
  <2>5. Good(x - 1)
    BY <2>2, <2>4
  <2>6. Good((x - 1) + 1)
    BY <1>4, <2>4, <2>5
  <2>. QED
    BY <2>3, <2>4, <2>6
<1>6. Good(n)
  BY <1>2, <1>5
<1>. QED
  BY <1>1, <1>6 DEF Good, n

\* The rounded copy r of b's samples from q+1 on, of which k are pushed.
Followed(s, r, b, q, k) ==
  /\ Spaced(r.ts) /\ Fits(r.ts, b, q + k + 1)
  /\ \A i \in 1 .. k :
       /\ 2 * (At(r.ts, Size(s.ts) + i) - At(b, q + i)) \in -Resolution .. Resolution
       /\ q + i + 1 <= Size(b) =>
            2 * (At(b, q + i + 1) - At(r.ts, Size(s.ts) + i)) >= Resolution

LEMMA AllRounded ==
  ASSUME NEW s, Sound(s.ts), ~s.ts.exactMode, IsSeries(s), s.vals \in Seq(Nat), Spaced(s.ts),
         NEW b, Sound(b), ~b.exactMode, Spaced(b), NEW q \in Nat, Fits(s.ts, b, q + 1),
         NEW vals \in Seq(Nat), q + Len(vals) = Size(b),
         NEW times, \A i \in 1 .. Len(vals) : times[i] = At(b, q + i)
  PROVE  /\ Grown(s, PushAll(s, vals, times), vals, Len(vals))
         /\ Followed(s, PushAll(s, vals, times), b, q, Len(vals))
<1>1. PICK f : /\ f[0] = s /\ PushAll(s, vals, times) = f[Len(vals)]
               /\ \A i \in 1 .. Len(vals) : f[i] = Push(f[i - 1], vals[i], times[i])
  <2>1. InTurn(s, vals, times)
    BY Pushes
  <2>. QED
    BY <2>1 DEF InTurn
<1>. DEFINE Good(k) == Grown(s, f[k], vals, k) /\ Followed(s, f[k], b, q, k)
            n == Len(vals)
            U == {k \in 0 .. n : ~Good(k)}
<1>2. n \in Nat /\ Size(s.ts) \in Nat
  BY SizeNat
<1>3. Good(0)
  <2>1. q + 0 + 1 = q + 1
    OBVIOUS
  <2>2. Followed(s, s, b, q, 0)
    BY <2>1 DEF Followed
  <2>. QED
    BY <1>1, <2>2, GrownNot
<1>4. ASSUME NEW k \in Nat, k < n, Good(k)
      PROVE  Good(k + 1)
  <2>1. /\ k + 1 \in 1 .. n /\ (k + 1) - 1 = k /\ q + (k + 1) \in 1 .. Size(b)
        /\ q + k + 1 = q + (k + 1) /\ q + (k + 1) + 1 = q + k + 1 + 1
    BY <1>2, <1>4
  <2>. DEFINE j == q + (k + 1)
              t == f[k].ts
              c == f[k + 1].ts
  <2>2. f[k + 1] = Push(f[k], vals[k + 1], At(b, j)) /\ At(b, j) \in Int
    BY <1>1, <2>1, AtIs
  <2>3. Grown(s, f[k + 1], vals, k + 1)
    BY <1>4, <2>2, GrownMore
  <2>4. Sound(t) /\ ~t.exactMode /\ Size(t) = Size(s.ts) + k
    BY <1>4 DEF Grown
  <2>5. c = PushBack(t, At(b, j))
    BY <2>2, PushIs
  <2>6. Spaced(t) /\ Fits(t, b, j)
    BY <1>4, <2>1 DEF Followed
  <2>7. /\ Spaced(c) /\ Fits(c, b, j + 1)
        /\ 2 * (At(c, Size(t) + 1) - At(b, j)) \in -Resolution .. Resolution
    BY <2>1, <2>4, <2>5, <2>6, PushFits
  <2>8. /\ \A i \in 1 .. Size(t) : At(c, i) = At(t, i)
        /\ Size(c) = Size(t) + 1
    BY <2>2, <2>4, <2>5, PushSound
  <2>9. j + 1 <= Size(b) => 2 * (At(b, j + 1) - At(c, Size(t) + 1)) >= Resolution
    BY <1>2, <2>4, <2>7, <2>8 DEF Fits
  <2>10. ASSUME NEW i \in 1 .. k + 1
         PROVE  /\ 2 * (At(c, Size(s.ts) + i) - At(b, q + i)) \in -Resolution .. Resolution
                /\ q + i + 1 <= Size(b) =>
                     2 * (At(b, q + i + 1) - At(c, Size(s.ts) + i)) >= Resolution
    <3>1. CASE i = k + 1
      <4>1. Size(s.ts) + i = Size(t) + 1 /\ q + i = j /\ q + i + 1 = j + 1
        BY <1>2, <2>4, <3>1
      <4>. HIDE DEF j, c, t
      <4>. QED
        BY <2>7, <2>9, <4>1
    <3>2. CASE i # k + 1
      <4>1. i \in 1 .. k /\ Size(s.ts) + i \in 1 .. Size(t)
        BY <1>2, <2>4, <3>2
      <4>2. At(c, Size(s.ts) + i) = At(t, Size(s.ts) + i)
        BY <2>8, <4>1
      <4>. QED
        BY <1>4, <4>1, <4>2 DEF Followed
    <3>. QED
      BY <3>1, <3>2
  <2>11. Followed(s, f[k + 1], b, q, k + 1)
    BY <2>1, <2>7, <2>10 DEF Followed
  <2>. QED
    BY <2>3, <2>11
<1>. HIDE DEF Good, n
<1>5. U = {}
  <2>1. SUFFICES ASSUME U # {} PROVE FALSE
    OBVIOUS
  <2>2. PICK x \in U : \A y \in U : x <= y
    <3>1. U \in SUBSET Nat
      BY <1>2
    <3>. QED
      BY <2>1, <3>1, LeastOf, Zenon
  <2>3. x \in 0 .. n /\ ~Good(x) /\ x # 0
    BY <1>3
  <2>4. x - 1 \in 0 .. n /\ x - 1 \in Nat /\ x - 1 < n /\ (x - 1) + 1 = x /\ ~(x <= x - 1)
    BY <1>2, <2>3
  <2>5. Good(x - 1)
    BY <2>2, <2>4
  <2>6. Good((x - 1) + 1)
    BY <1>4, <2>4, <2>5
  <2>. QED
    BY <2>3, <2>4, <2>6
<1>6. Good(n)
  BY <1>2, <1>5
<1>. QED
  BY <1>1, <1>6 DEF Good, n

-----------------------------------------------------------------------------
(* The sampler takes a sample.                                             *)

\* The time t of the next sample of b, new being the newest.
Follows(b, new, t) ==
  /\ t \in Int /\ new <= t
  /\ Size(b) # 0 =>
       At(b, Size(b)) < t /\ (At(b, Size(b)) = new => new + Resolution <= t)

LEMMA StampFollows ==
  ASSUME NEW b, Sound(b), NEW new \in Int, Size(b) # 0 => At(b, Size(b)) <= new, NEW d \in Steps
  PROVE  Follows(b, new, Stamp(b, new + d))
<1>1. /\ d \in Nat /\ (d = 0 \/ d >= Resolution) /\ Bump \in Nat /\ Bump >= Resolution
      /\ Resolution \in Nat \ {0}
  BY MonitorAssumption, BlockNat
<1>2. Size(b) # 0 => At(b, Size(b)) \in Int
  <2>1. Size(b) # 0 => Size(b) \in 1 .. Size(b)
    BY SizeNat
  <2>. QED
    BY <2>1, AtIs
<1>3. CASE Size(b) # 0 /\ new + d <= At(b, Size(b))
  <2>1. Stamp(b, new + d) = At(b, Size(b)) + Bump
    BY <1>3 DEF Stamp
  <2>. QED
    BY <1>1, <1>2, <1>3, <2>1 DEF Follows
<1>4. CASE ~(Size(b) # 0 /\ new + d <= At(b, Size(b)))
  <2>1. Stamp(b, new + d) = new + d
    BY <1>4 DEF Stamp
  <2>. QED
    BY <1>1, <1>2, <1>4, <2>1 DEF Follows
<1>. QED
  BY <1>3, <1>4

\* The GUI's samples are at most half of what a float resolves after the
\* writer's newest, if that is where the newest one is.
LEMMA GuiBehind ==
  ASSUME Counts, Reader, NEW b, NEW v, NEW p, NEW n, NEW new, Agree(b, v, p, n, new), Size(b) # 0,
         NEW i \in 1 .. Size(read.ts)
  PROVE  /\ At(read.ts, i) \in Int /\ At(b, Size(b)) \in Int
         /\ 2 * (At(read.ts, i) - At(b, Size(b))) <= Resolution
<1>1. /\ Sound(read.ts) /\ Sound(b) /\ Rising(read.vals, read.ts) /\ p \in Int
      /\ p <= Size(b) /\ p <= Size(read.ts) /\ read.vals[i] <= shown /\ read.vals[i] \in Nat
      /\ Len(v) = Size(b) /\ v \in Seq(Nat) /\ shown \in Nat
  BY SMTT(30) DEF Reader, Agree, Writer, Published, Counts
<1>2. Size(b) \in Nat /\ Size(read.ts) \in Nat /\ Size(b) \in 1 .. Size(b)
  BY <1>1, SizeNat
<1>3. At(read.ts, i) \in Int /\ At(b, Size(b)) \in Int /\ v[Size(b)] \in Nat
  <2>1. At(read.ts, i) \in Int /\ At(b, Size(b)) \in Int
    BY <1>1, <1>2, AtIs, Zenon
  <2>. QED
    BY <1>1, <1>2, <2>1
<1>4. CASE read.vals[i] < v[Size(b)]
  <2>1. At(read.ts, i) < At(b, Size(b))
    BY <1>2, <1>4 DEF Agree, Later
  <2>. QED
    BY <1>3, <2>1, BlockNat
<1>5. CASE ~(read.vals[i] < v[Size(b)])
  <2>1. v[Size(b)] <= shown
    BY <1>1, <1>3, <1>5
  <2>2. p = Size(b)
    <3>1. Size(b) <= p
      BY <1>2, <2>1 DEF Agree, Published
    <3>. QED
      BY <1>1, <1>2, <3>1
  <2>3. 2 * (At(read.ts, Size(read.ts)) - At(b, Size(b))) \in -Resolution .. Resolution
    <3>1. Size(b) \in 1 .. p /\ Size(read.ts) - p + Size(b) = Size(read.ts)
      BY <1>2, <2>2
    <3>. QED
      BY <3>1 DEF Agree, Published
  <2>4. At(read.ts, i) <= At(read.ts, Size(read.ts)) /\ At(read.ts, Size(read.ts)) \in Int
    <3>1. Size(read.ts) \in 1 .. Size(read.ts)
      BY <1>2
    <3>2. At(read.ts, Size(read.ts)) \in Int
      BY <1>1, <3>1, AtIs
    <3>3. i = Size(read.ts) \/ Size(read.ts) \in i + 1 .. Size(read.ts)
      BY <1>2
    <3>. QED
      BY <1>1, <1>3, <3>2, <3>3 DEF Rising
  <2>. QED
    BY <1>3, <2>3, <2>4, BlockNat
<1>. QED
  BY <1>3, <1>4, <1>5

\* The writer with one sample more.
LEMMA Takes ==
  ASSUME Counts, Reader, NEW b, NEW v, NEW p, NEW n \in Nat, taken <= n, NEW new,
         Agree(b, v, p, n, new), NEW t, Follows(b, new, t)
  PROVE  /\ Agree(PushBack(b, t), Append(v, n + 1), p, n + 1, At(PushBack(b, t), Size(PushBack(b, t))))
         /\ Size(PushBack(b, t)) = Size(b) + 1
<1>. DEFINE c == PushBack(b, t)
            w == Append(v, n + 1)
            x == At(c, Size(b) + 1)
<1>1. /\ Sound(b) /\ v \in Seq(Nat) /\ Len(v) = Size(b) /\ b.exactMode = preserve
      /\ Rising(v, b) /\ Spaced(b) /\ new \in Int
      /\ \A j \in 1 .. Size(b) : v[j] <= n
      /\ Size(b) # 0 => At(b, Size(b)) <= new /\ (~preserve => At(b, Size(b)) = new)
      /\ t \in Int /\ new <= t
      /\ Size(b) # 0 => At(b, Size(b)) < t /\ (At(b, Size(b)) = new => new + Resolution <= t)
  BY DEF Agree, Writer, Follows
<1>2. Size(b) \in Nat /\ Size(read.ts) \in Nat /\ preserve \in BOOLEAN
  BY <1>1, SizeNat DEF Reader, Counts
<1>3. \A i \in 1 .. Size(b) : At(b, i) \in Int
  BY <1>1, AtIs
<1>4. /\ Sound(c) /\ c.exactMode = preserve /\ Size(c) = Size(b) + 1
      /\ \A i \in 1 .. Size(b) : At(c, i) = At(b, i)
  <2>1. /\ Sound(c) /\ c.exactMode = b.exactMode /\ Size(c) = Size(b) + 1
        /\ \A i \in 1 .. Size(b) : At(c, i) = At(b, i)
    BY <1>1, PushSound, Zenon
  <2>. QED
    BY <1>1, <2>1
<1>5. /\ w \in Seq(Nat) /\ Len(w) = Size(b) + 1 /\ w[Size(b) + 1] = n + 1
      /\ \A i \in 1 .. Size(b) : w[i] = v[i] /\ v[i] \in Nat
  BY <1>1, <1>2
<1>6. /\ x \in Int /\ (preserve => x = t)
      /\ ~preserve /\ Size(b) # 0 => At(b, Size(b)) + Resolution <= x
  <2>1. CASE preserve
    BY <1>1, <2>1, PushExact
  <2>2. CASE ~preserve
    <3>1. x \in Int /\ (Size(b) # 0 /\ t - At(b, Size(b)) >= Resolution => x - At(b, Size(b)) >= Resolution)
      BY <1>1, <2>2, PushNear
    <3>2. Size(b) # 0 => t - At(b, Size(b)) >= Resolution /\ At(b, Size(b)) \in Int
      BY <1>1, <1>2, <1>3, <2>2, BlockNat
    <3>. QED
      BY <2>2, <3>1, <3>2, BlockNat
  <2>. QED
    BY <1>2, <2>1, <2>2
<1>7. ASSUME NEW i \in 1 .. Size(b)
      PROVE  v[i] < n + 1 /\ At(b, i) < x
  <2>1. v[i] < n + 1
    BY <1>1, <1>5
  <2>2. At(b, i) <= At(b, Size(b))
    <3>1. i = Size(b) \/ Size(b) \in i + 1 .. Size(b)
      BY <1>2
    <3>. QED
      BY <1>1, <1>2, <1>3, <3>1 DEF Rising
  <2>3. Size(b) # 0 /\ Size(b) \in 1 .. Size(b)
    BY <1>2
  <2>. QED
    BY <1>1, <1>2, <1>3, <1>6, <2>1, <2>2, <2>3, BlockNat, SMTT(30)
<1>. HIDE DEF c, w, x
<1>8. At(c, Size(c)) = x
  BY <1>4 DEF x
<1>9. \A j \in 1 .. Size(c) : j \in 1 .. Size(b) \/ j = Size(b) + 1
  BY <1>2, <1>4
<1>10. Writer(c, w, n + 1, x)
  <2>1. ASSUME NEW i \in 1 .. Size(c), NEW j \in i + 1 .. Size(c)
        PROVE  w[i] < w[j] /\ At(c, i) < At(c, j)
    <3>1. i \in 1 .. Size(b) /\ (j \in i + 1 .. Size(b) \/ j = Size(b) + 1) /\ (j \in 1 .. Size(b) \/ j = Size(b) + 1)
      BY <1>2, <1>4
    <3>2. CASE j = Size(b) + 1
      BY <1>4, <1>5, <1>7, <1>8, <3>1, <3>2
    <3>3. CASE j \in i + 1 .. Size(b)
      BY <1>1, <1>2, <1>4, <1>5, <3>1, <3>3 DEF Rising
    <3>. QED
      BY <3>1, <3>2, <3>3
  <2>2. Spaced(c)
    <3>. SUFFICES ASSUME ~preserve, NEW i \in 2 .. Size(c)
                  PROVE  2 * (At(c, i) - At(c, i - 1)) >= Resolution
      BY <1>4 DEF Spaced
    <3>1. CASE i = Size(c)
      <4>1. i - 1 = Size(b) /\ Size(b) \in 1 .. Size(b) /\ Size(b) # 0
        BY <1>2, <1>4, <3>1
      <4>. QED
        BY <1>3, <1>4, <1>6, <1>8, <3>1, <4>1, BlockNat
    <3>2. CASE i # Size(c)
      <4>1. i \in 2 .. Size(b) /\ i \in 1 .. Size(b) /\ i - 1 \in 1 .. Size(b)
        BY <1>2, <1>4, <3>2
      <4>2. 2 * (At(b, i) - At(b, i - 1)) >= Resolution
        BY <1>1, <4>1 DEF Spaced
      <4>. QED
        BY <1>4, <4>1, <4>2
    <3>. QED
      BY <3>1, <3>2
  <2>3. \A j \in 1 .. Size(c) : w[j] <= n + 1
    BY <1>5, <1>7, <1>9
  <2>. QED
    BY <1>4, <1>5, <1>6, <1>8, <2>1, <2>2, <2>3 DEF Writer, Rising
<1>11. shown < n + 1 /\ shown \in Nat
  BY DEF Counts
<1>12. Published(c, w, p)
  <2>1. /\ p \in Int /\ p <= Size(b) /\ p <= Size(read.ts)
        /\ \A j \in 1 .. Size(b) : v[j] <= shown <=> j <= p
        /\ \A j \in 1 .. p :
             /\ v[j] = read.vals[Size(read.ts) - p + j]
             /\ 2 * (At(read.ts, Size(read.ts) - p + j) - At(b, j)) \in -Resolution .. Resolution
    BY DEF Agree, Published
  <2>2. p <= Size(c) /\ ~(Size(b) + 1 <= p)
    BY <1>2, <1>4, <2>1
  <2>3. \A j \in 1 .. Size(c) : w[j] <= shown <=> j <= p
    BY <1>5, <1>9, <1>11, <2>1, <2>2
  <2>4. \A j \in 1 .. p : j \in 1 .. Size(b)
    BY <1>2, <2>1
  <2>5. \A j \in 1 .. p :
          /\ w[j] = read.vals[Size(read.ts) - p + j]
          /\ 2 * (At(read.ts, Size(read.ts) - p + j) - At(c, j)) \in -Resolution .. Resolution
    BY <1>4, <1>5, <2>1, <2>4
  <2>. QED
    BY <2>1, <2>2, <2>3, <2>5 DEF Published
<1>13. ASSUME NEW i \in 1 .. Size(read.ts)
       PROVE  At(read.ts, i) \in Int /\ At(read.ts, i) < x
              /\ (~preserve => 2 * (x - At(read.ts, i)) >= Resolution)
  <2>1. Sound(read.ts) /\ Rising(read.vals, read.ts)
    BY DEF Reader
  <2>2. At(read.ts, i) \in Int
    BY <2>1, AtIs
  <2>3. CASE Size(b) # 0 /\ (~preserve \/ At(b, Size(b)) = new)
    <3>1. At(b, Size(b)) \in Int /\ 2 * (At(read.ts, i) - At(b, Size(b))) <= Resolution
      BY <2>3, GuiBehind
    <3>2. At(b, Size(b)) + Resolution <= x
      BY <1>1, <1>2, <1>6, <2>3
    <3>. QED
      BY <1>6, <2>2, <3>1, <3>2, BlockNat
  <2>4. CASE preserve /\ ~(Size(b) # 0 /\ At(b, Size(b)) = new)
    <3>1. At(read.ts, Size(read.ts)) < new
      BY <1>2, <2>4 DEF Agree, Newest
    <3>2. At(read.ts, i) <= At(read.ts, Size(read.ts)) /\ At(read.ts, Size(read.ts)) \in Int
      <4>1. Size(read.ts) \in 1 .. Size(read.ts)
        BY <1>2
      <4>2. At(read.ts, Size(read.ts)) \in Int
        BY <2>1, <4>1, AtIs
      <4>3. i = Size(read.ts) \/ Size(read.ts) \in i + 1 .. Size(read.ts)
        BY <1>2
      <4>. QED
        BY <2>1, <2>2, <4>2, <4>3 DEF Rising
    <3>. QED
      BY <1>1, <1>6, <2>2, <2>4, <3>1, <3>2
  <2>5. ~preserve => Size(b) # 0
    BY <1>2 DEF Agree
  <2>. QED
    BY <1>2, <2>3, <2>4, <2>5
<1>14. Later(c, w)
  <2>. SUFFICES ASSUME NEW i \in 1 .. Size(read.ts), NEW j \in 1 .. Size(c), read.vals[i] < w[j]
                PROVE  /\ At(read.ts, i) < At(c, j)
                       /\ ~preserve => 2 * (At(c, j) - At(read.ts, i)) >= Resolution
    BY DEF Later
  <2>1. CASE j = Size(b) + 1
    BY <1>4, <1>8, <1>13, <2>1
  <2>2. CASE j \in 1 .. Size(b)
    <3>1. read.vals[i] < v[j] /\ At(c, j) = At(b, j)
      BY <1>4, <1>5, <2>2
    <3>. QED
      BY <2>2, <3>1 DEF Agree, Later
  <2>. QED
    BY <1>9, <2>1, <2>2
<1>15. ~preserve /\ p >= 0 => InStep(read.ts, c, c.frontAbs + p)
  <2>. SUFFICES ASSUME ~preserve, p >= 0 PROVE InStep(read.ts, c, c.frontAbs + p)
    OBVIOUS
  <2>1. InStep(read.ts, b, b.frontAbs + p)
    BY DEF Agree
  <2>2. /\ c.frontAbs = b.frontAbs
        /\ \A q \in Nat : Anchored(b, q) => AnchorAt(c, q) = AnchorAt(b, q)
    BY <1>1, PushRounded DEF c
  <2>3. /\ b.frontAbs \in Nat /\ p \in Nat /\ p <= Size(b) /\ b.frontAbs + p \in Nat
        /\ End(b) = b.frontAbs + Size(b)
    BY <1>1, Fields DEF Agree, Published, Sound, Size, End
  <2>4. (b.frontAbs + p) % Block # 0 => Anchored(b, b.frontAbs + p)
    BY <1>2, <2>3 DEF Anchored
  <2>. QED
    BY <2>1, <2>2, <2>3, <2>4 DEF InStep
<1>16. \A j \in 1 .. Size(c) : w[j] \notin gone
  <2>1. n + 1 \notin gone
    BY DEF Counts
  <2>. QED
    BY <1>5, <1>9, <2>1 DEF Agree
<1>17. Newest(c, x) /\ Size(c) # 0
  BY <1>2, <1>4, <1>8 DEF Newest
<1>18. Agree(c, w, p, n + 1, At(c, Size(c)))
  BY <1>8, <1>10, <1>12, <1>14, <1>15, <1>16, <1>17 DEF Agree
<1>. QED
  BY <1>4, <1>18 DEF c, w

\* The writer without its oldest samples.
LEMMA TrimmedIs ==
  ASSUME NEW b, Sound(b), Size(b) # 0, NEW old, NEW h
  PROVE  \E k \in Nat : k < Size(b) /\ Trimmed(b, old, h) = Popped(b, k)
<1>. DEFINE K == {i \in 1 .. Size(b) : At(b, i) < old}
            m == Least(Size(b) - MinKeep, Cardinality(K))
            k == IF h = 0 THEN 0 ELSE Most(m, 0)
<1>1. Size(b) \in Nat /\ MinKeep \in Nat \ {0}
  BY SizeNat, MonitorAssumption
<1>2. Cardinality(K) \in Nat
  <2>1. IsFiniteSet(1 .. Size(b))
    BY <1>1, FS_Interval
  <2>2. IsFiniteSet(K)
    BY <2>1, FS_Subset
  <2>. QED
    BY <2>2, FS_CardinalityType
<1>. HIDE DEF K
<1>3. m \in Int /\ m < Size(b)
  BY <1>1, <1>2 DEF Least
<1>. HIDE DEF m
<1>4. k \in Nat /\ k < Size(b)
  BY <1>1, <1>3 DEF Most
<1>5. Trimmed(b, old, h) = Popped(b, k)
  BY DEF Trimmed, K, m
<1>. QED
  BY <1>4, <1>5

LEMMA Trims ==
  ASSUME Counts, Reader, NEW b, NEW v, NEW p, NEW n, NEW new, Agree(b, v, p, n, new),
         NEW k \in Nat, k < Size(b)
  PROVE  /\ Agree(Popped(b, k), SubSeq(v, k + 1, Len(v)), p - k, n, new)
         /\ Size(Popped(b, k)) = Size(b) - k
<1>. DEFINE c == Popped(b, k)
            w == SubSeq(v, k + 1, Len(v))
<1>1. /\ Sound(b) /\ v \in Seq(Nat) /\ Len(v) = Size(b) /\ b.exactMode = preserve
      /\ Rising(v, b) /\ Spaced(b) /\ new \in Int
      /\ \A j \in 1 .. Size(b) : v[j] <= n
      /\ Size(b) # 0 => At(b, Size(b)) <= new /\ (~preserve => At(b, Size(b)) = new)
  BY DEF Agree, Writer
<1>2. Size(b) \in Nat /\ Size(read.ts) \in Nat /\ preserve \in BOOLEAN
  BY <1>1, SizeNat DEF Reader, Counts
<1>3. Dropped(b, c, k)
  BY <1>1, PoppedIs
<1>. HIDE DEF c
<1>4. /\ Sound(c) /\ c.exactMode = preserve /\ Size(c) = Size(b) - k
      /\ \A i \in 1 .. Size(c) : At(c, i) = At(b, i + k)
  BY <1>1, <1>3 DEF Dropped
<1>5. /\ w \in Seq(Nat) /\ Len(w) = Size(c)
      /\ \A i \in 1 .. Size(c) : w[i] = v[i + k]
  BY <1>1, <1>2, <1>4
<1>. HIDE DEF w
<1>6. \A i \in 1 .. Size(c) : i + k \in 1 .. Size(b)
  BY <1>2, <1>4
<1>7. Size(c) # 0 /\ Size(c) + k = Size(b) /\ Size(c) \in 1 .. Size(c) /\ Size(b) # 0
  BY <1>2, <1>4
<1>8. Writer(c, w, n, new)
  <2>1. Rising(w, c)
    <3>. SUFFICES ASSUME NEW i \in 1 .. Size(c), NEW j \in i + 1 .. Size(c)
                  PROVE  w[i] < w[j] /\ At(c, i) < At(c, j)
      BY DEF Rising
    <3>1. j \in 1 .. Size(c) /\ j + k \in (i + k) + 1 .. Size(b) /\ i + k \in 1 .. Size(b)
      BY <1>2, <1>4
    <3>2. v[i + k] < v[j + k] /\ At(b, i + k) < At(b, j + k)
      BY <1>1, <3>1 DEF Rising
    <3>. QED
      BY <1>4, <1>5, <3>1, <3>2
  <2>2. Spaced(c)
    <3>. SUFFICES ASSUME ~preserve, NEW i \in 2 .. Size(c)
                  PROVE  2 * (At(c, i) - At(c, i - 1)) >= Resolution
      BY <1>4 DEF Spaced
    <3>1. /\ i \in 1 .. Size(c) /\ i - 1 \in 1 .. Size(c)
          /\ i + k \in 2 .. Size(b) /\ (i + k) - 1 = (i - 1) + k
      BY <1>2, <1>4
    <3>2. 2 * (At(b, i + k) - At(b, (i + k) - 1)) >= Resolution
      BY <1>1, <3>1 DEF Spaced
    <3>. QED
      BY <1>4, <3>1, <3>2
  <2>3. \A j \in 1 .. Size(c) : w[j] <= n
    BY <1>1, <1>5, <1>6
  <2>4. At(c, Size(c)) = At(b, Size(b))
    BY <1>4, <1>7, Zenon
  <2>. QED
    BY <1>1, <1>4, <1>5, <1>7, <2>1, <2>2, <2>3, <2>4 DEF Writer
<1>9. Published(c, w, p - k)
  <2>1. /\ p \in Int /\ p <= Size(b) /\ p <= Size(read.ts)
        /\ \A j \in 1 .. Size(b) : v[j] <= shown <=> j <= p
        /\ \A j \in 1 .. p :
             /\ v[j] = read.vals[Size(read.ts) - p + j]
             /\ 2 * (At(read.ts, Size(read.ts) - p + j) - At(b, j)) \in -Resolution .. Resolution
    BY DEF Agree, Published
  <2>2. p - k \in Int /\ p - k <= Size(c) /\ p - k <= Size(read.ts)
    BY <1>2, <1>4, <2>1
  <2>3. \A j \in 1 .. Size(c) : w[j] <= shown <=> j <= p - k
    <3>. TAKE j \in 1 .. Size(c)
    <3>1. j + k <= p <=> j <= p - k
      BY <2>1
    <3>. QED
      BY <1>5, <1>6, <2>1, <3>1
  <2>4. ASSUME NEW j \in 1 .. p - k
        PROVE  /\ w[j] = read.vals[Size(read.ts) - (p - k) + j]
               /\ 2 * (At(read.ts, Size(read.ts) - (p - k) + j) - At(c, j)) \in -Resolution .. Resolution
    <3>1. /\ j \in 1 .. Size(c) /\ j + k \in 1 .. p
          /\ Size(read.ts) - (p - k) + j = Size(read.ts) - p + (j + k)
      BY <1>2, <1>4, <2>1
    <3>2. /\ v[j + k] = read.vals[Size(read.ts) - p + (j + k)]
          /\ 2 * (At(read.ts, Size(read.ts) - p + (j + k)) - At(b, j + k)) \in -Resolution .. Resolution
      BY <2>1, <3>1
    <3>. QED
      BY <1>4, <1>5, <3>1, <3>2
  <2>. QED
    BY <2>2, <2>3, <2>4 DEF Published
<1>10. Later(c, w)
  <2>. SUFFICES ASSUME NEW i \in 1 .. Size(read.ts), NEW j \in 1 .. Size(c), read.vals[i] < w[j]
                PROVE  /\ At(read.ts, i) < At(c, j)
                       /\ ~preserve => 2 * (At(c, j) - At(read.ts, i)) >= Resolution
    BY DEF Later
  <2>1. j + k \in 1 .. Size(b) /\ w[j] = v[j + k] /\ At(c, j) = At(b, j + k)
    BY <1>4, <1>5, <1>6
  <2>. QED
    BY <2>1 DEF Agree, Later
<1>11. Newest(c, new)
  BY <1>4, <1>7 DEF Agree, Newest
<1>12. ~preserve /\ p - k >= 0 => InStep(read.ts, c, c.frontAbs + (p - k))
  <2>. SUFFICES ASSUME ~preserve, p - k >= 0 PROVE InStep(read.ts, c, c.frontAbs + (p - k))
    OBVIOUS
  <2>1. /\ c.frontAbs = b.frontAbs + k /\ End(c) = End(b)
        /\ \A q \in Nat : Anchored(c, q) => AnchorAt(c, q) = AnchorAt(b, q)
    BY <1>1, <1>3 DEF Dropped
  <2>2. /\ b.frontAbs \in Nat /\ p \in Nat /\ p <= Size(b) /\ End(b) = b.frontAbs + Size(b)
    BY <1>1, Fields DEF Agree, Published, Sound, Size, End
  <2>3. InStep(read.ts, b, b.frontAbs + p)
    BY <2>2 DEF Agree
  <2>4. c.frontAbs + (p - k) = b.frontAbs + p /\ b.frontAbs + p \in c.frontAbs .. End(c) /\ b.frontAbs + p \in Nat
    BY <1>2, <2>1, <2>2
  <2>5. (b.frontAbs + p) % Block # 0 => AnchorAt(c, b.frontAbs + p) = AnchorAt(b, b.frontAbs + p)
    BY <2>1, <2>4 DEF Anchored
  <2>. QED
    BY <2>3, <2>4, <2>5 DEF InStep
<1>13. \A j \in 1 .. Size(c) : w[j] \notin gone
  BY <1>5, <1>6 DEF Agree
<1>. QED
  BY <1>4, <1>7, <1>8, <1>9, <1>10, <1>11, <1>12, <1>13 DEF Agree, c, w

LEMMA AppendTwo ==
  ASSUME NEW v \in Seq(Nat), NEW n \in Nat
  PROVE  Append(Append(v, n + 1), (n + 1) + 1) = v \o <<n + 1, n + 2>>
<1>. DEFINE x == Append(Append(v, n + 1), (n + 1) + 1)
            y == v \o <<n + 1, n + 2>>
<1>1. x \in Seq(Nat) /\ y \in Seq(Nat) /\ Len(x) = Len(y)
  OBVIOUS
<1>2. \A i \in 1 .. Len(x) : x[i] = y[i]
  OBVIOUS
<1>. HIDE DEF x, y
<1>3. x = y
  BY <1>1, <1>2, SeqEqual
<1>. QED
  BY <1>3 DEF x, y

LEMMA Kept ==
  ASSUME NEW b, NEW v, NEW p, NEW n, NEW new, Agree(b, v, p, n, new), Reader,
         UNCHANGED <<read, preserve, shown, gone>>,
         rTs' = b, rVals' = v, publishedEnd' - StoredStart' = p, taken' = n, newest' = new
  PROVE  /\ Agree(rTs, rVals, publishedEnd - StoredStart, taken, newest)'
         /\ Reader'
<1>1. Writer(rTs, rVals, taken, newest)'
  BY DEF Agree, Writer
<1>2. Published(rTs, rVals, publishedEnd - StoredStart)'
  BY DEF Agree, Published
<1>3. Later(rTs, rVals)' /\ Newest(rTs, newest)' /\ Reader'
  BY DEF Agree, Later, Newest, Reader
<1>. QED
  BY <1>1, <1>2, <1>3 DEF Agree

LEMMA WriterStep ==
  ASSUME IInv, NEW b, NEW v, NEW n \in Nat, NEW new, NEW q \in Nat,
         Agree(b, v, publishedEnd - StoredStart, n, new), Size(b) = Size(rTs) + q, Size(b) # 0,
         NEW old, NEW h, Trim(b, v, old, h),
         sampleCount' = sampleCount + q, taken <= n, taken' = n, newest' = new,
         UNCHANGED <<read, publishedEnd, preserve, shown, gone>>
  PROVE  IInv'
<1>1. Counts /\ Reader /\ Sound(b) /\ Sound(rTs) /\ v \in Seq(Nat) /\ Len(v) = Size(b)
  BY DEF IInv, Agree, Writer
<1>2. PICK k \in Nat : k < Size(b) /\ Trimmed(b, old, h) = Popped(b, k)
  BY <1>1, TrimmedIs
<1>. DEFINE p == publishedEnd - StoredStart
            c == Popped(b, k)
            w == SubSeq(v, k + 1, Len(v))
<1>3. Agree(c, w, p - k, n, new) /\ Size(c) = Size(b) - k
  BY <1>1, <1>2, Trims
<1>4. Size(b) \in Nat /\ Size(rTs) \in Nat
  BY <1>1, SizeNat
<1>5. rTs' = c /\ rVals' = w
  <2>1. rTs' = c
    BY <1>2 DEF Trim
  <2>2. Len(v) - Size(rTs') + 1 = k + 1
    BY <1>1, <1>2, <1>3, <1>4, <2>1
  <2>. QED
    BY <2>1, <2>2 DEF Trim
<1>6. publishedEnd \in Nat /\ sampleCount \in Nat
  BY <1>1 DEF Counts
<1>7. publishedEnd' - StoredStart' = p - k
  BY <1>3, <1>4, <1>5, <1>6, SMTT(30) DEF StoredStart
<1>8. Agree(rTs, rVals, publishedEnd - StoredStart, taken, newest)' /\ Reader'
  BY <1>1, <1>3, <1>5, <1>7, Kept
<1>9. Counts'
  <2>1. Size(rTs)' <= sampleCount' /\ publishedEnd' <= sampleCount' /\ shown' <= taken' /\ {sampleCount', publishedEnd', taken', shown'} \subseteq Nat
    <3>1. /\ Size(c) <= sampleCount + q /\ publishedEnd <= sampleCount + q /\ shown <= n
          /\ sampleCount + q \in Nat /\ shown \in Nat
      BY <1>1, <1>3, <1>4, SMTT(30) DEF Counts
    <3>. QED
      BY <1>5, <1>6, <3>1
  <2>2. gone' \subseteq 0 .. taken'
    BY <1>1 DEF Counts
  <2>. QED
    BY <1>1, <2>1, <2>2 DEF Counts
<1>. QED
  BY <1>8, <1>9 DEF IInv

LEMMA StepSetRVal == ASSUME IInv, NEW d \in Steps, NEW h \in Histories, SetRVal(d, h) PROVE IInv'
<1>. DEFINE p == publishedEnd - StoredStart
            ts == Stamp(rTs, newest + d)
            b  == PushBack(rTs, ts)
<1>1. Counts /\ Reader /\ Agree(rTs, rVals, p, taken, newest) /\ taken \in Nat /\ Sound(rTs)
  BY DEF IInv, Counts, Agree, Writer
<1>2. Follows(rTs, newest, ts)
  BY <1>1, StampFollows DEF Agree, Writer
<1>3. /\ Agree(b, Append(rVals, taken + 1), p, taken + 1, At(b, Size(b)))
      /\ Size(b) = Size(rTs) + 1
  BY <1>1, <1>2, Takes
<1>. HIDE DEF b, ts
<1>4. /\ Trim(b, Append(rVals, taken + 1), ts - h, h)
      /\ sampleCount' = sampleCount + 1 /\ taken' = taken + 1 /\ newest' = At(b, Size(b))
      /\ UNCHANGED <<read, publishedEnd, preserve, shown, gone>>
  BY DEF SetRVal, b, ts
<1>5. Size(b) # 0 /\ taken <= taken + 1 /\ taken + 1 \in Nat
  BY <1>1, <1>3, SizeNat
<1>. QED
  BY <1>3, <1>4, <1>5, WriterStep

LEMMA StepPushBatch ==
  ASSUME IInv, NEW d \in Steps, NEW e \in Steps, NEW h \in Histories, PushBatch(d, e, h)
  PROVE  IInv'
<1>. DEFINE p == publishedEnd - StoredStart
            b1 == PushBack(rTs, Stamp(rTs, newest + d))
            v1 == Append(rVals, taken + 1)
            ts == At(b1, Size(b1)) + e
            b  == PushBack(b1, Stamp(b1, ts))
            v  == Append(v1, (taken + 1) + 1)
<1>1. /\ Counts /\ Reader /\ Agree(rTs, rVals, p, taken, newest) /\ taken \in Nat /\ Sound(rTs)
      /\ rVals \in Seq(Nat)
  BY DEF IInv, Counts, Agree, Writer
<1>2. Follows(rTs, newest, Stamp(rTs, newest + d))
  BY <1>1, StampFollows DEF Agree, Writer
<1>3. Agree(b1, v1, p, taken + 1, At(b1, Size(b1))) /\ Size(b1) = Size(rTs) + 1
  <2>1. taken <= taken
    BY <1>1
  <2>. QED
    BY <1>1, <1>2, <2>1, Takes, Zenon
<1>. HIDE DEF b1
<1>4. Follows(b1, At(b1, Size(b1)), Stamp(b1, ts))
  BY <1>3, StampFollows DEF Agree, Writer
<1>5. taken + 1 \in Nat /\ taken <= taken + 1 /\ taken <= (taken + 1) + 1 /\ (taken + 1) + 1 \in Nat
  BY <1>1
<1>6. Agree(b, v, p, (taken + 1) + 1, At(b, Size(b))) /\ Size(b) = Size(b1) + 1
  <2>. DEFINE t == Stamp(b1, ts)
              n == taken + 1
              new == At(b1, Size(b1))
  <2>1. Agree(b1, v1, p, n, new) /\ Follows(b1, new, t) /\ taken <= n /\ n \in Nat /\ Counts /\ Reader
    BY <1>1, <1>3, <1>4, <1>5
  <2>. HIDE DEF t, n, new, v1, p
  <2>2. /\ Agree(PushBack(b1, t), Append(v1, n + 1), p, n + 1, At(PushBack(b1, t), Size(PushBack(b1, t))))
        /\ Size(PushBack(b1, t)) = Size(b1) + 1
    BY <2>1, Takes
  <2>. QED
    BY <2>2 DEF t, n
<1>7. v = rVals \o <<taken + 1, taken + 2>>
  BY <1>1, AppendTwo DEF v, v1
<1>. HIDE DEF b, ts, v, v1
<1>8. /\ Trim(b, v, ts - h, h)
      /\ sampleCount' = sampleCount + 2 /\ taken' = (taken + 1) + 1 /\ newest' = At(b, Size(b))
      /\ UNCHANGED <<read, publishedEnd, preserve, shown, gone>>
  BY <1>1, <1>7 DEF PushBatch, b, ts, b1
<1>9. Size(b) = Size(rTs) + 2 /\ Size(b) # 0
  BY <1>1, <1>3, <1>6, SizeNat
<1>. QED
  BY <1>5, <1>6, <1>8, <1>9, WriterStep

-----------------------------------------------------------------------------
(* publishSnapshot.                                                        *)

LEMMA SpacedRises ==
  ASSUME NEW b, Sound(b), ~b.exactMode, Spaced(b), NEW m \in 1 .. Size(b), NEW i \in 1 .. m - 1
  PROVE  At(b, i) < At(b, m)
<1>. DEFINE T == {j \in i + 1 .. Size(b) : ~(At(b, i) < At(b, j))}
<1>1. Size(b) \in Nat
  BY SizeNat
<1>2. \A j \in i .. Size(b) : At(b, j) \in Int
  BY <1>1, AtIs
<1>3. T = {}
  <2>1. SUFFICES ASSUME T # {} PROVE FALSE
    OBVIOUS
  <2>2. PICK x \in T : \A y \in T : x <= y
    <3>1. T \in SUBSET Nat
      BY <1>1
    <3>. HIDE DEF T
    <3>. QED
      BY <2>1, <3>1, LeastOf, Zenon
  <2>3. x \in i + 1 .. Size(b) /\ ~(At(b, i) < At(b, x)) /\ x \in 2 .. Size(b) /\ x - 1 \in i .. Size(b)
    BY <1>1
  <2>4. 2 * (At(b, x) - At(b, x - 1)) >= Resolution
    BY <2>3 DEF Spaced
  <2>5. x - 1 # i /\ ~(At(b, i) < At(b, x - 1))
    BY <1>1, <1>2, <2>3, <2>4, BlockNat
  <2>6. x - 1 \in T
    BY <1>1, <2>3, <2>5
  <2>. QED
    BY <2>2, <2>3, <2>6
<1>. QED
  BY <1>1, <1>3

\* What the writer holds from its sample q+1 on.
LEMMA UnreadIs ==
  ASSUME NEW b, Sound(b), NEW v \in Seq(Nat), Len(v) = Size(b), NEW q \in 0 .. Size(b)
  PROVE  /\ SubSeq(v, q + 1, Len(v)) \in Seq(Nat) /\ Len(SubSeq(v, q + 1, Len(v))) = Size(b) - q
         /\ \A i \in 1 .. Size(b) - q :
              /\ SubSeq(v, q + 1, Len(v))[i] = v[q + i]
              /\ SubSeq(Times(b), q + 1, Len(Times(b)))[i] = At(b, q + i)
<1>1. Size(b) \in Nat
  BY SizeNat
<1>2. Times(b) \in Seq(Int) /\ Len(Times(b)) = Size(b) /\ \A i \in 1 .. Size(b) : Times(b)[i] = At(b, i)
  <2>1. \A i \in 1 .. Size(b) : At(b, i) \in Int
    BY AtIs
  <2>. QED
    BY <1>1, <2>1 DEF Times
<1>3. /\ SubSeq(v, q + 1, Len(v)) \in Seq(Nat) /\ Len(SubSeq(v, q + 1, Len(v))) = Size(b) - q
      /\ \A i \in 1 .. Size(b) - q : SubSeq(v, q + 1, Len(v))[i] = v[q + i]
  BY <1>1
<1>4. \A i \in 1 .. Size(b) - q : SubSeq(Times(b), q + 1, Len(Times(b)))[i] = Times(b)[q + i]
  BY <1>1, <1>2
<1>5. \A i \in 1 .. Size(b) - q : q + i \in 1 .. Size(b)
  BY <1>1
<1>. QED
  BY <1>2, <1>3, <1>4, <1>5, Zenon

\* s is what the GUI keeps of the writer's first q samples.
Base(s, q) ==
  /\ Sound(s.ts) /\ s.ts.exactMode = preserve /\ IsSeries(s) /\ Spaced(s.ts)
  /\ q \in Nat /\ q <= Size(rTs) /\ Size(s.ts) = q /\ s.vals \in Seq(Nat) /\ Len(s.vals) = q
  /\ \A i \in 1 .. q :
       /\ s.vals[i] = rVals[i]
       /\ 2 * (At(s.ts, i) - At(rTs, i)) \in -Resolution .. Resolution
       /\ \A j \in i + 1 .. q : At(s.ts, i) < At(s.ts, j)
       /\ \A j \in i + 1 .. Size(rTs) :
            /\ At(s.ts, i) < At(rTs, j)
            /\ ~preserve => 2 * (At(rTs, j) - At(s.ts, i)) >= Resolution
  /\ q # 0 => At(s.ts, q) < newest \/ At(rTs, Size(rTs)) = newest
  /\ ~preserve => InStep(s.ts, rTs, rTs.frontAbs + q)

\* r has the writer's samples, the first q as s has them.
Caught(s, r, q) ==
  /\ Sound(r.ts) /\ r.ts.exactMode = preserve /\ IsSeries(r) /\ Spaced(r.ts)
  /\ Size(r.ts) = Size(rTs) /\ r.vals \in Seq(Nat) /\ Len(r.vals) = Size(rTs)
  /\ \A i \in 1 .. Size(rTs) : r.vals[i] = rVals[i]
  /\ \A i \in 1 .. q : At(r.ts, i) = At(s.ts, i)
  /\ preserve => \A i \in q + 1 .. Size(rTs) : At(r.ts, i) = At(rTs, i)
  /\ ~preserve =>
       /\ InStep(r.ts, rTs, rTs.frontAbs + Size(rTs))
       /\ \A i \in q + 1 .. Size(rTs) :
            /\ 2 * (At(r.ts, i) - At(rTs, i)) \in -Resolution .. Resolution
            /\ i + 1 <= Size(rTs) => 2 * (At(rTs, i + 1) - At(r.ts, i)) >= Resolution

LEMMA Catches ==
  ASSUME IInv, NEW s, NEW q, Base(s, q)
  PROVE  Caught(s, PushAll(s, SubSeq(rVals, q + 1, Len(rVals)),
                              SubSeq(Times(rTs), q + 1, Len(Times(rTs)))), q)
<1>. DEFINE vals == SubSeq(rVals, q + 1, Len(rVals))
            times == SubSeq(Times(rTs), q + 1, Len(Times(rTs)))
            r == PushAll(s, vals, times)
            W == Size(rTs)
<1>1. /\ Sound(rTs) /\ rVals \in Seq(Nat) /\ Len(rVals) = W /\ rTs.exactMode = preserve /\ Spaced(rTs)
      /\ preserve \in BOOLEAN
  BY DEF IInv, Counts, Agree, Writer
<1>2. W \in Nat /\ q \in Nat /\ q <= W /\ q \in 0 .. W
  BY <1>1, SizeNat DEF Base
<1>3. /\ vals \in Seq(Nat) /\ Len(vals) = W - q
      /\ \A i \in 1 .. W - q : vals[i] = rVals[q + i] /\ times[i] = At(rTs, q + i)
  BY <1>1, <1>2, UnreadIs, Zenon
<1>4. /\ Sound(s.ts) /\ s.ts.exactMode = preserve /\ IsSeries(s) /\ Spaced(s.ts)
      /\ Size(s.ts) = q /\ s.vals \in Seq(Nat) /\ Len(s.vals) = q
      /\ \A i \in 1 .. q : s.vals[i] = rVals[i]
  BY DEF Base
<1>. HIDE DEF vals, times
<1>5. \A i \in 1 .. W - q : q + i \in 1 .. W /\ At(rTs, q + i) \in Int
  <2>. TAKE i \in 1 .. W - q
  <2>1. q + i \in 1 .. W
    BY <1>2
  <2>. QED
    BY <1>1, <2>1, AtIs
<1>6. ASSUME Grown(s, r, vals, Len(vals))
      PROVE  /\ Sound(r.ts) /\ r.ts.exactMode = preserve /\ IsSeries(r)
             /\ Size(r.ts) = W /\ r.vals \in Seq(Nat) /\ Len(r.vals) = W
             /\ \A i \in 1 .. W : r.vals[i] = rVals[i]
             /\ \A i \in 1 .. q : At(r.ts, i) = At(s.ts, i)
  <2>. HIDE DEF r
  <2>1. /\ Sound(r.ts) /\ r.ts.exactMode = s.ts.exactMode /\ IsSeries(r)
        /\ Size(r.ts) = Size(s.ts) + Len(vals)
        /\ \A i \in 1 .. Size(s.ts) : At(r.ts, i) = At(s.ts, i)
        /\ r.vals \in Seq(Nat) /\ Len(r.vals) = Len(s.vals) + Len(vals)
        /\ \A i \in 1 .. Len(s.vals) : r.vals[i] = s.vals[i]
        /\ \A i \in 1 .. Len(vals) : r.vals[Len(s.vals) + i] = vals[i]
    BY <1>6 DEF Grown
  <2>2. Size(r.ts) = W /\ Len(r.vals) = W
    BY <1>2, <1>3, <1>4, <2>1
  <2>3. \A i \in 1 .. W : r.vals[i] = rVals[i]
    <3>. TAKE i \in 1 .. W
    <3>1. CASE i \in 1 .. q
      BY <1>4, <2>1, <3>1
    <3>2. CASE i \notin 1 .. q
      <4>1. i - q \in 1 .. W - q /\ q + (i - q) = i
        BY <1>2, <3>2
      <4>. QED
        BY <1>3, <1>4, <2>1, <4>1, SMTT(30)
    <3>. QED
      BY <3>1, <3>2
  <2>. QED
    BY <1>4, <2>1, <2>2, <2>3
<1>7. \A i \in q + 1 .. W : i - q \in 1 .. W - q /\ q + (i - q) = i
  BY <1>2
<1>8. CASE preserve
  <2>1. AreInts(times, Len(vals))
    BY <1>3, <1>5 DEF AreInts
  <2>2. /\ Grown(s, r, vals, Len(vals))
        /\ \A i \in 1 .. Len(vals) : At(r.ts, Size(s.ts) + i) = times[i]
    BY <1>3, <1>4, <1>8, <2>1, AllExact, ZenonT(30)
  <2>. HIDE DEF r
  <2>3. Spaced(r.ts)
    BY <1>6, <1>8, <2>2 DEF Spaced
  <2>4. \A i \in q + 1 .. W : At(r.ts, i) = At(rTs, i)
    BY <1>3, <1>4, <1>7, <2>2
  <2>5. Caught(s, r, q)
    BY <1>6, <1>8, <2>2, <2>3, <2>4 DEF Caught
  <2>. QED
    BY <2>5 DEF r, vals, times
<1>9. CASE ~preserve
  <2>1. Fits(s.ts, rTs, q + 1)
    <3>1. rTs.frontAbs + (q + 1) - 1 = rTs.frontAbs + q
      BY <1>1, <1>2, Fields DEF Sound
    <3>2. InStep(s.ts, rTs, rTs.frontAbs + q)
      BY <1>9 DEF Base
    <3>3. q # 0 /\ q + 1 <= W => 2 * (At(rTs, q + 1) - At(s.ts, q)) >= Resolution
      <4>. SUFFICES ASSUME q # 0, q + 1 <= W PROVE 2 * (At(rTs, q + 1) - At(s.ts, q)) >= Resolution
        OBVIOUS
      <4>1. q \in 1 .. q /\ q + 1 \in q + 1 .. W
        BY <1>2
      <4>. QED
        BY <1>9, <4>1 DEF Base
    <3>. QED
      BY <1>4, <3>1, <3>2, <3>3 DEF Fits
  <2>2. \A i \in 1 .. Len(vals) : times[i] = At(rTs, q + i)
    BY <1>3
  <2>3. ~s.ts.exactMode /\ ~rTs.exactMode /\ q + Len(vals) = W
    BY <1>1, <1>2, <1>3, <1>4, <1>9
  <2>4. Grown(s, r, vals, Len(vals)) /\ Followed(s, r, rTs, q, Len(vals))
    BY <1>1, <1>2, <1>3, <1>4, <2>1, <2>2, <2>3, AllRounded
  <2>. HIDE DEF r
  <2>5. /\ Spaced(r.ts) /\ Fits(r.ts, rTs, q + Len(vals) + 1)
        /\ \A i \in 1 .. W - q :
             /\ 2 * (At(r.ts, q + i) - At(rTs, q + i)) \in -Resolution .. Resolution
             /\ q + i + 1 <= W => 2 * (At(rTs, q + i + 1) - At(r.ts, q + i)) >= Resolution
    BY <1>3, <1>4, <2>4 DEF Followed
  <2>6. InStep(r.ts, rTs, rTs.frontAbs + W)
    <3>1. rTs.frontAbs + (q + Len(vals) + 1) - 1 = rTs.frontAbs + W
      BY <1>1, <1>2, <1>3, Fields DEF Sound
    <3>. QED
      BY <2>5, <3>1 DEF Fits
  <2>7. \A i \in q + 1 .. W :
          /\ 2 * (At(r.ts, i) - At(rTs, i)) \in -Resolution .. Resolution
          /\ i + 1 <= W => 2 * (At(rTs, i + 1) - At(r.ts, i)) >= Resolution
    <3>. TAKE i \in q + 1 .. W
    <3>1. i - q \in 1 .. W - q /\ q + (i - q) = i /\ q + (i - q) + 1 = i + 1
      BY <1>2
    <3>. QED
      BY <2>5, <3>1
  <2>8. Caught(s, r, q)
    BY <1>6, <1>9, <2>4, <2>5, <2>6, <2>7 DEF Caught
  <2>. QED
    BY <2>8 DEF r, vals, times
<1>. QED
  BY <1>1, <1>8, <1>9

LEMMA CaughtUp ==
  ASSUME IInv, NEW s, NEW q, Base(s, q), NEW r, Caught(s, r, q), read' = r,
         publishedEnd' = sampleCount, shown' = taken,
         UNCHANGED <<storeVars, sampleCount, preserve, taken, newest, gone>>
  PROVE  IInv'
<1>. DEFINE W == Size(rTs)
<1>1. /\ Sound(rTs) /\ rVals \in Seq(Nat) /\ Len(rVals) = W /\ rTs.exactMode = preserve
      /\ Rising(rVals, rTs) /\ preserve \in BOOLEAN /\ newest \in Int
      /\ \A j \in 1 .. W : rVals[j] <= taken /\ rVals[j] \notin gone
      /\ W # 0 => At(rTs, W) <= newest
      /\ sampleCount \in Nat /\ taken \in Nat /\ W <= sampleCount
  BY DEF IInv, Counts, Agree, Writer
<1>2. W \in Nat /\ q \in Nat /\ q <= W
  BY <1>1, SizeNat DEF Base
<1>3. /\ Sound(r.ts) /\ r.ts.exactMode = preserve /\ IsSeries(r) /\ Spaced(r.ts)
      /\ Size(r.ts) = W /\ r.vals \in Seq(Nat) /\ Len(r.vals) = W
      /\ \A i \in 1 .. W : r.vals[i] = rVals[i]
      /\ \A i \in 1 .. q : At(r.ts, i) = At(s.ts, i)
      /\ preserve => \A i \in q + 1 .. W : At(r.ts, i) = At(rTs, i)
      /\ ~preserve =>
           /\ InStep(r.ts, rTs, rTs.frontAbs + W)
           /\ \A i \in q + 1 .. W :
                /\ 2 * (At(r.ts, i) - At(rTs, i)) \in -Resolution .. Resolution
                /\ i + 1 <= W => 2 * (At(rTs, i + 1) - At(r.ts, i)) >= Resolution
  BY DEF Caught
<1>4. /\ \A i \in 1 .. q :
           /\ 2 * (At(s.ts, i) - At(rTs, i)) \in -Resolution .. Resolution
           /\ \A j \in i + 1 .. q : At(s.ts, i) < At(s.ts, j)
           /\ \A j \in i + 1 .. W :
                /\ At(s.ts, i) < At(rTs, j)
                /\ ~preserve => 2 * (At(rTs, j) - At(s.ts, i)) >= Resolution
      /\ q # 0 => At(s.ts, q) < newest \/ At(rTs, W) = newest
  BY DEF Base
<1>5. \A i \in 1 .. W : At(rTs, i) \in Int /\ At(r.ts, i) \in Int /\ (i \in 1 .. q \/ i \in q + 1 .. W)
  <2>. TAKE i \in 1 .. W
  <2>1. At(rTs, i) \in Int /\ At(r.ts, i) \in Int
    BY <1>1, <1>3, AtIs, Zenon
  <2>. QED
    BY <1>2, <2>1
<1>6. ASSUME NEW i \in 1 .. W, NEW j \in i + 1 .. W
      PROVE  /\ At(r.ts, i) < At(rTs, j) /\ At(rTs, i) < At(rTs, j) /\ rVals[i] < rVals[j]
             /\ ~preserve => 2 * (At(rTs, j) - At(r.ts, i)) >= Resolution
  <2>1. At(rTs, i) < At(rTs, j) /\ rVals[i] < rVals[j] /\ j \in 1 .. W
    BY <1>1, <1>2 DEF Rising
  <2>2. CASE i \in 1 .. q
    BY <1>3, <1>4, <2>1, <2>2
  <2>3. CASE i \in q + 1 .. W /\ preserve
    BY <1>3, <2>1, <2>3
  <2>4. CASE i \in q + 1 .. W /\ ~preserve
    <3>1. i + 1 \in 1 .. W /\ (j = i + 1 \/ j \in (i + 1) + 1 .. W)
      BY <1>2
    <3>2. At(rTs, i + 1) <= At(rTs, j)
      <4>1. At(rTs, i + 1) \in Int /\ At(rTs, j) \in Int
        BY <1>5, <2>1, <3>1
      <4>2. CASE j = i + 1
        BY <4>1, <4>2
      <4>3. CASE j \in (i + 1) + 1 .. W
        <5>1. At(rTs, i + 1) < At(rTs, j)
          BY <1>1, <3>1, <4>3, Zenon DEF Rising
        <5>. QED
          BY <4>1, <5>1
      <4>. QED
        BY <3>1, <4>2, <4>3
    <3>3. 2 * (At(rTs, i + 1) - At(r.ts, i)) >= Resolution
      BY <1>2, <1>3, <2>4, <3>1
    <3>. QED
      BY <1>5, <2>1, <3>1, <3>2, <3>3, BlockNat
  <2>. QED
    BY <1>5, <2>1, <2>2, <2>3, <2>4
<1>7. Rising(r.vals, r.ts)
  <2>. SUFFICES ASSUME NEW i \in 1 .. W, NEW j \in i + 1 .. W
                PROVE  r.vals[i] < r.vals[j] /\ At(r.ts, i) < At(r.ts, j)
    BY <1>3 DEF Rising
  <2>1. j \in 1 .. W
    BY <1>2
  <2>2. r.vals[i] < r.vals[j]
    BY <1>3, <1>6, <2>1
  <2>3. CASE preserve
    <3>1. CASE j \in 1 .. q
      <4>1. i \in 1 .. q /\ j \in i + 1 .. q
        BY <1>2, <3>1
      <4>. QED
        BY <1>3, <1>4, <2>2, <3>1, <4>1
    <3>2. CASE j \in q + 1 .. W
      BY <1>3, <1>6, <2>2, <2>3, <3>2
    <3>. QED
      BY <1>5, <2>1, <3>1, <3>2
  <2>4. CASE ~preserve
    <3>1. i \in 1 .. j - 1
      BY <1>2
    <3>. QED
      BY <1>3, <2>1, <2>2, <2>4, <3>1, SpacedRises
  <2>. QED
    BY <1>1, <2>2, <2>3, <2>4
<1>8. Reader'
  <2>1. \A i \in 1 .. W : r.vals[i] <= taken
    BY <1>1, <1>3
  <2>. QED
    BY <1>3, <1>7, <2>1 DEF Reader
<1>9. Counts'
  <2>1. \A i \in 1 .. W : r.vals[i] \notin gone
    BY <1>1, <1>3
  <2>2. /\ {sampleCount', publishedEnd', taken', shown'} \subseteq Nat /\ preserve' \in BOOLEAN
        /\ Size(rTs') <= sampleCount' /\ Size(read'.ts) <= publishedEnd'
        /\ publishedEnd' <= sampleCount' /\ shown' <= taken'
    BY <1>1, <1>3 DEF storeVars
  <2>3. gone' \subseteq 0 .. taken'
    BY DEF IInv, Counts
  <2>4. \A i \in 1 .. Size(read'.ts) : read'.vals[i] \notin gone'
    BY <1>3, <2>1
  <2>. QED
    BY <2>2, <2>3, <2>4 DEF Counts
<1>10. publishedEnd' - StoredStart' = W
  BY <1>1, <1>2 DEF StoredStart, storeVars
<1>11. Writer(rTs, rVals, taken, newest)'
  BY DEF IInv, Agree, Writer, storeVars
<1>12. \A i \in 1 .. W : 2 * (At(r.ts, i) - At(rTs, i)) \in -Resolution .. Resolution
  <2>. TAKE i \in 1 .. W
  <2>1. CASE i \in 1 .. q
    BY <1>3, <1>4, <2>1
  <2>2. CASE i \in q + 1 .. W /\ ~preserve
    BY <1>3, <2>2
  <2>3. CASE i \in q + 1 .. W /\ preserve
    BY <1>3, <1>5, <2>3, BlockNat
  <2>. QED
    BY <1>1, <1>5, <2>1, <2>2, <2>3
<1>13. Published(rTs, rVals, publishedEnd - StoredStart)'
  <2>1. /\ W \in Int /\ W <= Size(rTs) /\ W <= Size(r.ts)
        /\ \A j \in 1 .. Size(rTs) : rVals[j] <= taken <=> j <= W
        /\ \A j \in 1 .. W : Size(r.ts) - W + j = j /\ rVals[j] = r.vals[j]
    BY <1>1, <1>2, <1>3
  <2>2. \A j \in 1 .. W : /\ rVals[j] = r.vals[Size(r.ts) - W + j]
                          /\ 2 * (At(r.ts, Size(r.ts) - W + j) - At(rTs, j)) \in -Resolution .. Resolution
    BY <1>12, <2>1, Zenon
  <2>. HIDE DEF W
  <2>. QED
    BY <1>10, <2>1, <2>2 DEF Published, storeVars
<1>14. Later(rTs, rVals)'
  <2>. SUFFICES ASSUME NEW i \in 1 .. W, NEW j \in 1 .. W, r.vals[i] < rVals[j]
                PROVE  /\ At(r.ts, i) < At(rTs, j)
                       /\ ~preserve => 2 * (At(rTs, j) - At(r.ts, i)) >= Resolution
    BY <1>3 DEF Later, storeVars
  <2>1. i < j
    <3>1. rVals[i] < rVals[j] /\ rVals[i] \in Nat /\ rVals[j] \in Nat
      BY <1>1, <1>3, SMTT(30)
    <3>2. i \in j + 1 .. W => rVals[j] < rVals[i]
      BY <1>6
    <3>. QED
      BY <1>2, <3>1, <3>2
  <2>2. j \in i + 1 .. W
    BY <1>2, <2>1
  <2>. QED
    BY <1>6, <2>2
<1>15. Newest(rTs, newest)'
  <2>. SUFFICES ASSUME W # 0
                PROVE  At(r.ts, W) < newest \/ At(rTs, W) = newest
    BY <1>3 DEF Newest, storeVars
  <2>1. W \in 1 .. W
    BY <1>2
  <2>2. CASE W \in 1 .. q
    <3>1. W = q /\ q # 0
      BY <1>2, <2>2
    <3>. QED
      BY <1>3, <1>4, <2>2, <3>1
  <2>3. CASE W \in q + 1 .. W
    <3>1. CASE preserve
      BY <1>1, <1>3, <1>5, <2>1, <2>3, <3>1
    <3>2. CASE ~preserve
      BY <3>2 DEF IInv, Agree, Writer
    <3>. QED
      BY <1>1, <3>1, <3>2
  <2>. QED
    BY <1>5, <2>1, <2>2, <2>3
<1>16. /\ ~preserve' /\ Size(rTs') = 0 => Size(read'.ts) = 0
       /\ ~preserve' => InStep(read'.ts, rTs', rTs'.frontAbs + W)
       /\ \A j \in 1 .. Size(rTs') : rVals'[j] \notin gone'
  BY <1>1, <1>3 DEF storeVars
<1>17. Agree(rTs, rVals, publishedEnd - StoredStart, taken, newest)'
  BY <1>10, <1>11, <1>13, <1>14, <1>15, <1>16 DEF Agree
<1>. QED
  BY <1>8, <1>9, <1>17 DEF IInv

LEMMA ExactKeeps ==
  ASSUME NEW s, IsSeries(s)
  PROVE  Exact(s).ts = PreserveExact(s.ts) /\ Exact(s).vals = s.vals /\ IsSeries(Exact(s))
<1>. DEFINE t == PreserveExact(s.ts)
            v == s.vals
            l == s.levels
            e == Exact(s)
<1>1. e = [ts |-> t, vals |-> v, levels |-> l]
  BY DEF Exact, IsSeries
<1>. HIDE DEF t, v, l, e
<1>2. e.ts = t /\ e.vals = v /\ e = [ts |-> e.ts, vals |-> e.vals, levels |-> e.levels]
  BY <1>1
<1>. QED
  BY <1>2 DEF IsSeries, t, v, e

LEMMA ExactIs ==
  ASSUME NEW s, Sound(s.ts), IsSeries(s), s.ts.exactMode
  PROVE  Exact(s) = s
<1>. DEFINE t == PreserveExact(s.ts)
<1>1. Exact(s) = [ts |-> t, vals |-> s.vals, levels |-> s.levels]
  BY DEF Exact, IsSeries
<1>2. t = s.ts
  BY PreserveKeeps
<1>. HIDE DEF t
<1>. QED
  BY <1>1, <1>2 DEF IsSeries

LEMMA BlankIs ==
  /\ Sound(Blank) /\ ~Blank.exactMode /\ Size(Blank) = 0 /\ End(Blank) = 0 /\ Blank.frontAbs = 0
<1>1. 0 % Block = 0 /\ 0 \div Block = 0
  <2>1. 0 = 0 * Block + 0 /\ 0 \in Int /\ 0 \in Nat /\ 0 \in 0 .. Block - 1
    BY BlockNat
  <2>. QED
    BY <2>1, PlaceIs, Zenon
<1>2. Begun(0) = 0
  BY <1>1 DEF Begun
<1>3. << >> \in Seq(Int) /\ Len(<< >>) = 0
  OBVIOUS
<1>4. Blank \in Buffers /\ End(Blank) = 0
  BY <1>3 DEF Blank, Buffers, End
<1>. QED
  BY <1>1, <1>2, <1>3, <1>4 DEF Sound, Size, Blank

\* The empty series a copy starts from.
Fresh == IF preserve THEN Exact(EmptySeries) ELSE EmptySeries

LEMMA FreshIs ==
  ASSUME preserve \in BOOLEAN
  PROVE  /\ Sound(Fresh.ts) /\ Fresh.ts.exactMode = preserve /\ IsSeries(Fresh) /\ Size(Fresh.ts) = 0
         /\ Fresh.vals = << >> /\ Spaced(Fresh.ts) /\ (~preserve => End(Fresh.ts) = 0)
<1>1. EmptySeries.ts = Blank /\ EmptySeries.vals = << >> /\ IsSeries(EmptySeries)
  BY DEF EmptySeries, IsSeries
<1>2. /\ Sound(Fresh.ts) /\ Fresh.ts.exactMode = preserve /\ Size(Fresh.ts) = 0
      /\ Fresh.vals = << >> /\ IsSeries(Fresh) /\ (~preserve => End(Fresh.ts) = 0)
  <2>1. CASE preserve
    <3>1. Fresh = Exact(EmptySeries)
      BY <2>1 DEF Fresh
    <3>2. Fresh.ts = PreserveExact(Blank) /\ Fresh.vals = << >> /\ IsSeries(Fresh)
      BY <1>1, <3>1, ExactKeeps
    <3>3. Sound(PreserveExact(Blank)) /\ PreserveExact(Blank).exactMode /\ Size(PreserveExact(Blank)) = 0
      BY BlankIs, PreserveKeeps
    <3>4. PreserveExact(Blank).exactMode = TRUE
      BY <3>3, SizeNat
    <3>. QED
      BY <2>1, <3>2, <3>3, <3>4
  <2>2. CASE ~preserve
    <3>1. Fresh = EmptySeries
      BY <2>2 DEF Fresh
    <3>2. Blank.exactMode = FALSE
      BY DEF Blank
    <3>. QED
      BY <1>1, <2>2, <3>1, <3>2, BlankIs
  <2>. QED
    BY <2>1, <2>2
<1>. QED
  BY <1>2 DEF Spaced

LEMMA DropFrontIs ==
  ASSUME NEW s, Sound(s.ts), IsSeries(s), s.vals \in Seq(Nat), Len(s.vals) = Size(s.ts),
         NEW m \in 0 .. Size(s.ts)
  PROVE  /\ Dropped(s.ts, DropFront(s, m).ts, m) /\ IsSeries(DropFront(s, m))
         /\ DropFront(s, m).vals \in Seq(Nat) /\ Len(DropFront(s, m).vals) = Size(s.ts) - m
         /\ \A i \in 1 .. Size(s.ts) - m : DropFront(s, m).vals[i] = s.vals[i + m]
<1>1. Size(s.ts) \in Nat /\ m \in Nat /\ m <= Size(s.ts)
  BY SizeNat
<1>. DEFINE c == DropFront(s, m)
            w == SubSeq(s.vals, m + 1, Len(s.vals))
<1>2. Dropped(s.ts, Popped(s.ts, m), m)
  BY <1>1, PoppedIs
<1>3. /\ w \in Seq(Nat) /\ Len(w) = Size(s.ts) - m
      /\ \A i \in 1 .. Size(s.ts) - m : w[i] = s.vals[i + m]
  BY <1>1, SMTT(30)
<1>4. CASE m = 0
  <2>1. c = s
    BY <1>4 DEF DropFront
  <2>2. Dropped(s.ts, s.ts, 0)
    <3>1. \A i \in 1 .. Size(s.ts) : i + 0 = i
      BY <1>1
    <3>2. Size(s.ts) - 0 = Size(s.ts) /\ s.ts.frontAbs + 0 = s.ts.frontAbs
      BY <1>1, Fields DEF Sound
    <3>. QED
      BY <3>1, <3>2 DEF Dropped
  <2>3. \A i \in 1 .. Size(s.ts) - 0 : s.vals[i] = s.vals[i + 0]
    BY <1>1
  <2>4. Len(s.vals) = Size(s.ts) - 0
    BY <1>1
  <2>. QED
    BY <1>4, <2>1, <2>2, <2>3, <2>4
<1>5. CASE m # 0
  <2>1. \E l : c = [ts |-> Popped(s.ts, m), vals |-> w, levels |-> l]
    BY <1>5 DEF DropFront
  <2>2. c.ts = Popped(s.ts, m) /\ c.vals = w /\ IsSeries(c)
    <3>. DEFINE t == Popped(s.ts, m)
    <3>. HIDE DEF c, w, t
    <3>1. PICK l : c = [ts |-> t, vals |-> w, levels |-> l]
      BY <2>1 DEF t
    <3>2. c.ts = t /\ c.vals = w /\ c.levels = l
      BY <3>1
    <3>3. IsSeries(c)
      BY <3>1, <3>2, Zenon DEF IsSeries
    <3>. QED
      BY <3>2, <3>3 DEF t
  <2>. QED
    BY <1>2, <1>3, <2>2
<1>. QED
  BY <1>4, <1>5

LEMMA Distinct ==
  ASSUME NEW b, Sound(b), NEW v \in Seq(Nat), Len(v) = Size(b), Rising(v, b),
         NEW x \in 1 .. Size(b), NEW y \in 1 .. Size(b)
  PROVE  /\ v[x] \in Nat /\ v[y] \in Nat /\ (v[x] < v[y] <=> x < y) /\ (v[x] = v[y] => x = y)
         /\ At(b, x) \in Int /\ At(b, y) \in Int /\ (At(b, x) < At(b, y) <=> x < y)
<1>1. Size(b) \in Nat /\ v[x] \in Nat /\ v[y] \in Nat
  BY SizeNat
<1>2. At(b, x) \in Int /\ At(b, y) \in Int
  BY AtIs
<1>3. CASE x < y
  <2>1. y \in x + 1 .. Size(b)
    BY <1>1, <1>3
  <2>. QED
    BY <1>1, <1>2, <1>3, <2>1 DEF Rising
<1>4. CASE y < x
  <2>1. x \in y + 1 .. Size(b)
    BY <1>1, <1>4
  <2>. QED
    BY <1>1, <1>2, <1>4, <2>1 DEF Rising
<1>5. CASE x = y
  BY <1>1, <1>2, <1>5
<1>. QED
  BY <1>1, <1>3, <1>4, <1>5

LEMMA ReaderDistinct ==
  ASSUME Reader
  PROVE  \A x, y \in 1 .. Size(read.ts) :
           /\ read.vals[x] \in Nat /\ (read.vals[x] < read.vals[y] <=> x < y)
           /\ (read.vals[x] = read.vals[y] => x = y)
           /\ At(read.ts, x) \in Int /\ (At(read.ts, x) < At(read.ts, y) <=> x < y)
<1>. TAKE x, y \in 1 .. Size(read.ts)
<1>. DEFINE b == read.ts
            v == read.vals
<1>1. Sound(b) /\ v \in Seq(Nat) /\ Len(v) = Size(b) /\ Rising(v, b) /\ x \in 1 .. Size(b) /\ y \in 1 .. Size(b)
  BY DEF Reader
<1>. HIDE DEF b, v
<1>2. /\ v[x] \in Nat /\ v[y] \in Nat /\ (v[x] < v[y] <=> x < y) /\ (v[x] = v[y] => x = y)
      /\ At(b, x) \in Int /\ At(b, y) \in Int /\ (At(b, x) < At(b, y) <=> x < y)
  BY <1>1, Distinct
<1>. QED
  BY <1>2 DEF b, v

LEMMA BaseKept ==
  ASSUME IInv, NEW p \in Nat, p = publishedEnd - StoredStart
  PROVE  /\ Base(DropFront(read, Size(read.ts) - p), p)
         /\ \A i \in 1 .. p :
              At(DropFront(read, Size(read.ts) - p).ts, i) = At(read.ts, Size(read.ts) - p + i)
<1>. DEFINE R == Size(read.ts)
            W == Size(rTs)
            m == R - p
            s == DropFront(read, m)
<1>1. /\ Sound(read.ts) /\ IsSeries(read) /\ read.vals \in Seq(Nat) /\ Len(read.vals) = R
      /\ read.ts.exactMode = preserve /\ Rising(read.vals, read.ts) /\ Spaced(read.ts)
      /\ \A i \in 1 .. R : read.vals[i] <= shown
      /\ preserve \in BOOLEAN /\ shown \in Nat
  BY DEF IInv, Reader, Counts
<1>2. /\ Sound(rTs) /\ rVals \in Seq(Nat) /\ Len(rVals) = W
      /\ p <= W /\ p <= R
      /\ \A j \in 1 .. W : rVals[j] <= shown <=> j <= p
      /\ \A j \in 1 .. p : /\ rVals[j] = read.vals[R - p + j]
                           /\ 2 * (At(read.ts, R - p + j) - At(rTs, j)) \in -Resolution .. Resolution
      /\ Later(rTs, rVals) /\ Newest(rTs, newest)
      /\ ~preserve => InStep(read.ts, rTs, rTs.frontAbs + p)
  BY DEF IInv, Agree, Writer, Published
<1>3. R \in Nat /\ W \in Nat /\ m \in 0 .. R /\ m \in Nat /\ R - m = p /\ p <= W /\ p <= R
  BY <1>1, <1>2, SizeNat
<1>4. /\ Dropped(read.ts, s.ts, m) /\ IsSeries(s) /\ s.vals \in Seq(Nat) /\ Len(s.vals) = p
      /\ \A i \in 1 .. p : s.vals[i] = read.vals[i + m]
  <2>1. /\ Dropped(read.ts, s.ts, m) /\ IsSeries(s) /\ s.vals \in Seq(Nat) /\ Len(s.vals) = R - m
        /\ \A i \in 1 .. R - m : s.vals[i] = read.vals[i + m]
    BY <1>1, <1>3, DropFrontIs
  <2>. QED
    BY <1>3, <2>1
<1>. HIDE DEF s
<1>5. /\ Sound(s.ts) /\ s.ts.exactMode = preserve /\ Size(s.ts) = p
      /\ \A i \in 1 .. p : At(s.ts, i) = At(read.ts, i + m)
      /\ ~preserve =>
           /\ s.ts.frontAbs = read.ts.frontAbs + m /\ End(s.ts) = End(read.ts)
           /\ \A a \in Nat : Anchored(s.ts, a) => AnchorAt(s.ts, a) = AnchorAt(read.ts, a)
  BY <1>1, <1>3, <1>4 DEF Dropped
<1>6. \A i \in 1 .. p : i + m = R - p + i /\ i + m \in 1 .. R /\ i \in 1 .. W
  BY <1>3
<1>7. Spaced(s.ts)
  <2>. SUFFICES ASSUME ~preserve, NEW i \in 2 .. p
                PROVE  2 * (At(s.ts, i) - At(s.ts, i - 1)) >= Resolution
    BY <1>5 DEF Spaced
  <2>1. i \in 1 .. p /\ i - 1 \in 1 .. p /\ i + m \in 2 .. R /\ (i + m) - 1 = (i - 1) + m
    BY <1>3
  <2>2. 2 * (At(read.ts, i + m) - At(read.ts, (i + m) - 1)) >= Resolution
    BY <1>1, <2>1 DEF Spaced
  <2>. QED
    BY <1>5, <2>1, <2>2
<1>8. ASSUME NEW i \in 1 .. p
      PROVE  /\ s.vals[i] = rVals[i]
             /\ 2 * (At(s.ts, i) - At(rTs, i)) \in -Resolution .. Resolution
             /\ \A j \in i + 1 .. p : At(s.ts, i) < At(s.ts, j)
             /\ \A j \in i + 1 .. W :
                  /\ At(s.ts, i) < At(rTs, j)
                  /\ ~preserve => 2 * (At(rTs, j) - At(s.ts, i)) >= Resolution
  <2>1. /\ s.vals[i] = rVals[i]
        /\ 2 * (At(s.ts, i) - At(rTs, i)) \in -Resolution .. Resolution
    BY <1>2, <1>4, <1>5, <1>6
  <2>2. ASSUME NEW j \in i + 1 .. p
        PROVE  At(s.ts, i) < At(s.ts, j)
    <3>1. j \in 1 .. p /\ j + m \in (i + m) + 1 .. R
      BY <1>3
    <3>2. At(read.ts, i + m) < At(read.ts, j + m)
      BY <1>1, <1>6, <3>1 DEF Rising
    <3>. QED
      BY <1>5, <3>1, <3>2
  <2>3. ASSUME NEW j \in i + 1 .. W
        PROVE  /\ At(s.ts, i) < At(rTs, j)
               /\ ~preserve => 2 * (At(rTs, j) - At(s.ts, i)) >= Resolution
    <3>1. j \in 1 .. W
      BY <1>3
    <3>2. read.vals[i + m] < rVals[j]
      <4>1. CASE j <= p
        <5>1. j + m \in (i + m) + 1 .. R /\ j \in 1 .. p
          BY <1>3, <4>1
        <5>2. read.vals[i + m] < read.vals[j + m] /\ rVals[j] = read.vals[j + m]
          BY <1>1, <1>2, <1>6, <5>1 DEF Rising
        <5>. QED
          BY <5>2
      <4>2. CASE ~(j <= p)
        <5>1. ~(rVals[j] <= shown) /\ read.vals[i + m] <= shown
          BY <1>1, <1>2, <1>6, <3>1, <4>2
        <5>2. rVals[j] \in Nat /\ read.vals[i + m] \in Nat
          <6>1. \A x \in 1 .. R : read.vals[x] \in Nat
            BY <1>1
          <6>2. \A x \in 1 .. W : rVals[x] \in Nat
            BY <1>2
          <6>. QED
            BY <1>6, <3>1, <6>1, <6>2, Zenon
        <5>. QED
          BY <1>1, <5>1, <5>2, SMTT(30)
      <4>. QED
        BY <4>1, <4>2
    <3>3. /\ At(read.ts, i + m) < At(rTs, j)
          /\ ~preserve => 2 * (At(rTs, j) - At(read.ts, i + m)) >= Resolution
      BY <1>2, <1>6, <3>1, <3>2 DEF Later
    <3>. QED
      BY <1>5, <3>3
  <2>. QED
    BY <2>1, <2>2, <2>3
<1>9. p # 0 => At(s.ts, p) < newest \/ At(rTs, W) = newest
  <2>. SUFFICES ASSUME p # 0 PROVE At(s.ts, p) < newest \/ At(rTs, W) = newest
    OBVIOUS
  <2>1. p \in 1 .. p /\ p + m = R /\ R # 0
    <3>1. \A x, y \in Nat : x + (y - x) = y
      OBVIOUS
    <3>2. p + m = R
      BY <1>3, <3>1, Zenon
    <3>3. p \in 1 .. p
      OBVIOUS
    <3>4. R # 0
      BY <1>3
    <3>. QED
      BY <3>2, <3>3, <3>4
  <2>2. At(s.ts, p) = At(read.ts, R)
    BY <1>5, <2>1
  <2>. QED
    BY <1>2, <2>1, <2>2 DEF Newest
<1>10. ~preserve => InStep(s.ts, rTs, rTs.frontAbs + p)
  <2>. SUFFICES ASSUME ~preserve PROVE InStep(s.ts, rTs, rTs.frontAbs + p)
    OBVIOUS
  <2>1. End(read.ts) \in Nat /\ End(s.ts) \in Nat /\ s.ts.frontAbs \in Nat /\ s.ts.frontAbs <= End(s.ts)
    BY <1>1, <1>5, Fields DEF Sound
  <2>2. End(s.ts) % Block # 0 => AnchorAt(s.ts, End(s.ts)) = AnchorAt(read.ts, End(s.ts))
    BY <1>5, <2>1 DEF Anchored
  <2>. QED
    BY <1>2, <1>5, <2>2 DEF InStep
<1>11. Base(s, p)
  BY <1>2, <1>4, <1>5, <1>7, <1>8, <1>9, <1>10 DEF Base
<1>12. \A i \in 1 .. p : At(s.ts, i) = At(read.ts, R - p + i)
  BY <1>5, <1>6
<1>. QED
  BY <1>11, <1>12 DEF s

LEMMA BaseFresh == ASSUME IInv PROVE Base(Fresh, 0)
<1>1. preserve \in BOOLEAN /\ Sound(rTs) /\ Size(rTs) \in Nat
  BY SizeNat DEF IInv, Counts, Agree, Writer
<1>2. /\ Sound(Fresh.ts) /\ Fresh.ts.exactMode = preserve /\ IsSeries(Fresh) /\ Size(Fresh.ts) = 0
      /\ Fresh.vals = << >> /\ Spaced(Fresh.ts) /\ (~preserve => End(Fresh.ts) = 0)
  BY <1>1, FreshIs
<1>3. ~preserve => InStep(Fresh.ts, rTs, rTs.frontAbs + 0)
  <2>1. 0 % Block = 0
    BY BlockNat
  <2>. QED
    BY <1>2, <2>1 DEF InStep
<1>4. << >> \in Seq(Nat) /\ Len(<< >>) = 0
  OBVIOUS
<1>. QED
  BY <1>1, <1>2, <1>3, <1>4 DEF Base

\* A stamp shown stays while its sample is shown.
Stays(r) ==
  \A j \in 1 .. Len(read.vals), i \in 1 .. Len(r.vals) :
    read.vals[j] = r.vals[i] => At(read.ts, j) = At(r.ts, i)

LEMMA StepPublish == ASSUME IInv, Publish PROVE IInv' /\ Stays(read')
<1>. DEFINE R == Size(read.ts)
            W == Size(rTs)
            p == publishedEnd - StoredStart
            q == IF p >= 0 THEN p ELSE 0
            s == IF p >= 0 THEN DropFront(read, R - p) ELSE Fresh
            r == PushAll(s, SubSeq(rVals, q + 1, Len(rVals)), SubSeq(Times(rTs), q + 1, Len(Times(rTs))))
<1>1. \A x, y \in 1 .. R : read.vals[x] = read.vals[y] => x = y
  BY ReaderDistinct DEF IInv
<1>2. /\ Sound(read.ts) /\ IsSeries(read) /\ read.vals \in Seq(Nat) /\ Len(read.vals) = R
      /\ read.ts.exactMode = preserve /\ Rising(read.vals, read.ts)
      /\ \A i \in 1 .. R : read.vals[i] <= shown
      /\ preserve \in BOOLEAN /\ shown \in Nat /\ sampleCount \in Nat /\ publishedEnd \in Nat
      /\ R <= publishedEnd /\ publishedEnd <= sampleCount /\ W <= sampleCount
      /\ Sound(rTs) /\ rVals \in Seq(Nat) /\ Len(rVals) = W
      /\ p \in Int /\ p <= W /\ p <= R
      /\ \A j \in 1 .. W : rVals[j] <= shown <=> j <= p
      /\ \A j \in 1 .. p : rVals[j] = read.vals[R - p + j]
  BY DEF IInv, Reader, Counts, Agree, Writer, Published
<1>3. R \in Nat /\ W \in Nat /\ StoredStart \in Nat /\ ReadStart = publishedEnd - R
  BY <1>2, SizeNat DEF StoredStart, ReadStart, Most
<1>4. (IF preserve THEN Exact(read) ELSE read) = read
  BY <1>2, ExactIs
<1>5. /\ read' = r /\ publishedEnd' = sampleCount /\ shown' = taken
      /\ UNCHANGED <<storeVars, sampleCount, preserve, taken, newest, gone>>
  <2>1. /\ publishedEnd' = sampleCount /\ shown' = taken
        /\ UNCHANGED <<storeVars, sampleCount, preserve, taken, newest, gone>>
    BY DEF Publish
  <2>2. CASE p >= 0
    <3>1. ~Diverged
      BY <1>2, <1>3, <2>2 DEF Diverged
    <3>2. Most(Least(StoredStart - ReadStart, R), 0) = R - p
      BY <1>2, <1>3, <2>2 DEF Most, Least
    <3>3. read' = Appended(DropFront(read, R - p), publishedEnd)
      BY <1>4, <3>1, <3>2 DEF Publish
    <3>. QED
      BY <2>1, <2>2, <3>3 DEF Appended
  <2>3. CASE ~(p >= 0)
    <3>1. Diverged
      BY <1>2, <1>3, <2>3 DEF Diverged
    <3>2. read' = Appended(Fresh, StoredStart)
      BY <3>1 DEF Publish, Fresh
    <3>3. StoredStart - StoredStart + 1 = 0 + 1
      BY <1>3
    <3>4. Appended(Fresh, StoredStart) = r
      BY <2>3, <3>3, Zenon DEF Appended
    <3>. QED
      BY <2>1, <3>2, <3>4
  <2>. QED
    BY <2>2, <2>3
<1>6. /\ Base(s, q) /\ q \in Nat /\ q <= W /\ q <= R
      /\ \A j \in 1 .. W : rVals[j] <= shown <=> j <= q
      /\ \A i \in 1 .. q : /\ At(s.ts, i) = At(read.ts, R - q + i)
                           /\ rVals[i] = read.vals[R - q + i]
  <2>1. CASE p >= 0
    <3>1. p \in Nat
      BY <1>2, <2>1
    <3>. QED
      BY <1>2, <2>1, <3>1, BaseKept
  <2>2. CASE ~(p >= 0)
    <3>1. \A j \in 1 .. W : j <= p <=> j <= 0
      BY <1>2, <2>2
    <3>. QED
      BY <1>2, <1>3, <2>2, <3>1, BaseFresh
  <2>. QED
    BY <2>1, <2>2
<1>. HIDE DEF s, q
<1>7. Caught(s, r, q)
  BY <1>6, Catches
<1>. HIDE DEF r
<1>8. IInv'
  BY <1>5, <1>6, <1>7, CaughtUp
<1>9. ASSUME NEW j \in 1 .. R, NEW i \in 1 .. W, read.vals[j] = rVals[i]
      PROVE  At(read.ts, j) = At(r.ts, i)
  <2>1. i \in 1 .. q
    <3>1. read.vals[j] <= shown
      BY <1>2, Zenon
    <3>2. rVals[i] <= shown
      BY <1>9, <3>1, Zenon
    <3>3. i <= q
      BY <1>6, <3>2, Zenon
    <3>. QED
      BY <1>3, <1>6, <3>3
  <2>2. R - q + i \in 1 .. R /\ read.vals[j] = read.vals[R - q + i]
    BY <1>3, <1>6, <1>9, <2>1
  <2>3. j = R - q + i
    <3>. DEFINE z == R - q + i
    <3>1. z \in 1 .. R /\ read.vals[j] = read.vals[z]
      BY <2>2
    <3>. HIDE DEF z
    <3>2. read.vals[j] = read.vals[z] => j = z
      BY <1>1, <3>1, Zenon
    <3>. QED
      BY <3>1, <3>2 DEF z
  <2>4. At(r.ts, i) = At(s.ts, i)
    BY <1>7, <2>1 DEF Caught
  <2>. QED
    BY <1>6, <2>1, <2>3, <2>4
<1>10. Stays(r)
  <2>1. Len(r.vals) = W /\ \A i \in 1 .. W : r.vals[i] = rVals[i]
    BY <1>7 DEF Caught
  <2>. QED
    BY <1>2, <1>9, <2>1 DEF Stays
<1>. QED
  BY <1>5, <1>8, <1>10

-----------------------------------------------------------------------------
(* discardTimeRange.                                                       *)

\* Where the copy's search ends, if for the published ones it is where the
\* writer's ends.
LEMMA Turn ==
  ASSUME NEW W \in Nat, NEW R \in Nat, NEW p \in Int, p <= W, p <= R,
         NEW f \in 0 .. W, NEW g \in 0 .. R,
         \A i \in 1 .. p : i <= f <=> R - p + i <= g
  PROVE  p >= 1 => /\ f >= p => g = R
                   /\ f < p /\ f >= 1 => g = R - p + f
                   /\ f = 0 => g <= R - p
<1>. SUFFICES ASSUME p >= 1
              PROVE  /\ f >= p => g = R
                     /\ f < p /\ f >= 1 => g = R - p + f
                     /\ f = 0 => g <= R - p
  OBVIOUS
<1>1. p \in 1 .. p /\ R - p + p = R
  OBVIOUS
<1>2. f >= p => g = R
  BY <1>1
<1>3. f < p => g <= R - p + f
  <2>. SUFFICES ASSUME f < p PROVE g <= R - p + f
    OBVIOUS
  <2>1. f + 1 \in 1 .. p /\ ~(f + 1 <= f)
    OBVIOUS
  <2>2. ~(R - p + (f + 1) <= g)
    BY <2>1
  <2>. QED
    BY <2>2
<1>4. f < p /\ f >= 1 => R - p + f <= g
  <2>. SUFFICES ASSUME f < p, f >= 1 PROVE R - p + f <= g
    OBVIOUS
  <2>1. f \in 1 .. p /\ f <= f
    OBVIOUS
  <2>. QED
    BY <2>1
<1>. QED
  BY <1>2, <1>3, <1>4

\* What is published of what is left.
PublishedLeft(W, p, f, l) == p + Most(l - Most(f, Most(Least(p, W), 0)), 0) - Gap(f, l)

Leaves(W, p, f, l, f2, l2, G, H, left) ==
  G = Gap(f, l) /\ H = Gap(f2, l2) /\ left = PublishedLeft(W, p, f, l)

\* The searches of the two stores end at the same published samples.
Aligned(W, R, p, f, l, f2, l2) ==
  /\ W \in Nat /\ R \in Nat /\ p \in Int /\ p <= W /\ p <= R
  /\ f \in 0 .. W /\ l \in 0 .. W /\ f2 \in 0 .. R /\ l2 \in 0 .. R
  /\ \A i \in 1 .. p : (i <= f <=> R - p + i <= f2) /\ (i <= l <=> R - p + i <= l2)

\* What is left of the published samples are the same in both.
StillAligned(W, R, p, f, f2, G, H, left) ==
  /\ G \in Nat /\ H \in Nat /\ G <= W /\ H <= R
  /\ left \in Int /\ left <= W - G /\ left <= R - H
  /\ left + G - p \in Nat /\ left + G <= W
  /\ \A j \in 1 .. W - G : Old(j, f, G) <= p <=> j <= left
  /\ \A j \in 1 .. left : Old((R - H) - left + j, f2, H) = R - p + Old(j, f, G)

LEMMA LeftIs ==
  ASSUME NEW W, NEW R, NEW p, NEW f, NEW l, NEW f2, NEW l2, Aligned(W, R, p, f, l, f2, l2),
         NEW G, NEW H, NEW left, Leaves(W, p, f, l, f2, l2, G, H, left)
  PROVE  StillAligned(W, R, p, f, f2, G, H, left)
<1>1. /\ W \in Nat /\ R \in Nat /\ p \in Int /\ p <= W /\ p <= R
      /\ f \in 0 .. W /\ l \in 0 .. W /\ f2 \in 0 .. R /\ l2 \in 0 .. R
      /\ \A i \in 1 .. p : (i <= f <=> R - p + i <= f2) /\ (i <= l <=> R - p + i <= l2)
  BY DEF Aligned
<1>2. G = Gap(f, l) /\ H = Gap(f2, l2) /\ left = PublishedLeft(W, p, f, l)
  BY DEF Leaves
<1>3. p >= 1 => /\ f >= p => f2 = R
                /\ f < p /\ f >= 1 => f2 = R - p + f
                /\ f = 0 => f2 <= R - p
  BY <1>1, Turn
<1>4. p >= 1 => /\ l >= p => l2 = R
                /\ l < p /\ l >= 1 => l2 = R - p + l
                /\ l = 0 => l2 <= R - p
  BY <1>1, Turn
<1>5. /\ G \in Nat /\ H \in Nat /\ G <= W /\ H <= R
      /\ (f < l => G = l - f) /\ (~(f < l) => G = 0)
      /\ (f2 < l2 => H = l2 - f2) /\ (~(f2 < l2) => H = 0)
  BY <1>2, <1>1 DEF Gap
<1>. DEFINE u == Most(Least(p, W), 0)
<1>6. u \in Nat /\ (p >= 0 => u = p) /\ (p < 0 => u = 0)
  BY <1>1 DEF Most, Least
<1>. HIDE DEF u
<1>. DEFINE m == Most(l - Most(f, u), 0)
<1>7. m \in Nat /\ left = p + m - G /\ (l <= f => m = 0) /\ (f < l => m = IF u <= f THEN l - f ELSE IF u <= l THEN l - u ELSE 0)
  BY <1>2, <1>1, <1>6 DEF Most, PublishedLeft, u
<1>. HIDE DEF m
<1>8. /\ ~(f < l) => left = p
      /\ f < l /\ p <= f => left = p
      /\ f < l /\ f < p /\ p <= l => left = f
      /\ f < l /\ l < p => left = p - G
  BY <1>1, <1>5, <1>6, <1>7
<1>9. /\ left \in Int /\ left <= W - G /\ left + G - p \in Nat /\ left + G <= W
  <2>1. left \in Int /\ left + G - p = m
    <3>1. m \in Nat /\ left = p + m - G /\ G \in Nat /\ p \in Int
      BY <1>1, <1>5, <1>7, Zenon
    <3>. QED
      BY <3>1
  <2>2. left + G <= W
    BY <1>1, <1>5, <1>8
  <2>3. left <= W - G
    BY <1>1, <1>5, <2>1, <2>2
  <2>. QED
    BY <1>1, <1>7, <2>1, <2>2, <2>3
<1>10. left <= R - H
  BY <1>1, <1>3, <1>4, <1>5, <1>8
<1>11. \A j \in 1 .. W - G : Old(j, f, G) <= p <=> j <= left
  BY <1>1, <1>5, <1>8 DEF Old
<1>12. ASSUME NEW j \in 1 .. left
       PROVE  Old((R - H) - left + j, f2, H) = R - p + Old(j, f, G)
  <2>1. p >= 1
    BY <1>1, <1>8
  <2>2. CASE ~(f < l)
    BY <1>3, <1>4, <1>5, <1>8, <1>1, <2>1, <2>2 DEF Old
  <2>3. CASE f < l /\ p <= f
    BY <1>3, <1>4, <1>5, <1>8, <1>1, <2>1, <2>3 DEF Old
  <2>4. CASE f < l /\ f < p /\ p <= l
    BY <1>3, <1>4, <1>5, <1>8, <1>1, <2>1, <2>4 DEF Old
  <2>5. CASE f < l /\ l < p
    BY <1>3, <1>4, <1>5, <1>8, <1>1, <2>1, <2>5 DEF Old
  <2>. QED
    BY <1>1, <2>2, <2>3, <2>4, <2>5
<1>. QED
  BY <1>5, <1>9, <1>10, <1>11, <1>12 DEF StillAligned

LEMMA CutRises ==
  ASSUME NEW b, NEW c, NEW v, NEW w, NEW f, NEW k, Sound(b), Size(b) \in Nat, f \in Nat, k \in Nat,
         Cut(b, c, f, k), Rising(v, b), \A i \in 1 .. Size(c) : w[i] = v[Old(i, f, k)] /\ Old(i, f, k) \in 1 .. Size(b)
  PROVE  Rising(w, c)
<1>. SUFFICES ASSUME NEW i \in 1 .. Size(c), NEW j \in i + 1 .. Size(c)
              PROVE  w[i] < w[j] /\ At(c, i) < At(c, j)
  BY DEF Rising
<1>1. j \in 1 .. Size(c)
  BY DEF Cut
<1>2. Old(i, f, k) < Old(j, f, k)
  BY <1>1 DEF Old
<1>3. Old(i, f, k) \in 1 .. Size(b) /\ Old(j, f, k) \in Old(i, f, k) + 1 .. Size(b)
  BY <1>1, <1>2
<1>4. v[Old(i, f, k)] < v[Old(j, f, k)] /\ At(b, Old(i, f, k)) < At(b, Old(j, f, k))
  BY <1>3 DEF Rising
<1>. QED
  BY <1>1, <1>4 DEF Cut

LEMMA WriterDistinct ==
  ASSUME NEW b, NEW v, NEW n, NEW new, Writer(b, v, n, new)
  PROVE  \A x, y \in 1 .. Size(b) :
           /\ v[x] \in Nat /\ (v[x] < v[y] <=> x < y) /\ (v[x] = v[y] => x = y)
           /\ At(b, x) \in Int /\ (At(b, x) < At(b, y) <=> x < y)
<1>. TAKE x, y \in 1 .. Size(b)
<1>1. Sound(b) /\ v \in Seq(Nat) /\ Len(v) = Size(b) /\ Rising(v, b)
  BY DEF Writer
<1>. QED
  BY <1>1, Distinct

\* What the invariant says of the two stores as they are.
LEMMA Standing ==
  ASSUME IInv, NEW W, W = Size(rTs), NEW R, R = Size(read.ts), NEW p, p = publishedEnd - StoredStart
  PROVE  /\ W \in Nat /\ R \in Nat /\ p \in Int /\ p <= W /\ p <= R
         /\ Sound(rTs) /\ Sound(read.ts) /\ IsSeries(read)
         /\ rVals \in Seq(Nat) /\ Len(rVals) = W /\ read.vals \in Seq(Nat) /\ Len(read.vals) = R
         /\ \A j \in 1 .. W : rVals[j] <= shown <=> j <= p
         /\ \A j \in 1 .. p :
              /\ rVals[j] = read.vals[R - p + j] /\ R - p + j \in 1 .. R
              /\ 2 * (At(read.ts, R - p + j) - At(rTs, j)) \in -Resolution .. Resolution
         /\ \A i \in 1 .. R : read.vals[i] <= shown
         /\ \A i \in 1 .. R, j \in 1 .. W : read.vals[i] < rVals[j] => At(read.ts, i) < At(rTs, j)
         /\ shown \in Nat /\ ReadStart = publishedEnd - R /\ StoredStart = sampleCount - W
         /\ publishedEnd \in Nat /\ sampleCount \in Nat
<1>1. Counts /\ Reader /\ Agree(rTs, rVals, p, taken, newest)
  BY DEF IInv
<1>2. /\ Sound(rTs) /\ Sound(read.ts) /\ IsSeries(read)
      /\ rVals \in Seq(Nat) /\ Len(rVals) = W /\ read.vals \in Seq(Nat) /\ Len(read.vals) = R
      /\ \A i \in 1 .. R : read.vals[i] <= shown
  BY <1>1 DEF Reader, Agree, Writer
<1>3. W \in Nat /\ R \in Nat
  BY <1>2, SizeNat
<1>4. /\ p \in Int /\ p <= W /\ p <= R
      /\ \A j \in 1 .. W : rVals[j] <= shown <=> j <= p
      /\ \A j \in 1 .. p :
           /\ rVals[j] = read.vals[R - p + j]
           /\ 2 * (At(read.ts, R - p + j) - At(rTs, j)) \in -Resolution .. Resolution
  BY <1>1 DEF Agree, Published
<1>5. \A j \in 1 .. p : R - p + j \in 1 .. R
  BY <1>3, <1>4
<1>6. \A i \in 1 .. R, j \in 1 .. W : read.vals[i] < rVals[j] => At(read.ts, i) < At(rTs, j)
  BY <1>1 DEF Agree, Later
<1>7. /\ shown \in Nat /\ StoredStart = sampleCount - W /\ publishedEnd \in Nat /\ sampleCount \in Nat
      /\ R <= publishedEnd
  BY <1>1 DEF Counts, StoredStart
<1>8. ReadStart = publishedEnd - R
  BY <1>3, <1>7 DEF ReadStart, Most
<1>. QED
  BY <1>2, <1>3, <1>4, <1>5, <1>6, <1>7, <1>8

LEMMA VisibleIs ==
  ASSUME IInv, NEW W, W = Size(rTs), NEW R, R = Size(read.ts), NEW p, p = publishedEnd - StoredStart
  PROVE  /\ \A i \in 1 .. W :
              /\ VisibleTs(i) = IF i <= p THEN At(read.ts, R - p + i) ELSE At(rTs, i)
              /\ VisibleTs(i) \in Int
         /\ \A i \in 1 .. W : \A j \in 1 .. W : i < j => VisibleTs(i) < VisibleTs(j)
<1>1. /\ W \in Nat /\ R \in Nat /\ p \in Int /\ p <= W /\ p <= R
      /\ \A j \in 1 .. W : rVals[j] <= shown <=> j <= p
      /\ \A j \in 1 .. p : rVals[j] = read.vals[R - p + j] /\ R - p + j \in 1 .. R
      /\ \A i \in 1 .. R, j \in 1 .. W : read.vals[i] < rVals[j] => At(read.ts, i) < At(rTs, j)
      /\ ReadStart = publishedEnd - R /\ StoredStart = sampleCount - W
      /\ publishedEnd \in Nat /\ sampleCount \in Nat
  BY Standing
<1>2. \A x, y \in 1 .. R : At(read.ts, x) \in Int /\ (At(read.ts, x) < At(read.ts, y) <=> x < y)
  BY ReaderDistinct DEF IInv
<1>3. \A x, y \in 1 .. W : /\ At(rTs, x) \in Int /\ (At(rTs, x) < At(rTs, y) <=> x < y)
                           /\ (rVals[x] < rVals[y] <=> x < y)
  BY WriterDistinct DEF IInv, Agree
<1>4. \A i \in 1 .. W : VisibleTs(i) = IF i <= p THEN At(read.ts, R - p + i) ELSE At(rTs, i)
  <2>. TAKE i \in 1 .. W
  <2>. DEFINE a == StoredStart + i - 1
              z == R - p + i
  <2>1. ReadStart <= a /\ (a < publishedEnd <=> i <= p) /\ a - ReadStart + 1 = z
    BY <1>1
  <2>2. VisibleTs(i) = IF ReadStart <= a /\ a < publishedEnd
                       THEN At(read.ts, a - ReadStart + 1) ELSE At(rTs, i)
    BY DEF VisibleTs
  <2>. HIDE DEF a, z
  <2>3. VisibleTs(i) = IF i <= p THEN At(read.ts, z) ELSE At(rTs, i)
    BY <2>1, <2>2
  <2>. QED
    BY <2>3 DEF z
<1>5. \A i \in 1 .. W : VisibleTs(i) \in Int
  BY <1>1, <1>2, <1>3, <1>4
<1>6. ASSUME NEW i \in 1 .. W, NEW j \in 1 .. W, i < j
      PROVE  VisibleTs(i) < VisibleTs(j)
  <2>1. CASE j <= p
    <3>1. i \in 1 .. p /\ j \in 1 .. p /\ i <= p /\ R - p + i < R - p + j
      BY <1>1, <1>6, <2>1
    <3>. QED
      BY <1>1, <1>2, <1>4, <2>1, <3>1
  <2>2. CASE i <= p /\ ~(j <= p)
    <3>1. i \in 1 .. p /\ rVals[i] < rVals[j]
      BY <1>1, <1>3, <1>6, <2>2
    <3>. QED
      BY <1>1, <1>4, <2>2, <3>1, ZenonT(30)
  <2>3. CASE ~(i <= p)
    <3>1. ~(j <= p)
      BY <1>1, <1>6, <2>3
    <3>. QED
      BY <1>3, <1>4, <1>6, <2>3, <3>1
  <2>. QED
    BY <2>1, <2>2, <2>3
<1>. QED
  BY <1>4, <1>5, <1>6

\* The searches, and which of the samples lie in the range.
Searched(tMin, tMax, f, l, f2, l2) ==
  /\ f = Cardinality({i \in 1 .. Size(rTs) : VisibleTs(i) < tMin})
  /\ l = Cardinality({i \in 1 .. Size(rTs) : VisibleTs(i) <= tMax})
  /\ f2 = LowerBound(read.ts, tMin) /\ l2 = UpperBound(read.ts, tMax)

Sizes(W, R, p) == W = Size(rTs) /\ R = Size(read.ts) /\ p = publishedEnd - StoredStart

Located(tMin, tMax, W, R, p, f, l, f2, l2) ==
  /\ Aligned(W, R, p, f, l, f2, l2)
  /\ \A i \in 1 .. R : At(read.ts, i) \in tMin .. tMax <=> f2 < i /\ i <= l2
  /\ \A i \in 1 .. W : ~(i <= p) => (At(rTs, i) \in tMin .. tMax <=> f < i /\ i <= l)

LEMMA RangeFound ==
  ASSUME IInv, NEW tMin \in Int, NEW tMax \in Int, NEW W, NEW R, NEW p, Sizes(W, R, p),
         NEW f, NEW l, NEW f2, NEW l2, Searched(tMin, tMax, f, l, f2, l2)
  PROVE  Located(tMin, tMax, W, R, p, f, l, f2, l2)
<1>1. /\ W = Size(rTs) /\ R = Size(read.ts) /\ p = publishedEnd - StoredStart
      /\ f = Cardinality({i \in 1 .. Size(rTs) : VisibleTs(i) < tMin})
      /\ l = Cardinality({i \in 1 .. Size(rTs) : VisibleTs(i) <= tMax})
      /\ f2 = LowerBound(read.ts, tMin) /\ l2 = UpperBound(read.ts, tMax)
  BY DEF Sizes, Searched
<1>2. /\ W \in Nat /\ R \in Nat /\ p \in Int /\ p <= W /\ p <= R
      /\ \A j \in 1 .. p : R - p + j \in 1 .. R
  BY <1>1, Standing
<1>3. \A x, y \in 1 .. R : At(read.ts, x) \in Int /\ (At(read.ts, x) < At(read.ts, y) <=> x < y)
  BY <1>1, ReaderDistinct DEF IInv
<1>4. /\ \A i \in 1 .. W :
           /\ VisibleTs(i) = IF i <= p THEN At(read.ts, R - p + i) ELSE At(rTs, i)
           /\ VisibleTs(i) \in Int
      /\ \A i \in 1 .. W : \A j \in 1 .. W : i < j => VisibleTs(i) < VisibleTs(j)
  BY <1>1, VisibleIs
<1>5. f \in 0 .. W /\ \A i \in 1 .. W : VisibleTs(i) < tMin <=> i <= f
  <2>. DEFINE K == {i \in 1 .. W : VisibleTs(i) < tMin}
  <2>1. \A i \in K : \A j \in 1 .. i : j \in K
    <3>. TAKE i \in K
    <3>. TAKE j \in 1 .. i
    <3>1. i \in 1 .. W /\ VisibleTs(i) < tMin /\ j \in 1 .. W
      BY <1>2
    <3>2. VisibleTs(j) < tMin
      BY <1>4, <3>1
    <3>. QED
      BY <3>1, <3>2
  <2>2. K \in SUBSET (1 .. W)
    OBVIOUS
  <2>. HIDE DEF K
  <2>3. Cardinality(K) \in 0 .. W /\ \A i \in 1 .. W : i \in K <=> i <= Cardinality(K)
    BY <1>2, <2>1, <2>2, Prefix
  <2>. QED
    BY <1>1, <2>3 DEF K
<1>6. l \in 0 .. W /\ \A i \in 1 .. W : VisibleTs(i) <= tMax <=> i <= l
  <2>. DEFINE K == {i \in 1 .. W : VisibleTs(i) <= tMax}
  <2>1. \A i \in K : \A j \in 1 .. i : j \in K
    <3>. TAKE i \in K
    <3>. TAKE j \in 1 .. i
    <3>1. i \in 1 .. W /\ VisibleTs(i) <= tMax /\ j \in 1 .. W /\ (j = i \/ j < i)
      BY <1>2
    <3>2. VisibleTs(j) <= tMax
      BY <1>4, <3>1
    <3>. QED
      BY <3>1, <3>2
  <2>2. K \in SUBSET (1 .. W)
    OBVIOUS
  <2>. HIDE DEF K
  <2>3. Cardinality(K) \in 0 .. W /\ \A i \in 1 .. W : i \in K <=> i <= Cardinality(K)
    BY <1>2, <2>1, <2>2, Prefix
  <2>. QED
    BY <1>1, <2>3 DEF K
<1>7. f2 \in 0 .. R /\ \A i \in 1 .. R : At(read.ts, i) < tMin <=> i <= f2
  <2>. DEFINE K == {i \in 1 .. R : At(read.ts, i) < tMin}
  <2>1. \A i \in K : \A j \in 1 .. i : j \in K
    <3>. TAKE i \in K
    <3>. TAKE j \in 1 .. i
    <3>1. i \in 1 .. R /\ At(read.ts, i) < tMin /\ j \in 1 .. R /\ (j = i \/ j < i)
      BY <1>2
    <3>2. At(read.ts, j) < tMin
      BY <1>3, <3>1
    <3>. QED
      BY <3>1, <3>2
  <2>2. K \in SUBSET (1 .. R)
    OBVIOUS
  <2>3. f2 = Cardinality(K)
    BY <1>1 DEF LowerBound
  <2>. HIDE DEF K
  <2>4. Cardinality(K) \in 0 .. R /\ \A i \in 1 .. R : i \in K <=> i <= Cardinality(K)
    BY <1>2, <2>1, <2>2, Prefix
  <2>. QED
    BY <2>3, <2>4 DEF K
<1>8. l2 \in 0 .. R /\ \A i \in 1 .. R : At(read.ts, i) <= tMax <=> i <= l2
  <2>. DEFINE K == {i \in 1 .. R : At(read.ts, i) <= tMax}
  <2>1. \A i \in K : \A j \in 1 .. i : j \in K
    <3>. TAKE i \in K
    <3>. TAKE j \in 1 .. i
    <3>1. i \in 1 .. R /\ At(read.ts, i) <= tMax /\ j \in 1 .. R /\ (j = i \/ j < i)
      BY <1>2
    <3>2. At(read.ts, j) <= tMax
      BY <1>3, <3>1
    <3>. QED
      BY <3>1, <3>2
  <2>2. K \in SUBSET (1 .. R)
    OBVIOUS
  <2>3. l2 = Cardinality(K)
    BY <1>1 DEF UpperBound
  <2>. HIDE DEF K
  <2>4. Cardinality(K) \in 0 .. R /\ \A i \in 1 .. R : i \in K <=> i <= Cardinality(K)
    BY <1>2, <2>1, <2>2, Prefix
  <2>. QED
    BY <2>3, <2>4 DEF K
<1>9. ASSUME NEW i \in 1 .. p
      PROVE  (i <= f <=> R - p + i <= f2) /\ (i <= l <=> R - p + i <= l2)
  <2>1. i \in 1 .. W /\ i <= p
    BY <1>2
  <2>2. VisibleTs(i) = At(read.ts, R - p + i) /\ R - p + i \in 1 .. R
    BY <1>2, <1>4, <2>1
  <2>3. VisibleTs(i) < tMin <=> i <= f
    BY <1>5, <2>1
  <2>4. VisibleTs(i) <= tMax <=> i <= l
    BY <1>6, <2>1
  <2>5. At(read.ts, R - p + i) < tMin <=> R - p + i <= f2
    BY <1>7, <2>2
  <2>6. At(read.ts, R - p + i) <= tMax <=> R - p + i <= l2
    BY <1>8, <2>2
  <2>. QED
    BY <2>2, <2>3, <2>4, <2>5, <2>6, Zenon
<1>10. ASSUME NEW i \in 1 .. R
      PROVE  At(read.ts, i) \in tMin .. tMax <=> f2 < i /\ i <= l2
  BY <1>3, <1>7, <1>8
<1>11. ASSUME NEW i \in 1 .. W, ~(i <= p)
       PROVE  At(rTs, i) \in tMin .. tMax <=> f < i /\ i <= l
  <2>1. VisibleTs(i) = At(rTs, i) /\ At(rTs, i) \in Int
    BY <1>4, <1>11
  <2>2. (At(rTs, i) < tMin <=> i <= f) /\ (At(rTs, i) <= tMax <=> i <= l)
    BY <1>5, <1>6, <2>1
  <2>. QED
    BY <1>5, <2>1, <2>2
<1>. QED
  BY <1>2, <1>5, <1>6, <1>7, <1>8, <1>9, <1>10, <1>11 DEF Located, Aligned

\* What discardTimeRange leaves.
Cuts(W, R, p, f, l, f2, l2, G, H, left) ==
  /\ Cut(rTs, rTs', f, G) /\ rVals' \in Seq(Nat) /\ Len(rVals') = W - G
  /\ \A i \in 1 .. W - G : rVals'[i] = rVals[Old(i, f, G)]
  /\ Cut(read.ts, read'.ts, f2, H) /\ IsSeries(read')
  /\ read'.vals \in Seq(Nat) /\ Len(read'.vals) = R - H
  /\ \A i \in 1 .. R - H : read'.vals[i] = read.vals[Old(i, f2, H)]
  /\ preserve' = TRUE /\ publishedEnd' = publishedEnd + (left + G - p)
  /\ UNCHANGED <<sampleCount, taken, newest, shown>>
  /\ \A x \in gone' :
       \/ x \in gone
       \/ \E j \in 1 .. R : f2 < j /\ j <= l2 /\ x = read.vals[j]
       \/ \E i \in 1 .. W : ~(i <= p) /\ f < i /\ i <= l /\ x = rVals[i]

LEMMA DiscardIs ==
  ASSUME IInv, NEW tMin \in Int, NEW tMax \in Int, Discard(tMin, tMax),
         NEW W, NEW R, NEW p, Sizes(W, R, p),
         NEW f, NEW l, NEW f2, NEW l2, Searched(tMin, tMax, f, l, f2, l2),
         NEW G, NEW H, NEW left, Leaves(W, p, f, l, f2, l2, G, H, left)
  PROVE  Cuts(W, R, p, f, l, f2, l2, G, H, left)
<1>1. /\ W = Size(rTs) /\ R = Size(read.ts) /\ p = publishedEnd - StoredStart
      /\ f = Cardinality({i \in 1 .. Size(rTs) : VisibleTs(i) < tMin})
      /\ l = Cardinality({i \in 1 .. Size(rTs) : VisibleTs(i) <= tMax})
      /\ f2 = LowerBound(read.ts, tMin) /\ l2 = UpperBound(read.ts, tMax)
      /\ G = Gap(f, l) /\ H = Gap(f2, l2) /\ left = PublishedLeft(W, p, f, l)
  BY DEF Sizes, Searched, Leaves
<1>2. /\ W \in Nat /\ R \in Nat /\ p \in Int /\ p <= W /\ p <= R
      /\ Sound(rTs) /\ Sound(read.ts) /\ IsSeries(read)
      /\ rVals \in Seq(Nat) /\ Len(rVals) = W /\ read.vals \in Seq(Nat) /\ Len(read.vals) = R
  BY <1>1, Standing
<1>3. /\ f \in 0 .. W /\ l \in 0 .. W /\ f2 \in 0 .. R /\ l2 \in 0 .. R
      /\ \A i \in 1 .. p : (i <= f <=> R - p + i <= f2) /\ (i <= l <=> R - p + i <= l2)
      /\ \A i \in 1 .. R : At(read.ts, i) \in tMin .. tMax <=> f2 < i /\ i <= l2
      /\ \A i \in 1 .. W :
           ~(i <= p) => (At(rTs, i) \in tMin .. tMax <=> f < i /\ i <= l)
  <2>1. Located(tMin, tMax, W, R, p, f, l, f2, l2)
    BY RangeFound
  <2>. QED
    BY <2>1 DEF Located, Aligned
<1>4. f \in Nat /\ l \in Nat /\ l <= W /\ f2 \in Nat /\ l2 \in Nat /\ l2 <= R
  BY <1>2, <1>3
<1>. DEFINE rest == DiscardTimeRange(read, tMin, tMax)
<1>5. /\ preserve' = TRUE
      /\ rTs' = PreserveExact(EraseRange(rTs, f, l))
      /\ rVals' = Remaining(rVals, f, l)
      /\ read' = Exact(rest)
      /\ UNCHANGED <<sampleCount, taken, newest, shown>>
  BY <1>1 DEF Discard, Remaining
<1>6. Cut(rTs, rTs', f, G)
  <2>1. Cut(rTs, PreserveExact(EraseRange(rTs, f, l)), f, Gap(f, l))
    BY <1>1, <1>2, <1>4, EraseCuts
  <2>. QED
    BY <1>1, <1>5, <2>1
<1>7. rVals' \in Seq(Nat) /\ Len(rVals') = W - G /\ \A i \in 1 .. W - G : rVals'[i] = rVals[Old(i, f, G)]
  <2>. DEFINE w == Remaining(rVals, f, l)
  <2>1. /\ w \in Seq(Nat) /\ Len(w) = Len(rVals) - Gap(f, l)
        /\ \A i \in 1 .. Len(w) : w[i] = rVals[Old(i, f, Gap(f, l))]
    <3>1. rVals \in Seq(Nat) /\ f \in Nat /\ l \in Nat /\ l <= Len(rVals)
      BY <1>2, <1>4
    <3>. QED
      BY <3>1, ValsLeft, Zenon
  <2>2. rVals' = w
    BY <1>5
  <2>. HIDE DEF w
  <2>. QED
    BY <1>1, <1>2, <2>1, <2>2
<1>. DEFINE vs == Remaining(read.vals, f2, l2)
<1>8. IsSeries(rest) /\ rest.ts = EraseRange(read.ts, f2, l2) /\ rest.vals = vs
  <2>1. CASE ~(f2 < l2)
    <3>1. f2 >= l2
      BY <1>4, <2>1
    <3>2. rest = read
      BY <1>1, <3>1 DEF DiscardTimeRange
    <3>3. EraseRange(read.ts, f2, l2) = read.ts
      BY <3>1 DEF EraseRange
    <3>4. vs = read.vals
      BY <2>1 DEF Remaining
    <3>. HIDE DEF rest, vs
    <3>. QED
      BY <1>2, <3>2, <3>3, <3>4
  <2>2. CASE f2 < l2
    <3>. DEFINE t == EraseRange(read.ts, f2, l2)
                w == Without(read.vals, f2, l2)
    <3>1. ~(f2 >= l2)
      BY <1>4, <2>2
    <3>2. \E z : rest = [ts |-> t, vals |-> w, levels |-> z]
      BY <1>1, <3>1 DEF DiscardTimeRange
    <3>3. vs = w
      BY <2>2 DEF Remaining
    <3>. HIDE DEF t, w, rest, vs
    <3>4. PICK z : rest = [ts |-> t, vals |-> w, levels |-> z]
      BY <3>2
    <3>5. rest.ts = t /\ rest.vals = w /\ rest.levels = z
      BY <3>4
    <3>6. IsSeries(rest)
      BY <3>4, <3>5, Zenon DEF IsSeries
    <3>. QED
      BY <3>3, <3>5, <3>6 DEF t
  <2>. QED
    BY <2>1, <2>2
<1>9. /\ read'.ts = PreserveExact(EraseRange(read.ts, f2, l2)) /\ read'.vals = vs /\ IsSeries(read')
  <2>. HIDE DEF rest, vs
  <2>. QED
    BY <1>5, <1>8, ExactKeeps
<1>10. Cut(read.ts, read'.ts, f2, H)
  <2>1. Cut(read.ts, PreserveExact(EraseRange(read.ts, f2, l2)), f2, Gap(f2, l2))
    BY <1>1, <1>2, <1>4, EraseCuts
  <2>. QED
    BY <1>1, <1>9, <2>1
<1>11. /\ read'.vals \in Seq(Nat) /\ Len(read'.vals) = R - H
       /\ \A i \in 1 .. R - H : read'.vals[i] = read.vals[Old(i, f2, H)]
  <2>1. /\ vs \in Seq(Nat) /\ Len(vs) = Len(read.vals) - Gap(f2, l2)
        /\ \A i \in 1 .. Len(vs) : vs[i] = read.vals[Old(i, f2, Gap(f2, l2))]
    <3>1. read.vals \in Seq(Nat) /\ f2 \in Nat /\ l2 \in Nat /\ l2 <= Len(read.vals)
      BY <1>2, <1>4
    <3>. QED
      BY <3>1, ValsLeft, Zenon
  <2>. HIDE DEF vs
  <2>. QED
    BY <1>1, <1>2, <1>9, <2>1
<1>. DEFINE u == Most(Least(publishedEnd - StoredStart, Size(rTs)), 0)
<1>12. publishedEnd' = publishedEnd + (left + G - p)
  <2>. DEFINE m == Most(l - Most(f, u), 0)
  <2>1. publishedEnd' = publishedEnd + m
    BY <1>1 DEF Discard
  <2>2. left = p + m - G
    BY <1>1 DEF PublishedLeft
  <2>3. u \in Int
    BY <1>1, <1>2 DEF Most, Least
  <2>. HIDE DEF u
  <2>4. m \in Int /\ G \in Int
    BY <1>1, <1>4, <2>3 DEF Most, Gap
  <2>. HIDE DEF m
  <2>. QED
    BY <1>2, <2>1, <2>2, <2>4
<1>13. ASSUME NEW x \in gone', x \notin gone
       PROVE  \/ \E j \in 1 .. R : f2 < j /\ j <= l2 /\ x = read.vals[j]
              \/ \E i \in 1 .. W : ~(i <= p) /\ f < i /\ i <= l /\ x = rVals[i]
  <2>1. \/ \E j \in 1 .. Size(read.ts) : At(read.ts, j) \in tMin .. tMax /\ x = read.vals[j]
        \/ \E i \in u + 1 .. Size(rTs) : At(rTs, i) \in tMin .. tMax /\ x = rVals[i]
    BY <1>1, <1>13 DEF Discard
  <2>2. CASE \E j \in 1 .. Size(read.ts) : At(read.ts, j) \in tMin .. tMax /\ x = read.vals[j]
    BY <1>1, <1>3, <2>2
  <2>3. CASE \E i \in u + 1 .. Size(rTs) : At(rTs, i) \in tMin .. tMax /\ x = rVals[i]
    <3>1. PICK i \in u + 1 .. Size(rTs) : At(rTs, i) \in tMin .. tMax /\ x = rVals[i]
      BY <2>3
    <3>2. u \in Nat /\ p <= u
      BY <1>1, <1>2 DEF Most, Least
    <3>. HIDE DEF u
    <3>3. i \in 1 .. W /\ ~(i <= p)
      BY <1>1, <1>2, <3>2
    <3>. QED
      BY <1>3, <3>1, <3>3
  <2>. QED
    BY <2>1, <2>2, <2>3
<1>. QED
  BY <1>5, <1>6, <1>7, <1>9, <1>10, <1>11, <1>12, <1>13 DEF Cuts

\* The discard as the proof needs it: sizes, searches, what goes and what is
\* left, q of it published.
Discarded(W, R, p, f, l, f2, l2, G, H, q) ==
  /\ Cuts(W, R, p, f, l, f2, l2, G, H, q) /\ Leaves(W, p, f, l, f2, l2, G, H, q)
  /\ Aligned(W, R, p, f, l, f2, l2) /\ StillAligned(W, R, p, f, f2, G, H, q)

LEMMA DiscardMeans ==
  ASSUME IInv, NEW tMin \in Int, NEW tMax \in Int, Discard(tMin, tMax)
  PROVE  \E W, R, p, f, l, f2, l2, G, H, q :
            Sizes(W, R, p) /\ Discarded(W, R, p, f, l, f2, l2, G, H, q)
<1>1. PICK W, R, p : Sizes(W, R, p)
  BY DEF Sizes
<1>2. PICK f, l, f2, l2 : Searched(tMin, tMax, f, l, f2, l2)
  BY DEF Searched
<1>3. PICK G, H, q : Leaves(W, p, f, l, f2, l2, G, H, q)
  BY DEF Leaves
<1>4. Located(tMin, tMax, W, R, p, f, l, f2, l2)
  BY <1>1, <1>2, RangeFound
<1>5. Aligned(W, R, p, f, l, f2, l2)
  BY <1>4 DEF Located
<1>6. StillAligned(W, R, p, f, f2, G, H, q)
  BY <1>3, <1>5, LeftIs
<1>7. Cuts(W, R, p, f, l, f2, l2, G, H, q)
  BY <1>1, <1>2, <1>3, DiscardIs
<1>8. Discarded(W, R, p, f, l, f2, l2, G, H, q)
  BY <1>3, <1>5, <1>6, <1>7 DEF Discarded
<1>. QED
  BY <1>1, <1>8

\* Where a sample that is left was.
LEMMA OldWas ==
  ASSUME NEW n \in Nat, NEW f \in 0 .. n, NEW l \in 0 .. n, NEW i \in 1 .. n - Gap(f, l)
  PROVE  /\ Old(i, f, Gap(f, l)) \in 1 .. n
         /\ ~(f < Old(i, f, Gap(f, l)) /\ Old(i, f, Gap(f, l)) <= l)
BY DEF Old, Gap

LEMMA OldLast ==
  ASSUME NEW n \in Nat, NEW f \in 0 .. n, NEW l \in 0 .. n, n # 0, ~(f < n /\ n <= l)
  PROVE  n - Gap(f, l) \in 1 .. n /\ Old(n - Gap(f, l), f, Gap(f, l)) = n
BY DEF Old, Gap

\* The stores after a discard: what holds of each of them alone.
LEMMA DiscardedStores ==
  ASSUME IInv, NEW W, NEW R, NEW p, NEW f, NEW l, NEW f2, NEW l2, NEW G, NEW H, NEW q,
         Sizes(W, R, p), Discarded(W, R, p, f, l, f2, l2, G, H, q)
  PROVE  /\ W \in Nat /\ R \in Nat /\ p \in Int /\ p <= W /\ p <= R
         /\ Size(rTs') = W - G /\ Size(read'.ts) = R - H
         /\ Sound(rTs') /\ Sound(read'.ts) /\ rTs'.exactMode /\ read'.ts.exactMode
         /\ \A i \in 1 .. W - G :
              /\ Old(i, f, G) \in 1 .. W /\ ~(f < Old(i, f, G) /\ Old(i, f, G) <= l)
              /\ At(rTs', i) = At(rTs, Old(i, f, G))
         /\ \A i \in 1 .. R - H :
              /\ Old(i, f2, H) \in 1 .. R /\ ~(f2 < Old(i, f2, H) /\ Old(i, f2, H) <= l2)
              /\ At(read'.ts, i) = At(read.ts, Old(i, f2, H))
         /\ Rising(rVals', rTs') /\ Rising(read'.vals, read'.ts)
<1>1. W = Size(rTs) /\ R = Size(read.ts) /\ p = publishedEnd - StoredStart
  BY DEF Sizes
<1>2. W \in Nat /\ R \in Nat /\ p \in Int /\ p <= W /\ p <= R /\ Sound(rTs) /\ Sound(read.ts)
  BY <1>1, Standing
<1>3. Rising(rVals, rTs) /\ Rising(read.vals, read.ts)
  BY DEF IInv, Agree, Writer, Reader
<1>4. /\ Cut(rTs, rTs', f, G) /\ Cut(read.ts, read'.ts, f2, H)
      /\ \A i \in 1 .. W - G : rVals'[i] = rVals[Old(i, f, G)]
      /\ \A i \in 1 .. R - H : read'.vals[i] = read.vals[Old(i, f2, H)]
      /\ G = Gap(f, l) /\ H = Gap(f2, l2) /\ G \in Nat /\ H \in Nat
      /\ f \in 0 .. W /\ l \in 0 .. W /\ f2 \in 0 .. R /\ l2 \in 0 .. R
  BY DEF Discarded, Cuts, Leaves, Aligned, StillAligned
<1>5. /\ Size(rTs') = W - G /\ Size(read'.ts) = R - H
      /\ Sound(rTs') /\ Sound(read'.ts) /\ rTs'.exactMode /\ read'.ts.exactMode
      /\ \A i \in 1 .. W - G : At(rTs', i) = At(rTs, Old(i, f, G))
      /\ \A i \in 1 .. R - H : At(read'.ts, i) = At(read.ts, Old(i, f2, H))
  BY <1>1, <1>4 DEF Cut
<1>6. \A i \in 1 .. W - G :
        Old(i, f, G) \in 1 .. W /\ ~(f < Old(i, f, G) /\ Old(i, f, G) <= l)
  BY <1>2, <1>4, OldWas
<1>7. \A i \in 1 .. R - H :
        Old(i, f2, H) \in 1 .. R /\ ~(f2 < Old(i, f2, H) /\ Old(i, f2, H) <= l2)
  BY <1>2, <1>4, OldWas
<1>8. Rising(rVals', rTs')
  <2>1. \A i \in 1 .. Size(rTs') : rVals'[i] = rVals[Old(i, f, G)] /\ Old(i, f, G) \in 1 .. Size(rTs)
    BY <1>1, <1>4, <1>5, <1>6
  <2>2. Size(rTs) \in Nat /\ f \in Nat
    BY <1>1, <1>2, <1>4
  <2>. QED
    BY <1>2, <1>3, <1>4, <2>1, <2>2, CutRises
<1>9. Rising(read'.vals, read'.ts)
  <2>. DEFINE c == read'.ts
              v == read'.vals
  <2>1. \A i \in 1 .. Size(c) : v[i] = read.vals[Old(i, f2, H)] /\ Old(i, f2, H) \in 1 .. Size(read.ts)
    BY <1>1, <1>4, <1>5, <1>7
  <2>2. Size(read.ts) \in Nat /\ f2 \in Nat /\ Cut(read.ts, c, f2, H)
    BY <1>1, <1>2, <1>4
  <2>. HIDE DEF c, v
  <2>3. Rising(v, c)
    BY <1>2, <1>3, <1>4, <2>1, <2>2, CutRises
  <2>. QED
    BY <2>3 DEF c, v
<1>. QED
  BY <1>2, <1>5, <1>6, <1>7, <1>8, <1>9

\* What the user discarded is gone from both.
LEMMA DiscardedGone ==
  ASSUME IInv, NEW W, NEW R, NEW p, NEW f, NEW l, NEW f2, NEW l2, NEW G, NEW H, NEW q,
         Sizes(W, R, p), Discarded(W, R, p, f, l, f2, l2, G, H, q)
  PROVE  /\ \A o \in 1 .. R : ~(f2 < o /\ o <= l2) => read.vals[o] \notin gone'
         /\ \A o \in 1 .. W : ~(f < o /\ o <= l) => rVals[o] \notin gone'
         /\ gone' \subseteq 0 .. taken
<1>1. W = Size(rTs) /\ R = Size(read.ts) /\ p = publishedEnd - StoredStart
  BY DEF Sizes
<1>2. /\ W \in Nat /\ R \in Nat /\ p \in Int /\ p <= W /\ p <= R
      /\ \A j \in 1 .. W : rVals[j] <= shown <=> j <= p
      /\ \A j \in 1 .. p : rVals[j] = read.vals[R - p + j] /\ R - p + j \in 1 .. R
      /\ \A i \in 1 .. R : read.vals[i] <= shown
      /\ shown \in Nat
  BY <1>1, Standing
<1>3. \A x, y \in 1 .. R : read.vals[x] \in Nat /\ (read.vals[x] = read.vals[y] => x = y)
  BY <1>1, ReaderDistinct DEF IInv
<1>4. \A x, y \in 1 .. W : rVals[x] \in Nat /\ (rVals[x] = rVals[y] => x = y)
  BY <1>1, WriterDistinct DEF IInv, Agree
<1>5. \A x \in gone' :
        \/ x \in gone
        \/ \E j \in 1 .. R : f2 < j /\ j <= l2 /\ x = read.vals[j]
        \/ \E i \in 1 .. W : ~(i <= p) /\ f < i /\ i <= l /\ x = rVals[i]
  BY DEF Discarded, Cuts
<1>6. /\ \A i \in 1 .. R : read.vals[i] \notin gone
      /\ \A j \in 1 .. W : rVals[j] \notin gone /\ rVals[j] <= taken
      /\ gone \subseteq 0 .. taken /\ taken \in Nat /\ shown <= taken
  BY <1>1 DEF IInv, Counts, Agree, Writer
<1>7. ASSUME NEW o \in 1 .. R, ~(f2 < o /\ o <= l2), read.vals[o] \in gone'
      PROVE  FALSE
  <2>1. CASE \E j \in 1 .. R : f2 < j /\ j <= l2 /\ read.vals[o] = read.vals[j]
    BY <1>3, <1>7, <2>1
  <2>2. CASE \E i \in 1 .. W : ~(i <= p) /\ f < i /\ i <= l /\ read.vals[o] = rVals[i]
    BY <1>2, <1>4, <2>2
  <2>. QED
    BY <1>5, <1>6, <1>7, <2>1, <2>2
<1>8. ASSUME NEW o \in 1 .. W, ~(f < o /\ o <= l), rVals[o] \in gone'
      PROVE  FALSE
  <2>1. CASE \E j \in 1 .. R : f2 < j /\ j <= l2 /\ rVals[o] = read.vals[j]
    <3>1. PICK j \in 1 .. R : f2 < j /\ j <= l2 /\ rVals[o] = read.vals[j]
      BY <2>1
    <3>2. o \in 1 .. p
      BY <1>2, <3>1
    <3>. DEFINE z == R - p + o
    <3>3. z \in 1 .. R /\ read.vals[z] = read.vals[j]
      BY <1>2, <3>1, <3>2
    <3>4. (o <= f <=> z <= f2) /\ (o <= l <=> z <= l2)
      BY <3>2 DEF Discarded, Aligned
    <3>5. f \in 0 .. W /\ f2 \in 0 .. R
      BY DEF Discarded, Aligned
    <3>. HIDE DEF z
    <3>6. z = j
      BY <1>3, <3>3, Zenon
    <3>. QED
      BY <1>8, <3>1, <3>4, <3>5, <3>6
  <2>2. CASE \E i \in 1 .. W : ~(i <= p) /\ f < i /\ i <= l /\ rVals[o] = rVals[i]
    BY <1>4, <1>8, <2>2
  <2>. QED
    BY <1>5, <1>6, <1>8, <2>1, <2>2
<1>9. gone' \subseteq 0 .. taken
  <2>. SUFFICES ASSUME NEW x \in gone' PROVE x \in 0 .. taken
    OBVIOUS
  <2>1. CASE \E j \in 1 .. R : x = read.vals[j]
    BY <1>2, <1>3, <1>6, <2>1
  <2>2. CASE \E i \in 1 .. W : x = rVals[i]
    BY <1>4, <1>6, <2>2
  <2>. QED
    BY <1>5, <1>6, <2>1, <2>2
<1>. QED
  BY <1>7, <1>8, <1>9

LEMMA DiscardedCounts ==
  ASSUME IInv, NEW W, NEW R, NEW p, NEW f, NEW l, NEW f2, NEW l2, NEW G, NEW H, NEW q,
         Sizes(W, R, p), Discarded(W, R, p, f, l, f2, l2, G, H, q)
  PROVE  Counts' /\ Reader' /\ publishedEnd' - StoredStart' = q
<1>1. W = Size(rTs) /\ R = Size(read.ts) /\ p = publishedEnd - StoredStart
  BY DEF Sizes
<1>2. /\ W \in Nat /\ R \in Nat /\ p \in Int /\ p <= W /\ p <= R
      /\ Size(rTs') = W - G /\ Size(read'.ts) = R - H /\ Sound(read'.ts) /\ read'.ts.exactMode
      /\ \A i \in 1 .. R - H :
              Old(i, f2, H) \in 1 .. R /\ ~(f2 < Old(i, f2, H) /\ Old(i, f2, H) <= l2)
      /\ Rising(read'.vals, read'.ts)
  BY DiscardedStores
<1>3. /\ {sampleCount, publishedEnd, taken, shown} \subseteq Nat /\ R <= publishedEnd
      /\ W <= sampleCount /\ publishedEnd <= sampleCount /\ shown <= taken
      /\ p = publishedEnd - (sampleCount - W)
      /\ \A i \in 1 .. R : read.vals[i] <= shown
  BY <1>1 DEF IInv, Counts, Reader, StoredStart
<1>4. /\ read'.vals \in Seq(Nat) /\ Len(read'.vals) = R - H /\ IsSeries(read')
      /\ \A i \in 1 .. R - H : read'.vals[i] = read.vals[Old(i, f2, H)]
      /\ preserve' = TRUE /\ publishedEnd' = publishedEnd + (q + G - p)
      /\ UNCHANGED <<sampleCount, taken, newest, shown>>
      /\ G \in Nat /\ H \in Nat /\ G <= W /\ H <= R /\ q \in Int /\ q + G - p \in Nat /\ q + G <= W
  BY DEF Discarded, Cuts, StillAligned
<1>5. /\ \A i \in 1 .. R - H : read'.vals[i] \notin gone'
      /\ gone' \subseteq 0 .. taken
  BY <1>2, <1>4, DiscardedGone
<1>6. /\ publishedEnd \in Nat /\ sampleCount \in Nat /\ W \in Nat /\ R \in Nat /\ p \in Int
      /\ p = publishedEnd - (sampleCount - W)
      /\ R <= publishedEnd /\ W <= sampleCount /\ publishedEnd <= sampleCount
  BY <1>2, <1>3
<1>7. publishedEnd' - StoredStart' = q
  <2>1. StoredStart' = sampleCount - (W - G)
    BY <1>2, <1>4 DEF StoredStart
  <2>2. publishedEnd' = publishedEnd + (q + G - p) /\ G \in Nat /\ q \in Int
    BY <1>4
  <2>3. (publishedEnd + (q + G - p)) - (sampleCount - (W - G)) = q
    BY <1>6, <2>2
  <2>. QED
    BY <2>1, <2>2, <2>3
<1>8. Counts'
  <2>1. publishedEnd + (q + G - p) \in Nat /\ sampleCount' = sampleCount
    BY <1>4, <1>6
  <2>2. /\ W - G <= sampleCount /\ R - H <= publishedEnd + (q + G - p)
        /\ publishedEnd + (q + G - p) <= sampleCount
    BY <1>4, <1>6
  <2>3. /\ {sampleCount', publishedEnd', taken', shown'} \subseteq Nat /\ preserve' \in BOOLEAN
        /\ Size(rTs') <= sampleCount' /\ Size(read'.ts) <= publishedEnd'
        /\ publishedEnd' <= sampleCount' /\ shown' <= taken'
    BY <1>2, <1>3, <1>4, <2>1, <2>2
  <2>. QED
    BY <1>2, <1>4, <1>5, <2>3 DEF Counts
<1>9. Reader'
  <2>1. \A i \in 1 .. R - H : read'.vals[i] <= shown
    BY <1>2, <1>3, <1>4
  <2>. QED
    BY <1>2, <1>4, <2>1 DEF Reader, Spaced
<1>. QED
  BY <1>7, <1>8, <1>9

\* A stamp still shown is the one that was.
LEMMA DiscardStays ==
  ASSUME IInv, NEW W, NEW R, NEW p, NEW f, NEW l, NEW f2, NEW l2, NEW G, NEW H, NEW q,
         Sizes(W, R, p), Discarded(W, R, p, f, l, f2, l2, G, H, q)
  PROVE  Stays(read')
<1>1. R = Size(read.ts)
  BY DEF Sizes
<1>2. /\ \A i \in 1 .. R - H :
           Old(i, f2, H) \in 1 .. R /\ At(read'.ts, i) = At(read.ts, Old(i, f2, H))
  BY DiscardedStores
<1>3. /\ Len(read'.vals) = R - H
      /\ \A i \in 1 .. R - H : read'.vals[i] = read.vals[Old(i, f2, H)]
  BY DEF Discarded, Cuts
<1>4. \A x, y \in 1 .. R : read.vals[x] = read.vals[y] => x = y
  BY <1>1, ReaderDistinct DEF IInv
<1>5. Len(read.vals) = R
  BY <1>1 DEF IInv, Reader
<1>6. ASSUME NEW j \in 1 .. R, NEW i \in 1 .. R - H, read.vals[j] = read'.vals[i]
      PROVE  At(read.ts, j) = At(read'.ts, i)
  <2>. DEFINE o == Old(i, f2, H)
  <2>1. o \in 1 .. R /\ read.vals[j] = read.vals[o] /\ At(read'.ts, i) = At(read.ts, o)
    BY <1>2, <1>3, <1>6
  <2>. HIDE DEF o
  <2>2. j = o
    BY <1>4, <2>1, Zenon
  <2>. QED
    BY <2>1, <2>2
<1>. QED
  BY <1>3, <1>5, <1>6 DEF Stays

LEMMA DiscardedAgree ==
  ASSUME IInv, NEW W, NEW R, NEW p, NEW f, NEW l, NEW f2, NEW l2, NEW G, NEW H, NEW q,
         Sizes(W, R, p), Discarded(W, R, p, f, l, f2, l2, G, H, q)
  PROVE  Agree(rTs, rVals, q, taken, newest)'
<1>1. W = Size(rTs) /\ R = Size(read.ts) /\ p = publishedEnd - StoredStart
  BY DEF Sizes
<1>2. /\ W \in Nat /\ R \in Nat /\ p \in Int /\ p <= W /\ p <= R
      /\ \A j \in 1 .. W : rVals[j] <= shown <=> j <= p
      /\ \A j \in 1 .. p :
           /\ rVals[j] = read.vals[R - p + j] /\ R - p + j \in 1 .. R
           /\ 2 * (At(read.ts, R - p + j) - At(rTs, j)) \in -Resolution .. Resolution
      /\ \A i \in 1 .. R : read.vals[i] <= shown
      /\ \A i \in 1 .. R, j \in 1 .. W : read.vals[i] < rVals[j] => At(read.ts, i) < At(rTs, j)
      /\ shown \in Nat
  <2>1. /\ \A j \in 1 .. p :
              /\ rVals[j] = read.vals[R - p + j] /\ R - p + j \in 1 .. R
              /\ 2 * (At(read.ts, R - p + j) - At(rTs, j)) \in -Resolution .. Resolution
    BY <1>1, Standing
  <2>2. /\ W \in Nat /\ R \in Nat /\ p \in Int /\ p <= W /\ p <= R
        /\ \A j \in 1 .. W : rVals[j] <= shown <=> j <= p
        /\ \A i \in 1 .. R : read.vals[i] <= shown
        /\ \A i \in 1 .. R, j \in 1 .. W : read.vals[i] < rVals[j] => At(read.ts, i) < At(rTs, j)
        /\ shown \in Nat
    BY <1>1, Standing
  <2>. QED
    BY <2>1, <2>2
<1>3. /\ Size(rTs') = W - G /\ Size(read'.ts) = R - H
      /\ Sound(rTs') /\ rTs'.exactMode
      /\ \A i \in 1 .. W - G :
           /\ Old(i, f, G) \in 1 .. W /\ ~(f < Old(i, f, G) /\ Old(i, f, G) <= l)
           /\ At(rTs', i) = At(rTs, Old(i, f, G))
      /\ \A i \in 1 .. R - H :
           /\ Old(i, f2, H) \in 1 .. R /\ ~(f2 < Old(i, f2, H) /\ Old(i, f2, H) <= l2)
           /\ At(read'.ts, i) = At(read.ts, Old(i, f2, H))
      /\ Rising(rVals', rTs') /\ Rising(read'.vals, read'.ts)
  BY DiscardedStores
<1>4. /\ rVals' \in Seq(Nat) /\ Len(rVals') = W - G
      /\ \A i \in 1 .. W - G : rVals'[i] = rVals[Old(i, f, G)]
      /\ \A i \in 1 .. R - H : read'.vals[i] = read.vals[Old(i, f2, H)]
      /\ preserve' = TRUE /\ taken' = taken /\ newest' = newest /\ shown' = shown
  BY DEF Discarded, Cuts
<1>5. /\ G = Gap(f, l) /\ H = Gap(f2, l2) /\ G \in Nat /\ H \in Nat /\ G <= W /\ H <= R
      /\ f \in 0 .. W /\ l \in 0 .. W /\ f2 \in 0 .. R /\ l2 \in 0 .. R
      /\ \A i \in 1 .. p : (i <= f <=> R - p + i <= f2) /\ (i <= l <=> R - p + i <= l2)
      /\ q \in Int /\ q <= W - G /\ q <= R - H
      /\ \A j \in 1 .. W - G : Old(j, f, G) <= p <=> j <= q
      /\ \A j \in 1 .. q : Old((R - H) - q + j, f2, H) = R - p + Old(j, f, G)
  BY DEF Discarded, Leaves, Aligned, StillAligned
<1>6. \A x, y \in 1 .. R : At(read.ts, x) \in Int /\ (At(read.ts, x) < At(read.ts, y) <=> x < y)
                           /\ (read.vals[x] < read.vals[y] <=> x < y) /\ read.vals[x] \in Nat
                           /\ (read.vals[x] = read.vals[y] => x = y)
  BY <1>1, ReaderDistinct DEF IInv
<1>7. \A x, y \in 1 .. W : At(rTs, x) \in Int /\ (At(rTs, x) < At(rTs, y) <=> x < y)
                           /\ rVals[x] \in Nat
  BY <1>1, WriterDistinct DEF IInv, Agree
<1>8. /\ \A j \in 1 .. W : rVals[j] <= taken
      /\ newest \in Int /\ taken \in Nat
      /\ W # 0 => At(rTs, W) <= newest
      /\ R # 0 => At(read.ts, R) < newest \/ (W # 0 /\ At(rTs, W) = newest)
  BY <1>1 DEF IInv, Agree, Writer, Newest, Counts
<1>9. Writer(rTs, rVals, taken, newest)'
  <2>1. W - G # 0 => At(rTs', W - G) <= newest
    <3>. SUFFICES ASSUME W - G # 0 PROVE At(rTs', W - G) <= newest
      OBVIOUS
    <3>. DEFINE o == Old(W - G, f, G)
    <3>1. W - G \in 1 .. W - G /\ W \in 1 .. W
      BY <1>2, <1>5
    <3>2. o \in 1 .. W /\ At(rTs', W - G) = At(rTs, o)
      BY <1>3, <3>1
    <3>. HIDE DEF o
    <3>3. At(rTs, o) <= At(rTs, W)
      <4>1. CASE o = W
        BY <1>7, <3>1, <4>1
      <4>2. CASE o < W
        BY <1>7, <3>1, <3>2, <4>2
      <4>. QED
        BY <1>2, <3>2, <4>1, <4>2
    <3>. QED
      BY <1>2, <1>7, <1>8, <3>1, <3>2, <3>3
  <2>2. \A j \in 1 .. W - G : rVals'[j] <= taken
    BY <1>3, <1>4, <1>8
  <2>. QED
    BY <1>3, <1>4, <1>8, <2>1, <2>2 DEF Writer, Spaced
<1>10. Published(rTs, rVals, q)'
  <2>1. \A j \in 1 .. W - G : rVals'[j] <= shown <=> j <= q
    <3>. TAKE j \in 1 .. W - G
    <3>1. Old(j, f, G) \in 1 .. W /\ rVals'[j] = rVals[Old(j, f, G)]
      BY <1>3, <1>4
    <3>2. rVals[Old(j, f, G)] <= shown <=> Old(j, f, G) <= p
      BY <1>2, <3>1
    <3>3. Old(j, f, G) <= p <=> j <= q
      BY <1>5
    <3>. QED
      BY <3>1, <3>2, <3>3, Zenon
  <2>2. ASSUME NEW j \in 1 .. q
        PROVE  /\ rVals'[j] = read'.vals[(R - H) - q + j]
               /\ 2 * (At(read'.ts, (R - H) - q + j) - At(rTs', j)) \in -Resolution .. Resolution
    <3>. DEFINE i == (R - H) - q + j
                o == Old(j, f, G)
    <3>1. i \in 1 .. R - H /\ j \in 1 .. W - G
      BY <1>2, <1>5
    <3>2. o <= p /\ o \in 1 .. W /\ rVals'[j] = rVals[o] /\ At(rTs', j) = At(rTs, o)
      BY <1>3, <1>4, <1>5, <3>1
    <3>3. Old(i, f2, H) = R - p + o
      BY <1>5
    <3>4. read'.vals[i] = read.vals[Old(i, f2, H)] /\ At(read'.ts, i) = At(read.ts, Old(i, f2, H))
      BY <1>3, <1>4, <3>1
    <3>. HIDE DEF i, o
    <3>5. o \in 1 .. p
      BY <1>2, <3>2
    <3>6. /\ rVals[o] = read.vals[R - p + o]
          /\ 2 * (At(read.ts, R - p + o) - At(rTs, o)) \in -Resolution .. Resolution
      BY <1>2, <3>5
    <3>7. /\ rVals'[j] = read'.vals[i]
          /\ 2 * (At(read'.ts, i) - At(rTs', j)) \in -Resolution .. Resolution
      BY <3>2, <3>3, <3>4, <3>6
    <3>. QED
      BY <3>7 DEF i
  <2>. QED
    BY <1>3, <1>4, <1>5, <2>1, <2>2 DEF Published
<1>11. Later(rTs, rVals)'
  <2>1. ASSUME NEW i \in 1 .. R - H, NEW j \in 1 .. W - G, read'.vals[i] < rVals'[j]
        PROVE  At(read'.ts, i) < At(rTs', j)
    <3>1. /\ Old(i, f2, H) \in 1 .. R /\ At(read'.ts, i) = At(read.ts, Old(i, f2, H))
          /\ read'.vals[i] = read.vals[Old(i, f2, H)]
      BY <1>3, <1>4
    <3>2. /\ Old(j, f, G) \in 1 .. W /\ At(rTs', j) = At(rTs, Old(j, f, G))
          /\ rVals'[j] = rVals[Old(j, f, G)]
      BY <1>3, <1>4
    <3>. QED
      BY <1>2, <2>1, <3>1, <3>2
  <2>. QED
    BY <1>3, <1>4, <2>1 DEF Later
<1>12. Newest(rTs, newest)'
  <2>1. ASSUME R - H # 0
        PROVE  \/ At(read'.ts, R - H) < newest
               \/ W - G # 0 /\ At(rTs', W - G) = newest
    <3>. DEFINE o == Old(R - H, f2, H)
    <3>1. R - H \in 1 .. R - H /\ R \in 1 .. R /\ R # 0
      BY <1>2, <1>5, <2>1
    <3>2. o \in 1 .. R /\ ~(f2 < o /\ o <= l2) /\ At(read'.ts, R - H) = At(read.ts, o)
      BY <1>3, <3>1
    <3>. HIDE DEF o
    <3>3. At(read.ts, o) <= At(read.ts, R)
      <4>1. CASE o = R
        BY <1>6, <3>1, <4>1
      <4>2. CASE o < R
        BY <1>6, <3>1, <3>2, <4>2
      <4>. QED
        BY <1>2, <3>2, <4>1, <4>2
    <3>4. CASE At(read.ts, R) < newest
      BY <1>6, <1>8, <3>1, <3>2, <3>3, <3>4
    <3>5. CASE W # 0 /\ At(rTs, W) = newest /\ read.vals[o] < rVals[W]
      <4>1. W \in 1 .. W
        BY <1>2, <3>5
      <4>. QED
        BY <1>2, <3>2, <3>5, <4>1
    <3>6. CASE W # 0 /\ At(rTs, W) = newest /\ ~(read.vals[o] < rVals[W])
      <4>1. W \in 1 .. W
        BY <1>2, <3>6
      <4>2. rVals[W] \in Nat /\ read.vals[o] \in Nat /\ read.vals[o] <= shown
        BY <1>2, <1>6, <1>7, <3>2, <4>1
      <4>3. rVals[W] <= shown
        BY <1>2, <3>6, <4>2
      <4>4. p = W
        BY <1>2, <4>1, <4>3
      <4>5. R - p + W = R /\ W \in 1 .. p
        BY <1>2, <4>1, <4>4
      <4>6. rVals[W] = read.vals[R]
        BY <1>2, <4>5
      <4>7. o = R
        <5>1. ~(o < R)
          BY <1>6, <3>1, <3>2, <3>6, <4>6
        <5>. QED
          BY <1>2, <3>2, <5>1
      <4>8. (W <= f <=> R <= f2) /\ (W <= l <=> R <= l2)
        BY <1>5, <4>5
      <4>9. ~(f < W /\ W <= l)
        BY <1>2, <1>5, <3>2, <4>7, <4>8
      <4>10. W - G \in 1 .. W /\ Old(W - G, f, G) = W
        BY <1>2, <1>5, <3>6, <4>9, OldLast
      <4>11. W - G \in 1 .. W - G /\ W - G # 0
        BY <1>2, <1>5, <4>10
      <4>. QED
        BY <1>3, <3>6, <4>10, <4>11
    <3>. QED
      BY <1>8, <3>1, <3>4, <3>5, <3>6
  <2>. QED
    BY <1>3, <1>4, <2>1 DEF Newest
<1>13. \A j \in 1 .. W - G : rVals'[j] \notin gone'
  BY <1>3, <1>4, DiscardedGone
<1>. QED
  BY <1>3, <1>4, <1>9, <1>10, <1>11, <1>12, <1>13 DEF Agree

LEMMA StepDiscard ==
  ASSUME IInv, NEW tMin \in Int, NEW tMax \in Int, Discard(tMin, tMax)
  PROVE  IInv' /\ Stays(read')
<1>1. PICK W, R, p, f, l, f2, l2, G, H, q :
        Sizes(W, R, p) /\ Discarded(W, R, p, f, l, f2, l2, G, H, q)
  BY DiscardMeans
<1>2. Counts' /\ Reader' /\ publishedEnd' - StoredStart' = q
  BY <1>1, DiscardedCounts
<1>3. Agree(rTs, rVals, q, taken, newest)'
  BY <1>1, DiscardedAgree
<1>4. Stays(read')
  BY <1>1, DiscardStays
<1>. QED
  BY <1>2, <1>3, <1>4 DEF IInv

-----------------------------------------------------------------------------
(* clearData, cloneWithHistory.                                            *)

\* The copy of the GUI's samples that a clone gets.
Copied(r) ==
  /\ Sound(r.ts) /\ r.ts.exactMode = preserve /\ IsSeries(r) /\ Spaced(r.ts)
  /\ Size(r.ts) = Size(read.ts) /\ r.vals \in Seq(Nat) /\ Len(r.vals) = Size(read.ts)
  /\ \A i \in 1 .. Size(read.ts) : r.vals[i] = read.vals[i]
  /\ Rising(r.vals, r.ts)

LEMMA CopyIs ==
  ASSUME IInv
  PROVE  Copied(PushAll(Fresh, read.vals, Times(read.ts)))
<1>. DEFINE b == read.ts
            R == Size(b)
            vals == read.vals
            times == Times(b)
            r == PushAll(Fresh, vals, times)
<1>1. /\ Sound(b) /\ vals \in Seq(Nat) /\ Len(vals) = R /\ b.exactMode = preserve
      /\ Spaced(b) /\ Rising(vals, b) /\ preserve \in BOOLEAN
  BY DEF IInv, Reader, Counts
<1>2. R \in Nat
  BY <1>1, SizeNat
<1>3. /\ Sound(Fresh.ts) /\ Fresh.ts.exactMode = preserve /\ IsSeries(Fresh) /\ Size(Fresh.ts) = 0
      /\ Fresh.vals = << >> /\ Spaced(Fresh.ts) /\ (~preserve => End(Fresh.ts) = 0)
  BY <1>1, FreshIs
<1>4. Fresh.vals \in Seq(Nat) /\ Len(Fresh.vals) = 0
  BY <1>3
<1>5. \A i \in 1 .. R : times[i] = At(b, i) /\ At(b, i) \in Int
  <2>1. \A i \in 1 .. R : At(b, i) \in Int
    BY <1>1, AtIs
  <2>. QED
    BY <2>1 DEF Times
<1>. HIDE DEF b, vals, times, R
<1>6. ASSUME Grown(Fresh, r, vals, Len(vals))
      PROVE  /\ Sound(r.ts) /\ r.ts.exactMode = preserve /\ IsSeries(r)
             /\ Size(r.ts) = R /\ r.vals \in Seq(Nat) /\ Len(r.vals) = R
             /\ \A i \in 1 .. R : r.vals[i] = vals[i]
  <2>. HIDE DEF r
  <2>1. /\ Sound(r.ts) /\ r.ts.exactMode = Fresh.ts.exactMode /\ IsSeries(r)
        /\ Size(r.ts) = Size(Fresh.ts) + Len(vals)
        /\ r.vals \in Seq(Nat) /\ Len(r.vals) = Len(Fresh.vals) + Len(vals)
        /\ \A i \in 1 .. Len(vals) : r.vals[Len(Fresh.vals) + i] = vals[i]
    BY <1>6 DEF Grown
  <2>2. \A i \in 1 .. R : 0 + i = i
    BY <1>2
  <2>. QED
    BY <1>1, <1>2, <1>3, <1>4, <2>1, <2>2
<1>7. CASE preserve
  <2>1. AreInts(times, Len(vals))
    BY <1>1, <1>5 DEF AreInts
  <2>2. /\ Grown(Fresh, r, vals, Len(vals))
        /\ \A i \in 1 .. Len(vals) : At(r.ts, Size(Fresh.ts) + i) = times[i]
    BY <1>1, <1>3, <1>4, <1>7, <2>1, AllExact
  <2>. HIDE DEF r
  <2>3. \A i \in 1 .. R : At(r.ts, i) = At(b, i)
    <3>1. \A i \in 1 .. R : 0 + i = i
      BY <1>2
    <3>. QED
      BY <1>1, <1>3, <1>5, <2>2, <3>1
  <2>4. Rising(r.vals, r.ts)
    <3>. SUFFICES ASSUME NEW i \in 1 .. R, NEW j \in i + 1 .. R
                  PROVE  r.vals[i] < r.vals[j] /\ At(r.ts, i) < At(r.ts, j)
      BY <1>6, <2>2 DEF Rising
    <3>1. j \in 1 .. R
      BY <1>2
    <3>2. vals[i] < vals[j] /\ At(b, i) < At(b, j)
      BY <1>1 DEF Rising, b, R
    <3>. QED
      BY <1>6, <2>2, <2>3, <3>1, <3>2
  <2>5. Copied(r)
    BY <1>6, <1>7, <2>2, <2>4 DEF Copied, Spaced, vals, b, R
  <2>. QED
    BY <2>5 DEF r, vals, times, b
<1>8. CASE ~preserve
  <2>1. Fits(Fresh.ts, b, 0 + 1)
    <3>1. 0 % Block = 0
      BY BlockNat
    <3>. QED
      BY <1>3, <1>8, <3>1 DEF Fits, InStep
  <2>2. 0 + Len(vals) = Size(b) /\ \A i \in 1 .. Len(vals) : times[i] = At(b, 0 + i)
    BY <1>1, <1>2, <1>5 DEF R
  <2>3. /\ Grown(Fresh, r, vals, Len(vals))
        /\ Followed(Fresh, r, b, 0, Len(vals))
    BY <1>1, <1>3, <1>4, <1>8, <2>1, <2>2, AllRounded
  <2>. HIDE DEF r
  <2>4. Spaced(r.ts)
    BY <2>3 DEF Followed
  <2>5. Rising(r.vals, r.ts)
    <3>. SUFFICES ASSUME NEW i \in 1 .. R, NEW j \in i + 1 .. R
                  PROVE  r.vals[i] < r.vals[j] /\ At(r.ts, i) < At(r.ts, j)
      BY <1>6, <2>3 DEF Rising
    <3>1. j \in 1 .. R /\ i \in 1 .. j - 1
      BY <1>2
    <3>2. vals[i] < vals[j]
      BY <1>1 DEF Rising, b, R
    <3>3. At(r.ts, i) < At(r.ts, j)
      BY <1>6, <1>8, <2>3, <2>4, <3>1, SpacedRises
    <3>. QED
      BY <1>6, <2>3, <3>1, <3>2, <3>3
  <2>6. Copied(r)
    BY <1>6, <2>3, <2>4, <2>5 DEF Copied, vals, b, R
  <2>. QED
    BY <2>6 DEF r, vals, times, b
<1>. QED
  BY <1>1, <1>7, <1>8

LEMMA StepClone == ASSUME IInv, CloneWithHistory PROVE IInv'
<1>. DEFINE r == PushAll(Fresh, read.vals, Times(read.ts))
<1>1. PICK R \in Nat : R = Size(read.ts)
  BY SizeNat DEF IInv, Reader
<1>2. Copied(r)
  BY CopyIs
<1>. HIDE DEF r
<1>3. /\ read' = r /\ rTs' = r.ts /\ rVals' = r.vals /\ sampleCount' = R /\ publishedEnd' = R
      /\ newest' = (IF R = 0 THEN newest ELSE At(r.ts, R))
      /\ UNCHANGED <<preserve, taken, shown, gone>>
  BY <1>1 DEF CloneWithHistory, r, Fresh
<1>4. /\ Sound(r.ts) /\ r.ts.exactMode = preserve /\ IsSeries(r) /\ Spaced(r.ts)
      /\ Size(r.ts) = R /\ r.vals \in Seq(Nat) /\ Len(r.vals) = R
      /\ \A i \in 1 .. R : r.vals[i] = read.vals[i]
      /\ Rising(r.vals, r.ts)
  BY <1>1, <1>2 DEF Copied
<1>5. /\ R \in Nat /\ preserve \in BOOLEAN /\ taken \in Nat /\ shown \in Nat /\ shown <= taken
      /\ gone \subseteq 0 .. taken /\ newest \in Int
      /\ \A i \in 1 .. R : read.vals[i] \notin gone /\ read.vals[i] <= shown /\ read.vals[i] \in Nat
  <2>1. /\ read.vals \in Seq(Nat) /\ Len(read.vals) = R
    BY <1>1 DEF IInv, Reader
  <2>. QED
    BY <1>1, <2>1, SMTT(30) DEF IInv, Reader, Counts, Agree, Writer
<1>6. \A i \in 1 .. R : /\ r.vals[i] \notin gone /\ r.vals[i] <= shown /\ r.vals[i] <= taken
                        /\ At(r.ts, i) \in Int
  <2>. TAKE i \in 1 .. R
  <2>1. At(r.ts, i) \in Int
    BY <1>4, AtIs
  <2>. QED
    BY <1>4, <1>5, <2>1
<1>7. publishedEnd' - StoredStart' = R
  BY <1>3, <1>4, <1>5 DEF StoredStart
<1>8. Counts'
  BY <1>3, <1>4, <1>5, <1>6 DEF Counts
<1>9. Reader'
  BY <1>3, <1>4, <1>6 DEF Reader
<1>10. Writer(rTs, rVals, taken, newest)'
  <2>1. newest' \in Int /\ (R # 0 => At(r.ts, R) = newest')
    <3>1. R # 0 => R \in 1 .. R
      BY <1>5
    <3>. QED
      BY <1>3, <1>5, <1>6, <3>1
  <2>2. R # 0 => At(r.ts, R) <= newest' /\ (~preserve => At(r.ts, R) = newest')
    BY <2>1
  <2>. QED
    BY <1>3, <1>4, <1>6, <2>1, <2>2 DEF Writer
<1>11. Published(rTs, rVals, R)'
  <2>1. \A j \in 1 .. R : R - R + j = j /\ (r.vals[j] <= shown <=> j <= R)
    BY <1>5, <1>6
  <2>2. \A j \in 1 .. R : 2 * (At(r.ts, j) - At(r.ts, j)) \in -Resolution .. Resolution
    BY <1>6, BlockNat
  <2>3. \A j \in 1 .. R : /\ r.vals[j] = r.vals[R - R + j]
                          /\ 2 * (At(r.ts, R - R + j) - At(r.ts, j)) \in -Resolution .. Resolution
    BY <2>1, <2>2
  <2>. QED
    BY <1>3, <1>4, <1>5, <2>1, <2>3 DEF Published
<1>12. Later(rTs, rVals)'
  <2>1. ASSUME NEW i \in 1 .. R, NEW j \in 1 .. R, r.vals[i] < r.vals[j]
        PROVE  /\ At(r.ts, i) < At(r.ts, j)
               /\ ~preserve => 2 * (At(r.ts, j) - At(r.ts, i)) >= Resolution
    <3>1. /\ r.vals[i] \in Nat /\ r.vals[j] \in Nat
          /\ (r.vals[i] < r.vals[j] <=> i < j) /\ (At(r.ts, i) < At(r.ts, j) <=> i < j)
      BY <1>4, Distinct
    <3>2. i < j
      BY <2>1, <3>1
    <3>3. ASSUME ~preserve PROVE 2 * (At(r.ts, j) - At(r.ts, i)) >= Resolution
      <4>1. j - 1 \in 1 .. R /\ j \in 2 .. R /\ (i = j - 1 \/ i < j - 1)
        BY <1>5, <3>2
      <4>2. 2 * (At(r.ts, j) - At(r.ts, j - 1)) >= Resolution
        BY <1>4, <3>3, <4>1 DEF Spaced
      <4>3. At(r.ts, i) <= At(r.ts, j - 1)
        <5>1. CASE i = j - 1
          BY <1>6, <4>1, <5>1
        <5>2. CASE i < j - 1
          <6>1. i \in 1 .. (j - 1) - 1
            BY <4>1, <5>2
          <6>2. At(r.ts, i) < At(r.ts, j - 1)
            BY <1>4, <3>3, <4>1, <6>1, SpacedRises
          <6>. QED
            BY <1>6, <4>1, <6>2
        <5>. QED
          BY <4>1, <5>1, <5>2
      <4>4. At(r.ts, i) \in Int /\ At(r.ts, j) \in Int /\ At(r.ts, j - 1) \in Int
        BY <1>6, <4>1
      <4>. QED
        BY <4>2, <4>3, <4>4, BlockNat
    <3>. QED
      BY <3>1, <3>2, <3>3
  <2>. QED
    BY <1>3, <1>4, <2>1 DEF Later
<1>13. Newest(rTs, newest)'
  BY <1>3, <1>4 DEF Newest
<1>14. ~preserve' => InStep(read'.ts, rTs', rTs'.frontAbs + R)
  <2>. SUFFICES ASSUME ~preserve PROVE InStep(r.ts, r.ts, r.ts.frontAbs + R)
    BY <1>3
  <2>. DEFINE a == End(r.ts)
  <2>1. r.ts.frontAbs + R = a /\ a \in Nat
    BY <1>4, Fields DEF Sound, End, Size
  <2>2. ASSUME a % Block # 0 PROVE Congruent(AnchorAt(r.ts, a), AnchorAt(r.ts, a))
    <3>1. Anchored(r.ts, a)
      <4>1. r.ts.frontAbs \in Nat /\ r.ts.frontAbs <= a
        BY <1>4, <1>5, <2>1, Fields DEF Sound
      <4>. QED
        BY <2>1, <2>2, <4>1 DEF Anchored
    <3>2. AnchorAt(r.ts, a) \in Int
      BY <1>4, <2>1, <3>1, AnchorInside
    <3>. QED
      BY <3>2, CongruentSelf
  <2>. QED
    BY <2>1, <2>2 DEF InStep
<1>15. \A j \in 1 .. Size(rTs') : rVals'[j] \notin gone'
  BY <1>3, <1>4, <1>6
<1>16. ~preserve' /\ Size(rTs') = 0 => Size(read'.ts) = 0
  BY <1>3
<1>17. /\ Published(rTs, rVals, publishedEnd - StoredStart)'
       /\ ~preserve' => InStep(read'.ts, rTs', rTs'.frontAbs + (publishedEnd' - StoredStart'))
  BY <1>7, <1>11, <1>14
<1>18. Agree(rTs, rVals, publishedEnd - StoredStart, taken, newest)'
  BY <1>7, <1>10, <1>11, <1>12, <1>13, <1>14, <1>15, <1>16, <1>17 DEF Agree
<1>. QED
  BY <1>8, <1>9, <1>18 DEF IInv

LEMMA InitHolds == Init => IInv
<1>. SUFFICES ASSUME Init PROVE IInv
  OBVIOUS
<1>1. /\ Sound(Blank) /\ Size(Blank) = 0 /\ End(Blank) = 0 /\ Blank.exactMode = FALSE
      /\ IsSeries(EmptySeries) /\ EmptySeries.ts = Blank /\ EmptySeries.vals = << >>
  BY BlankIs DEF Blank, EmptySeries, IsSeries
<1>2. /\ rTs = Blank /\ rVals = << >> /\ read = EmptySeries /\ preserve = FALSE
      /\ sampleCount = 0 /\ publishedEnd = 0 /\ taken = 0 /\ newest = 0 /\ shown = 0 /\ gone = {}
  BY DEF Init
<1>3. Rising(<< >>, Blank) /\ Spaced(Blank) /\ << >> \in Seq(Nat) /\ Len(<< >>) = 0
  BY <1>1 DEF Rising, Spaced
<1>4. /\ Size(rTs) = 0 /\ Size(read.ts) = 0 /\ read.ts = Blank /\ read.vals = << >>
      /\ IsSeries(read) /\ \A i \in 1 .. 0 : FALSE
  BY <1>1, <1>2
<1>5. Counts
  <2>1. /\ {sampleCount, publishedEnd, taken, shown} \subseteq Nat
        /\ Size(rTs) <= sampleCount /\ Size(read.ts) <= publishedEnd
        /\ publishedEnd <= sampleCount /\ shown <= taken /\ gone \subseteq 0 .. taken
    BY <1>2, <1>4
  <2>2. preserve \in BOOLEAN
    BY <1>2
  <2>3. \A i \in 1 .. Size(read.ts) : read.vals[i] \notin gone
    BY <1>4, Zenon
  <2>. QED
    BY <2>1, <2>2, <2>3 DEF Counts
<1>6. Reader
  <2>1. read.ts.exactMode = preserve
    BY <1>1, <1>2
  <2>. QED
    BY <1>1, <1>3, <1>4, <2>1 DEF Reader
<1>7. Writer(rTs, rVals, taken, newest)
  <2>1. rTs.exactMode = preserve
    BY <1>1, <1>2
  <2>. QED
    BY <1>1, <1>2, <1>3, <1>4, <2>1 DEF Writer
<1>8. publishedEnd - StoredStart = 0
  BY <1>1, <1>2 DEF StoredStart
<1>9. Published(rTs, rVals, 0) /\ Later(rTs, rVals) /\ Newest(rTs, newest)
  BY <1>1, <1>2 DEF Published, Later, Newest
<1>10. InStep(read.ts, rTs, rTs.frontAbs + 0)
  <2>1. 0 % Block = 0
    BY BlockNat
  <2>. QED
    BY <1>1, <1>2, <2>1 DEF InStep
<1>11. Agree(rTs, rVals, 0, taken, newest)
  BY <1>1, <1>2, <1>7, <1>9, <1>10 DEF Agree
<1>. QED
  BY <1>5, <1>6, <1>8, <1>11 DEF IInv

LEMMA StepClear == ASSUME IInv, ClearData PROVE IInv' /\ Stays(read')
<1>1. /\ Sound(Blank) /\ Size(Blank) = 0 /\ End(Blank) = 0 /\ Blank.exactMode = FALSE
      /\ IsSeries(EmptySeries) /\ EmptySeries.ts = Blank /\ EmptySeries.vals = << >>
  BY BlankIs DEF Blank, EmptySeries, IsSeries
<1>2. /\ rTs' = Blank /\ rVals' = << >> /\ read' = EmptySeries /\ preserve' = FALSE
      /\ sampleCount' = 0 /\ publishedEnd' = 0
      /\ taken' = taken /\ newest' = newest /\ shown' = shown /\ gone' = gone
  BY DEF ClearData, histVars
<1>3. Rising(<< >>, Blank) /\ Spaced(Blank) /\ << >> \in Seq(Nat) /\ Len(<< >>) = 0
  BY <1>1 DEF Rising, Spaced
<1>4. /\ taken \in Nat /\ shown \in Nat /\ shown <= taken /\ gone \subseteq 0 .. taken
      /\ newest \in Int
  BY DEF IInv, Counts, Agree, Writer
<1>5. /\ Size(rTs') = 0 /\ Size(read'.ts) = 0 /\ read'.ts = Blank /\ read'.vals = << >>
      /\ IsSeries(read') /\ \A i \in 1 .. 0 : FALSE
  BY <1>1, <1>2
<1>6. Counts'
  <2>1. /\ {sampleCount', publishedEnd', taken', shown'} \subseteq Nat
        /\ Size(rTs') <= sampleCount' /\ Size(read'.ts) <= publishedEnd'
        /\ publishedEnd' <= sampleCount' /\ shown' <= taken' /\ gone' \subseteq 0 .. taken'
    BY <1>2, <1>4, <1>5
  <2>2. preserve' \in BOOLEAN
    BY <1>2
  <2>3. \A i \in 1 .. Size(read'.ts) : read'.vals[i] \notin gone'
    BY <1>5, Zenon
  <2>. QED
    BY <2>1, <2>2, <2>3 DEF Counts
<1>7. Reader'
  <2>1. read'.ts.exactMode = preserve'
    BY <1>1, <1>2
  <2>. QED
    BY <1>1, <1>3, <1>5, <2>1 DEF Reader
<1>8. Writer(rTs, rVals, taken, newest)'
  <2>1. rTs'.exactMode = preserve'
    BY <1>1, <1>2
  <2>. QED
    BY <1>1, <1>2, <1>3, <1>4, <1>5, <2>1 DEF Writer
<1>9. publishedEnd' - StoredStart' = 0
  BY <1>1, <1>2 DEF StoredStart
<1>10. Published(rTs, rVals, 0)' /\ Later(rTs, rVals)' /\ Newest(rTs, newest)'
  BY <1>1, <1>2 DEF Published, Later, Newest
<1>11. InStep(read'.ts, rTs', rTs'.frontAbs + 0)
  <2>1. 0 % Block = 0
    BY BlockNat
  <2>. QED
    BY <1>1, <1>2, <2>1 DEF InStep
<1>12. Agree(rTs, rVals, 0, taken, newest)'
  BY <1>1, <1>2, <1>8, <1>10, <1>11 DEF Agree
<1>13. Stays(read')
  BY <1>1, <1>2 DEF Stays
<1>. QED
  BY <1>6, <1>7, <1>9, <1>12, <1>13 DEF IInv

LEMMA Standstill == ASSUME IInv, UNCHANGED vars PROVE IInv'
<1>1. /\ rTs' = rTs /\ rVals' = rVals /\ read' = read /\ preserve' = preserve
      /\ sampleCount' = sampleCount /\ publishedEnd' = publishedEnd
      /\ taken' = taken /\ newest' = newest /\ shown' = shown /\ gone' = gone
  BY DEF vars, storeVars, countVars, histVars
<1>2. publishedEnd' - StoredStart' = publishedEnd - StoredStart
  BY <1>1 DEF StoredStart
<1>3. Counts' /\ Reader'
  BY <1>1 DEF IInv, Counts, Reader
<1>4. Agree(rTs, rVals, publishedEnd - StoredStart, taken, newest)'
  BY <1>1, <1>2, Kept DEF IInv
<1>. QED
  BY <1>3, <1>4 DEF IInv

LEMMA SameStays == ASSUME IInv, read' = read PROVE Stays(read')
<1>1. Len(read.vals) = Size(read.ts)
  BY DEF IInv, Reader
<1>2. \A x, y \in 1 .. Size(read.ts) : read.vals[x] = read.vals[y] => x = y
  BY ReaderDistinct DEF IInv
<1>. QED
  BY <1>1, <1>2 DEF Stays

LEMMA StampsInt == ASSUME IInv PROVE Stamps \subseteq Int
<1>1. \A x, y \in 1 .. Size(read.ts) : At(read.ts, x) \in Int
  BY ReaderDistinct DEF IInv
<1>2. \A x, y \in 1 .. Size(rTs) : At(rTs, x) \in Int
  BY WriterDistinct DEF IInv, Agree
<1>. QED
  BY <1>1, <1>2 DEF Stamps

LEMMA NextHolds ==
  ASSUME IInv, clones \in Nat, Next
  PROVE  IInv' /\ clones' \in Nat /\ (clones' = clones => Stays(read'))
<1>1. ASSUME NEW d \in Steps, NEW h \in Histories, SetRVal(d, h)
      PROVE  IInv' /\ clones' \in Nat /\ (clones' = clones => Stays(read'))
  <2>1. read' = read /\ clones' = clones
    BY <1>1 DEF SetRVal
  <2>. QED
    BY <1>1, <2>1, StepSetRVal, SameStays
<1>2. ASSUME NEW d \in Steps, NEW e \in Steps, NEW h \in Histories, PushBatch(d, e, h)
      PROVE  IInv' /\ clones' \in Nat /\ (clones' = clones => Stays(read'))
  <2>1. read' = read /\ clones' = clones
    BY <1>2 DEF PushBatch
  <2>. QED
    BY <1>2, <2>1, StepPushBatch, SameStays
<1>3. CASE Publish
  BY <1>3, StepPublish DEF Publish
<1>4. ASSUME NEW tMin \in Stamps, NEW tMax \in Stamps, Discard(tMin, tMax)
      PROVE  IInv' /\ clones' \in Nat /\ (clones' = clones => Stays(read'))
  <2>1. tMin \in Int /\ tMax \in Int
    BY StampsInt
  <2>2. clones' = clones
    BY <1>4 DEF Discard
  <2>. QED
    BY <1>4, <2>1, <2>2, StepDiscard
<1>5. CASE ClearData
  BY <1>5, StepClear DEF ClearData, histVars
<1>6. CASE CloneWithHistory
  <2>1. clones' = clones + 1
    BY <1>6 DEF CloneWithHistory
  <2>. QED
    BY <1>6, <2>1, StepClone
<1>. QED
  BY <1>1, <1>2, <1>3, <1>4, <1>5, <1>6 DEF Next

-----------------------------------------------------------------------------
(* The theorems.                                                           *)

\* A series in order is one whose neighbours are.
LEMMA RisingGrows ==
  ASSUME NEW b, Sound(b), NEW v \in Seq(Nat), Len(v) = Size(b), Rising(v, b)
  PROVE  Grows(v) /\ Grows(Times(b))
<1>1. Size(b) \in Nat
  BY SizeNat
<1>2. Len(Times(b)) = Size(b) /\ \A i \in 1 .. Size(b) : Times(b)[i] = At(b, i)
  BY <1>1 DEF Times
<1>3. ASSUME NEW i \in 2 .. Size(b)
      PROVE  v[i - 1] < v[i] /\ Times(b)[i - 1] < Times(b)[i]
  <2>1. i - 1 \in 1 .. Size(b) /\ i \in (i - 1) + 1 .. Size(b) /\ i \in 1 .. Size(b)
    BY <1>1
  <2>2. v[i - 1] < v[i] /\ At(b, i - 1) < At(b, i)
    BY <2>1 DEF Rising
  <2>. QED
    BY <1>2, <2>1, <2>2
<1>. QED
  BY <1>2, <1>3 DEF Grows

LEMMA AgreeHolds == IInv => StoresAgree
<1>. SUFFICES ASSUME IInv PROVE StoresAgree
  OBVIOUS
<1>. DEFINE W == Size(rTs)
            R == Size(read.ts)
            p == publishedEnd - StoredStart
<1>1. /\ Sound(rTs) /\ rVals \in Seq(Nat) /\ Len(rVals) = W /\ Rising(rVals, rTs)
      /\ Sound(read.ts) /\ read.vals \in Seq(Nat) /\ Len(read.vals) = R /\ Rising(read.vals, read.ts)
      /\ \A j \in 1 .. W : rVals[j] \notin gone
      /\ \A i \in 1 .. R : read.vals[i] \notin gone
  BY DEF IInv, Reader, Agree, Writer, Counts
<1>2. Grows(rVals) /\ Grows(Times(rTs)) /\ Grows(read.vals) /\ Grows(Times(read.ts))
  BY <1>1, RisingGrows
<1>3. /\ W \in Nat /\ R \in Nat /\ p \in Int /\ p <= W /\ p <= R
      /\ \A j \in 1 .. W : rVals[j] <= shown <=> j <= p
      /\ \A j \in 1 .. p : rVals[j] = read.vals[R - p + j] /\ R - p + j \in 1 .. R
      /\ \A i \in 1 .. R : read.vals[i] <= shown
      /\ shown \in Nat
  BY Standing
<1>4. \A x, y \in 1 .. R : read.vals[x] \in Nat /\ (read.vals[x] < read.vals[y] <=> x < y)
  BY ReaderDistinct DEF IInv
<1>5. \A x, y \in 1 .. W : rVals[x] \in Nat /\ (rVals[x] < rVals[y] <=> x < y)
  BY WriterDistinct DEF IInv, Agree
<1>6. \A i \in 1 .. R, j \in 1 .. W : read.vals[i] < rVals[j] => At(read.ts, i) < At(rTs, j)
  BY Standing
<1>7. ASSUME rVals # << >>
      PROVE  {v \in Ids(read.vals) : v >= rVals[1]} = {v \in Ids(rVals) : v <= shown}
  <2>1. W # 0 /\ 1 \in 1 .. W
    BY <1>1, <1>3, <1>7
  <2>2. ASSUME NEW i \in 1 .. R, read.vals[i] >= rVals[1]
        PROVE  \E j \in 1 .. W : rVals[j] = read.vals[i] /\ rVals[j] <= shown
    <3>1. rVals[1] <= shown /\ 1 <= p
      BY <1>3, <1>4, <1>5, <2>1, <2>2
    <3>2. R - p + 1 \in 1 .. R /\ rVals[1] = read.vals[R - p + 1]
      BY <1>3, <3>1
    <3>3. ~(i < R - p + 1)
      BY <1>3, <1>4, <2>2, <3>2
    <3>. DEFINE j == i - (R - p)
    <3>4. j \in 1 .. p /\ j \in 1 .. W /\ R - p + j = i
      BY <1>3, <3>1, <3>3
    <3>. HIDE DEF j
    <3>5. rVals[j] = read.vals[i] /\ rVals[j] <= shown
      BY <1>3, <3>4
    <3>. QED
      BY <3>4, <3>5
  <2>3. ASSUME NEW j \in 1 .. W, rVals[j] <= shown
        PROVE  \E i \in 1 .. R : read.vals[i] = rVals[j] /\ read.vals[i] >= rVals[1]
    <3>1. j \in 1 .. p
      BY <1>3, <2>3
    <3>2. R - p + j \in 1 .. R /\ rVals[j] = read.vals[R - p + j]
      BY <1>3, <3>1
    <3>3. rVals[j] >= rVals[1]
      BY <1>5, <2>1
    <3>. QED
      BY <3>2, <3>3
  <2>. QED
    BY <1>1, <2>2, <2>3 DEF Ids
<1>8. gone \intersect (Ids(rVals) \union Ids(read.vals)) = {}
  BY <1>1 DEF Ids
<1>. QED
  BY <1>1, <1>2, <1>7, <1>8 DEF StoresAgree

ChannelInv == IInv /\ clones \in Nat

\* The writer's store and the GUI's copy stay views of one series, the copy
\* no further from it than a float's rounding: setRVal, pushBatch,
\* publishSnapshot, discardTimeRange, clearData and cloneWithHistory keep it.
THEOREM HistoryInvariant == Spec => []ChannelInv
<1>1. Init => ChannelInv
  BY InitHolds DEF ChannelInv, Init
<1>2. ChannelInv /\ [Next]_vars => ChannelInv'
  <2>. SUFFICES ASSUME ChannelInv, [Next]_vars PROVE ChannelInv'
    OBVIOUS
  <2>1. CASE Next
    BY <2>1, NextHolds DEF ChannelInv
  <2>2. CASE UNCHANGED vars
    <3>1. clones' = clones
      BY <2>2 DEF vars, histVars
    <3>. QED
      BY <2>2, <3>1, Standstill DEF ChannelInv
  <2>. QED
    BY <2>1, <2>2
<1>. QED
  BY <1>1, <1>2, PTL DEF Spec

\* Of the samples the writer still holds, the GUI shows those taken before
\* the last publish, in order, and nothing the user has discarded.
THEOREM StoresAlwaysAgree == Spec => []StoresAgree
<1>1. ChannelInv => StoresAgree
  BY AgreeHolds DEF ChannelInv
<1>. QED
  BY <1>1, HistoryInvariant, PTL

\* No time stamp moves once the GUI shows it, but in a clone.
THEOREM SeenTimesKept == Spec => SeenTimesStay
<1>1. ChannelInv /\ [Next]_vars =>
        [clones' = clones =>
           \A j \in 1 .. Len(read.vals), i \in 1 .. Len(read'.vals) :
             read.vals[j] = read'.vals[i] => At(read.ts, j) = At(read'.ts, i)]_vars
  BY NextHolds DEF ChannelInv, Stays
<1>. QED
  BY <1>1, HistoryInvariant, PTL DEF Spec, SeenTimesStay
=============================================================================
