------------------------------ MODULE DeltaTs ------------------------------
(***************************************************************************)
(* DeltaTsBuffer: a series of time stamps kept as one exact anchor per     *)
(* block of absolute push positions and one rounded offset per sample,     *)
(* trimmed at the front, and turned into a plain list of exact values when *)
(* samples are deleted from its middle.                                    *)
(*                                                                         *)
(* A buffer is a record; positions count from 1.  Time is an integer and   *)
(* the float of an offset a multiple of Resolution.                        *)
(***************************************************************************)
EXTENDS Integers, Sequences, FiniteSets

CONSTANTS
  Block,        \* kBlock
  Resolution    \* of an offset kept as a float

ASSUME DeltaTsAssumption == {Block, Resolution} \subseteq Nat \ {0}

Blank == [off |-> << >>, anch |-> << >>, exact |-> << >>, exactMode |-> FALSE,
          frontAbs |-> 0, anchBase |-> 0]

Size(b) == IF b.exactMode THEN Len(b.exact) ELSE Len(b.off)

\* To the nearest float.
Rounded(d) == Resolution * ((2 * d + Resolution) \div (2 * Resolution))

\* The place in anch of the anchor of absolute position abs.
AnchorOf(b, abs) == abs \div Block - b.anchBase + 1

At(b, i) ==
  IF b.exactMode THEN b.exact[i]
  ELSE b.anch[AnchorOf(b, b.frontAbs + i - 1)] + b.off[i]

Times(b) == [i \in 1 .. Size(b) |-> At(b, i)]

\* The first sample of a block becomes its anchor.
PushBack(b, ts) ==
  IF b.exactMode THEN [b EXCEPT !.exact = Append(@, ts)]
  ELSE LET a    == AnchorOf(b, b.frontAbs + Len(b.off))
           anch == IF a > Len(b.anch) THEN Append(b.anch, ts) ELSE b.anch
       IN [b EXCEPT !.anch = anch, !.off = Append(@, Rounded(ts - anch[a]))]

\* An anchor goes once the front has moved past its block, one per call.
PopFront(b) ==
  LET past == IF AnchorOf(b, b.frontAbs + 1) > 1 /\ b.anch # << >> THEN 1 ELSE 0
  IN CASE b.exactMode -> [b EXCEPT !.exact = Tail(@)]
       [] ~b.exactMode /\ b.off = << >> -> b
       [] OTHER -> [b EXCEPT !.off = Tail(@), !.frontAbs = @ + 1,
                             !.anch = SubSeq(@, past + 1, Len(@)), !.anchBase = @ + past]

Popped(b, n) ==
  LET popped[i \in 0 .. n] == IF i = 0 THEN b ELSE PopFront(popped[i - 1])
  IN popped[n]

PreserveExact(b) ==
  IF b.exactMode THEN b ELSE [Blank EXCEPT !.exact = Times(b), !.exactMode = TRUE]

\* What eraseRange leaves of s: without its positions first+1 .. last.
Without(s, first, last) == SubSeq(s, 1, first) \o SubSeq(s, last + 1, Len(s))

\* Broken variant: what is left is rounded again, from new anchors.
EraseReencoded(b, first, last) ==
  LET left == Without(Times(b), first, last)
      encoded[i \in 0 .. Len(left)] ==
        IF i = 0 THEN Blank ELSE PushBack(encoded[i - 1], left[i])
  IN IF first >= last THEN b ELSE encoded[Len(left)]

EraseRange(b, first, last) ==
  IF first >= last THEN b
  ELSE [PreserveExact(b) EXCEPT !.exact = Without(@, first, last)]

\* The binary searches, on a series that grows: how many stamps lie before t,
\* and how many not after it.
LowerBound(b, t) == Cardinality({i \in 1 .. Size(b) : At(b, i) < t})
UpperBound(b, t) == Cardinality({i \in 1 .. Size(b) : At(b, i) <= t})
=============================================================================
