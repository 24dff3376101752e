--------------------------- MODULE MonitorChannel ---------------------------
(***************************************************************************)
(* The history of one monitored variable: the store the sampler thread     *)
(* appends to and trims, and the copy of it the GUI draws, which           *)
(* publishSnapshot brings up to date whenever the sampler gets the         *)
(* monitors' mutex and the view is not paused.  Both may be edited: a time *)
(* range is discarded, the history cleared, the channel cloned.            *)
(*                                                                         *)
(* Appending touches nothing the GUI reads, and everything else happens    *)
(* under the monitors' mutex, so every operation is one action.            *)
(***************************************************************************)
EXTENDS TimeSeries

CONSTANTS
  MinKeep,      \* minKeepPoints_
  Histories,    \* values the GUI gives historySeconds_, 0 for no limit
  Steps,        \* how far a new time stamp is after the newest one
  Bump,         \* the microsecond that separates equal stamps
  MaxSamples,   \* bound: samples ever taken
  MaxClones     \* bound: clones made

\* Stamps are apart by more than the floats lose, or not after each other.
ASSUME MonitorAssumption ==
  /\ MinKeep \in Nat \ {0} /\ Histories \subseteq Nat /\ {MaxSamples, MaxClones} \subseteq Nat
  /\ Bump \in Nat /\ Bump >= Resolution
  /\ Steps \subseteq Nat /\ \A d \in Steps : d = 0 \/ d >= Resolution

VARIABLES
  rTs, rVals,           \* the writer's store
  read,                 \* read_, the GUI's copy
  sampleCount, publishedEnd,
  preserve,             \* preserveHistoryTimestamps_
  taken, newest,        \* history: samples taken, the newest time stamp the store was given
  shown,                \* history: how many had been taken at the last publish
  gone,                 \* history: samples the user has discarded
  clones                \* history: clones made

storeVars == <<rTs, rVals>>
countVars == <<sampleCount, publishedEnd, preserve>>
histVars  == <<taken, newest, shown, gone, clones>>
vars == <<storeVars, read, countVars, histVars>>

Init ==
  /\ rTs = Blank /\ rVals = << >> /\ read = EmptySeries
  /\ sampleCount = 0 /\ publishedEnd = 0 /\ preserve = FALSE
  /\ taken = 0 /\ newest = 0 /\ shown = 0 /\ gone = {} /\ clones = 0

Least(m, n) == IF m <= n THEN m ELSE n
Most(m, n)  == IF m <= n THEN n ELSE m

\* Absolute positions of the oldest sample of either store.
StoredStart == sampleCount - Size(rTs)
ReadStart   == Most(publishedEnd - Size(read.ts), 0)

-----------------------------------------------------------------------------
(* The sampler: setRVal, pushBatch.                                        *)

\* Time stamps must grow.
Stamp(b, ts) ==
  IF Size(b) # 0 /\ ts <= At(b, Size(b)) THEN At(b, Size(b)) + Bump ELSE ts

\* Samples older than old leave the front, MinKeep are kept.
Trimmed(b, old, h) ==
  LET n == IF h = 0 THEN 0
           ELSE Most(Least(Size(b) - MinKeep, Cardinality({i \in 1 .. Size(b) : At(b, i) < old})), 0)
  IN Popped(b, n)

Trim(b, vals, old, h) ==
  /\ rTs' = Trimmed(b, old, h)
  /\ rVals' = SubSeq(vals, Len(vals) - Size(rTs') + 1, Len(vals))

SetRVal(d, h) ==
  LET ts == Stamp(rTs, newest + d)
      b  == PushBack(rTs, ts)
  IN /\ taken < MaxSamples
     /\ Trim(b, Append(rVals, taken + 1), ts - h, h)
     /\ sampleCount' = sampleCount + 1
     /\ taken' = taken + 1 /\ newest' = At(b, Size(b))
     /\ UNCHANGED <<read, publishedEnd, preserve, shown, gone, clones>>

\* A batch of two; the limit counts from the stamp of the last as it came.
PushBatch(d, e, h) ==
  LET b1 == PushBack(rTs, Stamp(rTs, newest + d))
      ts == At(b1, Size(b1)) + e
      b  == PushBack(b1, Stamp(b1, ts))
  IN /\ taken + 1 < MaxSamples
     /\ Trim(b, rVals \o <<taken + 1, taken + 2>>, ts - h, h)
     /\ sampleCount' = sampleCount + 2
     /\ taken' = taken + 2 /\ newest' = At(b, Size(b))
     /\ UNCHANGED <<read, publishedEnd, preserve, shown, gone, clones>>

-----------------------------------------------------------------------------
(* publishSnapshot.                                                        *)

\* The samples of the writer from absolute position from on are appended.
Appended(s, from) ==
  LET Unread(seq) == SubSeq(seq, from - StoredStart + 1, Len(seq))
  IN PushAll(s, Unread(rVals), Unread(Times(rTs)))

Diverged ==
  publishedEnd > sampleCount \/ publishedEnd < StoredStart \/ ReadStart > sampleCount

Publish ==
  LET Kept(s) == IF preserve THEN Exact(s) ELSE s
  IN /\ read' =
          IF Diverged THEN Appended(Kept(EmptySeries), StoredStart)
          ELSE Appended(DropFront(Kept(read),
                                  Most(Least(StoredStart - ReadStart, Size(read.ts)), 0)),
                        publishedEnd)
     /\ publishedEnd' = sampleCount
     /\ shown' = taken
     /\ UNCHANGED <<storeVars, sampleCount, preserve, taken, newest, gone, clones>>

-----------------------------------------------------------------------------
(* discardTimeRange, clearData, cloneWithHistory.                          *)

\* Broken variant: the writer's own stamps decide.
WriterTs(i) == At(rTs, i)

\* The time of the writer's i-th sample as the user sees it.
VisibleTs(i) ==
  LET abs == StoredStart + i - 1
  IN IF ReadStart <= abs /\ abs < publishedEnd
     THEN At(read.ts, abs - ReadStart + 1) ELSE At(rTs, i)

Discard(tMin, tMax) ==
  LET first == Cardinality({i \in 1 .. Size(rTs) : VisibleTs(i) < tMin})
      last  == Cardinality({i \in 1 .. Size(rTs) : VisibleTs(i) <= tMax})
      unpublishedStart == Most(Least(publishedEnd - StoredStart, Size(rTs)), 0)
      unpublishedRemoved == Most(last - Most(first, unpublishedStart), 0)
      rest == DiscardTimeRange(read, tMin, tMax)
      byUser == {read.vals[j] : j \in {j \in 1 .. Size(read.ts) : At(read.ts, j) \in tMin .. tMax}}
                \union {rVals[i] : i \in {i \in unpublishedStart + 1 .. Size(rTs) :
                                            At(rTs, i) \in tMin .. tMax}}
  IN /\ first < last \/ rest # read
     /\ preserve' = TRUE
     /\ rTs' = PreserveExact(EraseRange(rTs, first, last))
     /\ rVals' = IF first < last THEN Without(rVals, first, last) ELSE rVals
     /\ read' = Exact(rest)
     /\ publishedEnd' = publishedEnd + unpublishedRemoved
     /\ gone' = gone \union byUser
     /\ UNCHANGED <<sampleCount, taken, newest, shown, clones>>

ClearData ==
  /\ rTs' = Blank /\ rVals' = << >> /\ read' = EmptySeries
  /\ sampleCount' = 0 /\ publishedEnd' = 0 /\ preserve' = FALSE
  /\ UNCHANGED histVars

\* The clone goes on instead of the channel.
CloneWithHistory ==
  LET n     == Size(read.ts)
      Fresh == IF preserve THEN Exact(EmptySeries) ELSE EmptySeries
      copy  == PushAll(Fresh, read.vals, Times(read.ts))
  IN /\ clones < MaxClones
     /\ read' = copy
     /\ rTs' = copy.ts /\ rVals' = copy.vals
     /\ sampleCount' = n /\ publishedEnd' = n
     /\ newest' = IF n = 0 THEN newest ELSE At(copy.ts, n)
     /\ clones' = clones + 1
     /\ UNCHANGED <<preserve, taken, shown, gone>>

-----------------------------------------------------------------------------
Stamps == {At(read.ts, j) : j \in 1 .. Size(read.ts)} \union {At(rTs, i) : i \in 1 .. Size(rTs)}

Next ==
  \/ \E d \in Steps, h \in Histories : SetRVal(d, h)
  \/ \E d, e \in Steps, h \in Histories : PushBatch(d, e, h)
  \/ Publish
  \/ \E tMin, tMax \in Stamps : Discard(tMin, tMax)
  \/ ClearData
  \/ CloneWithHistory

Spec == Init /\ [][Next]_vars

-----------------------------------------------------------------------------
Ids(s) == {s[i] : i \in 1 .. Len(s)}
Grows(s) == \A i \in 2 .. Len(s) : s[i - 1] < s[i]

\* The two stores are views of one series: both in order, by sample and by
\* time, and of the samples the writer still holds the GUI shows exactly
\* those taken before the last publish, so that none is ever skipped or
\* shown twice, whatever was trimmed, discarded or cleared meanwhile.  What
\* the user has discarded is in neither.
StoresAgree ==
  /\ Len(rVals) = Size(rTs) /\ Len(read.vals) = Size(read.ts)
  /\ Grows(rVals) /\ Grows(Times(rTs)) /\ Grows(read.vals) /\ Grows(Times(read.ts))
  /\ rVals # << >> =>
       {v \in Ids(read.vals) : v >= rVals[1]} = {v \in Ids(rVals) : v <= shown}
  /\ gone \intersect (Ids(rVals) \union Ids(read.vals)) = {}

\* A time stamp the user has seen stays what it was for as long as its sample
\* is shown, through trimming, discarding and the change to exact storage.
SeenTimesStay ==
  [][clones' = clones =>
       \A j \in 1 .. Len(read.vals), i \in 1 .. Len(read'.vals) :
         read.vals[j] = read'.vals[i] => At(read.ts, j) = At(read'.ts, i)]_vars

\* The pyramid shows what the samples show: a level covers no sample twice
\* and, but for a bucket's worth of the oldest, every one shown that is not
\* still below it; nothing discarded is left in a bucket.
PyramidTrue ==
  \A k \in 1 .. Levels :
    LET level == read.levels[k]
        full  == {level.data[i].ids : i \in 1 .. Len(level.data)}
        below == UNION {read.levels[l].pending.ids : l \in 1 .. k}
        missed == Ids(read.vals) \ (below \union UNION full)
    IN /\ below \intersect UNION full = {}
       /\ \A i, j \in 1 .. Len(level.data) :
            i # j => level.data[i].ids \intersect level.data[j].ids = {}
       /\ Cardinality(missed) < Branch ^ k
       /\ \A v \in missed, w \in Ids(read.vals) \ missed : v < w
       /\ gone \intersect (below \union UNION full) = {}
=============================================================================
