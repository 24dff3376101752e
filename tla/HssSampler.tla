----------------------------- MODULE HssSampler -----------------------------
(***************************************************************************)
(* The HSS stream of the sampler thread (Sampler::threadFunc, hss_stream): *)
(* it compares the wanted channel layout with that of the running stream,  *)
(* stops and starts the J-Link HSS session, and cuts the bytes it reads    *)
(* into frames, keeping an incomplete tail for the next read.  GUI threads *)
(* change the layout, ask for restarts, stop HSS and drop the connection   *)
(* between any two of its steps.                                           *)
(*                                                                         *)
(* A frame is a sequence of cells, the pieces a read may split it into;    *)
(* only its hardware time stamp matters, a counter that wraps at Width.    *)
(***************************************************************************)
EXTENDS Integers, Sequences

CONSTANTS
  Layouts,      \* channel layouts a user may want; 0 is "no HSS channels"
  FrameSize,    \* cells per frame of each layout
  BufCap,       \* cells of the host buffer (64 KiB)
  MaxDrains,    \* reads per iteration (kMaxHssDrains)
  Width,        \* values of the time stamp counter (2^32)
  Period,       \* sampling period in ticks of that counter
  Silence,      \* iterations that stand for 2 s without frames
  WatchdogGap,  \* iterations that stand for 5 s between watchdog restarts
  RetryGap,     \* iterations that stand for 200 ms between start attempts
  MaxFrames     \* bound: frames a session produces; silence follows

ASSUME HssAssumption ==
  /\ Layouts \subseteq Nat \ {0}
  /\ FrameSize \in [Layouts -> Nat \ {0}]
  /\ \A l \in Layouts : FrameSize[l] <= BufCap
  /\ {BufCap, MaxDrains, Width, Period, Silence, WatchdogGap, RetryGap, MaxFrames}
       \subseteq Nat \ {0}
  /\ Period < Width \div 2   \* frames come closer than half the counter

VARIABLES
  want, pendingClear,        \* GUI: the layout the channels ask for, "clear data"
  connected, hssRunning, restartReq,    \* JLinkPort
  layout, fifo, produced, stamp,        \* the HSS session in the probe
  pc, drains,                \* the sampler's position, reads this iteration
  cfg, fresh,                \* task snapshot, and whether its epoch is current
  conn, prevConnected,       \* isConnected as read, and in the last iteration
  changed, desired,
  prev,                      \* prevBlocks, prevChans ...: the decode layout
  buf, carryLen,             \* host buffer, carried prefix of it
  full,                      \* bufferFull
  discardFirst, synced, lastTs, accum,  \* time line state of the stream
  silent, dog, retry,        \* clocks: prevHssFrameMs, prevHssWatchdogMs, StartRetry
  published,                 \* history: the frames of the last batch
  syncStamp, lastNo, stalled,\* history: first stamp, last frame, watchdog due
  torn                       \* history: a carried tail was thrown away mid-stream

guiVars    == <<want, pendingClear, restartReq>>
linkVars   == <<connected, hssRunning>>
probeVars  == <<layout, fifo, produced, stamp>>
taskVars   == <<cfg, fresh>>
evalVars   == <<conn, prevConnected, changed, desired>>
streamVars == <<buf, carryLen, full, discardFirst, synced, lastTs, accum>>
clockVars  == <<silent, dog, retry>>
histVars   == <<published, syncStamp, lastNo, stalled, torn>>
vars == <<guiVars, linkVars, probeVars, pc, drains, taskVars, evalVars, prev,
          streamVars, clockVars, histVars>>

Init ==
  /\ want = 0 /\ pendingClear = FALSE /\ restartReq = FALSE
  /\ connected = TRUE /\ hssRunning = FALSE
  /\ layout = 0 /\ fifo = << >> /\ produced = 0 /\ stamp = 0
  /\ pc = "refresh" /\ drains = 0
  /\ cfg = 0 /\ fresh = FALSE
  /\ conn = FALSE /\ prevConnected = FALSE /\ changed = FALSE /\ desired = FALSE
  /\ prev = 0
  /\ buf = << >> /\ carryLen = 0 /\ full = FALSE
  /\ discardFirst = FALSE /\ synced = FALSE /\ lastTs = 0 /\ accum = 0
  /\ silent = 0 /\ dog = WatchdogGap /\ retry = RetryGap
  /\ published = << >> /\ syncStamp = 0 /\ lastNo = 0 /\ stalled = FALSE /\ torn = FALSE

-----------------------------------------------------------------------------
(* The probe and the GUI threads.                                          *)

Frame(l, no, st) == [i \in 1 .. FrameSize[l] |-> [layout |-> l, no |-> no, stamp |-> st, part |-> i]]

\* The probe samples; a glitch repeats the time stamp of the frame before.
Produce(glitch) ==
  /\ hssRunning /\ produced < MaxFrames
  /\ glitch => produced > 0
  /\ LET st == IF glitch THEN stamp ELSE stamp + Period IN
       /\ stamp' = st
       /\ fifo' = fifo \o Frame(layout, produced + 1, st)
  /\ produced' = produced + 1
  /\ UNCHANGED <<guiVars, linkVars, layout, pc, drains, taskVars, evalVars, prev,
                 streamVars, clockVars, histVars>>

\* Channels are added, removed, or edited under the monitor mutex.
SetWant(l) ==
  /\ l # want
  /\ want' = l
  /\ UNCHANGED <<pendingClear, restartReq, linkVars, probeVars, pc, drains, taskVars, evalVars, prev,
                 streamVars, clockVars, histVars>>

ReqRestart ==
  /\ restartReq' = TRUE
  /\ UNCHANGED <<want, pendingClear, linkVars, probeVars, pc, drains, taskVars, evalVars, prev,
                 streamVars, clockVars, histVars>>

\* "Clear data" in the GUI, which holds the monitor mutex: the monitors'
\* clear flags, then reqRestart.
RequestClear ==
  /\ ~pendingClear
  /\ pendingClear' = TRUE /\ restartReq' = TRUE
  /\ UNCHANGED <<want, linkVars, probeVars, pc, drains, taskVars, evalVars, prev,
                 streamVars, clockVars, histVars>>

StopProbe == /\ hssRunning' = FALSE
             /\ layout' = 0 /\ fifo' = << >> /\ produced' = 0 /\ stamp' = 0
             /\ stalled' = FALSE

\* hssStop or a firmware gate that closes, on another thread.
OtherStops ==
  /\ hssRunning /\ StopProbe
  /\ UNCHANGED <<guiVars, connected, pc, drains, taskVars, evalVars, prev, streamVars,
                 clockVars, published, syncStamp, lastNo, torn>>

\* close(), or a transport loss seen by another thread.
Disconnects ==
  /\ connected /\ StopProbe
  /\ connected' = FALSE
  /\ fresh' = FALSE
  /\ UNCHANGED <<guiVars, pc, drains, cfg, evalVars, prev, streamVars,
                 clockVars, published, syncStamp, lastNo, torn>>

Reconnects ==
  /\ ~connected
  /\ connected' = TRUE /\ fresh' = FALSE
  /\ UNCHANGED <<guiVars, hssRunning, probeVars, pc, drains, cfg, evalVars, prev,
                 streamVars, clockVars, histVars>>

\* resetTarget, a new symbol file ...: targetEpoch_ moves, the stream goes on.
EpochMoves ==
  /\ fresh
  /\ fresh' = FALSE
  /\ UNCHANGED <<guiVars, linkVars, probeVars, pc, drains, cfg, evalVars, prev,
                 streamVars, clockVars, histVars>>

-----------------------------------------------------------------------------
(* One iteration of the sampler thread.                                    *)

Tick(x, limit) == IF x < limit THEN x + 1 ELSE x

\* Start of an iteration: time has passed.
PassTime ==
  /\ silent' = Tick(silent, Silence)
  /\ dog' = Tick(dog, WatchdogGap)
  /\ retry' = Tick(retry, RetryGap)
  /\ stalled' = (stalled \/ (hssRunning /\ silent = Silence))

\* While the stream is unsynced its last time stamp and sum are not used.
Unsync == synced' = FALSE /\ lastTs' = 0 /\ accum' = 0

\* A requested clear drops the carried tail and the time base, though the
\* stream goes on.  What is then read out of place as a time stamp is data;
\* here it is the stamp of the cell, so that it happens to advance.
ApplyClear ==
  IF pendingClear
  THEN /\ pendingClear' = FALSE
       /\ carryLen' = 0 /\ buf' = << >> /\ discardFirst' = TRUE /\ Unsync
       /\ torn' = (torn \/ (hssRunning /\ carryLen > 0))
  ELSE UNCHANGED <<pendingClear, carryLen, buf, discardFirst, synced, lastTs, accum, torn>>

Refresh ==
  /\ pc = "refresh"
  /\ cfg' = want /\ fresh' = TRUE
  /\ ApplyClear
  /\ PassTime
  /\ pc' = "connected"
  /\ UNCHANGED <<want, restartReq, linkVars, probeVars, drains, evalVars, prev, full,
                 published, syncStamp, lastNo>>

\* try_lock fails: the old snapshot is used again.
SkipRefresh ==
  /\ pc = "refresh"
  /\ PassTime
  /\ pc' = "connected"
  /\ UNCHANGED <<guiVars, linkVars, probeVars, cfg, fresh, drains, evalVars, prev,
                 streamVars, published, syncStamp, lastNo, torn>>

ReadConnected ==
  /\ pc = "connected"
  /\ conn' = connected
  /\ pc' = "changed"
  /\ UNCHANGED <<guiVars, linkVars, probeVars, drains, taskVars, prevConnected, changed,
                 desired, prev, streamVars, clockVars, histVars>>

\* The disjunction short-circuits: a restart request is consumed only when
\* nothing else has changed.
EvalChanged ==
  /\ pc = "changed"
  /\ LET differs == cfg # prev \/ conn # prevConnected IN
       /\ changed' = (differs \/ restartReq)
       /\ restartReq' = (differs /\ restartReq)
  /\ prevConnected' = conn
  /\ desired' = (cfg # 0 /\ conn)
  /\ pc' = "stop"
  /\ UNCHANGED <<want, pendingClear, linkVars, probeVars, drains, taskVars, conn, prev, streamVars,
                 clockVars, histVars>>

StopIfChanged ==
  /\ pc = "stop"
  /\ IF changed /\ hssRunning
     THEN StopProbe /\ carryLen' = 0 /\ buf' = << >>
     ELSE UNCHANGED <<hssRunning, probeVars, stalled, carryLen, buf>>
  /\ changed' = (changed \/ (desired /\ ~hssRunning))
  /\ pc' = "start"
  /\ UNCHANGED <<guiVars, connected, drains, taskVars, conn, prevConnected, desired, prev,
                 full, discardFirst, synced, lastTs, accum, clockVars,
                 published, syncStamp, lastNo, torn>>

ResetStream ==
  /\ carryLen' = 0 /\ buf' = << >> /\ full' = FALSE
  /\ discardFirst' = TRUE /\ Unsync

NotStarting ==
  /\ pc = "start" /\ ~(desired /\ ~hssRunning)
  /\ IF changed THEN prev' = cfg /\ ResetStream
                ELSE UNCHANGED <<prev, streamVars>>
  /\ pc' = "read" /\ drains' = 0
  /\ UNCHANGED <<guiVars, linkVars, probeVars, taskVars, evalVars, clockVars, histVars>>

MayTry == desired /\ ~hssRunning /\ retry = RetryGap

RetryLater ==
  /\ pc = "start" /\ desired /\ ~hssRunning /\ retry # RetryGap
  /\ pc' = "read" /\ drains' = 0
  /\ UNCHANGED <<guiVars, linkVars, probeVars, taskVars, evalVars, prev, streamVars,
                 clockVars, histVars>>

StartFails ==
  /\ pc = "start" /\ MayTry
  /\ retry' = 0
  /\ prev' = 0
  /\ pc' = "read" /\ drains' = 0
  /\ UNCHANGED <<guiVars, linkVars, probeVars, taskVars, evalVars, streamVars,
                 silent, dog, histVars>>

\* hssStart tests connection and epoch under mtx_.  The probe's buffer may
\* still hold a frame of the session before.
StartStream ==
  /\ pc = "start" /\ MayTry
  /\ connected /\ fresh
  /\ hssRunning' = TRUE /\ layout' = cfg /\ produced' = 0 /\ stamp' = 0
  /\ fifo' = << >> \/ fifo' = Frame(cfg, 0, 0)
  /\ retry' = 0
  /\ prev' = cfg
  /\ ResetStream
  /\ torn' = FALSE
  /\ pc' = "read" /\ drains' = 0
  /\ UNCHANGED <<guiVars, connected, taskVars, evalVars, silent, dog,
                 published, syncStamp, lastNo, stalled>>

-----------------------------------------------------------------------------
(* processHss, at most MaxDrains times per iteration.                      *)

DoneReading ==
  /\ pc = "read" /\ (~hssRunning \/ prev = 0 \/ drains = MaxDrains)
  /\ pc' = "watchdog"
  /\ published' = << >>
  /\ UNCHANGED <<guiVars, linkVars, probeVars, drains, taskVars, evalVars, prev,
                 streamVars, clockVars, syncStamp, lastNo, stalled, torn>>

Carried == SubSeq(buf, 1, carryLen)

\* JLINK_HSS_Read hands out what it has, and at most what fits.
HssRead(k) ==
  /\ pc = "read" /\ hssRunning /\ prev # 0 /\ drains < MaxDrains
  /\ k \in 0 .. Len(fifo) /\ k <= BufCap - carryLen
  /\ buf' = Carried \o SubSeq(fifo, 1, k)
  /\ fifo' = SubSeq(fifo, k + 1, Len(fifo))
  /\ full' = (k > 0 /\ k = BufCap - carryLen)
  /\ drains' = drains + 1
  /\ pc' = "frames"
  /\ published' = << >>
  /\ UNCHANGED <<guiVars, linkVars, layout, produced, stamp, taskVars, evalVars, prev,
                 carryLen, discardFirst, synced, lastTs, accum, clockVars,
                 syncStamp, lastNo, stalled, torn>>

Resync ==
  /\ carryLen' = 0 /\ buf' = << >> /\ full' = FALSE
  /\ discardFirst' = TRUE /\ Unsync
  /\ restartReq' = TRUE

HssReadFailsUnnoticed(k) ==      \* broken variant: the stream just goes on
  /\ pc = "read" /\ hssRunning /\ prev # 0 /\ drains < MaxDrains
  /\ k \in 0 .. Len(fifo)
  /\ fifo' = SubSeq(fifo, k + 1, Len(fifo))
  /\ pc' = "watchdog"
  /\ published' = << >>
  /\ UNCHANGED <<guiVars, linkVars, layout, produced, stamp, drains, taskVars, evalVars,
                 prev, streamVars, clockVars, syncStamp, lastNo, stalled, torn>>

\* A transport error loses bytes in the middle of the stream.
HssReadFails(k) ==
  /\ pc = "read" /\ hssRunning /\ prev # 0 /\ drains < MaxDrains
  /\ k \in 0 .. Len(fifo)
  /\ fifo' = SubSeq(fifo, k + 1, Len(fifo))
  /\ Resync
  /\ pc' = "watchdog"
  /\ published' = << >>
  /\ UNCHANGED <<want, pendingClear, linkVars, layout, produced, stamp, drains, taskVars, evalVars,
                 prev, clockVars, syncStamp, lastNo, stalled, torn>>

Total == Len(buf)
Size  == FrameSize[layout]
Count == Total \div Size

DropTail ==                      \* broken variant: the incomplete frame is lost
  /\ carryLen' = 0
  /\ buf' = << >>

\* retainTail: the incomplete frame moves to the front of the buffer.
RetainTail ==
  /\ carryLen' = Total % Size
  /\ buf' = SubSeq(buf, Count * Size + 1, Total)

AfterBatch == pc' = IF full THEN "read" ELSE "watchdog"

HwTs(f) == buf[(f - 1) * Size + 1].stamp % Width

ElapsedSigned(from, to) == to - from         \* broken variant

Elapsed(from, to) == (to - from + Width) % Width

TimestampAdvances(from, to) ==
  LET d == Elapsed(from, to) IN d # 0 /\ d < Width \div 2

TsBefore(f) == IF f = 1 THEN lastTs ELSE HwTs(f - 1)

Rejected(f) == (synced \/ f > 1) /\ ~TimestampAdvances(TsBefore(f), HwTs(f))

\* Frames up to the first one whose time stamp does not advance.
Accepted == {f \in 1 .. Count : \A g \in 1 .. f : ~Rejected(g)}

\* The stream was stopped after the read, so hssFrameSize is 0.
FramesStopped ==
  /\ pc = "frames" /\ layout = 0
  /\ pc' = "watchdog"
  /\ buf' = Carried
  /\ UNCHANGED <<guiVars, linkVars, probeVars, drains, taskVars, evalVars, prev,
                 carryLen, full, discardFirst, synced, lastTs, accum, clockVars, histVars>>

NoFrames ==
  /\ pc = "frames" /\ layout # 0 /\ Count = 0
  /\ RetainTail /\ AfterBatch
  /\ UNCHANGED <<guiVars, linkVars, probeVars, drains, taskVars, evalVars, prev, full,
                 discardFirst, synced, lastTs, accum, clockVars, histVars>>

\* After a start the whole first batch goes, frames of the session before
\* and all; its tail stays.
DiscardBatch ==
  /\ pc = "frames" /\ layout # 0 /\ Count > 0 /\ discardFirst
  /\ discardFirst' = FALSE /\ Unsync
  /\ RetainTail /\ AfterBatch
  /\ silent' = 0 /\ stalled' = FALSE
  /\ UNCHANGED <<guiVars, linkVars, probeVars, drains, taskVars, evalVars, prev, full,
                 dog, retry, published, syncStamp, lastNo, torn>>

\* Ticks since the frame before, which for the first may be of the batch before.
Gap(f) == Elapsed(IF f = 1 THEN IF synced THEN lastTs ELSE HwTs(1) ELSE HwTs(f - 1), HwTs(f))

Sums[f \in 0 .. Count] ==
  IF f = 0 THEN IF synced THEN accum ELSE 0 ELSE Sums[f - 1] + Gap(f)

FrameTime(f) == Sums[f]

PublishBatch ==
  /\ pc = "frames" /\ layout # 0 /\ Count > 0 /\ ~discardFirst
  /\ LET n == IF Accepted = {} THEN 0 ELSE CHOOSE m \in Accepted : \A f \in Accepted : f <= m
     IN
       /\ published' = [f \in 1 .. n |->
            [cells |-> SubSeq(buf, (f - 1) * Size + 1, f * Size),
             as |-> prev, time |-> FrameTime(f)]]
       /\ syncStamp' = IF synced \/ n = 0 THEN syncStamp ELSE buf[1].stamp
       /\ lastNo' = IF n = 0 THEN lastNo ELSE buf[n * Size].no
       /\ IF n = Count
          THEN /\ RetainTail /\ AfterBatch
               /\ synced' = TRUE /\ lastTs' = HwTs(n) /\ accum' = FrameTime(n)
               /\ UNCHANGED <<full, discardFirst, restartReq>>
          ELSE Resync /\ pc' = "watchdog"
  /\ silent' = 0 /\ stalled' = FALSE
  /\ UNCHANGED <<want, pendingClear, linkVars, probeVars, drains, taskVars, evalVars, prev,
                 dog, retry, torn>>

EndIteration ==
  /\ pc' = "refresh"
  /\ changed' = FALSE /\ desired' = FALSE /\ conn' = FALSE
  /\ full' = FALSE /\ drains' = 0
  /\ published' = << >>
  /\ UNCHANGED <<want, pendingClear, linkVars, probeVars, taskVars, prevConnected, prev, buf, carryLen,
                 discardFirst, synced, lastTs, accum, retry, syncStamp, lastNo, stalled, torn>>

WatchdogDeaf ==                  \* broken variant: no restart is requested
  /\ pc = "watchdog"
  /\ silent' = IF desired /\ hssRunning THEN silent ELSE 0
  /\ UNCHANGED <<restartReq, dog>>
  /\ EndIteration

\* 2 s without a frame while streaming: ask for a restart, every 5 s at most.
Watchdog ==
  /\ pc = "watchdog"
  /\ IF desired /\ hssRunning
     THEN IF silent = Silence /\ dog = WatchdogGap
          THEN restartReq' = TRUE /\ silent' = 0 /\ dog' = 0
          ELSE UNCHANGED <<restartReq, silent, dog>>
     ELSE silent' = 0 /\ UNCHANGED <<restartReq, dog>>
  /\ EndIteration

-----------------------------------------------------------------------------
SamplerStep ==
  \/ Refresh \/ SkipRefresh \/ ReadConnected \/ EvalChanged \/ StopIfChanged
  \/ NotStarting \/ RetryLater \/ StartFails \/ StartStream
  \/ DoneReading
  \/ \E k \in 0 .. BufCap : HssRead(k)
  \/ \E k \in 0 .. BufCap : HssReadFails(k)
  \/ FramesStopped \/ NoFrames \/ DiscardBatch \/ PublishBatch
  \/ Watchdog

Environment ==
  \/ Produce(TRUE) \/ Produce(FALSE)
  \/ (\E l \in Layouts \cup {0} : SetWant(l))
  \/ ReqRestart \/ RequestClear \/ OtherStops \/ Disconnects \/ Reconnects \/ EpochMoves

Next == SamplerStep \/ Environment

Spec == Init /\ [][Next]_vars

(* The sampler thread is scheduled; the GUI and the probe owe it nothing.  *)
FairSpec == Spec /\ WF_vars(SamplerStep)

-----------------------------------------------------------------------------
Stamps == 0 .. Period * MaxFrames
Cells  == [layout : Layouts, no : 0 .. MaxFrames, stamp : Stamps, part : 1 .. BufCap]

\* Includes that the carried tail always leaves room for a whole frame.
TypeOK ==
  /\ want \in Layouts \cup {0} /\ cfg \in Layouts \cup {0} /\ prev \in Layouts \cup {0}
  /\ layout \in Layouts \cup {0} /\ (layout # 0) = hssRunning
  /\ {pendingClear, torn, restartReq, connected, hssRunning, fresh, conn, prevConnected,
      changed, desired, full, discardFirst, synced, stalled} \subseteq BOOLEAN
  /\ fifo \in Seq(Cells) /\ produced \in 0 .. MaxFrames /\ stamp \in Stamps
  /\ pc \in {"refresh", "connected", "changed", "stop", "start", "read", "frames", "watchdog"}
  /\ drains \in 0 .. MaxDrains
  /\ buf \in Seq(Cells) /\ Len(buf) <= BufCap
  /\ carryLen \in 0 .. Len(buf)
  /\ hssRunning => carryLen < FrameSize[layout]
  /\ lastTs \in 0 .. Width - 1 /\ accum \in Stamps
  /\ silent \in 0 .. Silence /\ dog \in 0 .. WatchdogGap /\ retry \in 0 .. RetryGap
  /\ syncStamp \in Stamps /\ lastNo \in 0 .. MaxFrames

Whole(p) ==
  /\ p.as # 0 /\ Len(p.cells) = FrameSize[p.as]
  /\ \A i \in 1 .. Len(p.cells) :
       /\ p.cells[i].layout = p.as /\ p.cells[i].part = i
       /\ p.cells[i].no = p.cells[1].no /\ p.cells[i].no > 0

\* Every published frame is one frame of the running session, whole and in
\* place, decoded with the layout it was sampled with: however the reads
\* split the stream, and whatever was lost, stopped, or left over before;
\* except after a clear has thrown away a carried tail (see NeverTorn).
WholeFrames == ~torn => \A f \in 1 .. Len(published) : Whole(published[f])

\* The same without the exception, as the comment of retainTail has it
\* ("preserve every incomplete frame").
NeverTorn == \A f \in 1 .. Len(published) : Whole(published[f])

\* Published times are true elapsed probe time since the stream was synced,
\* across wraps of the counter, and they only grow.
TimeFaithful ==
  \A f \in 1 .. Len(published) :
    /\ published[f].time = published[f].cells[1].stamp - syncStamp
    /\ \A g \in 1 .. f - 1 : published[g].time < published[f].time

\* Between two synchronisations no frame of the session is skipped, repeated
\* or reordered; and the stream is cut to be synchronised again only where
\* the probe's clock really stood still: a wrap of its counter is no fault.
NoGap ==
  [][/\ ~torn /\ published = << >> /\ published' # << >> =>
          /\ synced => published'[1].cells[1].no = lastNo + 1
          /\ \A f \in 2 .. Len(published') :
               published'[f].cells[1].no = published'[f - 1].cells[1].no + 1
     /\ pc = "frames" /\ pc' = "watchdog" /\ ~discardFirst /\ discardFirst' =>
          \E f \in 1 .. Count :
            buf[(f - 1) * Size + 1].stamp <=
              (IF f = 1 THEN syncStamp + accum ELSE buf[(f - 2) * Size + 1].stamp)]_vars

\* A stream that has gone silent for the watchdog's time does not stay so:
\* frames arrive again or the stream is stopped, to be started anew.
StalledRestarts == stalled ~> ~stalled
=============================================================================
