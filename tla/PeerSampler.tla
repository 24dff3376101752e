---------------------------- MODULE PeerSampler -----------------------------
(***************************************************************************)
(* The sampling half of one peer session (Server::Impl::Session): the      *)
(* session's own thread starts, stops, drains and resets, a sampler thread *)
(* reads all blocks of a frame one by one from the shared probe and puts   *)
(* it in a ring that drops the oldest frame, and local threads reset,      *)
(* reconnect, lose or close the probe meanwhile.                           *)
(*                                                                         *)
(* The checks of the sampler are loads of atomics without a lock, as in    *)
(* PeerServer; a block is read, and the target changed, under mtx_.        *)
(***************************************************************************)
EXTENDS Integers, Sequences

CONSTANTS
  Blocks,       \* blocks per frame (1 .. 32)
  Capacity,     \* frames the ring holds (256)
  MaxEpoch,     \* bound: device generations
  MaxSwitch,    \* bound: moves of targetEpoch_ that leave the device alone
  MaxRun,       \* bound: successful starts
  MaxFrames     \* bound: frames per run

ASSUME SamplerAssumption ==
  /\ Blocks \in Nat \ {0} /\ Capacity \in Nat \ {0}
  /\ MaxEpoch \in Nat \ {0} /\ MaxSwitch \in Nat
  /\ MaxRun \in Nat /\ MaxFrames \in Nat

VARIABLES
  spc, op, req,       \* the session thread: position, operation, its epoch
  stgt,               \* targetEpoch_ as loaded by the session's reset
  alive,              \* server.alive
  sampling, epoch, lost, sampleError,   \* the Session fields of those names
  frames,             \* the ring, oldest first
  wpc, wtgt, frame,   \* the sampler thread: position, loaded epoch, bytes
  lpc,                \* a local thread that alters the target
  ownership, io,      \* holders of the ownership mutex and of mtx_
  targetEpoch, deviceEpoch, connected, gen,
  run, made, taken,   \* history: starts, and frames made and drained since
  answer,             \* history: the last answer to "samples"
  wanted              \* history: the peer has started and not stopped

sessionVars == <<spc, op, req, stgt>>
fieldVars   == <<sampling, epoch, lost, sampleError, frames>>
samplerVars == <<wpc, wtgt, frame>>
lockVars    == <<ownership, io>>
devVars     == <<targetEpoch, deviceEpoch, connected, gen>>
histVars    == <<run, made, taken, answer, wanted>>
vars == <<sessionVars, alive, fieldVars, samplerVars, lpc, lockVars, devVars, histVars>>

NoAnswer == [frames |-> << >>, dropped |-> 0]

Init ==
  /\ spc = "idle" /\ op = "none" /\ req = 0 /\ stgt = 0 /\ alive = TRUE
  /\ sampling = FALSE /\ epoch = 0 /\ lost = 0 /\ sampleError = FALSE
  /\ frames = << >>
  /\ wpc = "none" /\ wtgt = 0 /\ frame = << >>
  /\ lpc = "idle" /\ ownership = "free" /\ io = "free"
  /\ targetEpoch = 1 /\ deviceEpoch = 1 /\ connected = TRUE /\ gen = 1
  /\ run = 0 /\ made = 0 /\ taken = 0 /\ answer = NoAnswer /\ wanted = FALSE

-----------------------------------------------------------------------------
(* The session thread.                                                     *)

\* Session::stop, first half: the flag.  A start or reset has passed the
\* check of its request's epoch e; the end of the session stops too.
BeginStop(o, e) ==
  /\ spc = "idle"
  /\ o = "start" => run < MaxRun
  /\ o \in {"start", "reset"} => e \in 1 .. deviceEpoch
  /\ o \in {"stop", "end"} => e = 0
  /\ IF o = "reset" THEN ownership = "free" /\ ownership' = "session"
                    ELSE UNCHANGED ownership
  /\ sampling' = FALSE
  /\ op' = o /\ req' = e /\ spc' = "joining"
  /\ wanted' = FALSE
  /\ UNCHANGED <<stgt, alive, epoch, lost, sampleError, frames, samplerVars, lpc,
                 io, devVars, run, made, taken, answer>>

\* Where the operation goes on once the sampler is gone.
AfterStop == CASE op = "start" -> "check"
               [] op = "reset" -> "target"
               [] op = "end"   -> "ended"
               [] OTHER        -> "idle"

JoinSampler ==
  /\ spc = "joining" /\ wpc = "none"
  /\ frames' = << >>
  /\ spc' = AfterStop
  /\ UNCHANGED <<op, req, stgt, alive, sampling, epoch, lost, sampleError,
                 samplerVars, lpc, lockVars, devVars, histVars>>

SessionReturns ==
  /\ spc' = "idle" /\ op' = "none" /\ req' = 0 /\ stgt' = 0

\* Session::start checks again after stop(): first the epoch, then ready.
StartCheckEpoch ==
  /\ spc = "check"
  /\ IF deviceEpoch = req
     THEN spc' = "ready" /\ UNCHANGED <<op, req, stgt>>
     ELSE SessionReturns
  /\ UNCHANGED <<alive, fieldVars, samplerVars, lpc, lockVars, devVars, histVars>>

StartRefused ==
  /\ spc = "ready" /\ ~connected
  /\ SessionReturns
  /\ UNCHANGED <<alive, fieldVars, samplerVars, lpc, lockVars, devVars, histVars>>

LaunchKeepingLost ==             \* broken variant: `lost` is not reset
  /\ spc = "ready" /\ connected
  /\ epoch' = req /\ sampleError' = FALSE /\ sampling' = TRUE
  /\ wpc' = "loop"
  /\ run' = run + 1 /\ made' = 0 /\ taken' = 0 /\ answer' = NoAnswer /\ wanted' = TRUE
  /\ SessionReturns
  /\ UNCHANGED <<alive, lost, frames, wtgt, frame, lpc, lockVars, devVars>>

Launch ==
  /\ spc = "ready" /\ connected
  /\ epoch' = req /\ lost' = 0 /\ sampleError' = FALSE /\ sampling' = TRUE
  /\ wpc' = "loop"
  /\ run' = run + 1 /\ made' = 0 /\ taken' = 0 /\ answer' = NoAnswer /\ wanted' = TRUE
  /\ SessionReturns
  /\ UNCHANGED <<alive, frames, wtgt, frame, lpc, lockVars, devVars>>

\* "samples": check(s.epoch), which rejects the epoch 0 of a fresh session.
SamplesEpoch ==
  /\ spc = "idle" /\ epoch # 0 /\ deviceEpoch = epoch
  /\ spc' = "sready"
  /\ UNCHANGED <<op, req, stgt, alive, fieldVars, samplerVars, lpc, lockVars,
                 devVars, histVars>>

SamplesReady ==
  /\ spc = "sready"
  /\ spc' = IF connected THEN "drain" ELSE "idle"
  /\ UNCHANGED <<op, req, stgt, alive, fieldVars, samplerVars, lpc, lockVars,
                 devVars, histVars>>

\* Under the session mutex: an error is thrown, else as many of the oldest
\* frames as the caller's buffer has room for are taken.
Drain(k) ==
  /\ spc = "drain" /\ ~sampleError
  /\ k \in 0 .. Len(frames)
  /\ frames' = SubSeq(frames, k + 1, Len(frames))
  /\ taken' = taken + k
  /\ answer' = [frames |-> SubSeq(frames, 1, k), dropped |-> lost]
  /\ spc' = "idle"
  /\ UNCHANGED <<op, req, stgt, alive, sampling, epoch, lost, sampleError,
                 samplerVars, lpc, lockVars, devVars, run, made, wanted>>

DrainThrows ==
  /\ spc = "drain" /\ sampleError
  /\ spc' = "idle"
  /\ UNCHANGED <<op, req, stgt, alive, fieldVars, samplerVars, lpc, lockVars,
                 devVars, histVars>>

\* backend.reset: the epoch test of the lambda, then resetTarget.
ResetLoadTarget ==
  /\ spc = "target"
  /\ stgt' = targetEpoch /\ spc' = "device"
  /\ UNCHANGED <<op, req, alive, fieldVars, samplerVars, lpc, lockVars, devVars, histVars>>

ResetDone == SessionReturns /\ ownership' = "free"

ResetCompare ==
  /\ spc = "device"
  /\ IF deviceEpoch = req
     THEN spc' = "enter" /\ UNCHANGED <<op, req, stgt, ownership>>
     ELSE ResetDone
  /\ UNCHANGED <<alive, fieldVars, samplerVars, lpc, io, devVars, histVars>>

ResetEnter ==
  /\ spc = "enter" /\ io = "free"
  /\ \/ /\ connected /\ targetEpoch = stgt /\ gen < MaxEpoch
        /\ gen' = gen + 1
        /\ io' = "session" /\ spc' = "bumpT"
        /\ UNCHANGED <<op, req, stgt, ownership>>
     \/ ResetDone /\ UNCHANGED <<io, gen>>
  /\ UNCHANGED <<alive, fieldVars, samplerVars, lpc,
                 targetEpoch, deviceEpoch, connected, histVars>>

ResetBumpTarget ==
  /\ spc = "bumpT"
  /\ targetEpoch' = targetEpoch + 1 /\ spc' = "bumpD"
  /\ UNCHANGED <<op, req, stgt, alive, fieldVars, samplerVars, lpc, lockVars,
                 deviceEpoch, connected, gen, histVars>>

ResetBumpDevice ==
  /\ spc = "bumpD"
  /\ deviceEpoch' = deviceEpoch + 1 /\ io' = "free"
  /\ ResetDone
  /\ UNCHANGED <<alive, fieldVars, samplerVars, lpc, targetEpoch, connected, gen, histVars>>

\* Server::stop clears alive; the session ends at its next receive.
ServerStops ==
  /\ alive
  /\ alive' = FALSE
  /\ UNCHANGED <<sessionVars, fieldVars, samplerVars, lpc, lockVars, devVars, histVars>>

-----------------------------------------------------------------------------
(* The sampler thread.                                                     *)

WGoto(where) == wpc' = where /\ UNCHANGED <<wtgt, frame>>

\* while (sampling && server.alive), once per period (a sleep that outlasts
\* the run stands for the bound on its frames).
SamplerLoop ==
  /\ wpc = "loop"
  /\ sampling /\ alive => made < MaxFrames
  /\ WGoto(IF sampling /\ alive THEN "check1" ELSE "none")
  /\ UNCHANGED <<sessionVars, alive, fieldVars, lpc, lockVars, devVars, histVars>>

\* The catch block: the error is kept for the next "samples", sampling ends.
SamplerThrows ==
  /\ sampleError' = TRUE /\ sampling' = FALSE
  /\ wpc' = "loop" /\ wtgt' = 0 /\ frame' = << >>
  /\ UNCHANGED <<epoch, lost, frames>>

SamplerCheckEpoch ==
  /\ wpc \in {"check1", "check2"}
  /\ IF deviceEpoch = epoch
     THEN WGoto(IF wpc = "check1" THEN "ready1" ELSE "ready2") /\ UNCHANGED fieldVars
     ELSE SamplerThrows
  /\ UNCHANGED <<sessionVars, alive, lpc, lockVars, devVars, histVars>>

SamplerCheckReady ==
  /\ wpc \in {"ready1", "ready2"}
  /\ IF connected
     THEN WGoto(IF wpc = "ready1" THEN "target" ELSE "push") /\ UNCHANGED fieldVars
     ELSE SamplerThrows
  /\ UNCHANGED <<sessionVars, alive, lpc, lockVars, devVars, histVars>>

SamplerLoadTarget ==
  /\ wpc = "target"
  /\ wtgt' = targetEpoch /\ wpc' = "device"
  /\ UNCHANGED <<frame, sessionVars, alive, fieldVars, lpc, lockVars, devVars, histVars>>

SamplerCompare ==
  /\ wpc = "device"
  /\ IF deviceEpoch = epoch THEN WGoto("enter") /\ UNCHANGED fieldVars ELSE SamplerThrows
  /\ UNCHANGED <<sessionVars, alive, lpc, lockVars, devVars, histVars>>

\* What follows the last block: the second check, or (broken) the push.
AfterBlockUnchecked == IF Len(frame) + 1 < Blocks THEN "target" ELSE "push"
AfterBlock          == IF Len(frame) + 1 < Blocks THEN "target" ELSE "check2"

\* Broken variant: the sampler's reads are guarded like a write.
EnterGuarded == wpc = "enter" /\ io = "free" /\ ownership = "free"

\* readMemAtEpoch takes mtx_.
Enter == wpc = "enter" /\ io = "free"

\* readMemAtEpoch succeeds.
ReadBlock ==
  /\ Enter
  /\ connected /\ targetEpoch = wtgt
  /\ frame' = Append(frame, gen)
  /\ wtgt' = 0 /\ wpc' = AfterBlock
  /\ UNCHANGED <<sessionVars, alive, fieldVars, lpc, lockVars, devVars, histVars>>

\* It fails: stale epoch, no connection, firmware gate or SDK error.
ReadBlockFails ==
  /\ Enter
  /\ SamplerThrows
  /\ UNCHANGED <<sessionVars, alive, lpc, lockVars, devVars, histVars>>

\* The read that reaches the failure limit takes the connection down.
SamplerLoses ==
  /\ Enter
  /\ connected /\ targetEpoch = wtgt /\ gen < MaxEpoch
  /\ gen' = gen + 1 /\ io' = "sampler"
  /\ WGoto("lostT")
  /\ UNCHANGED <<sessionVars, alive, fieldVars, lpc, ownership,
                 targetEpoch, deviceEpoch, connected, histVars>>

SamplerLostTarget ==
  /\ wpc = "lostT"
  /\ targetEpoch' = targetEpoch + 1
  /\ WGoto("lostD")
  /\ UNCHANGED <<sessionVars, alive, fieldVars, lpc, lockVars,
                 deviceEpoch, connected, gen, histVars>>

SamplerLostDevice ==
  /\ wpc = "lostD"
  /\ deviceEpoch' = deviceEpoch + 1
  /\ WGoto("lostC")
  /\ UNCHANGED <<sessionVars, alive, fieldVars, lpc, lockVars,
                 targetEpoch, connected, gen, histVars>>

SamplerLostConnection ==
  /\ wpc = "lostC"
  /\ connected' = FALSE /\ io' = "free"
  /\ SamplerThrows
  /\ UNCHANGED <<sessionVars, alive, lpc, ownership,
                 targetEpoch, deviceEpoch, gen, histVars>>

NewFrame == [no |-> made + 1, run |-> run, epoch |-> epoch, blocks |-> frame]

\* Under the session mutex: a full ring loses its oldest frame, counted.
Push ==
  /\ wpc = "push"
  /\ IF Len(frames) >= Capacity
     THEN frames' = Append(Tail(frames), NewFrame) /\ lost' = lost + 1
     ELSE frames' = Append(frames, NewFrame) /\ UNCHANGED lost
  /\ made' = made + 1
  /\ wpc' = "loop" /\ wtgt' = 0 /\ frame' = << >>
  /\ UNCHANGED <<sessionVars, alive, sampling, epoch, sampleError, lpc, lockVars,
                 devVars, run, taken, answer, wanted>>

-----------------------------------------------------------------------------
(* Local threads: one that resets, reconnects or loses the target at a     *)
(* time (mtx_ admits one), and the ones that close it or switch sources.   *)

LocalGuard ==
  /\ lpc = "idle" /\ ownership = "free"
  /\ ownership' = "local" /\ lpc' = "enter"
  /\ UNCHANGED <<sessionVars, alive, fieldVars, samplerVars, io, devVars, histVars>>

LocalGuardDone ==
  /\ ownership' = IF ownership = "local" THEN "free" ELSE ownership
  /\ lpc' = "idle"

\* resetTarget, or connect (which sets the flag before the epochs move).
LocalChange ==
  /\ lpc = "enter" /\ io = "free"
  /\ \/ /\ gen < MaxEpoch
        /\ gen' = gen + 1 /\ io' = "local" /\ lpc' = "bumpT"
        /\ connected' = TRUE
        /\ UNCHANGED ownership
     \/ /\ LocalGuardDone           \* refused, or connect failed
        /\ connected' \in {connected, FALSE}
        /\ UNCHANGED <<io, gen>>
  /\ UNCHANGED <<sessionVars, alive, fieldVars, samplerVars,
                 targetEpoch, deviceEpoch, histVars>>

\* A local read that takes the connection down; reads take no guard.
LocalLoses ==
  /\ lpc = "idle" /\ io = "free" /\ connected /\ gen < MaxEpoch
  /\ gen' = gen + 1 /\ io' = "local" /\ lpc' = "lostT"
  /\ UNCHANGED <<sessionVars, alive, fieldVars, samplerVars, ownership,
                 targetEpoch, deviceEpoch, connected, histVars>>

LocalBumpTarget ==
  /\ lpc \in {"bumpT", "lostT"}
  /\ targetEpoch' = targetEpoch + 1
  /\ lpc' = IF lpc = "bumpT" THEN "bumpD" ELSE "lostD"
  /\ UNCHANGED <<sessionVars, alive, fieldVars, samplerVars, lockVars,
                 deviceEpoch, connected, gen, histVars>>

LocalBumpDevice ==
  /\ lpc \in {"bumpD", "lostD"}
  /\ deviceEpoch' = deviceEpoch + 1
  /\ IF lpc = "bumpD" THEN LocalGuardDone /\ io' = "free"
                      ELSE lpc' = "lostC" /\ UNCHANGED lockVars
  /\ UNCHANGED <<sessionVars, alive, fieldVars, samplerVars,
                 targetEpoch, connected, gen, histVars>>

LocalLostConnection ==
  /\ lpc = "lostC"
  /\ connected' = FALSE /\ io' = "free" /\ lpc' = "idle"
  /\ UNCHANGED <<sessionVars, alive, fieldVars, samplerVars, ownership,
                 targetEpoch, deviceEpoch, gen, histVars>>

CloseProbe ==
  /\ io = "free" /\ connected
  /\ connected' = FALSE
  /\ UNCHANGED <<sessionVars, alive, fieldVars, samplerVars, lpc, lockVars,
                 targetEpoch, deviceEpoch, gen, histVars>>

SwitchSource ==
  /\ targetEpoch < deviceEpoch + MaxSwitch
  /\ targetEpoch' = targetEpoch + 1
  /\ UNCHANGED <<sessionVars, alive, fieldVars, samplerVars, lpc, lockVars,
                 deviceEpoch, connected, gen, histVars>>

-----------------------------------------------------------------------------
SessionStep ==
  \/ JoinSampler \/ StartCheckEpoch \/ StartRefused \/ Launch
  \/ SamplesReady \/ DrainThrows \/ (\E k \in 0 .. Capacity : Drain(k))
  \/ ResetLoadTarget \/ ResetCompare \/ ResetBumpTarget \/ ResetBumpDevice

SamplerStep ==
  \/ SamplerLoop \/ SamplerCheckEpoch \/ SamplerCheckReady \/ SamplerLoadTarget
  \/ SamplerCompare \/ Push
  \/ SamplerLostTarget \/ SamplerLostDevice \/ SamplerLostConnection

SamplerRead == ReadBlock \/ ReadBlockFails \/ SamplerLoses

LocalStep == LocalBumpTarget \/ LocalBumpDevice \/ LocalLostConnection

Request ==
  \/ BeginStop("stop", 0) \/ BeginStop("end", 0) \/ SamplesEpoch
  \/ \E e \in 1 .. MaxEpoch : BeginStop("start", e) \/ BeginStop("reset", e)

Next ==
  \/ Request \/ SessionStep \/ ResetEnter \/ ServerStops
  \/ SamplerStep \/ SamplerRead
  \/ LocalStep \/ LocalGuard \/ LocalChange \/ LocalLoses \/ CloseProbe \/ SwitchSource

Spec == Init /\ [][Next]_vars

(* Every thread is scheduled and mtx_ is fair (FairMutex); the peer and the *)
(* users of the probe owe nothing.                                          *)
Fairness ==
  /\ WF_vars(SessionStep) /\ SF_vars(ResetEnter)
  /\ WF_vars(SamplerStep) /\ SF_vars(SamplerRead)
  /\ WF_vars(LocalStep) /\ SF_vars(LocalChange)

FairSpec == Spec /\ Fairness

-----------------------------------------------------------------------------
Epochs   == 0 .. MaxEpoch
Targets  == 0 .. MaxEpoch + MaxSwitch
FrameSet == [no : 1 .. MaxFrames, run : 1 .. MaxRun,
             epoch : 1 .. MaxEpoch, blocks : Seq(1 .. MaxEpoch)]

\* Includes the capacity of the ring.
TypeOK ==
  /\ spc \in {"idle", "joining", "check", "ready", "sready", "drain",
              "target", "device", "enter", "bumpT", "bumpD", "ended"}
  /\ op \in {"none", "start", "stop", "reset", "end"}
  /\ req \in Epochs /\ stgt \in Targets /\ alive \in BOOLEAN
  /\ sampling \in BOOLEAN /\ epoch \in Epochs /\ lost \in 0 .. MaxFrames
  /\ sampleError \in BOOLEAN
  /\ frames \in Seq(FrameSet) /\ Len(frames) <= Capacity
  /\ wpc \in {"none", "loop", "check1", "ready1", "target", "device", "enter",
              "check2", "ready2", "push", "lostT", "lostD", "lostC"}
  /\ wtgt \in Targets /\ frame \in Seq(1 .. MaxEpoch) /\ Len(frame) <= Blocks
  /\ lpc \in {"idle", "enter", "bumpT", "bumpD", "lostT", "lostD", "lostC"}
  /\ ownership \in {"free", "session", "local"}
  /\ io \in {"free", "session", "sampler", "local"}
  /\ targetEpoch \in Targets /\ deviceEpoch \in Epochs
  /\ connected \in BOOLEAN /\ gen \in Epochs
  /\ run \in 0 .. MaxRun /\ made \in 0 .. MaxFrames /\ taken \in 0 .. MaxFrames
  /\ answer.frames \in Seq(FrameSet) /\ answer.dropped \in 0 .. MaxFrames
  /\ wanted \in BOOLEAN

\* A frame is never pieced together from two device generations: all of its
\* blocks are of the generation the peer asked to sample.
FramesOfOneGeneration ==
  \A i \in 1 .. Len(frames) : LET f == frames[i] IN
    Len(f.blocks) = Blocks /\ \A b \in 1 .. Blocks : f.blocks[b] = f.epoch

\* The frames of an answer are those of the current run, consecutive, and
\* with the drop counter they tell the peer where in the run each belongs:
\* nothing is lost uncounted, repeated or reordered.  Nor does the run end
\* behind the peer's back: if the peer is still sampling and the thread is
\* gone, the next "samples" reports the error.
AnswerAccounted ==
  /\ \A i \in 1 .. Len(answer.frames) : LET f == answer.frames[i] IN
       /\ f.run = run
       /\ f.no = taken - Len(answer.frames) + i + answer.dropped
  /\ wanted /\ alive /\ wpc = "none" => sampleError

\* stop(), also as part of start, reset (which joins with the ownership mutex
\* held) and the end of the session, always gets past the join.
JoinReturns == (spc = "joining") ~> (spc # "joining")
=============================================================================
