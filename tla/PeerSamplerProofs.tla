-------------------------- MODULE PeerSamplerProofs --------------------------
(***************************************************************************)
(* Theorems about PeerSampler, for any number of blocks, any capacity and  *)
(* any bounds: the frames of the ring and of every answer are whole, of    *)
(* one device generation and accounted for, however starts, resets, losses *)
(* and source switches fall between the reads of a frame.  SamplerInv is   *)
(* inductive.  Its heart is that a reading thread cannot see a mixed frame *)
(* through: the device epoch never goes back, lags the generation only     *)
(* while mtx_ is held, and is compared once more after the last block.     *)
(***************************************************************************)
EXTENDS PeerSampler, TLAPS

\* A change of generation that has not yet reached targetEpoch_, deviceEpoch_.
TargetLags == spc = "bumpT" \/ wpc = "lostT" \/ lpc \in {"bumpT", "lostT"}
DeviceLags == spc = "bumpD" \/ wpc = "lostD" \/ lpc \in {"bumpD", "lostD"}

\* mtx_ is held by the one thread that is in the middle of a change.
IoHeld ==
  /\ io = "session" <=> spc \in {"bumpT", "bumpD"}
  /\ io = "sampler" <=> wpc \in {"lostT", "lostD", "lostC"}
  /\ io = "local"   <=> lpc \in {"bumpT", "bumpD", "lostT", "lostD", "lostC"}

EpochsFollow ==
  /\ deviceEpoch >= 1
  /\ gen = IF TargetLags \/ DeviceLags THEN deviceEpoch + 1 ELSE deviceEpoch
  /\ targetEpoch <= MaxSwitch + IF DeviceLags THEN deviceEpoch + 1 ELSE deviceEpoch

\* Between the join and the next launch there is no sampler and no frame.
Joined ==
  /\ spc \in {"check", "ready", "target", "device", "enter", "bumpT", "bumpD", "ended"} =>
       wpc = "none" /\ frames = << >>
  /\ spc \in {"check", "ready"} \/ (spc = "joining" /\ op = "start") =>
       run < MaxRun /\ req \in 1 .. deviceEpoch

\* The frame under construction, as far as the sampler's position tells.
FrameGrows ==
  /\ wpc # "none" => run >= 1 /\ epoch \in 1 .. deviceEpoch
  /\ wpc \in {"none", "loop", "check1", "ready1"} => frame = << >>
  /\ wpc \in {"target", "device", "enter"} => Len(frame) < Blocks
  /\ wpc \in {"check2", "ready2", "push"} => Len(frame) = Blocks
  /\ wpc \notin {"none", "loop"} => made < MaxFrames
  /\ deviceEpoch = epoch \/ wpc \in {"ready2", "push"} =>
       \A b \in 1 .. Len(frame) : frame[b] = epoch

\* The frames of the ring are the latest ones of the current run.
RingAccounted ==
  /\ taken + lost + Len(frames) <= made
  /\ frames # << >> \/ wpc # "none" => taken + lost + Len(frames) = made
  /\ \A i \in 1 .. Len(frames) : frames[i].run = run /\ frames[i].no = taken + lost + i

\* A run the peer has not stopped ends only with an error kept for it.
ErrorKept ==
  wanted => /\ sampling \/ sampleError
            /\ alive /\ wpc = "none" => sampleError

SamplerInv ==
  /\ TypeOK /\ IoHeld /\ EpochsFollow /\ Joined /\ FrameGrows /\ RingAccounted
  /\ ErrorKept /\ FramesOfOneGeneration /\ AnswerAccounted

\* TypeOK in parts: the places, the epochs, the flags, the frame, the ring.
PlaceType ==
  /\ spc \in {"idle", "joining", "check", "ready", "sready", "drain",
              "target", "device", "enter", "bumpT", "bumpD", "ended"}
  /\ op \in {"none", "start", "stop", "reset", "end"}
  /\ req \in Epochs /\ stgt \in Targets /\ epoch \in Epochs
  /\ wpc \in {"none", "loop", "check1", "ready1", "target", "device", "enter",
              "check2", "ready2", "push", "lostT", "lostD", "lostC"}
  /\ wtgt \in Targets
  /\ lpc \in {"idle", "enter", "bumpT", "bumpD", "lostT", "lostD", "lostC"}
  /\ ownership \in {"free", "session", "local"}
  /\ io \in {"free", "session", "sampler", "local"}

EpochType == targetEpoch \in Targets /\ deviceEpoch \in Epochs /\ gen \in Epochs

FlagType ==
  /\ alive \in BOOLEAN /\ sampling \in BOOLEAN /\ sampleError \in BOOLEAN
  /\ connected \in BOOLEAN /\ wanted \in BOOLEAN

FrameType == frame \in Seq(1 .. MaxEpoch) /\ Len(frame) <= Blocks

RingType ==
  /\ frames \in Seq(FrameSet) /\ Len(frames) <= Capacity
  /\ lost \in 0 .. MaxFrames /\ made \in 0 .. MaxFrames /\ taken \in 0 .. MaxFrames
  /\ run \in 0 .. MaxRun
  /\ answer.frames \in Seq(FrameSet) /\ answer.dropped \in 0 .. MaxFrames

\* The first half of AnswerAccounted; the second is part of ErrorKept.
AnswerFrames ==
  \A i \in 1 .. Len(answer.frames) : LET f == answer.frames[i] IN
    /\ f.run = run
    /\ f.no = taken - Len(answer.frames) + i + answer.dropped

Ring == RingAccounted /\ FramesOfOneGeneration /\ AnswerFrames

LEMMA TypeParts ==
  TypeOK <=> PlaceType /\ EpochType /\ FlagType /\ FrameType /\ RingType
BY DEF TypeOK, PlaceType, EpochType, FlagType, FrameType, RingType

\* The frame is empty outside the reading of it.
LEMMA EmptyFrame == << >> \in Seq(1 .. MaxEpoch) /\ Len(<< >>) = 0
OBVIOUS

-----------------------------------------------------------------------------
\* Who holds mtx_, who may move when, and the error kept.
LEMMA IoStep ==
  ASSUME IoHeld, EpochsFollow, EpochType, Joined, FrameGrows, ErrorKept, FlagType, Next
  PROVE  (IoHeld /\ Joined /\ ErrorKept /\ FlagType)'
<1>. USE SamplerAssumption DEF IoHeld, EpochsFollow, EpochType, Joined,
           FrameGrows, ErrorKept, FlagType, Epochs, sessionVars, fieldVars,
           samplerVars, lockVars, devVars, histVars, SessionReturns,
           ResetDone, AfterStop, SamplerThrows, WGoto, AfterBlock, Enter,
           LocalGuardDone
<1>1. ASSUME NEW o \in {"start", "stop", "reset", "end"}, NEW e \in 0 .. MaxEpoch,
             BeginStop(o, e)
      PROVE  (IoHeld /\ Joined /\ ErrorKept /\ FlagType)'
      BY <1>1 DEF BeginStop
<1>2. CASE JoinSampler BY <1>2 DEF JoinSampler
<1>3. CASE StartCheckEpoch BY <1>3 DEF StartCheckEpoch
<1>4. CASE StartRefused BY <1>4 DEF StartRefused
<1>5. CASE Launch BY <1>5 DEF Launch
<1>6. CASE SamplesEpoch BY <1>6 DEF SamplesEpoch
<1>7. CASE SamplesReady BY <1>7 DEF SamplesReady
<1>8. ASSUME NEW k \in 0 .. Capacity, Drain(k)
      PROVE  (IoHeld /\ Joined /\ ErrorKept /\ FlagType)'
      BY <1>8 DEF Drain
<1>9. CASE DrainThrows BY <1>9 DEF DrainThrows
<1>10. CASE ResetLoadTarget BY <1>10 DEF ResetLoadTarget
<1>11. CASE ResetCompare BY <1>11 DEF ResetCompare
<1>12. CASE ResetEnter BY <1>12 DEF ResetEnter
<1>13. CASE ResetBumpTarget BY <1>13 DEF ResetBumpTarget
<1>14. CASE ResetBumpDevice BY <1>14 DEF ResetBumpDevice
<1>15. CASE ServerStops BY <1>15 DEF ServerStops
<1>16. CASE SamplerLoop BY <1>16 DEF SamplerLoop
<1>17. CASE SamplerCheckEpoch BY <1>17 DEF SamplerCheckEpoch
<1>18. CASE SamplerCheckReady BY <1>18 DEF SamplerCheckReady
<1>19. CASE SamplerLoadTarget BY <1>19 DEF SamplerLoadTarget
<1>20. CASE SamplerCompare BY <1>20 DEF SamplerCompare
<1>21. CASE ReadBlock BY <1>21 DEF ReadBlock
<1>22. CASE ReadBlockFails BY <1>22 DEF ReadBlockFails
<1>23. CASE SamplerLoses BY <1>23 DEF SamplerLoses
<1>24. CASE SamplerLostTarget BY <1>24 DEF SamplerLostTarget
<1>25. CASE SamplerLostDevice BY <1>25 DEF SamplerLostDevice
<1>26. CASE SamplerLostConnection BY <1>26 DEF SamplerLostConnection
<1>27. CASE Push BY <1>27 DEF Push
<1>28. CASE LocalGuard BY <1>28 DEF LocalGuard
<1>29. CASE LocalChange BY <1>29 DEF LocalChange
<1>30. CASE LocalLoses BY <1>30 DEF LocalLoses
<1>31. CASE LocalBumpTarget BY <1>31 DEF LocalBumpTarget
<1>32. CASE LocalBumpDevice BY <1>32 DEF LocalBumpDevice
<1>33. CASE LocalLostConnection BY <1>33 DEF LocalLostConnection
<1>34. CASE CloseProbe BY <1>34 DEF CloseProbe
<1>35. CASE SwitchSource BY <1>35 DEF SwitchSource
<1>. QED BY <1>1, <1>2, <1>3, <1>4, <1>5, <1>6, <1>7, <1>8, <1>9, <1>10,
          <1>11, <1>12, <1>13, <1>14, <1>15, <1>16, <1>17, <1>18, <1>19,
          <1>20, <1>21, <1>22, <1>23, <1>24, <1>25, <1>26, <1>27, <1>28,
          <1>29, <1>30, <1>31, <1>32, <1>33, <1>34, <1>35 DEF Next, Request,
          SessionStep, SamplerStep, SamplerRead, LocalStep

\* The epochs follow the generation and stay in their bounds.
LEMMA EpochStep ==
  ASSUME EpochType, IoHeld, EpochsFollow, Joined, Next
  PROVE  (EpochsFollow /\ EpochType)'
<1>. USE SamplerAssumption DEF IoHeld, EpochsFollow, Joined, TargetLags,
           DeviceLags, EpochType, Epochs, Targets, sessionVars, fieldVars,
           samplerVars, lockVars, devVars, histVars, SessionReturns,
           ResetDone, AfterStop, SamplerThrows, WGoto, AfterBlock, Enter,
           LocalGuardDone
<1>1. ASSUME NEW o \in {"start", "stop", "reset", "end"}, NEW e \in 0 .. MaxEpoch,
             BeginStop(o, e)
      PROVE  (EpochsFollow /\ EpochType)'
      BY <1>1 DEF BeginStop
<1>2. CASE JoinSampler BY <1>2 DEF JoinSampler
<1>3. CASE StartCheckEpoch BY <1>3 DEF StartCheckEpoch
<1>4. CASE StartRefused BY <1>4 DEF StartRefused
<1>5. CASE Launch BY <1>5 DEF Launch
<1>6. CASE SamplesEpoch BY <1>6 DEF SamplesEpoch
<1>7. CASE SamplesReady BY <1>7 DEF SamplesReady
<1>8. ASSUME NEW k \in 0 .. Capacity, Drain(k)
      PROVE  (EpochsFollow /\ EpochType)'
      BY <1>8 DEF Drain
<1>9. CASE DrainThrows BY <1>9 DEF DrainThrows
<1>10. CASE ResetLoadTarget BY <1>10 DEF ResetLoadTarget
<1>11. CASE ResetCompare BY <1>11 DEF ResetCompare
<1>12. CASE ResetEnter BY <1>12 DEF ResetEnter
<1>13. CASE ResetBumpTarget BY <1>13 DEF ResetBumpTarget
<1>14. CASE ResetBumpDevice BY <1>14 DEF ResetBumpDevice
<1>15. CASE ServerStops BY <1>15 DEF ServerStops
<1>16. CASE SamplerLoop BY <1>16 DEF SamplerLoop
<1>17. CASE SamplerCheckEpoch BY <1>17 DEF SamplerCheckEpoch
<1>18. CASE SamplerCheckReady BY <1>18 DEF SamplerCheckReady
<1>19. CASE SamplerLoadTarget BY <1>19 DEF SamplerLoadTarget
<1>20. CASE SamplerCompare BY <1>20 DEF SamplerCompare
<1>21. CASE ReadBlock BY <1>21 DEF ReadBlock
<1>22. CASE ReadBlockFails BY <1>22 DEF ReadBlockFails
<1>23. CASE SamplerLoses BY <1>23 DEF SamplerLoses
<1>24. CASE SamplerLostTarget BY <1>24 DEF SamplerLostTarget
<1>25. CASE SamplerLostDevice BY <1>25 DEF SamplerLostDevice
<1>26. CASE SamplerLostConnection BY <1>26 DEF SamplerLostConnection
<1>27. CASE Push BY <1>27 DEF Push
<1>28. CASE LocalGuard BY <1>28 DEF LocalGuard
<1>29. CASE LocalChange
      <2>1. /\ lpc = "enter" /\ io = "free"
            /\ \/ gen < MaxEpoch /\ gen' = gen + 1 /\ io' = "local" /\ lpc' = "bumpT"
                  /\ UNCHANGED ownership
               \/ LocalGuardDone /\ UNCHANGED <<io, gen>>
            /\ UNCHANGED <<sessionVars, fieldVars, samplerVars,
                           targetEpoch, deviceEpoch, histVars>>
        BY <1>29, Zenon DEF LocalChange
      <2>. QED BY <2>1
<1>30. CASE LocalLoses BY <1>30 DEF LocalLoses
<1>31. CASE LocalBumpTarget BY <1>31 DEF LocalBumpTarget
<1>32. CASE LocalBumpDevice BY <1>32 DEF LocalBumpDevice
<1>33. CASE LocalLostConnection BY <1>33 DEF LocalLostConnection
<1>34. CASE CloseProbe BY <1>34 DEF CloseProbe
<1>35. CASE SwitchSource BY <1>35 DEF SwitchSource
<1>. QED BY <1>1, <1>2, <1>3, <1>4, <1>5, <1>6, <1>7, <1>8, <1>9, <1>10,
          <1>11, <1>12, <1>13, <1>14, <1>15, <1>16, <1>17, <1>18, <1>19,
          <1>20, <1>21, <1>22, <1>23, <1>24, <1>25, <1>26, <1>27, <1>28,
          <1>29, <1>30, <1>31, <1>32, <1>33, <1>34, <1>35 DEF Next, Request,
          SessionStep, SamplerStep, SamplerRead, LocalStep

\* Types of the places.
LEMMA PlaceStep ==
  ASSUME PlaceType, EpochType, Next
  PROVE  PlaceType'
<1>. USE SamplerAssumption DEF PlaceType, EpochType, Epochs, Targets,
           sessionVars, fieldVars, samplerVars, lockVars, devVars, histVars,
           SessionReturns, ResetDone, AfterStop, SamplerThrows, WGoto,
           AfterBlock, Enter, LocalGuardDone
<1>1. ASSUME NEW o \in {"start", "stop", "reset", "end"}, NEW e \in 0 .. MaxEpoch,
             BeginStop(o, e)
      PROVE  PlaceType'
      BY <1>1 DEF BeginStop
<1>2. CASE JoinSampler BY <1>2 DEF JoinSampler
<1>3. CASE StartCheckEpoch BY <1>3 DEF StartCheckEpoch
<1>4. CASE StartRefused BY <1>4 DEF StartRefused
<1>5. CASE Launch BY <1>5 DEF Launch
<1>6. CASE SamplesEpoch BY <1>6 DEF SamplesEpoch
<1>7. CASE SamplesReady BY <1>7 DEF SamplesReady
<1>8. ASSUME NEW k \in 0 .. Capacity, Drain(k)
      PROVE  PlaceType'
      BY <1>8 DEF Drain
<1>9. CASE DrainThrows BY <1>9 DEF DrainThrows
<1>10. CASE ResetLoadTarget BY <1>10 DEF ResetLoadTarget
<1>11. CASE ResetCompare BY <1>11 DEF ResetCompare
<1>12. CASE ResetEnter BY <1>12 DEF ResetEnter
<1>13. CASE ResetBumpTarget BY <1>13 DEF ResetBumpTarget
<1>14. CASE ResetBumpDevice BY <1>14 DEF ResetBumpDevice
<1>15. CASE ServerStops BY <1>15 DEF ServerStops
<1>16. CASE SamplerLoop BY <1>16 DEF SamplerLoop
<1>17. CASE SamplerCheckEpoch BY <1>17 DEF SamplerCheckEpoch
<1>18. CASE SamplerCheckReady BY <1>18 DEF SamplerCheckReady
<1>19. CASE SamplerLoadTarget BY <1>19 DEF SamplerLoadTarget
<1>20. CASE SamplerCompare BY <1>20 DEF SamplerCompare
<1>21. CASE ReadBlock BY <1>21 DEF ReadBlock
<1>22. CASE ReadBlockFails BY <1>22 DEF ReadBlockFails
<1>23. CASE SamplerLoses BY <1>23 DEF SamplerLoses
<1>24. CASE SamplerLostTarget BY <1>24 DEF SamplerLostTarget
<1>25. CASE SamplerLostDevice BY <1>25 DEF SamplerLostDevice
<1>26. CASE SamplerLostConnection BY <1>26 DEF SamplerLostConnection
<1>27. CASE Push BY <1>27 DEF Push
<1>28. CASE LocalGuard BY <1>28 DEF LocalGuard
<1>29. CASE LocalChange
      <2>1. /\ lpc = "enter" /\ io = "free"
            /\ \/ gen < MaxEpoch /\ gen' = gen + 1 /\ io' = "local" /\ lpc' = "bumpT"
                  /\ UNCHANGED ownership
               \/ LocalGuardDone /\ UNCHANGED <<io, gen>>
            /\ UNCHANGED <<sessionVars, fieldVars, samplerVars,
                           targetEpoch, deviceEpoch, histVars>>
        BY <1>29, Zenon DEF LocalChange
      <2>. QED BY <2>1
<1>30. CASE LocalLoses BY <1>30 DEF LocalLoses
<1>31. CASE LocalBumpTarget BY <1>31 DEF LocalBumpTarget
<1>32. CASE LocalBumpDevice BY <1>32 DEF LocalBumpDevice
<1>33. CASE LocalLostConnection BY <1>33 DEF LocalLostConnection
<1>34. CASE CloseProbe BY <1>34 DEF CloseProbe
<1>35. CASE SwitchSource BY <1>35 DEF SwitchSource
<1>. QED BY <1>1, <1>2, <1>3, <1>4, <1>5, <1>6, <1>7, <1>8, <1>9, <1>10,
          <1>11, <1>12, <1>13, <1>14, <1>15, <1>16, <1>17, <1>18, <1>19,
          <1>20, <1>21, <1>22, <1>23, <1>24, <1>25, <1>26, <1>27, <1>28,
          <1>29, <1>30, <1>31, <1>32, <1>33, <1>34, <1>35 DEF Next, Request,
          SessionStep, SamplerStep, SamplerRead, LocalStep

\* The frame under construction.
LEMMA FrameStep ==
  ASSUME run \in Nat, EpochType, FrameType, IoHeld, EpochsFollow, Joined, FrameGrows, Next
  PROVE  (FrameGrows /\ FrameType)'
<1>. USE SamplerAssumption DEF IoHeld, EpochsFollow, Joined, TargetLags,
           DeviceLags, EpochType, FrameType, FrameGrows, Epochs, sessionVars,
           fieldVars, samplerVars, lockVars, devVars, histVars,
           SessionReturns, ResetDone, AfterStop, SamplerThrows, WGoto,
           AfterBlock, Enter, LocalGuardDone
<1>1. ASSUME NEW o \in {"start", "stop", "reset", "end"}, NEW e \in 0 .. MaxEpoch,
             BeginStop(o, e)
      PROVE  (FrameGrows /\ FrameType)'
      BY <1>1 DEF BeginStop
<1>2. CASE JoinSampler BY <1>2 DEF JoinSampler
<1>3. CASE StartCheckEpoch BY <1>3 DEF StartCheckEpoch
<1>4. CASE StartRefused BY <1>4 DEF StartRefused
<1>5. CASE Launch BY <1>5 DEF Launch
<1>6. CASE SamplesEpoch BY <1>6 DEF SamplesEpoch
<1>7. CASE SamplesReady BY <1>7 DEF SamplesReady
<1>8. ASSUME NEW k \in 0 .. Capacity, Drain(k)
      PROVE  (FrameGrows /\ FrameType)'
      BY <1>8 DEF Drain
<1>9. CASE DrainThrows BY <1>9 DEF DrainThrows
<1>10. CASE ResetLoadTarget BY <1>10 DEF ResetLoadTarget
<1>11. CASE ResetCompare BY <1>11 DEF ResetCompare
<1>12. CASE ResetEnter BY <1>12 DEF ResetEnter
<1>13. CASE ResetBumpTarget BY <1>13 DEF ResetBumpTarget
<1>14. CASE ResetBumpDevice BY <1>14 DEF ResetBumpDevice
<1>15. CASE ServerStops BY <1>15 DEF ServerStops
<1>16. CASE SamplerLoop BY <1>16 DEF SamplerLoop
<1>17. CASE SamplerCheckEpoch
      <2>1. CASE deviceEpoch = epoch BY <1>17, <2>1 DEF SamplerCheckEpoch
      <2>2. CASE ~ (deviceEpoch = epoch) BY <1>17, <2>2, EmptyFrame DEF SamplerCheckEpoch
      <2>. QED BY <2>1, <2>2
<1>18. CASE SamplerCheckReady
      <2>1. CASE connected BY <1>18, <2>1 DEF SamplerCheckReady
      <2>2. CASE ~ (connected) BY <1>18, <2>2, EmptyFrame DEF SamplerCheckReady
      <2>. QED BY <2>1, <2>2
<1>19. CASE SamplerLoadTarget BY <1>19 DEF SamplerLoadTarget
<1>20. CASE SamplerCompare
      <2>1. CASE deviceEpoch = epoch BY <1>20, <2>1 DEF SamplerCompare
      <2>2. CASE ~ (deviceEpoch = epoch) BY <1>20, <2>2, EmptyFrame DEF SamplerCompare
      <2>. QED BY <2>1, <2>2
<1>21. CASE ReadBlock BY <1>21 DEF ReadBlock
<1>22. CASE ReadBlockFails BY <1>22 DEF ReadBlockFails
<1>23. CASE SamplerLoses BY <1>23 DEF SamplerLoses
<1>24. CASE SamplerLostTarget BY <1>24 DEF SamplerLostTarget
<1>25. CASE SamplerLostDevice BY <1>25 DEF SamplerLostDevice
<1>26. CASE SamplerLostConnection BY <1>26 DEF SamplerLostConnection
<1>27. CASE Push BY <1>27 DEF Push
<1>28. CASE LocalGuard BY <1>28 DEF LocalGuard
<1>29. CASE LocalChange
      <2>1. /\ lpc = "enter" /\ io = "free"
            /\ \/ gen < MaxEpoch /\ gen' = gen + 1 /\ io' = "local" /\ lpc' = "bumpT"
                  /\ UNCHANGED ownership
               \/ LocalGuardDone /\ UNCHANGED <<io, gen>>
            /\ UNCHANGED <<sessionVars, fieldVars, samplerVars,
                           targetEpoch, deviceEpoch, histVars>>
        BY <1>29, Zenon DEF LocalChange
      <2>. QED BY <2>1
<1>30. CASE LocalLoses BY <1>30 DEF LocalLoses
<1>31. CASE LocalBumpTarget BY <1>31 DEF LocalBumpTarget
<1>32. CASE LocalBumpDevice BY <1>32 DEF LocalBumpDevice
<1>33. CASE LocalLostConnection BY <1>33 DEF LocalLostConnection
<1>34. CASE CloseProbe BY <1>34 DEF CloseProbe
<1>35. CASE SwitchSource BY <1>35 DEF SwitchSource
<1>. QED BY <1>1, <1>2, <1>3, <1>4, <1>5, <1>6, <1>7, <1>8, <1>9, <1>10,
          <1>11, <1>12, <1>13, <1>14, <1>15, <1>16, <1>17, <1>18, <1>19,
          <1>20, <1>21, <1>22, <1>23, <1>24, <1>25, <1>26, <1>27, <1>28,
          <1>29, <1>30, <1>31, <1>32, <1>33, <1>34, <1>35 DEF Next, Request,
          SessionStep, SamplerStep, SamplerRead, LocalStep

\* What a step does to the ring: four actions write it or its counters.
LEMMA RingSteps ==
  ASSUME Next
  PROVE  \/ /\ UNCHANGED <<frames, lost, run, made, taken, answer>>
            /\ wpc = "none" => wpc' = "none"
         \/ JoinSampler \/ Launch \/ Push \/ \E k \in 0 .. Capacity : Drain(k)
<1>. USE DEF sessionVars, fieldVars, samplerVars, lockVars, devVars, histVars
<1>1. CASE Request BY <1>1 DEF Request, BeginStop, SamplesEpoch
<1>2. CASE SessionStep
      BY <1>2 DEF SessionStep, StartCheckEpoch, StartRefused, SamplesReady, DrainThrows,
           ResetLoadTarget, ResetCompare, ResetBumpTarget, ResetBumpDevice
<1>3. CASE ResetEnter \/ ServerStops BY <1>3 DEF ResetEnter, ServerStops
<1>4. CASE SamplerStep
      BY <1>4 DEF SamplerStep, SamplerLoop, SamplerCheckEpoch, SamplerCheckReady,
           SamplerLoadTarget, SamplerCompare, SamplerLostTarget, SamplerLostDevice,
           SamplerLostConnection, SamplerThrows, WGoto
<1>5. CASE SamplerRead
      BY <1>5 DEF SamplerRead, ReadBlock, ReadBlockFails, SamplerLoses, Enter,
           SamplerThrows, WGoto
<1>6. CASE LocalStep
      BY <1>6 DEF LocalStep, LocalBumpTarget, LocalBumpDevice, LocalLostConnection
<1>7. CASE LocalGuard \/ LocalChange \/ LocalLoses \/ CloseProbe \/ SwitchSource
      BY <1>7 DEF LocalGuard, LocalChange, LocalLoses, CloseProbe, SwitchSource
<1>. QED BY <1>1, <1>2, <1>3, <1>4, <1>5, <1>6, <1>7 DEF Next

\* What dropping and taking the oldest k elements of a sequence leaves.
LEMMA OldestGone ==
  ASSUME NEW S, NEW s \in Seq(S), NEW k \in 0 .. Len(s)
  PROVE  /\ SubSeq(s, k + 1, Len(s)) \in Seq(S)
         /\ Len(SubSeq(s, k + 1, Len(s))) = Len(s) - k
         /\ \A i \in 1 .. Len(s) - k : SubSeq(s, k + 1, Len(s))[i] = s[i + k]
OBVIOUS

LEMMA OldestTaken ==
  ASSUME NEW S, NEW s \in Seq(S), NEW k \in 0 .. Len(s)
  PROVE  /\ SubSeq(s, 1, k) \in Seq(S)
         /\ Len(SubSeq(s, 1, k)) = k
         /\ \A i \in 1 .. k : SubSeq(s, 1, k)[i] = s[i]
OBVIOUS

\* What is asked of a ring that holds the frames r after n earlier ones.
Whole(f) == Len(f.blocks) = Blocks /\ \A b \in 1 .. Blocks : f.blocks[b] = f.epoch
RingOk(r, n, k) == \A i \in 1 .. Len(r) : r[i].run = k /\ r[i].no = n + i /\ Whole(r[i])

LEMMA RingParts ==
  Ring <=> /\ taken + lost + Len(frames) <= made
           /\ frames # << >> \/ wpc # "none" => taken + lost + Len(frames) = made
           /\ RingOk(frames, taken + lost, run)
           /\ AnswerFrames
BY DEF Ring, RingAccounted, FramesOfOneGeneration, RingOk, Whole

\* The ring: frames enter whole and numbered, and leave in order.
LEMMA RingStep ==
  ASSUME RingType, FrameType, PlaceType, EpochType, Joined, FrameGrows, Ring, Next
  PROVE  (RingType /\ Ring)'
<1>. USE SamplerAssumption, RingParts
<1>0. Ring' <=> /\ taken' + lost' + Len(frames') <= made'
                /\ frames' # << >> \/ wpc' # "none" => taken' + lost' + Len(frames') = made'
                /\ RingOk(frames', taken' + lost', run')
                /\ AnswerFrames'
      BY DEF Ring, RingAccounted, FramesOfOneGeneration, RingOk, Whole
<1>1. CASE /\ UNCHANGED <<frames, lost, run, made, taken, answer>>
           /\ wpc = "none" => wpc' = "none"
  <2>1. RingType' BY <1>1 DEF RingType
  <2>2. AnswerFrames' BY <1>1 DEF AnswerFrames
  <2>. QED BY <1>0, <1>1, <2>1, <2>2
<1>2. CASE JoinSampler
  <2>1. /\ frames' = << >> /\ wpc' = "none"
        /\ UNCHANGED <<lost, run, made, taken, answer>>
        BY <1>2 DEF JoinSampler, samplerVars, histVars
  <2>2. << >> \in Seq(FrameSet) /\ Len(<< >>) = 0
        OBVIOUS
  <2>3. RingType' BY <2>1, <2>2 DEF RingType
  <2>4. AnswerFrames' BY <2>1 DEF AnswerFrames
  <2>5. RingOk(frames', taken' + lost', run') BY <2>1 DEF RingOk
  <2>. QED BY <1>0, <2>1, <2>2, <2>3, <2>4, <2>5 DEF RingType
<1>3. CASE Launch
  <2>1. frames = << >> /\ frames' = << >> /\ run < MaxRun
        BY <1>3 DEF Launch, Joined
  <2>2. /\ lost' = 0 /\ made' = 0 /\ taken' = 0 /\ run' = run + 1
        /\ answer' = [frames |-> << >>, dropped |-> 0]
        BY <1>3 DEF Launch, NoAnswer
  <2>3. RingType' BY <2>1, <2>2 DEF RingType
  <2>4. AnswerFrames' BY <2>2 DEF AnswerFrames
  <2>5. RingOk(frames', taken' + lost', run') BY <2>1 DEF RingOk
  <2>. QED BY <1>0, <2>1, <2>2, <2>3, <2>4, <2>5
<1>4. ASSUME NEW k \in 0 .. Capacity, Drain(k) PROVE (RingType /\ Ring)'
  <2>1. /\ k \in 0 .. Len(frames) /\ Len(frames) \in Nat
        /\ frames' = SubSeq(frames, k + 1, Len(frames))
        /\ taken' = taken + k
        /\ answer' = [frames |-> SubSeq(frames, 1, k), dropped |-> lost]
        /\ UNCHANGED <<lost, made, run, wpc>>
        BY <1>4 DEF Drain, samplerVars, RingType
  <2>2. frames \in Seq(FrameSet) BY DEF RingType
  <2>3. /\ frames' \in Seq(FrameSet) /\ Len(frames') = Len(frames) - k
        /\ \A i \in 1 .. Len(frames) - k : frames'[i] = frames[i + k]
        BY <2>1, <2>2, OldestGone
  <2>4. /\ answer'.frames \in Seq(FrameSet) /\ Len(answer'.frames) = k
        /\ \A i \in 1 .. k : answer'.frames[i] = frames[i]
        /\ answer'.dropped = lost
        BY <2>1, <2>2, OldestTaken
  <2>5. taken \in Nat /\ lost \in Nat /\ made \in Nat /\ k \in Nat
        BY <2>1 DEF RingType
  <2>6. frames' # << >> => frames # << >>
        BY <2>1, <2>2, <2>3
  <2>7. RingType' BY <2>1, <2>3, <2>4, <2>5 DEF RingType
  <2>8. RingOk(frames', taken' + lost', run')
    <3>1. ASSUME NEW i \in 1 .. Len(frames')
          PROVE  /\ frames'[i].run = run' /\ frames'[i].no = taken' + lost' + i
                 /\ Whole(frames'[i])
      <4>1. i + k \in 1 .. Len(frames) /\ frames'[i] = frames[i + k]
            BY <2>1, <2>3
      <4>2. taken' + lost' + i = taken + lost + (i + k)
            BY <2>1 DEF RingType
      <4>. QED BY <4>1, <4>2, <2>1 DEF RingOk
    <3>. QED BY <3>1 DEF RingOk
  <2>9. AnswerFrames'
    <3>1. ASSUME NEW i \in 1 .. k
          PROVE  /\ answer'.frames[i].run = run'
                 /\ answer'.frames[i].no = taken' - k + i + answer'.dropped
      <4>1. i \in 1 .. Len(frames) /\ answer'.frames[i] = frames[i]
            BY <2>1, <2>4
      <4>2. taken' - k + i + answer'.dropped = taken + lost + i
            BY <2>1, <2>4 DEF RingType
      <4>. QED BY <4>1, <4>2, <2>1 DEF RingOk
    <3>. QED BY <3>1, <2>4 DEF AnswerFrames
  <2>10. taken' + lost' + Len(frames') = taken + lost + Len(frames)
    <3>1. taken' = taken + k /\ lost' = lost /\ Len(frames) \in Nat
          BY <2>1
    <3>2. Len(frames') = Len(frames) - k
          BY <2>3
    <3>. QED BY <2>5, <3>1, <3>2
  <2>11. wpc' = wpc /\ made' = made
        BY <2>1
  <2>. QED BY <1>0, <2>6, <2>7, <2>8, <2>9, <2>10, <2>11
<1>5. CASE Push
  <2>1. /\ Len(frame) = Blocks /\ made < MaxFrames /\ run >= 1
        /\ epoch \in 1 .. MaxEpoch
        /\ \A b \in 1 .. Blocks : frame[b] = epoch
        /\ taken + lost + Len(frames) = made
        BY <1>5 DEF Push, FrameGrows, FrameType, PlaceType, EpochType, Epochs
  <2>2. NewFrame \in FrameSet
        BY <2>1 DEF NewFrame, FrameSet, FrameType, RingType
  <2>3. /\ made' = made + 1 /\ UNCHANGED <<run, taken, answer>> /\ wpc' # "none"
        BY <1>5 DEF Push
  <2>4. NewFrame.run = run' /\ NewFrame.no = made + 1 /\ Whole(NewFrame)
        BY <2>1, <2>3 DEF NewFrame, Whole
  <2>5. AnswerFrames' BY <2>3 DEF AnswerFrames
  <2>6. frames \in Seq(FrameSet) /\ Len(frames) \in Nat /\ Len(frames) <= Capacity
        BY DEF RingType
  <2>9. taken \in Nat /\ lost \in Nat /\ made \in Nat
        BY DEF RingType
  <2>7. CASE Len(frames) >= Capacity
    <3>1. /\ frames' = Append(Tail(frames), NewFrame) /\ lost' = lost + 1
          /\ Len(frames) = Capacity
          BY <1>5, <2>6, <2>7 DEF Push
    <3>2. /\ frames' \in Seq(FrameSet) /\ Len(frames') = Len(frames)
          /\ \A i \in 1 .. Len(frames) :
               frames'[i] = IF i < Len(frames) THEN frames[i + 1] ELSE NewFrame
          BY <3>1, <2>2, <2>6
    <3>3. RingType' BY <2>1, <2>3, <2>6, <3>1, <3>2 DEF RingType
    <3>4. RingOk(frames', taken' + lost', run')
      <4>1. ASSUME NEW i \in 1 .. Len(frames')
            PROVE  /\ frames'[i].run = run' /\ frames'[i].no = taken' + lost' + i
                   /\ Whole(frames'[i])
        <5>1. CASE i < Len(frames)
          <6>1. i + 1 \in 1 .. Len(frames) /\ frames'[i] = frames[i + 1]
                BY <5>1, <3>2, <2>6
          <6>2. taken' + lost' + i = taken + lost + (i + 1)
                BY <2>3, <3>1 DEF RingType
          <6>. QED BY <6>1, <6>2, <2>3 DEF RingOk
        <5>2. CASE i = Len(frames)
          <6>1. frames'[i] = NewFrame /\ made + 1 = taken' + lost' + i
                BY <5>2, <3>1, <3>2, <2>1, <2>3, <2>6 DEF RingType
          <6>. QED BY <6>1, <2>4
        <5>. QED BY <5>1, <5>2, <3>2, <2>6
      <4>. QED BY <4>1 DEF RingOk
    <3>5. taken' + lost' + Len(frames') = made' /\ made' \in Nat
      <4>1. lost' + Len(frames') = lost + Len(frames) + 1
            BY <2>6, <2>9, <3>1, <3>2
      <4>2. lost' \in Nat /\ Len(frames') \in Nat
            BY <2>6, <2>9, <3>1, <3>2
      <4>3. taken + lost + Len(frames) = made
            BY <2>1
      <4>. QED BY <2>3, <2>6, <2>9, <4>1, <4>2, <4>3
    <3>. QED BY <1>0, <2>5, <3>3, <3>4, <3>5
  <2>8. CASE Len(frames) < Capacity
    <3>1. frames' = Append(frames, NewFrame) /\ lost' = lost
          BY <1>5, <2>6, <2>8 DEF Push
    <3>2. /\ frames' \in Seq(FrameSet) /\ Len(frames') = Len(frames) + 1
          /\ \A i \in 1 .. Len(frames) + 1 :
               frames'[i] = IF i <= Len(frames) THEN frames[i] ELSE NewFrame
          BY <3>1, <2>2, <2>6
    <3>3. RingType' BY <2>1, <2>3, <2>6, <2>8, <3>1, <3>2 DEF RingType
    <3>4. RingOk(frames', taken' + lost', run')
      <4>1. ASSUME NEW i \in 1 .. Len(frames')
            PROVE  /\ frames'[i].run = run' /\ frames'[i].no = taken' + lost' + i
                   /\ Whole(frames'[i])
        <5>1. CASE i <= Len(frames)
              BY <5>1, <3>1, <3>2, <2>3 DEF RingOk
        <5>2. CASE i = Len(frames) + 1
          <6>1. frames'[i] = NewFrame /\ made + 1 = taken' + lost' + i
                BY <5>2, <3>1, <3>2, <2>1, <2>3, <2>6 DEF RingType
          <6>. QED BY <6>1, <2>4
        <5>. QED BY <5>1, <5>2, <3>2, <2>6
      <4>. QED BY <4>1 DEF RingOk
    <3>5. taken' + lost' + Len(frames') = made' /\ made' \in Nat
      <4>1. lost' + Len(frames') = lost + Len(frames) + 1
            BY <2>6, <2>9, <3>1, <3>2
      <4>2. lost' \in Nat /\ Len(frames') \in Nat
            BY <2>6, <2>9, <3>1, <3>2
      <4>3. taken + lost + Len(frames) = made
            BY <2>1
      <4>. QED BY <2>3, <2>6, <2>9, <4>1, <4>2, <4>3
    <3>. QED BY <1>0, <2>5, <3>3, <3>4, <3>5
  <2>. QED BY <2>6, <2>7, <2>8, SamplerAssumption
<1>. QED BY <1>1, <1>2, <1>3, <1>4, <1>5, RingSteps

-----------------------------------------------------------------------------
LEMMA SamplerInvParts ==
  SamplerInv <=> /\ PlaceType /\ EpochType /\ FlagType /\ FrameType /\ RingType
                 /\ IoHeld /\ EpochsFollow /\ Joined /\ FrameGrows /\ ErrorKept /\ Ring
BY TypeParts, Zenon DEF SamplerInv, Ring, AnswerAccounted, AnswerFrames, ErrorKept

LEMMA SamplerInvInit == Init => SamplerInv
<1>. SUFFICES ASSUME Init PROVE SamplerInv
     OBVIOUS
<1>. USE SamplerAssumption DEF Init
<1>1. PlaceType /\ EpochType
      BY DEF PlaceType, EpochType, Epochs, Targets
<1>6. FlagType
      BY DEF FlagType
<1>2. FrameType /\ RingType
      BY DEF FrameType, RingType, NoAnswer
<1>3. IoHeld /\ EpochsFollow /\ Joined
      BY DEF IoHeld, EpochsFollow, Joined, TargetLags, DeviceLags
<1>4. FrameGrows /\ ErrorKept
      BY DEF FrameGrows, ErrorKept
<1>5. Ring
      BY DEF Ring, RingAccounted, FramesOfOneGeneration, AnswerFrames, NoAnswer
<1>. QED BY <1>1, <1>2, <1>3, <1>4, <1>5, <1>6, SamplerInvParts

LEMMA SamplerInvStep == SamplerInv /\ [Next]_vars => SamplerInv'
<1>1. SamplerInv' <=> (/\ PlaceType /\ EpochType /\ FlagType /\ FrameType /\ RingType
                       /\ IoHeld /\ EpochsFollow /\ Joined /\ FrameGrows /\ ErrorKept /\ Ring)'
      BY SamplerInvParts, PTL
<1>2. ASSUME SamplerInv, Next PROVE SamplerInv'
  <2>1. run \in Nat BY <1>2, SamplerInvParts DEF RingType
  <2>. QED BY <1>1, <1>2, <2>1, SamplerInvParts,
              IoStep, EpochStep, PlaceStep, FrameStep, RingStep
<1>3. ASSUME SamplerInv, UNCHANGED vars PROVE SamplerInv'
  <2>. USE <1>3 DEF vars, sessionVars, fieldVars, samplerVars, lockVars, devVars, histVars
  <2>1. (PlaceType /\ EpochType /\ FlagType)'
        BY SamplerInvParts DEF PlaceType, EpochType, FlagType
  <2>2. (FrameType /\ RingType)'
        BY SamplerInvParts DEF FrameType, RingType
  <2>3. (IoHeld /\ EpochsFollow /\ Joined)'
        BY SamplerInvParts DEF IoHeld, EpochsFollow, Joined, TargetLags, DeviceLags
  <2>4. (FrameGrows /\ ErrorKept)'
        BY SamplerInvParts DEF FrameGrows, ErrorKept
  <2>5. Ring'
        BY SamplerInvParts DEF Ring, RingAccounted, FramesOfOneGeneration, AnswerFrames
  <2>. QED BY <1>1, <2>1, <2>2, <2>3, <2>4, <2>5
<1>. QED BY <1>2, <1>3

\* Types, the capacity of the ring and the bounds of the epochs among them.
THEOREM TypeCorrect == Spec => []TypeOK
<1>. QED BY SamplerInvInit, SamplerInvStep, PTL DEF Spec, SamplerInv

\* No frame in the ring mixes device generations: the sampler's comparisons of
\* the epochs suffice although they are loads without a lock, between which
\* resets, losses and source switches may fall.
THEOREM FramesWhole == Spec => []FramesOfOneGeneration
<1>. QED BY SamplerInvInit, SamplerInvStep, PTL DEF Spec, SamplerInv

\* The peer can place every frame of every answer in its run by the drop
\* counter, and a run never ends without an error while the peer counts on it.
THEOREM AnswersAccounted == Spec => []AnswerAccounted
<1>. QED BY SamplerInvInit, SamplerInvStep, PTL DEF Spec, SamplerInv

=============================================================================
