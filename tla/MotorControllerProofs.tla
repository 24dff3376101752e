----------------------- MODULE MotorControllerProofs ------------------------
(***************************************************************************)
(* Proofs about MotorController: the inductive invariant IInv, and from it *)
(* type correctness and the three safety properties of the run `motor`.    *)
(***************************************************************************)
EXTENDS MotorController, TLAPS

-----------------------------------------------------------------------------
\* The Boolean part of TypeOK.
Flags ==
  /\ heard \in BOOLEAN /\ quitting \in BOOLEAN /\ processing \in BOOLEAN
  /\ stale \in BOOLEAN /\ lease \in BOOLEAN /\ pollError \in BOOLEAN
  /\ shownOff \in BOOLEAN /\ rejected \in BOOLEAN

-----------------------------------------------------------------------------
(* Sequences: what post() and the worker do to the queue.                  *)

\* A command is added at the end only while there is room.
LEMMA EnqueueBounded ==
  ASSUME queue \in Seq(Commands), Len(queue) <= QueueMax,
         NEW c \in Commands, Enqueue(c)
  PROVE  queue' \in Seq(Commands) /\ Len(queue') <= QueueMax
BY MotorAssumption DEF Enqueue

-----------------------------------------------------------------------------
(* The GUI.                                                                *)

LEMMA GuiKeeps == IInv /\ Gui => IInv'
<1> SUFFICES ASSUME IInv, Gui PROVE IInv'
  OBVIOUS
<1>1. ASSUME NEW c \in Commands, Post(c) PROVE IInv'
  <2>1. queue' \in Seq(Commands) /\ Len(queue') <= QueueMax
    BY <1>1, EnqueueBounded DEF IInv, TypeOK, Post
  <2> QED
    BY <1>1, <2>1 DEF IInv, TypeOK, CommandKept, LeaseConnected, LapseKept, Answerable,
       Leased, RejectedRevokes, RenewalBound, Post, guiVars, linkVars, driveVars
<1>2. ASSUME ClosePage PROVE IInv'
  <2>1. queue' \in Seq(Commands) /\ Len(queue') <= QueueMax
    <3>1. CASE Enqueue("disconnect")
      BY <3>1, EnqueueBounded DEF IInv, TypeOK, Commands
    <3>2. CASE queue' = queue
      BY <3>2 DEF IInv, TypeOK
    <3> QED
      BY <1>2, <3>1, <3>2 DEF ClosePage
  <2> QED
    BY <1>2, <2>1 DEF IInv, TypeOK, CommandKept, LeaseConnected, LapseKept, Answerable,
       Leased, RejectedRevokes, RenewalBound, ClosePage, linkVars, driveVars
<1>3. CASE Pulse
  BY <1>3, MotorAssumption DEF IInv, TypeOK, CommandKept, LeaseConnected, LapseKept,
     Answerable, Leased, RejectedRevokes, RenewalBound, Pulse, linkVars, driveVars
<1>4. CASE FallSilent
  <2>1. Flags'
    BY <1>4, Zenon DEF IInv, TypeOK, Flags, FallSilent, linkVars, driveVars
  <2> QED
    BY <1>4, <2>1 DEF Flags, IInv, TypeOK, CommandKept, LeaseConnected, LapseKept,
       Answerable, Leased, RejectedRevokes, RenewalBound, FallSilent, linkVars, driveVars
<1>5. CASE Hang
  BY <1>5 DEF IInv, TypeOK, CommandKept, LeaseConnected, LapseKept,
     Answerable, Leased, RejectedRevokes, RenewalBound, Hang, linkVars, driveVars
<1>6. CASE Shutdown
  BY <1>6, MotorAssumption DEF IInv, TypeOK, CommandKept, LeaseConnected, LapseKept,
     Answerable, Leased, RejectedRevokes, RenewalBound, Shutdown, linkVars, driveVars
<1> QED
  BY <1>1, <1>2, <1>3, <1>4, <1>5, <1>6 DEF Gui

-----------------------------------------------------------------------------
(* The drive.                                                              *)

LEMMA DriveKeeps == IInv /\ (DriveFaults \/ WatchdogTick) => IInv'
<1>1. ASSUME IInv, DriveFaults PROVE IInv'
  BY <1>1 DEF IInv, TypeOK, CommandKept, LeaseConnected, LapseKept,
     Answerable, Leased, RejectedRevokes, RenewalBound, DriveFaults, Lapses, guiVars, linkVars
<1>2. ASSUME IInv, WatchdogTick PROVE IInv'
  BY <1>2 DEF IInv, TypeOK, CommandKept, LeaseConnected, LapseKept,
     Answerable, Leased, RejectedRevokes, RenewalBound, WatchdogTick, Off, Lapses, guiVars, linkVars
<1> QED
  BY <1>1, <1>2

-----------------------------------------------------------------------------
(* The worker runs a command.                                              *)

LEMMA RunKeeps == IInv /\ RunCommand => IInv'
<1> SUFFICES ASSUME IInv, RunCommand PROVE IInv'
  OBVIOUS
<1> USE MotorAssumption DEF IInv, TypeOK, CommandKept, LeaseConnected, LapseKept,
       Answerable, Leased, RejectedRevokes, RenewalBound, guiVars, linkVars, driveVars
<1>1. CASE RunRefused
  <2>1. Flags'
    BY <1>1, Zenon DEF Flags, RunRefused, Run, Reject, Kept, Goto
  <2> QED
    BY <1>1, <2>1 DEF Flags, RunRefused, Run, Reject, Kept, Goto
<1>2. CASE RunConnect
  <2>1. Flags'
    BY <1>2, Zenon DEF Flags, RunConnect, Lapses, Run, Done, Reject, Kept, Goto, Off, Connects
  <2> QED
    BY <1>2, <2>1 DEF Flags, RunConnect, Lapses, Run, Done, Reject, Kept, Goto, Off, Connects
<1>3. CASE RunDisconnect
  <2>1. Flags'
    BY <1>3, Zenon DEF Flags, RunDisconnect, Lapses, Run, Done, Kept, Goto, Disconnect,
       MaybeOff, Off
  <2> QED
    BY <1>3, <2>1 DEF Flags, RunDisconnect, Lapses, Run, Done, Kept, Goto, Disconnect, MaybeOff,
       Off
<1>4. CASE RunScanOrPid
  <2>1. Flags'
    BY <1>4, Zenon DEF Flags, RunScanOrPid, Run, Done, Kept, Goto
  <2> QED
    BY <1>4, <2>1 DEF Flags, RunScanOrPid, Run, Done, Kept, Goto
<1>5. CASE RunApply
  <2>1. Flags'
    BY <1>5, Zenon DEF Flags, RunApply, Lease, Renews, Run, Done, Kept, Goto
  <2> QED
    BY <1>5, <2>1 DEF Flags, RunApply, Lease, Renews, Run, Done, Kept, Goto
<1>6. CASE RunEnable
  <2>1. Flags'
    BY <1>6, Zenon DEF Flags, RunEnable, Lease, Renews, Run, Done, Reject, Kept, Goto
  <2> QED
    BY <1>6, <2>1 DEF Flags, RunEnable, Lease, Renews, Run, Done, Reject, Kept, Goto
<1>7. CASE RunMode
  <2>1. Flags'
    BY <1>7, Zenon DEF Flags, RunMode, Lapses, Lease, Renews, Run, Done, Reject, Kept, Goto, MaybeOff, Off
  <2> QED
    BY <1>7, <2>1 DEF Flags, RunMode, Lapses, Lease, Renews, Run, Done, Reject, Kept, Goto, MaybeOff, Off
<1>8. CASE RestoreEnable
  <2>1. Flags'
    BY <1>8, Zenon DEF Flags, RestoreEnable, Lease, Renews, Done, Reject, Kept, Goto
  <2> QED
    BY <1>8, <2>1 DEF Flags, RestoreEnable, Lease, Renews, Done, Reject, Kept, Goto
<1>9. CASE RunSpecial
  <2>1. Flags'
    BY <1>9, Zenon DEF Flags, RunSpecial, Lapses, Run, Done, Reject, Kept, Goto, MaybeOff, Off
  <2> QED
    BY <1>9, <2>1 DEF Flags, RunSpecial, Lapses, Run, Done, Reject, Kept, Goto, MaybeOff, Off
<1>10. CASE RunDisable
  <2>1. Flags'
    BY <1>10, Zenon DEF Flags, RunDisable, Lapses, Run, Done, Reject, Kept, Goto, MaybeOff, Off
  <2> QED
    BY <1>10, <2>1 DEF Flags, RunDisable, Lapses, Run, Done, Reject, Kept, Goto, MaybeOff, Off
<1> QED
  BY <1>1, <1>2, <1>3, <1>4, <1>5, <1>6, <1>7, <1>8, <1>9, <1>10 DEF RunCommand

-----------------------------------------------------------------------------
(* The rest of the worker's loop.                                          *)

LEMMA LoopKeeps ==
  IInv /\ (StopSilent \/ Catch \/ Finish \/ End \/ Poll) => IInv'
<1> SUFFICES ASSUME IInv, StopSilent \/ Catch \/ Finish \/ End \/ Poll PROVE IInv'
  OBVIOUS
<1> USE MotorAssumption DEF IInv, TypeOK, CommandKept, LeaseConnected, LapseKept,
       Answerable, Leased, RejectedRevokes, RenewalBound, guiVars, linkVars, driveVars
<1>1. CASE StopSilent
  <2>1. Flags'
    BY <1>1, Zenon DEF Flags, StopSilent, StopFails, Lapses, StopOrClose, StopOk, StopThrows, MaybeOff,
       Off, Goto
  <2> QED
    BY <1>1, <2>1 DEF Flags, StopSilent, StopFails, Lapses, StopOrClose, StopOk, StopThrows, MaybeOff, Off,
       Goto
<1>2. CASE Catch
  <2>1. Flags'
    BY <1>2, Zenon DEF Flags, Catch, StopFails, Lapses, Disconnect, StopOrClose, StopOk, StopThrows,
       MaybeOff, Off, Goto
  <2> QED
    BY <1>2, <2>1 DEF Flags, Catch, StopFails, Lapses, Disconnect, StopOrClose, StopOk, StopThrows,
       MaybeOff, Off, Goto
<1>3. CASE Finish
  <2>1. Flags'
    BY <1>3, Zenon DEF Flags, Finish, NextRound, Goto
  <2> QED
    BY <1>3, <2>1 DEF Flags, Finish, NextRound, Goto
<1>4. CASE End
  <2>1. Flags'
    BY <1>4, Zenon DEF Flags, End, Lapses, Disconnect, MaybeOff, Off, Goto
  <2> QED
    BY <1>4, <2>1 DEF Flags, End, Lapses, Disconnect, MaybeOff, Off, Goto
<1>5. CASE PollNothing
  <2>1. Flags'
    BY <1>5, Zenon DEF Flags, PollNothing, NextRound, Goto
  <2> QED
    BY <1>5, <2>1 DEF Flags, PollNothing, NextRound, Goto
<1>6. CASE PollJlink
  <2>1. Flags'
    BY <1>6, Zenon DEF Flags, PollJlink, StopThrows, StopFails, Lapses, StopOk, NextRound, MaybeOff, Off, Goto
  <2> QED
    BY <1>6, <2>1 DEF Flags, PollJlink, StopThrows, StopFails, Lapses, StopOk, NextRound, MaybeOff, Off, Goto
<1>7. CASE PollThrows
  <2>1. Flags'
    BY <1>7, Zenon DEF Flags, PollThrows, StopFails, Lapses, Keepalive, StopOk, StopThrows, NextRound, MaybeOff, Off,
       Goto
  <2> QED
    BY <1>7, <2>1 DEF Flags, PollThrows, StopFails, Lapses, Keepalive, StopOk, StopThrows, NextRound, MaybeOff, Off,
       Goto
<1>8. CASE PollLost
  <2>1. Flags'
    BY <1>8, Zenon DEF Flags, PollLost, StopFails, Lapses, StopOk, StopThrows, NextRound, MaybeOff, Off,
       Goto
  <2> QED
    BY <1>8, <2>1 DEF Flags, PollLost, StopFails, Lapses, StopOk, StopThrows, NextRound, MaybeOff, Off,
       Goto
<1>9. CASE PollOk
  <2>1. Flags'
    BY <1>9, Zenon DEF Flags, PollOk, Keepalive, NextRound, Goto
  <2> QED
    BY <1>9, <2>1 DEF Flags, PollOk, Keepalive, NextRound, Goto
<1> QED
  BY <1>1, <1>2, <1>3, <1>4, <1>5, <1>6, <1>7, <1>8, <1>9 DEF Poll

\* The worker takes the oldest command.
LEMMA TailContents ==
  ASSUME queue \in Seq(Commands), queue # << >>
  PROVE  /\ Tail(queue) \in Seq(Commands) /\ Head(queue) \in Commands
         /\ Len(Tail(queue)) <= Len(queue)
OBVIOUS

LEMMA WakeKeeps == IInv /\ Wake => IInv'
<1> SUFFICES ASSUME IInv, Wake PROVE IInv'
  OBVIOUS
<1>1. CASE quitting \/ queue = << >>
  <2>1. Flags'
    BY <1>1, Zenon DEF IInv, TypeOK, Flags, Wake, guiVars, linkVars, driveVars
  <2> QED
    BY <1>1, <2>1 DEF Flags, IInv, TypeOK, CommandKept, LeaseConnected, LapseKept,
       Answerable, Leased, RejectedRevokes, RenewalBound, Wake, Goto, guiVars, linkVars, driveVars
<1>2. CASE ~quitting /\ queue # << >>
  <2>1. /\ cmd' = Head(queue) /\ queue' = Tail(queue) /\ processing' = TRUE
        /\ shownOff' = shownOff /\ stale' = ~heard
        /\ pc' = IF ~heard /\ lease THEN "silent" ELSE "run"
        /\ UNCHANGED <<guiVars, linkVars, driveVars, rejected, late>>
    BY <1>2 DEF Wake, Goto
  <2>2. cmd' \in Commands /\ cmd' # "idle"
    BY <1>2, <2>1, TailContents DEF IInv, TypeOK, Commands, Connects, Specials
  <2>3. TypeOK'
    <3>1. Flags'
      BY <1>2, Zenon DEF IInv, TypeOK, Flags, Wake, guiVars, linkVars, driveVars
    <3>2. queue' \in Seq(Commands) /\ Len(queue') <= QueueMax
      BY <1>2, <2>1, TailContents, MotorAssumption DEF IInv, TypeOK
    <3> QED
      BY <1>2, <2>1, <2>2, <3>1, <3>2 DEF Flags, IInv, TypeOK, guiVars, linkVars, driveVars
  <2>4. CommandKept'
    BY <1>2, <2>1, <2>2 DEF Wake, IInv, CommandKept
  <2>5. LeaseConnected' /\ LapseKept' /\ RejectedRevokes'
    BY <1>2, <2>1, <2>2 DEF Wake, IInv, LeaseConnected, LapseKept, RejectedRevokes, linkVars, driveVars
  <2>6. Leased'
    BY <1>2, <2>1 DEF Wake, IInv, Leased, Answerable, linkVars, driveVars
  <2>7. RenewalBound'
    <3>1. ~stale' => heard
      BY <2>1, Zenon DEF IInv, TypeOK
    <3> QED
      BY <1>2, <2>1, <3>1 DEF IInv, RenewalBound, guiVars
  <2> QED
    BY <2>3, <2>4, <2>5, <2>6, <2>7 DEF IInv
<1> QED
  BY <1>1, <1>2

-----------------------------------------------------------------------------
(* The theorems.                                                           *)

\* IInv holds initially and no step of the GUI, the drive or the worker
\* breaks it.
THEOREM Inductive == Spec => []IInv
<1>1. Init => IInv
  <2>1. Init => Flags
    BY Zenon DEF Init, Flags
  <2> QED
    BY <2>1, MotorAssumption DEF Flags, Init, IInv, TypeOK, CommandKept, LeaseConnected, LapseKept,
       Answerable, Leased, RejectedRevokes, RenewalBound
<1>2. IInv /\ [Next]_vars => IInv'
  <2> SUFFICES ASSUME IInv, [Next]_vars PROVE IInv'
    OBVIOUS
  <2>1. CASE Next
    BY <2>1, GuiKeeps, DriveKeeps, WakeKeeps, RunKeeps, LoopKeeps DEF Next, Worker
  <2>2. CASE UNCHANGED vars
    BY <2>2 DEF vars, guiVars, linkVars, driveVars, IInv, TypeOK, CommandKept, LeaseConnected,
       LapseKept, Answerable, Leased, RejectedRevokes, RenewalBound
  <2> QED
    BY <2>1, <2>2
<1> QED
  BY <1>1, <1>2, PTL DEF Spec

\* Every variable keeps its type, and the queue its bound, however many
\* commands are posted.
THEOREM TypeCorrect == Spec => []TypeOK
<1>1. IInv => TypeOK
  BY DEF IInv
<1> QED
  BY <1>1, Inductive, PTL

\* Between two rounds of the worker's loop an axis that moves is under a
\* lease, or its failed stop was reported; a lease that ended in silence, by a
\* muted stop or a special command confirmed on an old snapshot, leaves it to
\* a watchdog that is running, but for a J-Link axis that was zeroed.
THEOREM MotionUnderLease == Spec => []MotionIsLeased
<1>1. IInv => MotionIsLeased
  <2> SUFFICES ASSUME IInv, pc \in {"wait", "done"}, drive = "on", ~lease, lapse # "reported"
               PROVE  \/ lapse \in {"muted", "zeroed"} /\ renewed # "none"
                      \/ Unwatched
    BY DEF MotionIsLeased
  <2>1. lapse \in {"muted", "zeroed"}
    BY DEF IInv, TypeOK, Leased, Answerable
  <2>2. CASE dev = "sdk"
    BY <2>1, <2>2 DEF IInv, LapseKept
  <2>3. CASE dev = "jlink"
    BY <2>1, <2>3 DEF IInv, LapseKept, Unwatched
  <2> QED
    BY <2>1, <2>2, <2>3 DEF IInv, TypeOK, LapseKept
<1> QED
  BY <1>1, Inductive, PTL

\* "A rejected request never leaves an earlier active request renewed":
\* when the handler of a failed command is done, no lease is left.
THEOREM FailedRequestsRevoke == Spec => []RejectedRevokes
<1>1. IInv => RejectedRevokes
  BY DEF IInv
<1> QED
  BY <1>1, Inductive, PTL

\* However long the GUI stays silent, the drive's watchdog is renewed at most
\* once after its last heartbeat went stale.
THEOREM LateRenewalOnce == Spec => []OneLateRenewal
<1>1. IInv => OneLateRenewal
  BY DEF IInv, RenewalBound, OneLateRenewal
<1> QED
  BY <1>1, Inductive, PTL

=============================================================================
