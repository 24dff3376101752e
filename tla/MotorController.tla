-------------------------- MODULE MotorController ---------------------------
(***************************************************************************)
(* The motor controller: one worker thread that owns the drive (through    *)
(* the ava_eth SDK, or through J-Link variables), a bounded command queue, *)
(* and the GUI thread, whose heartbeat must keep every motion alive.       *)
(*                                                                         *)
(* A device call may fail at any time, with or without having had its      *)
(* effect; it then throws, and the worker's handlers decide what becomes   *)
(* of an axis that was moving.  The page drives one axis (Config::axes).   *)
(***************************************************************************)
EXTENDS Naturals, Sequences

CONSTANTS QueueMax,    \* length of commands_ at which post() drops (32)
          LateMax      \* bound of the history variable `late`

ASSUME MotorAssumption == QueueMax \in Nat \ {0} /\ LateMax \in Nat \ {0, 1}

VARIABLES
  page,        \* the GUI: open, closed, or hung (and while it joins the worker)
  heard,       \* lastPulse_ is at most 200 ms old
  queue,       \* commands_
  processing, quitting,
  shownOff,    \* state_.snapshot shows a valid axis, neither enabled nor in fault
  pc,          \* where the worker is in its loop
  cmd,         \* the command it has popped, "idle" if none
  stale,       \* its local copy of the heartbeat test
  dev,         \* what is connected: none, sdk or jlink
  lease,       \* leases[0]
  pollError,
  drive,       \* the axis: off, on (enabled or calibrating) or fault
  renewed,     \* the drive's command watchdog: none, due, or renewed
  lapse,       \* history: how the motion under way has lost its lease: no, its
               \* failed stop was reported, or was muted, or it was zeroed
  rejected,    \* history: the last command ended in the catch block
  late         \* history: keepalives sent since the GUI fell silent

guiVars   == <<page, heard, quitting>>
linkVars  == <<dev, lease, pollError>>
driveVars == <<drive, renewed, lapse>>
vars == <<guiVars, queue, processing, shownOff, pc, cmd, stale, linkVars,
          driveVars, rejected, late>>

Connects == {"connectSdk", "connectJlink"}
Specials == {"cali", "zero", "release"}   \* special commands 3; 4, 5, 7; 0, 1, 6
Commands == Connects \cup Specials \cup
            {"scan", "pid", "apply", "mode", "enable", "disable",
             "resetFault", "disconnect"}

Init ==
  /\ page = "open" /\ heard = TRUE /\ quitting = FALSE
  /\ queue = << >> /\ processing = FALSE /\ shownOff = FALSE
  /\ pc = "wait" /\ cmd = "idle" /\ stale = FALSE
  /\ dev = "none" /\ lease = FALSE /\ pollError = FALSE
  /\ drive = "off" /\ renewed = "none" /\ lapse = "no"
  /\ rejected = FALSE /\ late = 0

Busy == processing \/ queue # << >>
Off(d) == IF d = "on" THEN "off" ELSE d

\* The history is that of a motion, and ends with it.
Lapses(how) == lapse' = IF drive' = "on" THEN how ELSE "no"

-----------------------------------------------------------------------------
(* The GUI thread.                                                         *)

Enqueue(c) ==
  LET kept == IF c = "disconnect" THEN << >> ELSE queue
  IN  queue' = IF quitting \/ Len(kept) >= QueueMax THEN kept ELSE Append(kept, c)

\* Every button and confirmation of the page.  Calibrating and zeroing are
\* confirmed while the worker is idle and the last snapshot shows the axis
\* disabled, which it may not be any more: nothing but a poll or a change of
\* connection replaces the snapshot.
Post(c) ==
  /\ page = "open"
  /\ c \in {"cali", "zero"} => ~Busy /\ shownOff
  /\ Enqueue(c)
  /\ UNCHANGED <<guiVars, processing, shownOff, pc, cmd, stale, linkVars,
                 driveVars, rejected, late>>

\* Broken variant: a request that has not been answered is not disconnected.
ClosePageIfConnected ==
  /\ page = "open"
  /\ page' = "closed"
  /\ IF dev # "none" THEN Enqueue("disconnect") ELSE UNCHANGED queue
  /\ UNCHANGED <<heard, quitting, processing, shownOff, pc, cmd, stale, linkVars,
                 driveVars, rejected, late>>

\* Page closed, or another session loaded.
ClosePage ==
  /\ page = "open"
  /\ page' = "closed"
  /\ IF dev # "none" \/ Busy THEN Enqueue("disconnect") ELSE UNCHANGED queue
  /\ UNCHANGED <<heard, quitting, processing, shownOff, pc, cmd, stale, linkVars,
                 driveVars, rejected, late>>

Pulse ==
  /\ page = "open"
  /\ heard' = TRUE /\ late' = 0
  /\ UNCHANGED <<page, quitting, queue, processing, shownOff, pc, cmd, stale,
                 linkVars, driveVars, rejected>>

\* 200 ms without a frame: a slow frame, a closed page or a GUI that hangs.
FallSilent ==
  /\ heard' = FALSE
  /\ UNCHANGED <<page, quitting, queue, processing, shownOff, pc, cmd, stale,
                 linkVars, driveVars, rejected, late>>

Hang ==
  /\ page = "open"
  /\ page' = "hung"
  /\ UNCHANGED <<heard, quitting, queue, processing, shownOff, pc, cmd, stale,
                 linkVars, driveVars, rejected, late>>

Shutdown ==
  /\ page # "hung" /\ ~quitting
  /\ quitting' = TRUE /\ page' = "hung"
  /\ queue' = << >>
  /\ UNCHANGED <<heard, processing, shownOff, pc, cmd, stale, linkVars,
                 driveVars, rejected, late>>

-----------------------------------------------------------------------------
(* The drive (external): it may fault, and an axis enabled through the SDK *)
(* is disabled when its command watchdog finds nothing renewed.            *)

DriveFaults ==
  /\ drive' = "fault" /\ Lapses(lapse)
  /\ UNCHANGED <<guiVars, queue, processing, shownOff, pc, cmd, stale, linkVars,
                 renewed, rejected, late>>

WatchdogTick ==
  /\ renewed # "none"
  /\ renewed' = IF renewed = "renewed" THEN "due" ELSE "none"
  /\ drive'   = IF renewed = "renewed" THEN drive ELSE Off(drive)
  /\ Lapses(lapse)
  /\ UNCHANGED <<guiVars, queue, processing, shownOff, pc, cmd, stale, linkVars,
                 rejected, late>>

-----------------------------------------------------------------------------
(* The worker's device calls.                                              *)

Goto(where) == pc' = where

\* The locals of one round of the loop do not outlive it.
NextRound == Goto("wait") /\ stale' = FALSE

\* An SDK call or a write was made in vain: it may still have had its effect.
MaybeOff == drive' \in {drive, Off(drive)}

\* An SDK call that enables the axis or gives it new targets renews the
\* watchdog as a keepalive does.
Renews(moving) == renewed' = IF dev = "sdk" /\ moving THEN "renewed" ELSE renewed

\* The lambda stop: the leases go first, whatever the device then answers.
StopOk     == lease' = FALSE /\ drive' = Off(drive) /\ Lapses(lapse)
StopFails  == lease' = FALSE /\ MaybeOff
StopThrows == StopFails /\ Lapses("reported")

\* A lease taken is that of a new motion, as far as its history goes.
Lease(l) ==
  /\ lease' = l
  /\ lapse' = IF l THEN "no" ELSE lapse

\* The lambda disconnect: stop the axis, or report that it could not, and
\* drop the handle either way.
Disconnect ==
  /\ lease' = FALSE /\ dev' = "none"
  /\ shownOff' = FALSE
  /\ \/ drive' = (IF dev = "none" THEN drive ELSE Off(drive)) /\ Lapses(lapse)
     \/ dev # "none" /\ MaybeOff /\ Lapses("reported")

\* stop(), in a handler that closes a J-Link session which does not obey.
StopOrClose ==
  \/ StopOk /\ UNCHANGED <<dev, shownOff>>
  \/ dev = "sdk" /\ StopThrows /\ UNCHANGED <<dev, shownOff>>
  \/ dev = "jlink" /\ StopThrows /\ dev' = "none" /\ shownOff' = FALSE

-----------------------------------------------------------------------------
(* The worker's loop: wait, stop if the GUI fell silent, run a command,    *)
(* poll.                                                                   *)

\* Broken variant: the age of the pulse is looked at for a command only.
WakeStaleWithCommand ==
  /\ pc = "wait"
  /\ IF quitting
     THEN Goto("end") /\ UNCHANGED <<queue, processing, cmd, stale>>
     ELSE /\ stale' = (~heard /\ queue # << >>)
          /\ IF queue # << >>
             THEN /\ cmd' = Head(queue) /\ queue' = Tail(queue)
                  /\ processing' = TRUE
             ELSE cmd' = "idle" /\ UNCHANGED <<queue, processing>>
          /\ Goto(IF stale' /\ lease THEN "silent"
                  ELSE IF queue # << >> THEN "run" ELSE "poll")
  /\ UNCHANGED <<guiVars, shownOff, linkVars, driveVars, rejected, late>>

Wake ==
  /\ pc = "wait"
  /\ IF quitting
     THEN Goto("end") /\ UNCHANGED <<queue, processing, cmd, stale>>
     ELSE /\ stale' = ~heard
          /\ IF queue # << >>
             THEN /\ cmd' = Head(queue) /\ queue' = Tail(queue)
                  /\ processing' = TRUE
             ELSE cmd' = "idle" /\ UNCHANGED <<queue, processing>>
          /\ Goto(IF ~heard /\ lease THEN "silent"
                  ELSE IF queue # << >> THEN "run" ELSE "poll")
  /\ UNCHANGED <<guiVars, shownOff, linkVars, driveVars, rejected, late>>

\* Broken variant: leaves the rest to a watchdog the J-Link route has not.
StopSilentByWatchdog ==
  /\ pc = "silent"
  /\ lease' = FALSE
  /\ Goto(IF cmd = "idle" THEN "poll" ELSE "run")
  /\ UNCHANGED <<guiVars, queue, processing, shownOff, cmd, stale, dev, pollError,
                 driveVars, rejected, late>>

\* "UI heartbeat expired; stopped".
StopSilent ==
  /\ pc = "silent"
  /\ StopOrClose
  /\ Goto(IF cmd = "idle" THEN "poll" ELSE "run")
  /\ UNCHANGED <<guiVars, queue, processing, cmd, stale, pollError, renewed, rejected, late>>

Done   == Goto("finish") /\ rejected' = FALSE
Reject == Goto("catch") /\ rejected' = TRUE
Run(C) == pc = "run" /\ cmd \in C
\* What no command changes.
Kept == UNCHANGED <<guiVars, queue, processing, cmd, stale, late>>

\* A command that throws before it has touched the axis: not connected, the
\* heartbeat is stale, the backend lacks it, or a first call failed.
RunRefused ==
  /\ Run(Commands \ (Connects \cup {"disconnect"}))
  /\ Reject /\ Kept
  /\ UNCHANGED <<shownOff, linkVars, driveVars>>

\* A new connection begins with disconnect(), also when it then fails.  An
\* SDK connection shows nothing yet, a J-Link one the axis as it found it.
RunConnect ==
  /\ Run(Connects) /\ Kept
  /\ lease' = FALSE
  /\ drive' \in (IF dev = "none" /\ cmd = "connectSdk" THEN {drive} ELSE {drive, Off(drive)})
  /\ Lapses(IF dev = "none" THEN lapse ELSE "reported")
  /\ \/ /\ cmd = "connectJlink" => drive' # "on"
        /\ dev' = IF cmd = "connectSdk" THEN "sdk" ELSE "jlink"
        /\ shownOff' = (cmd = "connectJlink" /\ drive' = "off")
        /\ pollError' = FALSE
        /\ Done
     \/ /\ dev' \in {"none", IF cmd = "connectSdk" THEN "sdk" ELSE "jlink"}
        /\ dev' = "jlink" => drive' # "on"
        /\ shownOff' = FALSE
        /\ Reject
        /\ UNCHANGED pollError
  /\ UNCHANGED renewed

RunDisconnect ==
  /\ Run({"disconnect"}) /\ Kept
  /\ Disconnect
  /\ Done
  /\ UNCHANGED <<pollError, renewed>>

\* Scanning is refused while connected; a parameter write is queued in the
\* SDK and answered by a later poll.
RunScanOrPid ==
  /\ Run({"scan", "pid"}) /\ Kept
  /\ dev = IF cmd = "scan" THEN "none" ELSE "sdk"
  /\ Done
  /\ UNCHANGED <<shownOff, dev, lease, pollError, driveVars>>

RunApply ==
  /\ Run({"apply"}) /\ Kept
  /\ ~stale /\ dev # "none"
  /\ dev = "jlink" => drive # "fault"
  /\ Lease(IF dev = "jlink" THEN drive = "on" ELSE lease)
  /\ Renews(drive = "on")
  /\ Done
  /\ UNCHANGED <<shownOff, dev, pollError, drive>>

\* Broken variant: only Enable takes the lease, not the calibration.
RunEnableLeasesEnable ==
  /\ Run({"enable", "cali"}) /\ Kept
  /\ ~stale /\ dev # "none"
  /\ cmd = "enable" => drive # "fault" /\ (dev = "sdk" => drive = "off")
  /\ drive' \in IF drive = "fault" THEN {drive} ELSE {drive, "on"}
  /\ \/ (cmd = "enable" => drive' = "on") /\ Lease(cmd = "enable") /\ Done
     \/ Reject /\ UNCHANGED <<lease, lapse>>
  /\ Renews(drive' = "on")
  /\ UNCHANGED <<shownOff, dev, pollError>>

\* Enable (also as a special command) and calibration, which nobody checks and
\* whose start is not awaited; or thrown out with the axis perhaps enabled.
RunEnable ==
  /\ Run({"enable", "cali"}) /\ Kept
  /\ ~stale /\ dev # "none"
  /\ cmd = "enable" => drive # "fault" /\ (dev = "sdk" => drive = "off")
  /\ drive' \in IF drive = "fault" THEN {drive} ELSE {drive, "on"}
  /\ \/ (cmd = "enable" => drive' = "on") /\ Lease(TRUE) /\ Done
     \/ Reject /\ UNCHANGED <<lease, lapse>>
  /\ Renews(drive' = "on")
  /\ UNCHANGED <<shownOff, dev, pollError>>

\* An SDK that cannot switch at once needs the axis disabled first.
RunMode ==
  /\ Run({"mode"}) /\ Kept
  /\ ~stale /\ dev # "none" /\ drive # "fault"
  /\ \/ /\ Done
        /\ Lease(IF dev = "sdk" THEN drive = "on" ELSE lease)
        /\ Renews(drive = "on")
        /\ UNCHANGED drive
     \/ /\ dev = "sdk" /\ drive = "on"
        /\ MaybeOff /\ Lapses(lapse) /\ Reject
        /\ UNCHANGED <<lease, renewed>>
     \/ /\ dev = "sdk" /\ drive = "on"
        /\ drive' = "off" /\ Lapses(lapse) /\ Goto("restore")
        /\ UNCHANGED <<rejected, lease, renewed>>
  /\ UNCHANGED <<shownOff, dev, pollError>>

\* ... and then puts its enable state back.
RestoreEnable ==
  /\ pc = "restore" /\ Kept
  /\ \/ drive = "off" /\ drive' = "on" /\ Lease(TRUE) /\ Done
     \/ drive' \in {drive, IF drive = "off" THEN "on" ELSE drive}
        /\ Reject /\ UNCHANGED <<lease, lapse>>
  /\ Renews(drive' = "on")
  /\ UNCHANGED <<shownOff, dev, pollError>>

\* Sensorless and the zero calibrations do not touch the axis' enable, but end
\* the lease of one that was enabled since the snapshot; None, Disable, Clear
\* faults and ResetFault take the enable away, and may end a fault.
RunSpecial ==
  /\ Run({"zero", "release", "resetFault"}) /\ Kept
  /\ dev # "none"
  /\ stale => dev = "sdk" /\ cmd = "resetFault"
  /\ \/ /\ drive' \in IF cmd = "zero" THEN {drive} ELSE {Off(drive), "off"}
        /\ lease' = FALSE
        /\ Lapses(IF lease THEN "zeroed" ELSE lapse)
        /\ Done
     \/ cmd # "zero" /\ MaybeOff /\ Lapses(lapse) /\ Reject /\ UNCHANGED lease
  /\ UNCHANGED <<shownOff, dev, pollError, renewed>>

\* Disable, and for J-Link any command that throws half-way.
RunDisable ==
  /\ Run({"disable"}) /\ Kept
  /\ dev # "none"
  /\ lease' = FALSE
  /\ \/ drive' = Off(drive) /\ Done
     \/ MaybeOff /\ Reject
  /\ Lapses(lapse)
  /\ UNCHANGED <<shownOff, dev, pollError, renewed>>

\* Broken variant: a command that failed is only reported.
CatchReports ==
  /\ pc = "catch"
  /\ IF cmd \in Connects
     THEN Disconnect
     ELSE UNCHANGED <<lease, drive, lapse, dev, shownOff>>
  /\ Goto("finish")
  /\ UNCHANGED <<guiVars, queue, processing, cmd, stale, pollError, renewed, rejected, late>>

\* "A rejected request never leaves an earlier active request renewed."
Catch ==
  /\ pc = "catch"
  /\ CASE cmd \in Connects -> Disconnect
       [] cmd \notin Connects /\ dev # "none" /\ cmd # "pid" -> StopOrClose
       [] OTHER -> UNCHANGED <<lease, drive, lapse, dev, shownOff>>
  /\ Goto("finish")
  /\ UNCHANGED <<guiVars, queue, processing, cmd, stale, pollError, renewed, rejected, late>>

\* processing_ = false; the poll follows when its 20 ms are over.
Finish ==
  /\ pc = "finish"
  /\ processing' = FALSE
  /\ cmd' = "idle" /\ rejected' = FALSE
  /\ NextRound \/ (Goto("poll") /\ UNCHANGED stale)
  /\ UNCHANGED <<guiVars, queue, shownOff, linkVars, driveVars, late>>

-----------------------------------------------------------------------------
(* The poll.                                                               *)

PollNothing ==
  /\ pc = "poll" /\ dev = "none"
  /\ NextRound
  /\ UNCHANGED <<guiVars, queue, processing, shownOff, cmd, linkVars,
                 driveVars, rejected, late>>

\* J-Link: no feedback, or a fault the stop of which throws, closes it.
PollJlink ==
  /\ pc = "poll" /\ dev = "jlink"
  /\ \/ /\ ~(lease /\ drive = "fault")
        /\ shownOff' = (drive = "off")
        /\ UNCHANGED <<lease, drive, lapse, dev>>
     \/ /\ lease /\ drive = "fault"
        /\ StopOk
        /\ shownOff' = (drive = "off")
        /\ UNCHANGED <<dev>>
     \/ StopThrows /\ dev' = "none" /\ shownOff' = FALSE
  /\ NextRound
  /\ UNCHANGED <<guiVars, queue, processing, cmd, pollError, renewed, rejected, late>>

\* Every 50 ms a lease sends a keepalive.
Keepalive ==
  /\ lease /\ ~stale
  /\ renewed' = "renewed"
  /\ late' = IF heard \/ late = LateMax THEN late ELSE late + 1

\* SDK: the poll throws, at the latest in its keepalive; the first of a run of
\* errors stops the axis, the others leave all as it is.
PollThrows ==
  /\ pc = "poll" /\ dev = "sdk"
  /\ IF pollError THEN UNCHANGED <<lease, drive, lapse>> ELSE StopOk \/ StopThrows
  /\ pollError' = TRUE /\ shownOff' = FALSE
  /\ Keepalive \/ UNCHANGED <<renewed, late>>
  /\ NextRound
  /\ UNCHANGED <<guiVars, queue, processing, cmd, dev, rejected>>

\* SDK: a leased axis that faulted, expired or lost its feedback is stopped.
\* A stop that throws is tried again and reported, unless the last poll had
\* failed: then nobody hears of it.
PollLost ==
  /\ pc = "poll" /\ dev = "sdk" /\ lease
  /\ \/ StopOk /\ pollError' = FALSE /\ shownOff' \in {drive = "off", FALSE}
     \/ /\ ~pollError /\ (StopOk \/ StopThrows)
        /\ pollError' = TRUE /\ shownOff' = FALSE
     \/ /\ pollError /\ StopFails
        /\ Lapses("muted")
        /\ shownOff' = FALSE /\ UNCHANGED pollError
  /\ NextRound
  /\ UNCHANGED <<guiVars, queue, processing, cmd, dev, renewed, rejected, late>>

\* SDK: all is well.
PollOk ==
  /\ pc = "poll" /\ dev = "sdk"
  /\ ~(lease /\ drive = "fault")
  /\ pollError' = FALSE /\ shownOff' = (drive = "off")
  /\ Keepalive \/ UNCHANGED <<renewed, late>>
  /\ NextRound
  /\ UNCHANGED <<guiVars, queue, processing, cmd, dev, lease, drive, lapse, rejected>>

\* Broken variant: the worker returns without giving the device back.
EndAtOnce ==
  /\ pc = "end"
  /\ Goto("done")
  /\ UNCHANGED <<guiVars, queue, processing, shownOff, cmd, stale, linkVars,
                 driveVars, rejected, late>>

\* The loop has seen quitting_: disconnect and return.
End ==
  /\ pc = "end"
  /\ Disconnect
  /\ Goto("done")
  /\ UNCHANGED <<guiVars, queue, processing, cmd, stale, pollError, renewed, rejected, late>>

-----------------------------------------------------------------------------
Gui ==
  \/ \E c \in Commands : Post(c)
  \/ ClosePage \/ Pulse \/ FallSilent \/ Hang \/ Shutdown

RunCommand ==
  \/ RunRefused \/ RunConnect \/ RunDisconnect \/ RunScanOrPid \/ RunApply
  \/ RunEnable \/ RunMode \/ RestoreEnable \/ RunSpecial \/ RunDisable

Poll == PollNothing \/ PollJlink \/ PollThrows \/ PollLost \/ PollOk

Worker == Wake \/ StopSilent \/ RunCommand \/ Catch \/ Finish \/ Poll \/ End

Next == Gui \/ DriveFaults \/ WatchdogTick \/ Worker

Spec == Init /\ [][Next]_vars

(* Every device call returns, so the worker goes on; 200 ms pass; the      *)
(* drive's watchdog runs.  The user and the drive owe nothing else.        *)
FairSpec ==
  /\ Spec
  /\ WF_vars(Worker) /\ WF_vars(WatchdogTick)
  /\ WF_vars(page # "open" /\ FallSilent)

-----------------------------------------------------------------------------
TypeOK ==
  /\ page \in {"open", "closed", "hung"}
  /\ heard \in BOOLEAN /\ quitting \in BOOLEAN /\ processing \in BOOLEAN
  /\ queue \in Seq(Commands) /\ Len(queue) <= QueueMax
  /\ shownOff \in BOOLEAN
  /\ pc \in {"wait", "silent", "run", "restore", "catch", "finish", "poll", "end", "done"}
  /\ cmd \in Commands \cup {"idle"} /\ stale \in BOOLEAN
  /\ dev \in {"none", "sdk", "jlink"}
  /\ lease \in BOOLEAN /\ pollError \in BOOLEAN
  /\ drive \in {"off", "on", "fault"} /\ renewed \in {"none", "due", "renewed"}
  /\ lapse \in {"no", "reported", "muted", "zeroed"}
  /\ rejected \in BOOLEAN /\ late \in 0 .. LateMax

\* A J-Link axis that was zeroed while it was enabled: no lease is left that
\* the heartbeat could revoke, and J-Link has no watchdog.
Unwatched == lapse = "zeroed" /\ dev = "jlink"

\* Between two rounds of the loop a moving axis is under a lease, which the
\* heartbeat and the faults can revoke, or its failed stop was reported.  Only
\* a stop that fails in a run of poll errors and a special command confirmed
\* on an old snapshot end a lease in silence; the SDK's axis is then left to
\* its watchdog, which nobody renews for long, the J-Link one to nobody.
MotionIsLeased ==
  pc \in {"wait", "done"} /\ drive = "on" =>
    \/ lease
    \/ lapse = "reported"
    \/ lapse \in {"muted", "zeroed"} /\ renewed # "none"
    \/ Unwatched

\* A request that failed leaves no earlier motion renewed (parameter writes
\* excepted, which do not concern the motion).
RejectedRevokes ==
  pc = "finish" /\ rejected /\ cmd # "pid" => ~lease

\* Once the GUI has fallen silent at most one more keepalive is sent, by the
\* round of the loop that had read its heartbeat before.
OneLateRenewal == late <= 1

\* A GUI that hangs does not leave the axis moving: it is disabled, or the
\* failure to do so is on the screen, however its lease ended; the J-Link axis
\* zeroed while it was enabled excepted.
SilenceStops ==
  (page = "hung" /\ drive = "on") ~> (drive # "on" \/ lapse = "reported" \/ Unwatched)

\* Closing the page ends the control session for good, also when a command
\* to connect or to enable was waiting or half-way.
ClosedPageDisconnects == (page = "closed") ~> [](page = "hung" \/ dev = "none")

\* shutdown() returns, with the device given back.
ShutdownReturns == quitting ~> (pc = "done" /\ dev = "none")

-----------------------------------------------------------------------------
(* The inductive strengthening of the safety properties, part by part.     *)

\* A command is at work exactly from its Wake to its Finish.
CommandKept ==
  /\ pc \in {"run", "restore", "catch", "finish"} => cmd # "idle"
  /\ pc \in {"wait", "poll", "end", "done"} => cmd = "idle"
  /\ processing <=> cmd # "idle"
  /\ rejected => pc \in {"catch", "finish"}
  /\ pc = "restore" => cmd = "mode" /\ dev = "sdk" /\ drive # "on"

LeaseConnected == lease => dev # "none"

\* Where a moving axis must be leased or reported; elsewhere the worker is on
\* its way to a stop.
Answerable ==
  pc # "catch" \/ cmd = "pid" \/ dev = "none"

Leased == Answerable /\ drive = "on" => lease \/ lapse # "no"

\* A lease starts a new history, and what ended in silence is still connected,
\* by the SDK with the watchdog running.
LapseKept ==
  /\ lease \/ drive # "on" => lapse = "no"
  /\ dev = "sdk" /\ drive = "on" /\ lapse \in {"no", "muted", "zeroed"} => renewed # "none"
  /\ dev = "none" /\ drive = "on" => lapse = "reported"
  /\ lapse = "muted" => dev = "sdk"

RenewalBound ==
  /\ late <= 1
  /\ heard => late = 0
  /\ pc \notin {"wait", "end", "done"} /\ ~stale => late = 0

IInv ==
  /\ TypeOK /\ CommandKept /\ LeaseConnected /\ LapseKept
  /\ Leased /\ RejectedRevokes /\ RenewalBound
=============================================================================
