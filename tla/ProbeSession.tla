---------------------------- MODULE ProbeSession ----------------------------
(***************************************************************************)
(* The life of one J-Link SDK session (JLinkPort): the detached thread of  *)
(* connectAsync, disconnectAsync, resetAsync and of a flash erase, the     *)
(* user's thread that starts, feeds and stops the RTT and SWO terminals    *)
(* and closes the probe when the program ends, the reader thread of each   *)
(* terminal, and a USB link that may die under any of them.                *)
(*                                                                         *)
(* A section under mtx_ is one action, except where the code holds mtx_    *)
(* through slow calls (connect, eraseFlash): there its holder is named.    *)
(* The life-cycle mutex of each terminal is a variable.  Received bytes,   *)
(* buffer counts and status labels are left out; a text of the user is a   *)
(* number.  Remote selection and sharing are FirmwareGate's and            *)
(* PeerServer's subject.                                                   *)
(***************************************************************************)
EXTENDS Naturals, Sequences

CONSTANTS
  MaxText,   \* bound: texts typed into the terminal
  TxCap,     \* texts the queue of unsent text holds (256 KiB)
  Attempts   \* kConnectAttempts

ASSUME SessionAssumption ==
  /\ MaxText \in Nat /\ TxCap \in Nat \ {0} /\ Attempts \in Nat \ {0}

Terminals == {"rtt", "swo"}
Procs     == {"worker", "user"}

VARIABLES
  busy, attempt,             \* busy_, the attempt of connectAsync
  job, at, term,             \* of each process: operation, position, terminal at hand
  isOpen, isConnected, dirty,   \* isOpen_, isConnected_, sdkSessionDirty_
  sdk, commander,            \* external: who has the probe: the DLL's session, JLink.exe
  mtx,                       \* holder of mtx_ between actions
  lifecycle,                 \* holders of rttLifecycleMtx_, swoLifecycleMtx_
  active, running, reader,   \* rttActive_, rttReaderRunning_, position of the reader
  resume,                    \* rttResumeRequested_
  tx, chunk,                 \* rttTxPending_, the reader's txChunk
  accepted, first, got,      \* history: texts accepted, the first of this terminal
                             \* session, the last one the target received
  wish, refused              \* history: the user wants RTT; its START failed

flagVars == <<isOpen, isConnected, dirty>>
usbVars  == <<sdk, commander>>
lockVars == <<mtx, lifecycle>>
termVars == <<active, running, reader>>
textVars == <<tx, chunk, accepted, first, got>>
wishVars == <<resume, wish, refused>>
vars == <<busy, attempt, job, at, term, flagVars, usbVars, lockVars, termVars,
          textVars, wishVars>>

Init ==
  /\ busy = FALSE /\ attempt = 1
  /\ job = [p \in Procs |-> "none"] /\ at = [p \in Procs |-> "idle"]
  /\ term = [p \in Procs |-> "rtt"]
  /\ isOpen = FALSE /\ isConnected = FALSE /\ dirty = FALSE
  /\ sdk = FALSE /\ commander = FALSE
  /\ mtx = "free" /\ lifecycle = [t \in Terminals |-> "free"]
  /\ active = [t \in Terminals |-> FALSE]
  /\ running = [t \in Terminals |-> FALSE]
  /\ reader = [t \in Terminals |-> "dead"]
  /\ resume = FALSE /\ wish = FALSE /\ refused = FALSE
  /\ tx = << >> /\ chunk = << >>
  /\ accepted = 0 /\ first = 1 /\ got = 0

Goto(p, l) == at' = [at EXCEPT ![p] = l]
Free       == mtx = "free"
Linked     == isOpen /\ isConnected
Take(p, t) == lifecycle[t] = "free" /\ lifecycle' = [lifecycle EXCEPT ![t] = p]
Release(p) ==
  lifecycle' = [t \in Terminals |-> IF lifecycle[t] = p THEN "free" ELSE lifecycle[t]]
Begin(p, j, l, t) ==
  /\ at[p] = "idle"
  /\ job' = [job EXCEPT ![p] = j] /\ Goto(p, l) /\ term' = [term EXCEPT ![p] = t]
Return(p)  == Goto(p, IF p = "worker" THEN "done" ELSE "idle")
DropText   == tx' = << >> /\ first' = accepted + 1

-----------------------------------------------------------------------------
(* Starting a terminal: rttStart and swoStart.                             *)

\* The life-cycle mutex, then the early returns: a resume nobody asked for,
\* a terminal that is active already.
StartTake(p) ==
  LET t == term[p] IN
  /\ at[p] = "start" /\ lifecycle[t] = "free"
  /\ IF (p = "worker" /\ ~resume) \/ active[t]
     THEN Return(p) /\ UNCHANGED <<running, lifecycle>>
     ELSE Goto(p, "startJoin") /\ running' = [running EXCEPT ![t] = FALSE] /\ Take(p, t)
  /\ UNCHANGED <<busy, attempt, job, term, flagVars, usbVars, mtx, active, reader,
                 textVars, wishVars>>

\* The old reader is joined; under mtx_ START is sent if the target is
\* connected, and the probe may refuse it.
StartSend(p, ok) ==
  /\ at[p] = "startJoin" /\ reader[term[p]] = "dead" /\ Free
  /\ ok => Linked
  /\ IF ok THEN Goto(p, "spawn") /\ UNCHANGED lifecycle ELSE Return(p) /\ Release(p)
  /\ refused' = (refused \/ (~ok /\ p = "worker" /\ Linked))
  /\ UNCHANGED <<busy, attempt, job, term, flagVars, usbVars, mtx, termVars, textVars,
                 resume, wish>>

\* Unsent text is dropped and the reader thread created.
Spawn(p) ==
  LET t == term[p] IN
  /\ at[p] = "spawn"
  /\ active' = [active EXCEPT ![t] = TRUE]
  /\ running' = [running EXCEPT ![t] = TRUE]
  /\ reader' = [reader EXCEPT ![t] = "top"]
  /\ IF t = "rtt" THEN DropText /\ resume' = TRUE /\ wish' = TRUE
                  ELSE UNCHANGED <<tx, first, resume, wish>>
  /\ Release(p) /\ Return(p)
  /\ UNCHANGED <<busy, attempt, job, term, flagVars, usbVars, mtx, chunk, accepted, got,
                 refused>>

\* No thread can be created: STOP if the probe is open.
SpawnFails(p) ==
  /\ at[p] = "spawn" /\ Free
  /\ IF term[p] = "rtt" THEN DropText ELSE UNCHANGED <<tx, first>>
  /\ refused' = (refused \/ p = "worker")
  /\ Release(p) /\ Return(p)
  /\ UNCHANGED <<busy, attempt, job, term, flagVars, usbVars, mtx, termVars, chunk,
                 accepted, got, resume, wish>>

-----------------------------------------------------------------------------
(* Stopping a terminal: rttStopImpl and swoStopImpl under the life-cycle   *)
(* mutex.  close and eraseFlash stop both terminals and keep both mutexes. *)

Forgets(p) == term[p] = "rtt" /\ job[p] \in {"stop", "destroy"}   \* rttStop, not rttStopImpl

\* The flag is lowered under the mutex; rttStop also ends the wish for RTT.
TakeToStop(p, lowered, resumed) ==
  /\ at[p] = "stop" /\ Take(p, term[p])
  /\ running' = [running EXCEPT ![term[p]] = lowered]
  /\ resume' = resumed
  /\ wish' = (wish /\ ~Forgets(p))
  /\ Goto(p, "stopJoin")
  /\ UNCHANGED <<busy, attempt, job, term, flagVars, usbVars, mtx, active, reader,
                 textVars, refused>>

\* Broken variant: close() calls rttStop.
StopTakeForgets(p) == TakeToStop(p, FALSE, resume /\ term[p] # "rtt")

StopTake(p) == TakeToStop(p, FALSE, resume /\ ~Forgets(p))

\* Where the caller goes on.
Onward(p) ==
  LET t == term[p] IN
  CASE job[p] = "stop"    -> Goto(p, "idle") /\ UNCHANGED term
    [] job[p] = "destroy" -> /\ Goto(p, IF t = "swo" THEN "stop" ELSE "gone")
                             /\ term' = [term EXCEPT ![p] = "rtt"]
    [] OTHER ->
         /\ Goto(p, IF t = "rtt" THEN "stop" ELSE IF job[p] = "erase" THEN "handOver" ELSE "shut")
         /\ term' = [term EXCEPT ![p] = "swo"]

\* Broken variant: nobody keeps the mutex.
AfterStopUnlocked(p) == Onward(p) /\ Release(p)

AfterStop(p) ==
  /\ Onward(p)
  /\ IF job[p] \in {"stop", "destroy"} THEN Release(p) ELSE UNCHANGED lifecycle

\* The reader is joined; STOP goes out under mtx_ if the terminal was active.
StopJoin(p) ==
  LET t == term[p] IN
  /\ at[p] = "stopJoin" /\ reader[t] = "dead"
  /\ active[t] => Free
  /\ active' = [active EXCEPT ![t] = FALSE]
  /\ IF t = "rtt" THEN DropText ELSE UNCHANGED <<tx, first>>
  /\ AfterStop(p)
  /\ UNCHANGED <<busy, attempt, job, flagVars, usbVars, mtx, running, reader, chunk,
                 accepted, got, wishVars>>

-----------------------------------------------------------------------------
(* close, open and connect.                                                *)

SdkClosed == sdk' = FALSE /\ isOpen' = FALSE /\ dirty' = FALSE

\* close(), the section under mtx_: the flags first, then JLINKARM_Close if
\* there is something to close.  The user's thread goes on to the destructor.
CloseSdk(p, needed) ==
  /\ at[p] = "shut" /\ Free
  /\ isOpen' = FALSE /\ isConnected' = FALSE /\ dirty' = FALSE
  /\ sdk' = (sdk /\ ~needed)
  /\ Release(p)
  /\ IF p = "user"
     THEN /\ job' = [job EXCEPT ![p] = "destroy"] /\ term' = [term EXCEPT ![p] = "swo"]
          /\ Goto(p, "stop")
     ELSE Goto(p, IF job[p] = "connect" THEN "open" ELSE "done") /\ UNCHANGED <<job, term>>
  /\ UNCHANGED <<busy, attempt, commander, mtx, termVars, textVars, wishVars>>

\* Broken variant: a session marked dirty only has its mark removed.
ShutForgetsDirty(p) == CloseSdk(p, isOpen)

Shut(p) == CloseSdk(p, isOpen \/ dirty)

\* connectAsync's loop: close() and one more attempt, or the end.
Retry ==
  IF attempt < Attempts
  THEN /\ attempt' = attempt + 1 /\ Goto("worker", "stop")
       /\ term' = [term EXCEPT !["worker"] = "rtt"]
  ELSE Goto("worker", "done") /\ UNCHANGED <<attempt, term>>

OpenProbe ==
  /\ at["worker"] = "open" /\ Free
  /\ sdk' = TRUE /\ isOpen' = TRUE /\ dirty' = FALSE
  /\ Goto("worker", "connect")
  /\ UNCHANGED <<busy, attempt, job, term, isConnected, commander, lockVars, termVars,
                 textVars, wishVars>>

\* JLINKARM_Open fails: what it left of a session is closed.
OpenFails ==
  /\ at["worker"] = "open" /\ Free
  /\ SdkClosed /\ Retry
  /\ UNCHANGED <<busy, job, isConnected, commander, lockVars, termVars, textVars, wishVars>>

\* connect() takes mtx_ and keeps it through the attach; another close()
\* may have come before it.
ConnectTake ==
  /\ at["worker"] = "connect" /\ Free
  /\ IF isOpen
     THEN mtx' = "worker" /\ Goto("worker", "attach") /\ UNCHANGED <<attempt, term>>
     ELSE Retry /\ UNCHANGED mtx
  /\ UNCHANGED <<busy, job, flagVars, usbVars, lifecycle, termVars, textVars, wishVars>>

Attached(holder) ==
  /\ at["worker"] = "attach"
  /\ isConnected' = TRUE /\ dirty' = FALSE
  /\ mtx' = holder
  /\ Goto("worker", "start") /\ term' = [term EXCEPT !["worker"] = "rtt"]
  /\ UNCHANGED <<busy, attempt, job, isOpen, usbVars, lifecycle, termVars, textVars, wishVars>>

\* Broken variant: rttStart(true) is called with mtx_ held.
AttachKeepsMutex == Attached("worker")

Attach == Attached("free")

\* Any of its calls fails: resetSdk.
AttachFails ==
  /\ at["worker"] = "attach"
  /\ SdkClosed /\ isConnected' = FALSE
  /\ mtx' = "free" /\ Retry
  /\ UNCHANGED <<busy, job, commander, lifecycle, termVars, textVars, wishVars>>

-----------------------------------------------------------------------------
(* The detached thread: connectAsync, disconnectAsync, resetAsync, and     *)
(* eraseFlash, which takes busy_ in the same way.                          *)

FirstStep(j) ==
  CASE j = "reset" -> "reset" [] j = "erase" -> "eraseCheck" [] OTHER -> "stop"

\* busy_ is taken by compare-and-exchange; the GUI starts these operations.
BeginJob(j) ==
  /\ ~busy /\ busy' = TRUE
  /\ at["user"] = "idle" \/ job["user"] = "stop"
  /\ Begin("worker", j, FirstStep(j), "rtt")
  /\ attempt' = 1 /\ refused' = FALSE
  /\ UNCHANGED <<flagVars, usbVars, lockVars, termVars, textVars, resume, wish>>

\* resetTarget: nothing of this state changes.
ResetTarget ==
  /\ at["worker"] = "reset" /\ Free
  /\ Goto("worker", "done")
  /\ UNCHANGED <<busy, attempt, job, term, flagVars, usbVars, lockVars, termVars,
                 textVars, wishVars>>

\* eraseFlash checks the target before and after it has stopped the
\* terminals; an exception at either place releases everything.
EraseCheck(ok) ==
  /\ at["worker"] = "eraseCheck" /\ Free
  /\ ok => isConnected
  /\ Goto("worker", IF ok THEN "stop" ELSE "done")
  /\ UNCHANGED <<busy, attempt, job, term, flagVars, usbVars, lockVars, termVars,
                 textVars, wishVars>>

HandOver ==
  /\ at["worker"] = "handOver" /\ Free /\ isConnected
  /\ SdkClosed /\ isConnected' = FALSE
  /\ commander' = TRUE /\ mtx' = "worker"
  /\ Goto("worker", "commander")
  /\ UNCHANGED <<busy, attempt, job, term, lifecycle, termVars, textVars, wishVars>>

EraseThrows ==
  /\ at["worker"] = "handOver" /\ Free
  /\ Release("worker") /\ Goto("worker", "done")
  /\ UNCHANGED <<busy, attempt, job, term, flagVars, usbVars, mtx, termVars, textVars, wishVars>>

\* Commander ends, or is ended after 300 s.
CommanderEnds ==
  /\ at["worker"] = "commander"
  /\ commander' = FALSE /\ mtx' = "free"
  /\ Release("worker") /\ Goto("worker", "done")
  /\ UNCHANGED <<busy, attempt, job, term, flagVars, sdk, termVars, textVars, wishVars>>

Done ==
  /\ at["worker"] = "done"
  /\ busy' = FALSE /\ job' = [job EXCEPT !["worker"] = "none"]
  /\ Goto("worker", "idle")
  /\ UNCHANGED <<attempt, term, flagVars, usbVars, lockVars, termVars, textVars, wishVars>>

-----------------------------------------------------------------------------
(* The user's thread: the buttons of the two terminal windows, the stops   *)
(* of device sharing, and close() and the destructor when the program ends. *)

BeginUser(j, l, t) ==
  /\ Begin("user", j, l, t)
  /\ UNCHANGED <<busy, attempt, flagVars, usbVars, lockVars, termVars, textVars, wishVars>>

PressStart(t) ==
  /\ isConnected /\ ~busy /\ ~active[t] /\ (t = "rtt" => ~resume)
  /\ BeginUser("start", "start", t)

PressStop(t) == BeginUser("stop", "stop", t)

Exit == BeginUser("exit", "stop", "rtt")

PressSend ==
  /\ active["rtt"] /\ isConnected /\ accepted < MaxText
  /\ BeginUser("send", "send", "rtt")

\* rttSend: the terminal must be active and its channel available.
Send(ok) ==
  /\ at["user"] = "send" /\ lifecycle["rtt"] = "free"
  /\ ok => active["rtt"]
  /\ IF ok THEN accepted' = accepted + 1 /\ Take("user", "rtt") /\ Goto("user", "append")
           ELSE UNCHANGED <<accepted, lifecycle>> /\ Goto("user", "idle")
  /\ UNCHANGED <<busy, attempt, job, term, flagVars, usbVars, mtx, termVars, tx, chunk,
                 first, got, wishVars>>

AppendText ==
  /\ at["user"] = "append"
  /\ IF Len(tx) < TxCap THEN tx' = Append(tx, accepted) /\ UNCHANGED accepted
                        ELSE UNCHANGED tx /\ accepted' = accepted - 1
  /\ Release("user") /\ Goto("user", "idle")
  /\ UNCHANGED <<busy, attempt, job, term, flagVars, usbVars, mtx, termVars, chunk, first,
                 got, wishVars>>

-----------------------------------------------------------------------------
(* The reader threads and the link.                                        *)

ReaderEnds(t) ==
  /\ reader[t] = "top" /\ ~running[t]
  /\ reader' = [reader EXCEPT ![t] = "dead"]
  /\ UNCHANGED <<busy, attempt, job, at, term, flagVars, usbVars, lockVars, active, running,
                 textVars, wishVars>>

ReaderLost(t) ==
  /\ reader[t] = "top" /\ running[t] /\ ~Linked
  /\ reader' = [reader EXCEPT ![t] = "dead"]
  /\ active' = [active EXCEPT ![t] = FALSE]
  /\ running' = [running EXCEPT ![t] = FALSE]
  /\ UNCHANGED <<busy, attempt, job, at, term, flagVars, usbVars, lockVars, textVars, wishVars>>

\* The RTT reader copies some unsent text,
ReaderCopy(k) ==
  /\ reader["rtt"] = "top" /\ running["rtt"] /\ Linked
  /\ k \in 1 .. Len(tx)
  /\ chunk' = SubSeq(tx, 1, k)
  /\ reader' = [reader EXCEPT !["rtt"] = "write"]
  /\ UNCHANGED <<busy, attempt, job, at, term, flagVars, usbVars, lockVars, active, running,
                 tx, accepted, first, got, wishVars>>

\* writes as much of it as the target takes, if still connected under mtx_,
Written(k, sent) ==
  /\ reader["rtt"] = "write" /\ Free
  /\ k \in 0 .. Len(chunk) /\ (~Linked => k = 0)
  /\ got' = IF k = 0 THEN got ELSE chunk[k]
  /\ chunk' = SubSeq(chunk, 1, sent)
  /\ reader' = [reader EXCEPT !["rtt"] = "erase"]
  /\ UNCHANGED <<busy, attempt, job, at, term, flagVars, usbVars, lockVars, active, running,
                 tx, accepted, first, wishVars>>

\* Broken variant: what the target had no room for counts as sent.
ReaderWriteAll(k) == Written(k, Len(chunk))

ReaderWrite(k) == Written(k, k)

\* and removes that much from the queue.
ReaderErase ==
  /\ reader["rtt"] = "erase"
  /\ tx' = SubSeq(tx, Len(chunk) + 1, Len(tx)) /\ chunk' = << >>
  /\ reader' = [reader EXCEPT !["rtt"] = "top"]
  /\ UNCHANGED <<busy, attempt, job, at, term, flagVars, usbVars, lockVars, active, running,
                 accepted, first, got, wishVars>>

\* kMaxReadFails operations in a row fail: recordTransportResultLocked.
TransportLost ==
  /\ Free /\ Linked
  /\ isOpen' = FALSE /\ isConnected' = FALSE /\ dirty' = TRUE
  /\ UNCHANGED <<busy, attempt, job, at, term, usbVars, lockVars, termVars, textVars, wishVars>>

-----------------------------------------------------------------------------
Starting(p) ==
  \/ StartTake(p)
  \/ \E ok \in BOOLEAN : StartSend(p, ok)
  \/ Spawn(p)
  \/ SpawnFails(p)

Stopping(p) == StopTake(p) \/ StopJoin(p) \/ Shut(p)

Worker ==
  \/ Starting("worker") \/ Stopping("worker")
  \/ OpenProbe \/ OpenFails \/ ConnectTake \/ Attach \/ AttachFails
  \/ ResetTarget \/ (\E ok \in BOOLEAN : EraseCheck(ok))
  \/ HandOver \/ EraseThrows \/ CommanderEnds \/ Done

User ==
  \/ Starting("user") \/ Stopping("user")
  \/ (\E ok \in BOOLEAN : Send(ok)) \/ AppendText

Buttons ==
  \/ \E j \in {"connect", "disconnect", "reset", "erase"} : BeginJob(j)
  \/ \E t \in Terminals : PressStart(t) \/ PressStop(t)
  \/ PressSend \/ Exit

Reader(t) == ReaderEnds(t) \/ ReaderLost(t)
TextOut ==
  \/ \E k \in 1 .. TxCap : ReaderCopy(k)
  \/ \E k \in 0 .. TxCap : ReaderWrite(k)
  \/ ReaderErase

Next ==
  \/ Worker \/ User \/ Buttons \/ TransportLost
  \/ \E t \in Terminals : Reader(t)
  \/ TextOut
  \/ at["user"] = "gone" /\ ~busy /\ UNCHANGED vars   \* the process is over

Spec == Init /\ [][Next]_vars

\* Every thread goes on with what it has begun; a mutex that is free again
\* and again is obtained (mtx_ is first come first served, the OS is trusted
\* for the others).  Nobody has to press a button or lose the link.
FairSpec ==
  /\ Spec
  /\ SF_vars(Worker) /\ SF_vars(User)
  /\ \A t \in Terminals : WF_vars(Reader(t))
  /\ WF_vars(TextOut)

-----------------------------------------------------------------------------
Ats == {"idle", "start", "startJoin", "spawn", "stop", "stopJoin", "shut", "open",
        "connect", "attach", "reset", "eraseCheck", "handOver", "commander", "done",
        "send", "append", "gone"}

TypeOK ==
  /\ {busy, isOpen, isConnected, dirty, sdk, commander, resume, wish, refused} \subseteq BOOLEAN
  /\ attempt \in 1 .. Attempts
  /\ job \in [Procs -> {"none", "connect", "disconnect", "reset", "erase", "start", "stop",
                        "send", "exit", "destroy"}]
  /\ at \in [Procs -> Ats] /\ term \in [Procs -> Terminals]
  /\ mtx \in {"free", "worker"} /\ lifecycle \in [Terminals -> Procs \union {"free"}]
  /\ active \in [Terminals -> BOOLEAN] /\ running \in [Terminals -> BOOLEAN]
  /\ reader \in [Terminals -> {"dead", "top", "write", "erase"}]
  /\ tx \in Seq(1 .. MaxText) /\ chunk \in Seq(1 .. MaxText)
  /\ Len(tx) <= TxCap /\ Len(chunk) <= TxCap
  /\ {accepted, got} \subseteq 0 .. MaxText /\ first \in 1 .. MaxText + 1

\* The flags tell the truth about the DLL's session.  A connection is of an
\* open session; a session the flags no longer show is marked, so that the
\* next close() ends it and no Open() meets it; and the DLL and Commander
\* never have the probe at the same time.
SessionKnown ==
  /\ isConnected => isOpen
  /\ isOpen => sdk
  /\ sdk => isOpen \/ dirty
  /\ ~(sdk /\ commander)

\* When the session ends, both readers have ended before: whoever closes it,
\* no START slips in between STOP and Close.
ReadersStopFirst ==
  [][sdk /\ ~sdk' => \A t \in Terminals : reader[t] = "dead"
                  /\ \A p \in Procs : at[p] # "spawn"]_vars

\* What the target receives in a terminal session is what was typed in it:
\* in order, nothing left out or repeated, nothing from before a reconnect.
TextInOrder ==
  [][got' # got =>
       /\ chunk[1] = (IF got < first THEN first ELSE got + 1)
       /\ \A i \in 2 .. Len(chunk) : chunk[i] = chunk[i - 1] + 1]_vars

\* When connectAsync returns with the target connected, RTT runs again if the
\* user wants it, the probe did not refuse and the program is not ending.
RttResumed ==
  [][busy /\ ~busy' /\ job["worker"] = "connect" /\ Linked /\ wish /\ ~refused
       /\ job["user"] \notin {"exit", "destroy"}
       => active["rtt"]]_vars

\* Every detached operation ends, and so does the program.
ThreadsReturn == (busy ~> ~busy) /\ (job["user"] = "exit" ~> at["user"] = "gone")
=============================================================================
