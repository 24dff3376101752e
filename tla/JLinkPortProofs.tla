-------------------------- MODULE JLinkPortProofs ---------------------------
(***************************************************************************)
(* Proofs about three components of JLinkPort: ProbeSession, the life      *)
(* cycle of the SDK session and its terminals, FirmwareGate, which stands  *)
(* between symbol files and the target, and FairMutex, the ticket lock     *)
(* under mtx_.                                                             *)
(***************************************************************************)
EXTENDS ProbeSession, FirmwareGate, FairMutex, SequenceTheorems, FiniteSetTheorems, TLAPS

(***************************************************************************)
(* ProbeSession, for any number of texts, attempts and any length of the   *)
(* queue: the flags know the SDK session, it ends after its readers, the   *)
(* terminal's text stays in order, and RTT is resumed after connecting.    *)
(* IInv is inductive.                                                      *)
(***************************************************************************)

\* The types of what decides the control.
Typed ==
  /\ job \in [Procs -> {"none", "connect", "disconnect", "reset", "erase", "start", "stop",
                        "send", "exit", "destroy"}]
  /\ at \in [Procs -> Ats] /\ term \in [Procs -> Terminals]
  /\ lifecycle \in [Terminals -> Procs \union {"free"}]
  /\ reader \in [Terminals -> {"dead", "top", "write", "erase"}]
  /\ mtx \in {"free", "worker"}

Flags ==
  /\ isOpen \in BOOLEAN /\ isConnected \in BOOLEAN /\ dirty \in BOOLEAN
  /\ sdk \in BOOLEAN /\ commander \in BOOLEAN

\* Only the worker opens, attaches and hands the probe over, under mtx_.
SessionHeld ==
  /\ SessionKnown
  /\ commander => at["worker"] = "commander"
  /\ at["worker"] = "attach" => mtx = "worker" /\ isOpen
  /\ at["worker"] = "open" => ~sdk

\* Who is between the steps of a start or a stop holds the terminal's mutex,
\* and whoever has joined a reader keeps it from being started again.
Locks ==
  /\ \A p \in Procs :
       /\ at[p] \in {"startJoin", "spawn", "stopJoin"} => lifecycle[term[p]] = p
       /\ at[p] = "spawn" => reader[term[p]] = "dead"
       /\ at[p] \in {"stop", "stopJoin"} /\ job[p] \notin {"stop", "destroy"} /\ term[p] = "swo" =>
            lifecycle["rtt"] = p /\ reader["rtt"] = "dead"
       /\ at[p] \in {"shut", "handOver"} =>
            \A t \in Terminals : lifecycle[t] = p /\ reader[t] = "dead"
  /\ at["user"] = "append" => lifecycle["rtt"] = "user"
  /\ at["worker"] = "eraseCheck" => term["worker"] = "rtt"

\* Between close() and the attach no terminal can start: nothing is connected.
Quiet ==
  at["worker"] \in {"open", "connect", "attach"} =>
    /\ ~isConnected
    /\ \A t \in Terminals : reader[t] = "dead"
    /\ \A p \in Procs : at[p] # "spawn"

\* The last text that is queued or was, and the last one that left the queue.
Top == IF at["user"] = "append" THEN accepted - 1 ELSE accepted
Low == IF got < first THEN first - 1 ELSE got

\* The queue holds the texts after Low up to Top; the reader's copy its front.
TextKept ==
  /\ tx \in Seq(Nat) /\ chunk \in Seq(Nat)
  /\ accepted \in Nat /\ first \in Nat \ {0} /\ got \in Nat
  /\ got <= Top /\ first - 1 <= Top
  /\ \A i \in 1 .. Len(tx) : tx[i] = Top - Len(tx) + i
  /\ reader["rtt"] # "erase" => Top - Len(tx) = Low
  /\ reader["rtt"] = "write" =>
       /\ 1 <= Len(chunk) /\ Len(chunk) <= Len(tx)
       /\ \A i \in 1 .. Len(chunk) : chunk[i] = Low + i
  /\ reader["rtt"] = "erase" => Top - Len(tx) + Len(chunk) = Low /\ Len(chunk) <= Len(tx)

\* Who is where, as far as the resumption of RTT depends on it.
Places ==
  /\ at["worker"] \in {"reset", "eraseCheck", "handOver", "commander"} => job["worker"] # "connect"
  /\ at["worker"] \in {"start", "startJoin", "spawn"} => term["worker"] = "rtt"
  /\ at["user"] \in {"idle", "start", "startJoin", "spawn", "send", "append"} =>
       job["user"] \notin {"exit", "destroy"}
  /\ at["user"] \in {"stop", "stopJoin"} => job["user"] \in {"stop", "exit", "destroy"}

\* What the user wants is what rttStart(true) looks at; and a stop by the user
\* is forgotten by nobody before it is done.
WishKept ==
  /\ wish => resume
  /\ at["user"] = "stopJoin" /\ term["user"] = "rtt" /\ job["user"] = "stop" => ~wish

\* An attempt to connect that is over has resumed RTT, unless it is not to.
Resumed ==
  at["worker"] = "done" /\ job["worker"] = "connect" /\ Linked /\ wish /\ ~refused
    /\ job["user"] \notin {"exit", "destroy"} => active["rtt"]

Resuming == active \in [Terminals -> BOOLEAN] /\ Places /\ WishKept /\ Resumed

Control == Typed /\ Flags /\ SessionHeld /\ Locks /\ Quiet
IInv == Control /\ TextKept /\ Resuming

-----------------------------------------------------------------------------
LEMMA InitControl == Init => Control
<1> USE DEF Init, Procs, Terminals, Ats
<1>1. Init => Typed
  BY DEF Typed
<1>2. Init => SessionHeld /\ Locks /\ Quiet
  BY DEF SessionHeld, SessionKnown, Locks, Quiet
<1>3. Init => Flags
  BY Zenon DEF Flags
<1> QED
  BY <1>1, <1>2, <1>3 DEF Control

LEMMA ControlStep == Control /\ [Next]_vars => Control'
<1> USE DEF Procs, Terminals, Ats
<1> SUFFICES ASSUME Control, [Next]_vars PROVE Control'
  OBVIOUS
<1> USE DEF Control, Typed, Flags, SessionHeld, SessionKnown, Locks, Quiet, Goto, Free, Linked
<1>1. ASSUME NEW p \in Procs, StartTake(p) PROVE Control'
  BY <1>1 DEF StartTake, Take, Return, flagVars, usbVars, textVars, wishVars
<1>2. ASSUME NEW p \in Procs, NEW ok \in BOOLEAN, StartSend(p, ok) PROVE Control'
  BY <1>2 DEF StartSend, Release, Return, flagVars, usbVars, termVars, textVars
<1>3. ASSUME NEW p \in Procs, Spawn(p) PROVE Control'
  BY <1>3 DEF Spawn, Release, Return, flagVars, usbVars
<1>4. ASSUME NEW p \in Procs, SpawnFails(p) PROVE Control'
  BY <1>4 DEF SpawnFails, Release, Return, flagVars, usbVars, termVars
<1>5. ASSUME NEW p \in Procs, StopTake(p) PROVE Control'
  BY <1>5 DEF StopTake, TakeToStop, Take, flagVars, usbVars, textVars
<1>6. ASSUME NEW p \in Procs, StopJoin(p) PROVE Control'
  BY <1>6 DEF StopJoin, AfterStop, Onward, Release, flagVars, usbVars, wishVars
<1>7. ASSUME NEW p \in Procs, Shut(p) PROVE Control'
  <2> USE <1>7 DEF Shut, CloseSdk, Release, termVars, textVars, wishVars
  <2>1. Typed'
    OBVIOUS
  <2>2. SessionHeld'
    OBVIOUS
  <2>3. Locks'
    OBVIOUS
  <2>4. Quiet'
    OBVIOUS
  <2>5. Flags'
    BY Zenon
  <2> QED
    BY <2>1, <2>2, <2>3, <2>4, <2>5
<1>8. CASE OpenProbe
  BY <1>8 DEF OpenProbe, lockVars, termVars, textVars, wishVars
<1>9. CASE OpenFails
  <2> USE <1>9 DEF OpenFails, Retry, SdkClosed, lockVars, termVars, textVars, wishVars
  <2>1. Typed'
    OBVIOUS
  <2>2. SessionHeld'
    OBVIOUS
  <2>3. Locks'
    OBVIOUS
  <2>4. Quiet'
    OBVIOUS
  <2>5. Flags'
    BY Zenon
  <2> QED
    BY <2>1, <2>2, <2>3, <2>4, <2>5
<1>10. CASE ConnectTake
  BY <1>10 DEF ConnectTake, Retry, flagVars, usbVars, termVars, textVars, wishVars
<1>11. CASE Attach
  BY <1>11 DEF Attach, Attached, usbVars, termVars, textVars, wishVars
<1>12. CASE AttachFails
  <2> USE <1>12 DEF AttachFails, Retry, SdkClosed, termVars, textVars, wishVars
  <2>1. Typed'
    OBVIOUS
  <2>2. SessionHeld'
    OBVIOUS
  <2>3. Locks'
    OBVIOUS
  <2>4. Quiet'
    OBVIOUS
  <2>5. Flags'
    BY Zenon
  <2> QED
    BY <2>1, <2>2, <2>3, <2>4, <2>5
<1>13. CASE ResetTarget
  BY <1>13 DEF ResetTarget, flagVars, usbVars, lockVars, termVars, textVars, wishVars
<1>14. ASSUME NEW ok \in BOOLEAN, EraseCheck(ok) PROVE Control'
  BY <1>14 DEF EraseCheck, flagVars, usbVars, lockVars, termVars, textVars, wishVars
<1>15. CASE HandOver
  BY <1>15 DEF HandOver, SdkClosed, termVars, textVars, wishVars
<1>16. CASE EraseThrows
  BY <1>16 DEF EraseThrows, Release, flagVars, usbVars, termVars, textVars, wishVars
<1>17. CASE CommanderEnds
  BY <1>17 DEF CommanderEnds, Release, flagVars, termVars, textVars, wishVars
<1>18. CASE Done
  BY <1>18 DEF Done, flagVars, usbVars, lockVars, termVars, textVars, wishVars
<1>19. CASE \E ok \in BOOLEAN : Send(ok)
  BY <1>19 DEF Send, Take, flagVars, usbVars, termVars, wishVars
<1>20. CASE AppendText
  BY <1>20 DEF AppendText, Release, flagVars, usbVars, termVars, wishVars
<1>21. ASSUME NEW j \in {"connect", "disconnect", "reset", "erase"}, BeginJob(j) PROVE Control'
  BY <1>21 DEF BeginJob, Begin, FirstStep, flagVars, usbVars, lockVars, termVars, textVars
<1>22. CASE \E t \in Terminals : PressStart(t) \/ PressStop(t)
  BY <1>22 DEF PressStart, PressStop, BeginUser, Begin, flagVars, usbVars, lockVars,
               termVars, textVars, wishVars
<1>23. CASE PressSend \/ Exit
  BY <1>23 DEF PressSend, Exit, BeginUser, Begin, flagVars, usbVars, lockVars,
               termVars, textVars, wishVars
<1>24. CASE TransportLost
  BY <1>24 DEF TransportLost, usbVars, lockVars, termVars, textVars, wishVars
<1>25. ASSUME NEW t \in Terminals, Reader(t) PROVE Control'
  BY <1>25 DEF Reader, ReaderEnds, ReaderLost, flagVars, usbVars, lockVars, textVars, wishVars
<1>26. CASE TextOut
  BY <1>26 DEF TextOut, ReaderCopy, ReaderWrite, Written, ReaderErase, flagVars, usbVars,
               lockVars, wishVars
<1>27. CASE UNCHANGED vars
  BY <1>27 DEF vars, flagVars, usbVars, lockVars, termVars, textVars, wishVars
<1> QED
  BY <1>1, <1>2, <1>3, <1>4, <1>5, <1>6, <1>7, <1>8, <1>9, <1>10, <1>11, <1>12, <1>13, <1>14,
     <1>15, <1>16, <1>17, <1>18, <1>19, <1>20, <1>21, <1>22, <1>23, <1>24, <1>25, <1>26, <1>27
  DEF Next, Worker, User, Buttons, Starting, Stopping

-----------------------------------------------------------------------------
LEMMA InitText == Init => TextKept
  BY DEF Init, TextKept, Top, Low, Procs, Terminals

\* What touches neither the texts nor the reader's position keeps them in order.
LEMMA TextSame ==
  ASSUME TextKept, UNCHANGED textVars, reader'["rtt"] = reader["rtt"],
         at'["user"] = "append" <=> at["user"] = "append"
  PROVE  TextKept'
  BY DEF TextKept, Top, Low, textVars

\* Unsent text is dropped while no reader has a copy and nobody appends.
LEMMA TextDropped ==
  ASSUME TextKept, DropText, UNCHANGED <<chunk, accepted, got>>,
         reader'["rtt"] \notin {"write", "erase"},
         at["user"] # "append", at'["user"] # "append"
  PROVE  TextKept'
  BY DEF TextKept, Top, Low, DropText

LEMMA TextStep == IInv /\ [Next]_vars => TextKept'
<1> USE DEF Procs, Terminals
<1> SUFFICES ASSUME IInv, [Next]_vars PROVE TextKept'
  OBVIOUS
<1> /\ TextKept /\ Control
    /\ at \in [Procs -> Ats] /\ reader \in [Terminals -> {"dead", "top", "write", "erase"}]
    /\ term \in [Procs -> Terminals]
  BY DEF IInv, Control, Typed
<1>1. CASE /\ UNCHANGED textVars /\ reader'["rtt"] = reader["rtt"]
           /\ at'["user"] = "append" <=> at["user"] = "append"
  BY <1>1, TextSame
<1>2. ASSUME NEW p \in Procs, Spawn(p) \/ SpawnFails(p) \/ StopJoin(p), term[p] = "rtt"
      PROVE  TextKept'
  <2>1. /\ lifecycle["rtt"] = p /\ at[p] # "append"
        /\ at["user"] = "append" => lifecycle["rtt"] = "user"
    BY <1>2 DEF Spawn, SpawnFails, StopJoin, Control, Locks
  <2>2. at["user"] # "append"
    BY <2>1
  <2>3. at'["user"] # "append"
    BY <1>2, <2>2 DEF Spawn, SpawnFails, StopJoin, AfterStop, Onward, Return, Goto, Ats
  <2>4. reader["rtt"] = "dead" /\ reader'["rtt"] \in {"dead", "top"}
    BY <1>2 DEF Spawn, SpawnFails, StopJoin, Control, Locks, termVars
  <2>5. DropText /\ UNCHANGED <<chunk, accepted, got>>
    BY <1>2 DEF Spawn, SpawnFails, StopJoin
  <2> QED
    BY <2>2, <2>3, <2>4, <2>5, TextDropped
<1>3. ASSUME NEW ok \in BOOLEAN, Send(ok) PROVE TextKept'
  <2>1. CASE ok
    <3>1. /\ at["user"] = "send" /\ at'["user"] = "append" /\ accepted' = accepted + 1
          /\ UNCHANGED <<tx, chunk, first, got, reader>>
      BY <1>3, <2>1 DEF Send, Goto, termVars
    <3>2. Top' = Top /\ Low' = Low /\ accepted' \in Nat
      BY <3>1 DEF Top, Low, TextKept
    <3> QED
      BY <3>1, <3>2 DEF TextKept
  <2>2. CASE ~ok
    BY <1>3, <2>2, TextSame DEF Send, Goto, termVars, textVars, Ats
  <2> QED
    BY <2>1, <2>2
<1>4. CASE AppendText
  <2>1. accepted \in Nat \ {0} /\ tx \in Seq(Nat) /\ at'["user"] = "idle"
    BY <1>4 DEF AppendText, TextKept, Top, Goto
  <2>2. UNCHANGED <<chunk, first, got, reader>>
    BY <1>4 DEF AppendText, termVars
  <2>3. CASE Len(tx) < TxCap
    <3>1. tx' = Append(tx, accepted) /\ accepted' = accepted
      BY <1>4, <2>3 DEF AppendText
    <3>2. /\ tx' \in Seq(Nat) /\ Len(tx') = Len(tx) + 1 /\ tx'[Len(tx) + 1] = accepted
          /\ \A i \in 1 .. Len(tx) : tx'[i] = tx[i]
      BY <3>1, <2>1
    <3>3. Top' = Top + 1 /\ Top' = accepted /\ Low' = Low /\ Top \in Nat
      BY <1>4, <2>1, <2>2, <3>1 DEF AppendText, Top, Low, Goto
    <3>4. /\ Len(tx) \in Nat /\ Len(chunk) \in Nat /\ Low \in Int
          /\ \A i \in 1 .. Len(tx) : tx[i] = Top - Len(tx) + i
          /\ reader["rtt"] # "erase" => Top - Len(tx) = Low
          /\ reader["rtt"] = "write" => 1 <= Len(chunk) /\ Len(chunk) <= Len(tx)
          /\ reader["rtt"] = "erase" =>
               Top - Len(tx) + Len(chunk) = Low /\ Len(chunk) <= Len(tx)
      BY DEF TextKept, Low
    <3>5. /\ accepted' \in Nat /\ first' \in Nat \ {0} /\ got' \in Nat
          /\ got' <= Top' /\ first' - 1 <= Top' /\ chunk' \in Seq(Nat)
      BY <2>1, <2>2, <3>1, <3>3 DEF TextKept
    <3>6. \A i \in 1 .. Len(tx) + 1 : tx'[i] = Top + 1 - (Len(tx) + 1) + i
      <4> TAKE i \in 1 .. Len(tx) + 1
      <4>1. i = Len(tx) + 1 \/ i \in 1 .. Len(tx)
        BY <3>4
      <4> QED
        BY <2>1, <3>2, <3>3, <3>4, <4>1
    <3>7. Len(tx') \in Nat /\ Top' - Len(tx') = Top - Len(tx) /\ Len(tx) <= Len(tx')
      BY <3>2, <3>3, <3>4
    <3>8. reader'["rtt"] = "write" =>
            \A i \in 1 .. Len(chunk') : chunk'[i] = Low' + i
      BY <2>2, <3>3 DEF TextKept
    <3>9. reader'["rtt"] = reader["rtt"] /\ Len(chunk') = Len(chunk) /\ Low' = Low
      BY <2>2, <3>3
    <3>10. reader'["rtt"] # "erase" => Top' - Len(tx') = Low'
      BY <3>4, <3>7, <3>9
    <3>11. reader'["rtt"] = "write" => 1 <= Len(chunk') /\ Len(chunk') <= Len(tx')
      BY <3>4, <3>7, <3>9
    <3>12. reader'["rtt"] = "erase" =>
             Top' - Len(tx') + Len(chunk') = Low' /\ Len(chunk') <= Len(tx')
      BY <3>4, <3>7, <3>9
    <3>13. \A i \in 1 .. Len(tx') : tx'[i] = Top' - Len(tx') + i
      BY <3>2, <3>3, <3>6
    <3> QED
      BY <3>2, <3>5, <3>8, <3>10, <3>11, <3>12, <3>13 DEF TextKept
  <2>4. CASE ~(Len(tx) < TxCap)
    BY <1>4, <2>1, <2>2, <2>4 DEF AppendText, TextKept, Top, Low
  <2> QED
    BY <2>3, <2>4
<1>5. ASSUME NEW t \in Terminals, Reader(t) PROVE TextKept'
  <2>1. CASE t = "swo"
    BY <1>5, <2>1, TextSame DEF Reader, ReaderEnds, ReaderLost
  <2>2. CASE t = "rtt"
    BY <1>5, <2>2 DEF Reader, ReaderEnds, ReaderLost, TextKept, Top, Low, textVars
  <2> QED
    BY <2>1, <2>2
<1>6. ASSUME NEW k \in 1 .. TxCap, ReaderCopy(k) PROVE TextKept'
  <2>1. /\ reader["rtt"] = "top" /\ k \in 1 .. Len(tx) /\ chunk' = SubSeq(tx, 1, k)
        /\ reader'["rtt"] = "write" /\ UNCHANGED <<tx, accepted, first, got, at>>
    BY <1>6 DEF ReaderCopy
  <2>2. /\ chunk' \in Seq(Nat) /\ Len(chunk') = k
        /\ \A i \in 1 .. k : chunk'[i] = tx[i]
    <3>1. \A i \in 1 .. k : tx[i] \in Nat
      BY <2>1 DEF TextKept
    <3> QED
      BY <2>1, <3>1, SubSeqProperties
  <2>3. Top' = Top /\ Low' = Low /\ Top - Len(tx) = Low
    BY <2>1 DEF Top, Low, TextKept
  <2> QED
    BY <2>1, <2>2, <2>3 DEF TextKept
<1>7. ASSUME NEW k \in 0 .. TxCap, ReaderWrite(k) PROVE TextKept'
  <2>1. /\ reader["rtt"] = "write" /\ k \in 0 .. Len(chunk) /\ chunk' = SubSeq(chunk, 1, k)
        /\ got' = IF k = 0 THEN got ELSE chunk[k]
        /\ reader'["rtt"] = "erase" /\ UNCHANGED <<tx, accepted, first, at>>
    BY <1>7 DEF ReaderWrite, Written
  <2>2. chunk' \in Seq(Nat) /\ Len(chunk') = k
    <3>1. \A i \in 1 .. k : chunk[i] \in Nat
      BY <2>1 DEF TextKept
    <3> QED
      BY <2>1, <3>1, SubSeqProperties
  <2>3. /\ Len(chunk) <= Len(tx) /\ Top - Len(tx) = Low /\ Low \in Nat /\ Top \in Int
        /\ k # 0 => chunk[k] = Low + k
    BY <2>1 DEF TextKept, Low, Top
  <2>4. /\ Len(chunk) \in Nat /\ Len(tx) \in Nat /\ k \in Nat /\ k <= Len(chunk)
        /\ got \in Nat /\ got <= Top /\ first \in Nat \ {0}
    BY <2>1 DEF TextKept
  <2>5. CASE k = 0
    <3>1. Top' = Top /\ Low' = Low /\ got' = got /\ first' = first /\ tx' = tx
      BY <2>1, <2>5 DEF Top, Low
    <3> QED
      BY <2>1, <2>2, <2>3, <2>5, <3>1 DEF TextKept
  <2>6. CASE k # 0
    <3>1. Top' = Top /\ got' = Low + k /\ first' = first /\ tx' = tx
      BY <2>1, <2>3, <2>6 DEF Top
    <3>2. got' \in Nat /\ got' <= Top /\ Low + k >= first
      BY <2>3, <2>4, <2>6, <3>1 DEF Low
    <3>3. Low' = Low + k
      BY <2>3, <2>4, <3>1, <3>2 DEF Low
    <3>4. /\ accepted' \in Nat /\ first' \in Nat \ {0} /\ tx' \in Seq(Nat)
          /\ first' - 1 <= Top' /\ \A i \in 1 .. Len(tx') : tx'[i] = Top' - Len(tx') + i
      BY <2>1, <3>1 DEF TextKept
    <3>5. Top' - Len(tx') + Len(chunk') = Low' /\ Len(chunk') <= Len(tx')
      BY <2>2, <2>3, <2>4, <3>1, <3>3
    <3> QED
      BY <2>1, <2>2, <3>1, <3>2, <3>4, <3>5 DEF TextKept
  <2> QED
    BY <2>5, <2>6
<1>8. CASE ReaderErase
  <2>1. /\ reader["rtt"] = "erase" /\ tx' = SubSeq(tx, Len(chunk) + 1, Len(tx)) /\ chunk' = << >>
        /\ reader'["rtt"] = "top" /\ UNCHANGED <<accepted, first, got, at>>
    BY <1>8 DEF ReaderErase
  <2>2. /\ tx' \in Seq(Nat) /\ Len(tx') = Len(tx) - Len(chunk)
        /\ \A i \in 1 .. Len(tx') : tx'[i] = tx[Len(chunk) + i]
    <3>1. /\ Len(chunk) \in Nat /\ Len(tx) \in Nat /\ Len(chunk) <= Len(tx)
          /\ \A i \in Len(chunk) + 1 .. Len(tx) : tx[i] \in Nat
      BY <2>1, SMTT(30) DEF TextKept
    <3>2. /\ SubSeq(tx, Len(chunk) + 1, Len(tx)) \in Seq(Nat)
          /\ Len(SubSeq(tx, Len(chunk) + 1, Len(tx))) =
               IF Len(chunk) + 1 <= Len(tx) THEN Len(tx) - (Len(chunk) + 1) + 1 ELSE 0
          /\ \A i \in 1 .. Len(tx) - (Len(chunk) + 1) + 1 :
               SubSeq(tx, Len(chunk) + 1, Len(tx))[i] = tx[(Len(chunk) + 1) + i - 1]
      BY <3>1, SubSeqProperties
    <3> QED
      BY <2>1, <3>1, <3>2
  <2>3. Top' = Top /\ Low' = Low /\ Top \in Int /\ Low \in Nat
    BY <2>1 DEF Top, Low, TextKept
  <2>4. /\ Len(tx) \in Nat /\ Len(chunk) \in Nat /\ Len(chunk) <= Len(tx)
        /\ Top - Len(tx) + Len(chunk) = Low
        /\ \A i \in 1 .. Len(tx) : tx[i] = Top - Len(tx) + i
    BY <2>1 DEF TextKept
  <2>5. ASSUME NEW i \in 1 .. Len(tx') PROVE tx'[i] = Top' - Len(tx') + i
    <3>1. Len(chunk) + i \in 1 .. Len(tx) /\ tx'[i] = tx[Len(chunk) + i]
      BY <2>2, <2>4
    <3>2. tx[Len(chunk) + i] = Top - Len(tx) + (Len(chunk) + i)
      BY <2>4, <3>1
    <3> QED
      BY <2>2, <2>3, <2>4, <3>1, <3>2
  <2>6. Top' - Len(tx') = Low'
    BY <2>2, <2>3, <2>4
  <2>7. /\ accepted' \in Nat /\ first' \in Nat \ {0} /\ got' \in Nat
        /\ got' <= Top' /\ first' - 1 <= Top' /\ chunk' \in Seq(Nat)
    BY <2>1, <2>3 DEF TextKept
  <2> QED
    BY <2>1, <2>2, <2>5, <2>6, <2>7 DEF TextKept
<1>9. CASE \E p \in Procs : \/ StartTake(p) \/ (\E ok \in BOOLEAN : StartSend(p, ok))
                           \/ StopTake(p) \/ Shut(p)
  BY <1>1, <1>9 DEF StartTake, StartSend, StopTake, TakeToStop, Shut, CloseSdk, Return, Goto,
     textVars, termVars, Ats
<1>10. ASSUME NEW p \in Procs, Spawn(p) \/ SpawnFails(p) \/ StopJoin(p), term[p] = "swo"
       PROVE  TextKept'
  BY <1>1, <1>10 DEF Spawn, SpawnFails, StopJoin, AfterStop, Onward, Return, Goto,
     textVars, termVars, Ats
<1>11. CASE \/ OpenProbe \/ OpenFails \/ ConnectTake \/ Attach \/ AttachFails \/ ResetTarget
            \/ (\E ok \in BOOLEAN : EraseCheck(ok)) \/ HandOver \/ EraseThrows
            \/ CommanderEnds \/ Done
  BY <1>1, <1>11 DEF OpenProbe, OpenFails, ConnectTake, Attach, Attached, AttachFails, Retry,
     ResetTarget, EraseCheck, HandOver, EraseThrows, CommanderEnds, Done, Goto, termVars
<1>12. CASE Buttons
  BY <1>1, <1>12 DEF Buttons, BeginJob, PressStart, PressStop, PressSend, Exit, BeginUser,
     Begin, Goto, textVars, termVars, Ats
<1>13. CASE TransportLost \/ UNCHANGED vars
  BY <1>1, <1>13 DEF TransportLost, vars, termVars
<1>14. ASSUME NEW p \in Procs, Starting(p) \/ Stopping(p) PROVE TextKept'
  BY <1>2, <1>9, <1>10, <1>14 DEF Starting, Stopping
<1> QED
  BY <1>3, <1>4, <1>5, <1>6, <1>7, <1>8, <1>11, <1>12, <1>13, <1>14
  DEF Next, Worker, User, TextOut

-----------------------------------------------------------------------------
LEMMA InitResuming == Init => Resuming
BY DEF Init, Resuming, Places, WishKept, Resumed, Procs, Terminals

LEMMA ResumeStep == IInv /\ [Next]_vars => Resuming'
<1> USE DEF Procs, Terminals
<1> SUFFICES ASSUME IInv, [Next]_vars PROVE Resuming'
  OBVIOUS
<1> /\ at \in [Procs -> Ats] /\ term \in [Procs -> Terminals] /\ Resuming /\ Locks
    /\ job \in [Procs -> {"none", "connect", "disconnect", "reset", "erase", "start", "stop",
                          "send", "exit", "destroy"}]
  BY DEF IInv, Control, Typed
<1> USE DEF Resuming, Places, WishKept, Resumed, Goto, Linked
<1>1. ASSUME NEW p \in Procs, StartTake(p) PROVE Resuming'
  BY <1>1 DEF StartTake, Take, Return, flagVars, textVars, wishVars
<1>2. ASSUME NEW p \in Procs, NEW ok \in BOOLEAN, StartSend(p, ok) PROVE Resuming'
  BY <1>2, ZenonT(30) DEF StartSend, Release, Return, flagVars, termVars, textVars
<1>3. ASSUME NEW p \in Procs, Spawn(p) PROVE Resuming'
  <2>1. term[p] = "rtt" => ~(at["user"] = "stopJoin" /\ term["user"] = "rtt")
    BY <1>3 DEF Spawn, Locks
  <2>2. active' \in [Terminals -> BOOLEAN] /\ active'[term[p]]
        /\ \A t \in Terminals : active[t] => active'[t]
    BY <1>3 DEF Spawn
  <2>3. /\ at' = [at EXCEPT ![p] = IF p = "worker" THEN "done" ELSE "idle"]
        /\ at[p] = "spawn" /\ UNCHANGED <<job, term, isOpen, isConnected, refused>>
        /\ IF term[p] = "rtt" THEN resume' = TRUE /\ wish' = TRUE ELSE UNCHANGED <<resume, wish>>
    BY <1>3 DEF Spawn, Return, flagVars
  <2>4. Places'
    BY <2>3
  <2>5. WishKept'
    BY <2>1, <2>3
  <2>6. Resumed'
    BY <2>2, <2>3
  <2> QED
    BY <2>2, <2>4, <2>5, <2>6
<1>4. ASSUME NEW p \in Procs, SpawnFails(p) PROVE Resuming'
  BY <1>4 DEF SpawnFails, Return, flagVars, termVars
<1>5. ASSUME NEW p \in Procs, StopTake(p) PROVE Resuming'
  BY <1>5 DEF StopTake, TakeToStop, Forgets, flagVars
<1>6. ASSUME NEW p \in Procs, StopJoin(p) PROVE Resuming'
  BY <1>6 DEF StopJoin, AfterStop, Onward, flagVars, wishVars
<1>7. ASSUME NEW p \in Procs, Shut(p) PROVE Resuming'
  BY <1>7 DEF Shut, CloseSdk, termVars, wishVars
<1>8. CASE OpenProbe
  BY <1>8 DEF OpenProbe, termVars, wishVars
<1>9. CASE OpenFails
  BY <1>9 DEF OpenFails, Retry, SdkClosed, termVars, wishVars
<1>10. CASE ConnectTake
  BY <1>10 DEF ConnectTake, Retry, flagVars, termVars, wishVars
<1>11. CASE Attach
  BY <1>11 DEF Attach, Attached, termVars, wishVars
<1>12. CASE AttachFails
  BY <1>12 DEF AttachFails, Retry, SdkClosed, termVars, wishVars
<1>13. CASE ResetTarget
  BY <1>13 DEF ResetTarget, flagVars, termVars, wishVars
<1>14. ASSUME NEW ok \in BOOLEAN, EraseCheck(ok) PROVE Resuming'
  BY <1>14 DEF EraseCheck, flagVars, termVars, wishVars
<1>15. CASE HandOver
  BY <1>15 DEF HandOver, SdkClosed, termVars, wishVars
<1>16. CASE EraseThrows
  BY <1>16 DEF EraseThrows, flagVars, termVars, wishVars
<1>17. CASE CommanderEnds
  BY <1>17 DEF CommanderEnds, flagVars, termVars, wishVars
<1>18. CASE Done
  BY <1>18 DEF Done, flagVars, termVars, wishVars
<1>19. ASSUME NEW ok \in BOOLEAN, Send(ok) PROVE Resuming'
  BY <1>19 DEF Send, flagVars, termVars, wishVars
<1>20. CASE AppendText
  BY <1>20 DEF AppendText, flagVars, termVars, wishVars
<1>21. ASSUME NEW j \in {"connect", "disconnect", "reset", "erase"}, BeginJob(j) PROVE Resuming'
  BY <1>21 DEF BeginJob, Begin, FirstStep, flagVars, termVars
<1>22. ASSUME NEW t \in Terminals, PressStart(t) \/ PressStop(t) PROVE Resuming'
  BY <1>22 DEF PressStart, PressStop, BeginUser, Begin, flagVars, termVars, wishVars
<1>23. CASE PressSend \/ Exit
  BY <1>23 DEF PressSend, Exit, BeginUser, Begin, flagVars, termVars, wishVars
<1>24. CASE TransportLost
  BY <1>24 DEF TransportLost, termVars, wishVars
<1>25. ASSUME NEW t \in Terminals, Reader(t) PROVE Resuming'
  <2>1. CASE ReaderEnds(t)
    BY <2>1 DEF ReaderEnds, flagVars, wishVars
  <2>2. CASE ReaderLost(t)
    <3>1. ~Linked' /\ active' \in [Terminals -> BOOLEAN]
      BY <2>2 DEF ReaderLost, flagVars
    <3> QED
      BY <2>2, <3>1 DEF ReaderLost, wishVars
  <2> QED
    BY <1>25, <2>1, <2>2 DEF Reader
<1>26. CASE TextOut
  BY <1>26 DEF TextOut, ReaderCopy, ReaderWrite, Written, ReaderErase, flagVars, wishVars
<1>27. CASE UNCHANGED vars
  BY <1>27 DEF vars, flagVars, termVars, wishVars
<1> QED
  BY <1>1, <1>2, <1>3, <1>4, <1>5, <1>6, <1>7, <1>8, <1>9, <1>10, <1>11, <1>12, <1>13, <1>14, <1>15, <1>16, <1>17, <1>18, <1>19, <1>20, <1>21, <1>22, <1>23, <1>24, <1>25, <1>26, <1>27
  DEF Next, Worker, User, Buttons, Starting, Stopping

-----------------------------------------------------------------------------
\* Spec has an inductive invariant: the locks, the quiet of an attempt to
\* connect, and the texts between the queue and the target.
THEOREM SessionInvariant == Spec => []IInv
<1>1. Init => IInv
  BY InitControl, InitText, InitResuming DEF IInv
<1>2. IInv /\ [Next]_vars => IInv'
  BY ControlStep, TextStep, ResumeStep DEF IInv
<1> QED
  BY <1>1, <1>2, PTL DEF Spec

\* JLinkPort never loses sight of an open SDK session, and never has one
\* while J-Link Commander uses the probe.
THEOREM SessionIsKnown == Spec => []SessionKnown
<1>1. IInv => SessionKnown
  BY DEF IInv, Control, SessionHeld
<1> QED
  BY <1>1, SessionInvariant, PTL

\* close(), eraseFlash and a failed attempt end the session only when both
\* readers have ended and no START is between its two halves.
THEOREM ReadersFirst == Spec => ReadersStopFirst
<1> USE DEF Procs, Terminals
<1> DEFINE Ends == sdk /\ ~sdk' => \A t \in Terminals : reader[t] = "dead"
                                /\ \A p \in Procs : at[p] # "spawn"
<1>1. ASSUME IInv, [Next]_vars, sdk, ~sdk'
      PROVE  \/ \E p \in Procs : Shut(p)
             \/ OpenFails \/ AttachFails \/ HandOver
  BY <1>1 DEF Next, Worker, User, Buttons, Starting, Stopping, Reader, TextOut, StartTake,
     StartSend, Spawn, SpawnFails, StopTake, TakeToStop, StopJoin, OpenProbe, ConnectTake,
     Attach, Attached, BeginJob, ResetTarget, EraseCheck, EraseThrows, CommanderEnds, Done,
     BeginUser, PressStart, PressStop, Exit, PressSend, Send, AppendText, ReaderEnds,
     ReaderLost, ReaderCopy, ReaderWrite, Written, ReaderErase, TransportLost, vars,
     flagVars, usbVars
<1>2. ASSUME IInv, [Next]_vars PROVE Ends
  <2>1. Typed /\ SessionHeld /\ Locks /\ Quiet
    BY <1>2 DEF IInv, Control
  <2>2. ASSUME NEW p \in Procs, at[p] \in {"shut", "handOver"} PROVE Ends
    BY <2>1, <2>2 DEF Locks, Typed
  <2>3. at["worker"] \in {"open", "attach"} => Ends
    BY <2>1 DEF Quiet
  <2> QED
    BY <1>1, <1>2, <2>2, <2>3 DEF Shut, CloseSdk, OpenFails, AttachFails, HandOver
<1> QED
  BY <1>2, SessionInvariant, PTL DEF Spec, ReadersStopFirst

\* What the target receives continues what it received in this terminal
\* session, without a gap, a repetition or a text from before.
THEOREM TextOrdered == Spec => TextInOrder
<1> DEFINE InOrder == got' # got =>
             /\ chunk[1] = (IF got < first THEN first ELSE got + 1)
             /\ \A i \in 2 .. Len(chunk) : chunk[i] = chunk[i - 1] + 1
<1>1. ASSUME [Next]_vars, got' # got
      PROVE  \E k \in 0 .. TxCap : ReaderWrite(k)
  BY <1>1 DEF Next, Worker, User, Buttons, Starting, Stopping, Reader, TextOut, StartTake,
     StartSend, Spawn, SpawnFails, StopTake, TakeToStop, StopJoin, Shut, CloseSdk, OpenProbe,
     OpenFails, ConnectTake, Attach, Attached, AttachFails, BeginJob, ResetTarget, EraseCheck,
     HandOver, EraseThrows, CommanderEnds, Done, BeginUser, PressStart, PressStop, Exit,
     PressSend, Send, AppendText, ReaderEnds, ReaderLost, ReaderCopy, ReaderErase,
     TransportLost, vars, textVars
<1>2. ASSUME IInv, [Next]_vars PROVE InOrder
  <2>1. SUFFICES ASSUME got' # got PROVE InOrder
    OBVIOUS
  <2>2. TextKept /\ reader["rtt"] = "write"
    BY <1>1, <1>2, <2>1 DEF IInv, ReaderWrite, Written
  <2>3. Len(chunk) \in Nat /\ 1 <= Len(chunk) /\ \A i \in 1 .. Len(chunk) : chunk[i] = Low + i
    BY <2>2 DEF TextKept
  <2>4. Low \in Nat /\ Low + 1 = (IF got < first THEN first ELSE got + 1)
    BY <2>2 DEF TextKept, Low
  <2> QED
    BY <2>3, <2>4
<1> QED
  BY <1>2, SessionInvariant, PTL DEF Spec, TextInOrder

\* Whoever stops a terminal, loses the link or presses buttons meanwhile: an
\* attempt to connect that ends with the target connected has resumed RTT.
THEOREM Resumes == Spec => RttResumed
<1> DEFINE Back == busy /\ ~busy' /\ job["worker"] = "connect" /\ Linked /\ wish /\ ~refused
                     /\ job["user"] \notin {"exit", "destroy"} => active["rtt"]
<1>1. ASSUME [Next]_vars, busy, ~busy' PROVE at["worker"] = "done"
  BY <1>1 DEF Next, Worker, User, Buttons, Starting, Stopping, Reader, TextOut, StartTake,
     StartSend, Spawn, SpawnFails, StopTake, TakeToStop, StopJoin, Shut, CloseSdk, OpenProbe,
     OpenFails, ConnectTake, Attach, Attached, AttachFails, BeginJob, ResetTarget, EraseCheck,
     HandOver, EraseThrows, CommanderEnds, Done, BeginUser, PressStart, PressStop, Exit,
     PressSend, Send, AppendText, ReaderEnds, ReaderLost, ReaderCopy, ReaderWrite, Written,
     ReaderErase, TransportLost, vars
<1>2. ASSUME IInv, [Next]_vars PROVE Back
  BY <1>1, <1>2 DEF IInv, Resuming, Resumed
<1> QED
  BY <1>2, SessionInvariant, PTL DEF Spec, RttResumed

-----------------------------------------------------------------------------
(***************************************************************************)
(* FirmwareGate for any set of windows, builds and files.  GateIInv is     *)
(* inductive.  Most steps either change a source through SetSource or      *)
(* consult the gate through Consult: a lemma about each says what it does  *)
(* to GateIInv, and the theorems read the properties off GateIInv.         *)
(***************************************************************************)
Stale(w, file) ==
  /\ w \notin missed /\ ~source[w].loading
  /\ source[w] # NoSource /\ source[w].file # file

\* What the gate judges is the window's file, and so are the other tools' tables
\* while it lets them pass.
TablesFollow ==
  \A w \in Windows :
    /\ ~Stale(w, image[w])
    /\ reload[w] = "applied" => w \in missed \/ source[w].loading
    /\ reload[w] # "applied" => image[w] = None \/ table[w] = image[w]

\* A request that is still "now" was formed from the window's present file.
RequestsFollow ==
  req.epoch = "now" =>
    /\ req.win \in Windows /\ ~Stale(req.win, req.file)
    /\ connected => req.forced = Forced(gate)

GateCloses == checked = "fresh" /\ (\E w \in Windows : source[w].loading) => gate.state = "Loading"

SamplesFollow == hss # NoRequest => hss.epoch = "now" /\ hss.win \in Windows /\ Current(hss)

\* The override of this boot is the user's, unless the gate is about to forget it.
ForceFollows ==
  gate.override = "this" /\ checked # "never" /\ mailbox # None => approved = mailbox

GateIInv ==
  GateTypeOK /\ TablesFollow /\ RequestsFollow /\ GateCloses /\ SamplesFollow /\ ForceFollows

\* The parts of GateIInv that say when a request or a stream may go on.
Pending == RequestsFollow /\ GateCloses /\ SamplesFollow /\ ForceFollows

-----------------------------------------------------------------------------
(* The operators.                                                          *)

LEMMA NoRequestOld == NoRequest \in Requests /\ NoRequest.epoch = "old"
BY DEF NoRequest, Request, Requests, Tables

LEMMA BumpedFacts ==
  ASSUME NEW r \in Requests
  PROVE  Bumped(r) \in Requests /\ Bumped(r).epoch # "now"
BY NoRequestOld DEF Bumped

LEMMA NewGateTyped == NewGate \in Gates /\ NewGate.override = "none"
BY DEF NewGate, Gates

\* What a check can find is typed, reports a load, and reports a mismatch only
\* of the firmware whose identity is in RAM.
LEMMA OutcomeFacts ==
  ASSUME GateTypeOK, NEW recognized \in BOOLEAN, NEW found \in Outcomes(recognized)
  PROVE  /\ found.recognized \in BOOLEAN
         /\ found.state \in {"Unverified", "Loading", "Unavailable", "Matched", "Mismatch"}
         /\ (\E w \in Windows : source[w].loading) => found.state = "Loading"
         /\ found.state = "Mismatch" => mailbox = flash /\ mailbox # None
<1>1. CASE \E w \in Windows : source[w].loading
  BY <1>1 DEF Outcomes, Found
<1>2. CASE (~ \E w \in Windows : source[w].loading) /\ Images = {}
  BY <1>2 DEF Outcomes, Found
<1>3. CASE (~ \E w \in Windows : source[w].loading) /\ Images # {}
  <2>1. found \in Silent(recognized) \union (IF mailbox = None THEN {} ELSE Identify(recognized))
    BY <1>3 DEF Outcomes
  <2>. DEFINE S == {"Unverified", "Unavailable", "Matched"}
  <2>4. ASSUME NEW state \in S, NEW b \in BOOLEAN
        PROVE  Found(state, b).recognized \in BOOLEAN /\ Found(state, b).state \in S
    BY DEF Found
  <2>5. Unknown(recognized).recognized \in BOOLEAN /\ Unknown(recognized).state \in S
    BY <2>4 DEF Unknown
  <2>2. CASE found \in Silent(recognized)
    <3>1. found = Unknown(recognized) \/ found = Found("Unavailable", FALSE)
      BY <2>2 DEF Silent
    <3>. QED
      BY <1>3, <2>4, <2>5, <3>1
  <2>3. CASE mailbox # None /\ found \in Identify(recognized)
    <3>1. CASE mailbox = flash /\ found = Found("Mismatch", TRUE)
      BY <1>3, <2>3, <3>1 DEF Found
    <3>2. \/ found = Found("Unavailable", recognized) \/ found = Unknown(recognized)
          \/ found = Found("Unavailable", TRUE) \/ found = Found("Matched", TRUE)
          \/ mailbox = flash /\ found = Found("Mismatch", TRUE)
      BY <2>3 DEF Identify
    <3>. QED
      BY <1>3, <2>4, <2>5, <3>1, <3>2
  <2>. QED
    BY <2>1, <2>2, <2>3
<1>. QED
  BY <1>1, <1>2, <1>3

\* A verdict never sets the override, shows every load, and one that was just
\* formed is about the firmware that runs.
LEMMA VerdictFacts ==
  ASSUME GateIInv, NEW refresh \in BOOLEAN, NEW g \in Verdicts(refresh)
  PROVE  /\ g \in Gates
         /\ Forced(g) => Forced(gate)
         /\ (\E w \in Windows : source[w].loading) => g.state = "Loading"
         /\ g.override = "this" /\ mailbox # None => approved = mailbox
         /\ refresh /\ g.state = "Mismatch" => mailbox = flash /\ mailbox # None
         /\ refresh /\ Forced(g) => g.override = "this"
<1>1. CASE ~refresh /\ checked = "fresh"
  <2>1. g = gate
    BY <1>1 DEF Verdicts
  <2>. QED
    BY <1>1, <2>1 DEF GateIInv, GateTypeOK, GateCloses, ForceFollows
<1>2. CASE refresh \/ checked # "fresh"
  <2>. DEFINE h == IF checked = "never" THEN NewGate ELSE gate
  <2>1. PICK found \in Outcomes(h.recognized) : g = Check(h, found)
    BY <1>2 DEF Verdicts
  <2>2. h \in Gates /\ h.recognized \in BOOLEAN
    BY <2>1, NewGateTyped DEF GateIInv, GateTypeOK, Gates
  <2>3. /\ found.recognized \in BOOLEAN
        /\ found.state \in {"Unverified", "Loading", "Unavailable", "Matched", "Mismatch"}
        /\ (\E w \in Windows : source[w].loading) => found.state = "Loading"
        /\ found.state = "Mismatch" => mailbox = flash /\ mailbox # None
    BY <2>1, <2>2, OutcomeFacts DEF GateIInv
  <2>4. /\ g.recognized = found.recognized /\ g.state = found.state
        /\ g.override = IF found.state = "Mismatch" /\ h.override = "this" THEN "this" ELSE "none"
        /\ g \in Gates
    BY <2>1, <2>3 DEF Check, Gates
  <2>5. g.override # "none" => g.override = "this" /\ gate.override = "this" /\ checked # "never"
                               /\ g.state = "Mismatch"
    BY <2>1, <2>4, NewGateTyped
  <2>. QED
    BY <2>3, <2>4, <2>5 DEF GateIInv, ForceFollows, Forced
<1>. QED
  BY <1>1, <1>2

-----------------------------------------------------------------------------
(* The two kinds of steps.                                                 *)

Sources == [file : Tables, loading : BOOLEAN]

\* A change of a source makes every request old and stops sampling, unless it
\* goes unnoticed; then its window is among the missed.
LEMMA SetSourceStep ==
  ASSUME GateIInv, NEW w \in Windows, NEW s \in Sources, SetSource(w, s)
  PROVE  /\ Pending'
         /\ source' \in [Windows -> Sources] /\ gate' \in Gates
         /\ checked' \in {"never", "late", "fresh"}
         /\ hss' \in Requests /\ req' \in Requests
         /\ approved' \in Firmware \union {None} /\ missed' \subseteq Windows
         /\ \A v \in Windows \ {w} : source'[v] = source[v] /\ (v \in missed' <=> v \in missed)
         /\ w \in missed' \/ source'[w] = s
<1>1. req' \in Requests /\ req'.epoch # "now"
  BY BumpedFacts DEF SetSource, GateIInv, GateTypeOK
<1>2. CASE route = "remote"
  <2>1. /\ missed' = missed \union {w}
        /\ UNCHANGED <<source, gate, checked, hss, approved, mailbox, connected>>
    BY <1>2 DEF SetSource, targetVars, linkVars
  <2>2. SamplesFollow'
    BY <2>1 DEF GateIInv, SamplesFollow, Current, Forced
  <2>. QED
    BY <1>1, <2>1, <2>2 DEF GateIInv, GateTypeOK, Sources, Pending, RequestsFollow, GateCloses,
                            ForceFollows
<1>3. CASE route # "remote"
  <2>1. /\ source' = [source EXCEPT ![w] = s]
        /\ gate' = [gate EXCEPT !.state = "Unverified", !.override = "none"]
        /\ checked' = Unset /\ hss' = NoRequest
        /\ approved' = None /\ missed' = missed \ {w}
    BY <1>3 DEF SetSource
  <2>2. gate' \in Gates /\ gate'.override = "none"
    BY <2>1 DEF GateIInv, GateTypeOK, Gates
  <2>3. checked' \in {"never", "late"}
    BY <2>1 DEF Unset
  <2>. QED
    BY <1>1, <2>1, <2>2, <2>3, NoRequestOld
    DEF GateIInv, GateTypeOK, Sources, Pending, RequestsFollow, GateCloses, SamplesFollow, ForceFollows
<1>. QED
  BY <1>2, <1>3

\* So is a change of the window's own state that goes with the new source.
LEMMA SetSourceIInv ==
  ASSUME GateIInv, NEW w \in Windows, NEW s \in Sources, SetSource(w, s),
         page' \in [Windows -> {"rest", "parsing", "parsed", "failed"}],
         reload' \in [Windows -> {"no", "applied", "synced"}],
         loaded' \in [Windows -> Tables], image' \in [Windows -> Tables],
         table' \in [Windows -> Tables],
         \A v \in Windows \ {w} :
           image'[v] = image[v] /\ reload'[v] = reload[v] /\ table'[v] = table[v],
         s.loading \/ s = NoSource \/ s.file = image'[w],
         reload'[w] = "applied" => s.loading,
         reload'[w] # "applied" => image'[w] = None \/ table'[w] = image'[w]
  PROVE  GateIInv'
<1>1. /\ Pending'
      /\ source' \in [Windows -> Sources] /\ gate' \in Gates
      /\ checked' \in {"never", "late", "fresh"}
      /\ hss' \in Requests /\ req' \in Requests
      /\ approved' \in Firmware \union {None} /\ missed' \subseteq Windows
      /\ \A v \in Windows \ {w} : source'[v] = source[v] /\ (v \in missed' <=> v \in missed)
      /\ w \in missed' \/ source'[w] = s
  BY SetSourceStep
<1>2. UNCHANGED <<flash, mailbox, connected, working, route>>
  BY DEF SetSource, targetVars, linkVars
<1>3. GateTypeOK'
  BY <1>1, <1>2 DEF GateIInv, GateTypeOK, Sources
<1>4. ASSUME NEW v \in Windows
      PROVE  /\ ~Stale(v, image[v])'
             /\ reload'[v] = "applied" => v \in missed' \/ source'[v].loading
             /\ reload'[v] # "applied" => image'[v] = None \/ table'[v] = image'[v]
  <2>1. CASE v = w
    BY <1>1, <2>1 DEF Stale
  <2>2. CASE v # w
    BY <1>1, <2>2 DEF GateIInv, TablesFollow, Stale
  <2>. QED
    BY <2>1, <2>2
<1>. QED
  BY <1>1, <1>3, <1>4 DEF GateIInv, TablesFollow, Pending

\* A request that the gate has just let pass is current.
LEMMA ServedIsCurrent ==
  ASSUME GateIInv, NEW refresh \in BOOLEAN, NEW g \in Verdicts(refresh),
         connected, req.epoch = "now", Served(g)
  PROVE  Current(req) /\ Forced(g) = Forced(gate)
<1>1. Allows(g) /\ ~Expired(g)
  BY DEF Served
<1>2. g.state # "Loading"
  BY <1>1 DEF Allows
<1>3. ~ \E w \in Windows : source[w].loading
  BY <1>2, VerdictFacts
<1>4. Forced(g) = Forced(gate)
  <2>1. Forced(g) => Forced(gate)
    BY VerdictFacts
  <2>. QED
    BY <1>1, <2>1 DEF Expired, Forced
<1>5. req.win \in Windows /\ ~Stale(req.win, req.file) /\ req.forced = Forced(gate)
  BY DEF GateIInv, RequestsFollow
<1>6. source[req.win] \in Sources /\ source[req.win].loading = FALSE
  BY <1>3, <1>5 DEF GateIInv, GateTypeOK, Sources
<1>7. source[req.win] = [file |-> source[req.win].file, loading |-> FALSE]
  BY <1>6 DEF Sources
<1>. QED
  BY <1>4, <1>5, <1>6, <1>7 DEF Stale, Current

\* To consult the gate is safe for the stream that samples, and for one that
\* starts with the request it lets pass.
LEMMA ConsultStep ==
  ASSUME GateIInv, NEW refresh \in BOOLEAN, NEW g \in Verdicts(refresh), NEW s, Consult(g, s),
         s = hss \/ (s = req /\ connected /\ req.epoch = "now" /\ Served(g)),
         req' = req \/ (req' \in Requests /\ req'.epoch # "now"),
         Expired(g) => req'.epoch # "now"
  PROVE  GateIInv'
<1>1. /\ g \in Gates
      /\ Forced(g) => Forced(gate)
      /\ (\E w \in Windows : source[w].loading) => g.state = "Loading"
      /\ g.override = "this" /\ mailbox # None => approved = mailbox
  BY VerdictFacts
<1>2. /\ gate' = g /\ checked' = "fresh"
      /\ hss' = IF ~Allows(g) \/ Expired(g) THEN NoRequest ELSE s
      /\ UNCHANGED <<flash, mailbox, connected, working, route, source, page, loaded, image, reload,
                     table, approved, missed>>
  BY DEF Consult, targetVars, linkVars, loadVars
<1>3. GateTypeOK'
  BY <1>1, <1>2, NoRequestOld DEF GateIInv, GateTypeOK
<1>4. ~Expired(g) => Forced(g) = Forced(gate)
  BY <1>1 DEF Expired, Forced
<1>5. RequestsFollow'
  BY <1>2, <1>4 DEF GateIInv, RequestsFollow, Stale, Forced
<1>6. GateCloses'
  BY <1>1, <1>2 DEF GateCloses
<1>7. SamplesFollow'
  <2>1. SUFFICES ASSUME hss' # NoRequest
                 PROVE  hss'.epoch = "now" /\ hss'.win \in Windows /\ Current(hss)'
    BY <1>2 DEF SamplesFollow
  <2>2. hss' = s /\ ~Expired(g)
    BY <1>2, <2>1
  <2>3. s.epoch = "now" /\ s.win \in Windows /\ Current(s)
    <3>1. CASE s = hss
      BY <2>1, <2>2, <3>1 DEF GateIInv, SamplesFollow
    <3>2. CASE s = req /\ connected /\ req.epoch = "now" /\ Served(g)
      BY <3>2, ServedIsCurrent DEF GateIInv, RequestsFollow
    <3>. QED
      BY <3>1, <3>2
  <2>. QED
    BY <1>2, <1>4, <2>2, <2>3 DEF Current, Forced
<1>8. ForceFollows'
  BY <1>1, <1>2 DEF ForceFollows
<1>. QED
  BY <1>2, <1>3, <1>5, <1>6, <1>7, <1>8 DEF GateIInv, TablesFollow, Stale

-----------------------------------------------------------------------------
(* GateIInv is inductive.                                                  *)

LEMMA GateInitIInv == GateInit => GateIInv
<1>. SUFFICES ASSUME GateInit PROVE GateIInv
  OBVIOUS
<1>. USE DEF GateInit
<1>1. GateTypeOK
  BY GateAssumption, NoRequestOld, NewGateTyped DEF GateTypeOK, NoSource, Tables
<1>2. TablesFollow /\ GateCloses /\ SamplesFollow
  BY DEF TablesFollow, Stale, GateCloses, SamplesFollow, NoSource
<1>3. RequestsFollow /\ ForceFollows
  BY NoRequestOld, NewGateTyped DEF RequestsFollow, ForceFollows
<1>. QED
  BY <1>1, <1>2, <1>3 DEF GateIInv

LEMMA FileStepIInv == ASSUME GateIInv, NEW w \in Windows, FileStep(w) PROVE GateIInv'
<1>. USE DEF targetVars, linkVars, accessVars, loadVars
<1>1. CASE Form(w)
  <2>1. UNCHANGED <<flash, mailbox, connected, working, route, source, gate, checked, hss, page,
                    loaded,
                    image, reload, table, approved, missed>>
    BY <1>1 DEF Form
  <2>2. image[w] \in Tables /\ table[w] \in Tables /\ Forced(gate) \in BOOLEAN
    BY DEF GateIInv, GateTypeOK, Forced
  <2>3. CASE req' = Request("any", None, None, FALSE)
    <3>1. req' \in Requests /\ req'.epoch = "any"
      BY <2>3 DEF Request, Requests, Tables
    <3>. QED
      BY <2>1, <3>1 DEF GateIInv, GateTypeOK, TablesFollow, RequestsFollow, GateCloses, SamplesFollow,
                        ForceFollows, Stale, Current, Forced
  <2>4. ASSUME NEW file \in {table[w], image[w]}, req' = Request("now", w, file, Forced(gate))
        PROVE  GateIInv'
    <3>1. /\ req' \in Requests /\ req'.win = w /\ req'.file = file
          /\ req'.forced = Forced(gate)
      BY <2>2, <2>4 DEF Request, Requests
    <3>2. ~Stale(w, file)
      <4>1. source[w] \in Sources
        BY DEF GateIInv, GateTypeOK, Sources
      <4>2. source[w].file = None /\ ~source[w].loading => source[w] = NoSource
        BY <4>1 DEF Sources, NoSource
      <4>. QED
        BY <2>4, <4>2 DEF GateIInv, TablesFollow, Stale
    <3>. QED
      BY <2>1, <3>1, <3>2 DEF GateIInv, GateTypeOK, TablesFollow, RequestsFollow, GateCloses,
                              SamplesFollow,
                              ForceFollows, Stale, Current, Forced
  <2>. QED
    BY <1>1, <2>3, <2>4 DEF Form
<1>2. CASE LoadElf(w)
  <2>. DEFINE s == [file |-> image[w], loading |-> TRUE]
  <2>1. s \in Sources /\ SetSource(w, s)
    BY <1>2 DEF LoadElf, GateIInv, GateTypeOK, Sources
  <2>2. /\ page' \in [Windows -> {"rest", "parsing", "parsed", "failed"}]
        /\ reload' \in [Windows -> {"no", "applied", "synced"}]
        /\ loaded' \in [Windows -> Tables] /\ image' \in [Windows -> Tables]
        /\ table' \in [Windows -> Tables]
    BY <1>2 DEF LoadElf, GateIInv, GateTypeOK, Tables
  <2>3. /\ \A v \in Windows \ {w} :
             image'[v] = image[v] /\ reload'[v] = reload[v] /\ table'[v] = table[v]
        /\ s.loading \/ s = NoSource \/ s.file = image'[w]
        /\ reload'[w] = "applied" => s.loading
        /\ reload'[w] # "applied" => image'[w] = None \/ table'[w] = image'[w]
    BY <1>2 DEF LoadElf, GateIInv, GateTypeOK, TablesFollow
  <2>. QED
    BY <2>1, <2>2, <2>3, SetSourceIInv
<1>3. CASE Parse(w)
  <2>1. page' \in [Windows -> {"rest", "parsing", "parsed",
    "failed"}] /\ loaded' \in [Windows -> Tables]
    BY <1>3 DEF Parse, GateIInv, GateTypeOK, Tables
  <2>. QED
    BY <1>3, <2>1 DEF Parse, GateIInv, GateTypeOK, TablesFollow, RequestsFollow, GateCloses,
                      SamplesFollow,
                      ForceFollows, Stale, Current, Forced
<1>4. CASE ApplyFailed(w)
  <2>. DEFINE s == [file |-> image[w], loading |-> FALSE]
  <2>1. s \in Sources /\ SetSource(w, s)
    BY <1>4 DEF ApplyFailed, GateIInv, GateTypeOK, Sources
  <2>2. /\ page' \in [Windows -> {"rest", "parsing", "parsed", "failed"}]
        /\ reload' \in [Windows -> {"no", "applied", "synced"}]
        /\ loaded' \in [Windows -> Tables] /\ image' \in [Windows -> Tables]
        /\ table' \in [Windows -> Tables]
    BY <1>4 DEF ApplyFailed, GateIInv, GateTypeOK, Tables
  <2>3. /\ \A v \in Windows \ {w} :
             image'[v] = image[v] /\ reload'[v] = reload[v] /\ table'[v] = table[v]
        /\ s.loading \/ s = NoSource \/ s.file = image'[w]
        /\ reload'[w] = "applied" => s.loading
        /\ reload'[w] # "applied" => image'[w] = None \/ table'[w] = image'[w]
    BY <1>4 DEF ApplyFailed, GateIInv, GateTypeOK, TablesFollow
  <2>. QED
    BY <2>1, <2>2, <2>3, SetSourceIInv
<1>5. CASE ApplyParsed(w)
  <2>. DEFINE s == [file |-> loaded[w], loading |-> TRUE]
  <2>1. s \in Sources /\ SetSource(w, s)
    BY <1>5 DEF ApplyParsed, GateIInv, GateTypeOK, Sources
  <2>2. /\ page' \in [Windows -> {"rest", "parsing", "parsed", "failed"}]
        /\ reload' \in [Windows -> {"no", "applied", "synced"}]
        /\ loaded' \in [Windows -> Tables] /\ image' \in [Windows -> Tables]
        /\ table' \in [Windows -> Tables]
    BY <1>5 DEF ApplyParsed, GateIInv, GateTypeOK, Tables
  <2>3. /\ \A v \in Windows \ {w} :
             image'[v] = image[v] /\ reload'[v] = reload[v] /\ table'[v] = table[v]
        /\ s.loading \/ s = NoSource \/ s.file = image'[w]
        /\ reload'[w] = "applied" => s.loading
        /\ reload'[w] # "applied" => image'[w] = None \/ table'[w] = image'[w]
    BY <1>5 DEF ApplyParsed, GateIInv, GateTypeOK, TablesFollow
  <2>. QED
    BY <2>1, <2>2, <2>3, SetSourceIInv
<1>6. CASE Sync(w)
  BY <1>6 DEF Sync, GateIInv, GateTypeOK, TablesFollow, RequestsFollow, GateCloses, SamplesFollow,
              ForceFollows, Stale, Current, Forced
<1>7. CASE CompleteReload(w)
  <2>. DEFINE s == [file |-> image[w], loading |-> FALSE]
  <2>1. s \in Sources /\ SetSource(w, s)
    BY <1>7 DEF CompleteReload, GateIInv, GateTypeOK, Sources
  <2>2. /\ page' \in [Windows -> {"rest", "parsing", "parsed", "failed"}]
        /\ reload' \in [Windows -> {"no", "applied", "synced"}]
        /\ loaded' \in [Windows -> Tables] /\ image' \in [Windows -> Tables]
        /\ table' \in [Windows -> Tables]
    BY <1>7 DEF CompleteReload, GateIInv, GateTypeOK, Tables
  <2>3. /\ \A v \in Windows \ {w} :
             image'[v] = image[v] /\ reload'[v] = reload[v] /\ table'[v] = table[v]
        /\ s.loading \/ s = NoSource \/ s.file = image'[w]
        /\ reload'[w] = "applied" => s.loading
        /\ reload'[w] # "applied" => image'[w] = None \/ table'[w] = image'[w]
    BY <1>7 DEF CompleteReload, GateIInv, GateTypeOK, TablesFollow
  <2>. QED
    BY <2>1, <2>2, <2>3, SetSourceIInv
<1>8. CASE Unregister(w)
  <2>. DEFINE s == NoSource
  <2>1. s \in Sources /\ SetSource(w, s)
    BY <1>8 DEF Unregister, GateIInv, GateTypeOK, Sources, NoSource, Tables
  <2>2. /\ page' \in [Windows -> {"rest", "parsing", "parsed", "failed"}]
        /\ reload' \in [Windows -> {"no", "applied", "synced"}]
        /\ loaded' \in [Windows -> Tables] /\ image' \in [Windows -> Tables]
        /\ table' \in [Windows -> Tables]
    BY <1>8 DEF Unregister, GateIInv, GateTypeOK, Tables
  <2>3. /\ \A v \in Windows \ {w} :
             image'[v] = image[v] /\ reload'[v] = reload[v] /\ table'[v] = table[v]
        /\ s.loading \/ s = NoSource \/ s.file = image'[w]
        /\ reload'[w] = "applied" => s.loading
        /\ reload'[w] # "applied" => image'[w] = None \/ table'[w] = image'[w]
    BY <1>8 DEF Unregister, GateIInv, GateTypeOK, TablesFollow
  <2>. QED
    BY <2>1, <2>2, <2>3, SetSourceIInv
<1>. QED
  BY <1>1, <1>2, <1>3, <1>4, <1>5, <1>6, <1>7, <1>8 DEF FileStep

\* Each access is a Consult after which a refused request may have become old.
LEMMA AccessIInv ==
  ASSUME GateIInv, NEW refresh \in BOOLEAN, NEW g \in Verdicts(refresh), NEW s, Access(g, s),
         s = hss \/ (s = req /\ connected /\ req.epoch = "now")
  PROVE  GateIInv'
<1>. DEFINE t == IF Served(g) THEN s ELSE hss
<1>1. Consult(g, t)
  BY DEF Access
<1>2. t = hss \/ (t = req /\ connected /\ req.epoch = "now" /\ Served(g))
  OBVIOUS
<1>3. Bumped(req) \in Requests /\ Bumped(req).epoch # "now"
  BY BumpedFacts DEF GateIInv, GateTypeOK
<1>4. /\ req' = req \/ (req' \in Requests /\ req'.epoch # "now")
      /\ Expired(g) => req'.epoch # "now"
  BY <1>3, NoRequestOld DEF Access
<1>. QED
  BY <1>1, <1>2, <1>4, ConsultStep

LEMMA AccessStepIInv ==
  ASSUME GateIInv, Read \/ Write \/ WriteBitfield \/ HssStart \/ HssRead
  PROVE  GateIInv'
<1>1. CASE Read
  BY <1>1, AccessIInv DEF Read
<1>2. CASE Write
  BY <1>2, AccessIInv DEF Write
<1>3. CASE WriteBitfield
  BY <1>3, AccessIInv DEF WriteBitfield
<1>4. CASE HssStart
  BY <1>4, AccessIInv DEF HssStart, Entered
<1>5. CASE HssRead
  <2>1. PICK g \in Verdicts(FALSE) :
          Consult(g, hss) /\ req' = IF Expired(g) THEN Bumped(req) ELSE req
    BY <1>5 DEF HssRead
  <2>2. Bumped(req) \in Requests /\ Bumped(req).epoch # "now"
    BY BumpedFacts DEF GateIInv, GateTypeOK
  <2>. QED
    BY <2>1, <2>2, ConsultStep
<1>. QED
  BY <1>1, <1>2, <1>3, <1>4, <1>5

\* The user forces a mismatch, and takes the force back.
LEMMA OverrideIInv == ASSUME GateIInv, OverrideOn \/ OverrideOff PROVE GateIInv'
<1>. USE DEF targetVars, linkVars, accessVars, loadVars
<1>0. Bumped(req) \in Requests /\ Bumped(req).epoch # "now"
  BY BumpedFacts DEF GateIInv, GateTypeOK
<1>1. CASE OverrideOn
  <2>. DEFINE on(g) == g.state = "Mismatch"
              toggled(g) == Expired(g) \/ (on(g) /\ ~Forced(g))
  <2>1. PICK g \in Verdicts(TRUE) :
          /\ gate' = IF on(g) THEN [g EXCEPT !.override = "this"] ELSE g
          /\ approved' = IF on(g) THEN flash ELSE approved
          /\ hss' = IF ~Allows(g) \/ toggled(g) THEN NoRequest ELSE hss
          /\ req' = IF toggled(g) THEN Bumped(req) ELSE req
    BY <1>1 DEF OverrideOn
  <2>2. /\ connected /\ checked' = "fresh"
        /\ UNCHANGED <<flash, mailbox, connected, working, route, source, page, loaded, image, reload,
                       table, missed>>
    BY <1>1 DEF OverrideOn
  <2>3. /\ g \in Gates
        /\ Forced(g) => Forced(gate)
        /\ (\E w \in Windows : source[w].loading) => g.state = "Loading"
        /\ g.override = "this" /\ mailbox # None => approved = mailbox
        /\ on(g) => mailbox = flash
    BY VerdictFacts
  <2>4. gate' \in Gates /\ gate'.state = g.state
    BY <2>1, <2>3 DEF Gates
  <2>5. ~toggled(g) => Forced(gate') = Forced(gate)
    BY <2>1, <2>3 DEF Expired, Forced, Gates
  <2>6. GateTypeOK'
    BY <1>0, <2>1, <2>2, <2>4, NoRequestOld DEF GateIInv, GateTypeOK
  <2>7. RequestsFollow'
    BY <1>0, <2>1, <2>2, <2>5 DEF GateIInv, RequestsFollow, Stale, Forced
  <2>8. SamplesFollow'
    BY <2>1, <2>2, <2>5 DEF GateIInv, SamplesFollow, Current, Forced
  <2>9. ForceFollows' /\ GateCloses'
    BY <2>1, <2>2, <2>3, <2>4 DEF ForceFollows, GateCloses
  <2>. QED
    BY <2>2, <2>6, <2>7, <2>8, <2>9 DEF GateIInv, TablesFollow, Stale
<1>2. CASE OverrideOff
  <2>1. gate' \in Gates /\ gate'.state = gate.state /\ gate'.override = "none"
    BY <1>2 DEF OverrideOff, GateIInv, GateTypeOK, Gates
  <2>. QED
    BY <1>0, <1>2, <2>1, NoRequestOld
    DEF OverrideOff, GateIInv, GateTypeOK, TablesFollow, RequestsFollow, GateCloses, SamplesFollow,
        ForceFollows, Stale
<1>. QED
  BY <1>1, <1>2

\* The connection, the route and the target.
LEMMA EnvironmentIInv ==
  ASSUME GateIInv,
         \/ HssStop \/ Age \/ SetBusy \/ Connect \/ Close \/ GateLinkLost \/ GateReset
         \/ ProgramFile \/ SwitchBegin \/ SwitchEnd \/ SelectLocal
         \/ Reboot \/ Publish \/ Replace
  PROVE  GateIInv'
<1>. USE NoRequestOld, NewGateTyped
     DEF targetVars, linkVars, accessVars, loadVars, GateIInv, GateTypeOK, TablesFollow,
         RequestsFollow,
         GateCloses, SamplesFollow, ForceFollows, Stale, Current, Forced
<1>0. Bumped(req) \in Requests /\ Bumped(req).epoch # "now"
  BY BumpedFacts
<1>1. CASE HssStop
  BY <1>1 DEF HssStop
<1>2. CASE Age
  BY <1>2 DEF Age
<1>3. CASE SetBusy
  BY <1>3 DEF SetBusy
<1>4. CASE Connect
  BY <1>0, <1>4 DEF Connect
<1>5. CASE Close
  BY <1>5 DEF Close, Unset
<1>6. CASE GateLinkLost
  BY <1>0, <1>6 DEF GateLinkLost
<1>7. CASE GateReset
  BY <1>0, <1>7 DEF GateReset
<1>8. CASE ProgramFile
  BY <1>0, <1>8 DEF ProgramFile
<1>9. CASE SwitchBegin
  BY <1>0, <1>9 DEF SwitchBegin
<1>10. CASE SwitchEnd
  BY <1>0, <1>10 DEF SwitchEnd
<1>11. CASE SelectLocal
  BY <1>0, <1>11 DEF SelectLocal
<1>12. CASE Reboot
  BY <1>12 DEF Reboot
<1>13. CASE Publish
  <2>1. gate' \in Gates /\ gate'.state = gate.state /\ Forced(gate') = Forced(gate)
        /\ gate'.override # "this"
    BY <1>13 DEF Publish, Gates
  <2>. QED
    BY <1>13, <2>1 DEF Publish
<1>14. CASE Replace
  BY <1>14 DEF Replace
<1>. QED
  BY <1>1, <1>2, <1>3, <1>4, <1>5, <1>6, <1>7, <1>8, <1>9, <1>10, <1>11, <1>12, <1>13, <1>14

THEOREM GateInvariant == GateSpec => []GateIInv
<1>1. GateInit => GateIInv
  BY GateInitIInv
<1>2. GateIInv /\ [GateNext]_gateVars => GateIInv'
  <2>1. SUFFICES ASSUME GateIInv, GateNext \/ UNCHANGED gateVars PROVE GateIInv'
    OBVIOUS
  <2>2. CASE UNCHANGED gateVars
    BY <2>1, <2>2 DEF gateVars, targetVars, linkVars, accessVars, loadVars, GateIInv, GateTypeOK,
                      TablesFollow,
                      RequestsFollow, GateCloses, SamplesFollow, ForceFollows, Stale, Current, Forced
  <2>3. CASE GateNext
    BY <2>1, <2>3, FileStepIInv, AccessStepIInv, OverrideIInv, EnvironmentIInv DEF GateNext
  <2>. QED
    BY <2>1, <2>2, <2>3
<1>. QED
  BY <1>1, <1>2, PTL DEF GateSpec

\* The state of the model is of its types.
THEOREM GateTyped == GateSpec => []GateTypeOK
BY GateInvariant, PTL DEF GateIInv

\* Sampling stops before its addresses or its forced state are out of date.
THEOREM SamplesCurrent == GateSpec => []SamplesAreCurrent
<1>1. GateIInv => SamplesAreCurrent
  BY DEF GateIInv, SamplesFollow, SamplesAreCurrent
<1>. QED
  BY <1>1, GateInvariant, PTL

\* A request bound to an epoch that is served uses the window's present file.
THEOREM RequestsCurrent == GateSpec => RequestsAreCurrent
<1>1. ASSUME GateIInv, Read \/ Write \/ WriteBitfield, req.epoch = "now", Served(gate')
      PROVE  Current(req)
  <2>1. PICK refresh \in BOOLEAN : \E g \in Verdicts(refresh) : connected /\ gate' = g
    BY <1>1 DEF Read, Write, WriteBitfield, Entered, Access, Consult
  <2>. QED
    BY <1>1, <2>1, ServedIsCurrent
<1>2. GateIInv /\ [GateNext]_gateVars =>
        [(Read \/ Write \/ WriteBitfield) /\ req.epoch = "now" /\ Served(gate')
          => Current(req)]_gateVars
  BY <1>1
<1>. QED
  BY <1>2, GateInvariant, PTL DEF GateSpec, RequestsAreCurrent

\* A write to mismatching firmware was allowed by the user for this boot of it.
THEOREM MismatchesApproved == GateSpec => MismatchApproved
<1>1. ASSUME GateIInv, Write \/ WriteBitfield, Served(gate'), gate'.state = "Mismatch"
      PROVE  approved = flash
  <2>1. PICK g \in Verdicts(TRUE) : gate' = g
    BY <1>1 DEF Write, WriteBitfield, Access, Consult
  <2>2. Forced(g)
    BY <1>1, <2>1 DEF Served, Allows
  <2>. QED
    BY <1>1, <2>1, <2>2, VerdictFacts
<1>2. GateIInv /\ [GateNext]_gateVars =>
        [(Write \/ WriteBitfield) /\ Served(gate') /\ gate'.state = "Mismatch"
          => approved = flash]_gateVars
  BY <1>1
<1>. QED
  BY <1>2, GateInvariant, PTL DEF GateSpec, MismatchApproved

-----------------------------------------------------------------------------
(***************************************************************************)
(* FairMutex excludes and serves in order for any number of threads below  *)
(* the width of its counters, wrap-around included.  MutexInv is           *)
(* inductive.                                                              *)
(***************************************************************************)

\* Counting the queued threads.
LEMMA QueuedCount ==
  ASSUME NEW Q \in SUBSET Threads
  PROVE  /\ Cardinality(Q) \in Nat
         /\ Cardinality(Q) < Width
         /\ \A t \in Threads : t \notin Q => Cardinality(Q \cup {t}) = Cardinality(Q) + 1
         /\ \A t \in Q : Cardinality(Q \ {t}) = Cardinality(Q) - 1
<1>1. IsFiniteSet(Q) /\ Cardinality(Q) <= Cardinality(Threads) /\ Cardinality(Threads) \in Nat
  BY MutexAssumption, FS_Subset, FS_CardinalityType
<1>2. Cardinality(Q) \in Nat
  BY <1>1, FS_CardinalityType
<1>. QED
  BY <1>1, <1>2, MutexAssumption, FS_AddElement, FS_RemoveElement

\* The line is no longer than there are threads.
LEMMA LineLength ==
  ASSUME MutexInv
  PROVE  /\ line \in Seq(Threads) /\ Len(line) \in Nat /\ Len(line) < Width
         /\ Width \in Nat
<1>1. Queued \in SUBSET Threads
  BY DEF Queued
<1>2. Len(line) = Cardinality(Queued) /\ line \in Seq(Threads)
  BY DEF MutexInv, MutexTypeOK, TicketsInLine
<1>3. Cardinality(Queued) \in Nat /\ Cardinality(Queued) < Width
  BY <1>1, QueuedCount
<1>. QED
  BY <1>2, <1>3, MutexAssumption

\* Arithmetic of the counters: one step on, and one step back from the front.
LEMMA Wrap ==
  ASSUME NEW x \in Counter, NEW k \in Nat, k < Width
  PROVE  /\ Plus(x, k) \in Counter /\ Inc(x) \in Counter
         /\ k + 1 < Width => Inc(Plus(x, k)) = Plus(x, k + 1)
         /\ k > 0 => Plus(Inc(x), k - 1) = Plus(x, k)
         /\ Plus(x, k) = x <=> k = 0
BY MutexAssumption DEF Counter, Plus, Inc

\* A caller that draws a ticket becomes the last of the line.
LEMMA TicketStep ==
  ASSUME MutexInv, NEW t \in Threads, pc[t] \in {"idle"}, TakeTicket(t), serving' = serving,
         NEW p \in {"asleep", "held"}, pc' = [pc EXCEPT ![t] = p],
         p = "held" <=> next = serving
  PROVE  MutexInv'
<1>. USE DEF TakeTicket
<1>. DEFINE n == Len(line)
<1>0. line \in Seq(Threads) /\ n \in Nat /\ n < Width /\ Width \in Nat
  BY LineLength
<1>1. /\ line' \in Seq(Threads) /\ Len(line') = n + 1
      /\ \A i \in 1 .. n : line'[i] = line[i]
      /\ line'[n + 1] = t
  BY <1>0
<1>2. Queued' = Queued \cup {t} /\ t \notin Queued
  BY DEF MutexInv, MutexTypeOK, Queued
<1>3. Len(line') = Cardinality(Queued') /\ Cardinality(Queued') < Width
  <2>1. Queued \in SUBSET Threads /\ Queued \cup {t} \in SUBSET Threads
    BY DEF Queued
  <2>2. n = Cardinality(Queued)
    BY DEF MutexInv, TicketsInLine
  <2>3. Cardinality(Queued \cup {t}) = Cardinality(Queued) + 1
    BY <1>2, <2>1, QueuedCount
  <2>4. Cardinality(Queued \cup {t}) < Width
    BY <2>1, QueuedCount
  <2>. QED
    BY <1>1, <1>2, <2>2, <2>3, <2>4
<1>4. n + 1 < Width
  BY <1>1, <1>3
<1>5. MutexTypeOK'
  <2>1. next \in Counter /\ Inc(next) \in Counter
    BY MutexAssumption DEF MutexInv, MutexTypeOK, Counter, Inc
  <2>. QED
    BY <1>1, <2>1 DEF MutexInv, MutexTypeOK
<1>6. next' = Plus(serving', Len(line'))
  <2>1. serving \in Counter /\ next = Plus(serving, n)
    BY DEF MutexInv, MutexTypeOK, TicketsInLine
  <2>2. Inc(Plus(serving, n)) = Plus(serving, n + 1)
    BY <1>0, <1>4, <2>1, Wrap
  <2>. QED
    BY <1>1, <2>1, <2>2
<1>7. \A i \in 1 .. n : line[i] # t /\ line[i] \in Threads
  BY <1>0, <1>2 DEF MutexInv, MutexTypeOK, TicketsInLine
<1>8. \A i \in 1 .. n + 1 : my'[line'[i]] = Plus(serving', i - 1)
  <2>1. ASSUME NEW i \in 1 .. n PROVE my'[line'[i]] = Plus(serving', i - 1)
    BY <1>1, <1>7 DEF MutexInv, MutexTypeOK, TicketsInLine
  <2>2. my'[line'[n + 1]] = Plus(serving', n + 1 - 1)
    BY <1>1 DEF MutexInv, MutexTypeOK, TicketsInLine
  <2>. QED
    BY <1>1, <2>1, <2>2
<1>9. \A u \in Queued' : \E i \in 1 .. n + 1 : line'[i] = u
  <2>1. \A u \in Queued : \E i \in 1 .. n : line[i] = u
    BY DEF MutexInv, TicketsInLine
  <2>. QED
    BY <1>1, <1>2, <2>1
<1>10. \A i \in 1 .. n + 1 : line'[i] \in Queued'
  BY <1>1, <1>2 DEF MutexInv, TicketsInLine
<1>11. \A i, j \in 1 .. n + 1 : line'[i] = line'[j] => i = j
  BY <1>1, <1>7, SMTT(30) DEF MutexInv, TicketsInLine
<1>12. HolderServed'
  BY DEF MutexInv, MutexTypeOK, HolderServed
<1>. QED
  BY <1>1, <1>3, <1>5, <1>6, <1>8, <1>9, <1>10, <1>11, <1>12 DEF MutexInv, TicketsInLine

\* The holder is the head of the line, and there is one.
LEMMA HolderIsHead ==
  ASSUME MutexInv, NEW t \in Threads, my[t] = serving, t \in Queued
  PROVE  line # << >> /\ line[1] = t
<1>1. PICK i \in 1 .. Len(line) : line[i] = t
  BY DEF MutexInv, TicketsInLine
<1>2. i - 1 \in Nat /\ i - 1 < Width
  BY <1>1, LineLength
<1>3. Plus(serving, i - 1) = serving
  BY <1>1 DEF MutexInv, TicketsInLine
<1>4. i = 1
  <2>1. serving \in Counter
    BY DEF MutexInv, MutexTypeOK
  <2>2. i - 1 = 0
    BY <1>2, <1>3, <2>1, Wrap
  <2>. QED
    BY <1>1, <2>2
<1>. QED
  BY <1>1, <1>4

\* The holder that leaves was the head of the line.
LEMMA UnlockStep ==
  ASSUME MutexInv, NEW t \in Threads, Unlock(t)
  PROVE  MutexInv'
<1>. USE DEF Unlock
<1>. DEFINE n == Len(line)
<1>1. t \in Queued /\ line # << >> /\ line[1] = t
  BY HolderIsHead DEF MutexInv, HolderServed, Queued
<1>2. /\ n \in Nat /\ n > 0 /\ n < Width
      /\ line' \in Seq(Threads) /\ Len(line') = n - 1
      /\ \A i \in 1 .. n - 1 : line'[i] = line[i + 1]
  BY <1>1, LineLength
<1>3. Queued' = Queued \ {t}
  BY DEF MutexInv, MutexTypeOK, Queued
<1>4. Len(line') = Cardinality(Queued')
  <2>1. Queued \in SUBSET Threads
    BY DEF Queued
  <2>2. n = Cardinality(Queued)
    BY DEF MutexInv, TicketsInLine
  <2>3. Cardinality(Queued \ {t}) = Cardinality(Queued) - 1
    BY <1>1, <2>1, QueuedCount
  <2>. QED
    BY <1>2, <1>3, <2>2, <2>3
<1>5. MutexTypeOK'
  BY <1>2, Wrap, MutexAssumption DEF MutexInv, MutexTypeOK
<1>6. next' = Plus(serving', Len(line'))
  <2>1. serving \in Counter /\ next = Plus(serving, n)
    BY DEF MutexInv, MutexTypeOK, TicketsInLine
  <2>2. Plus(Inc(serving), n - 1) = Plus(serving, n)
    BY <1>2, <2>1, Wrap
  <2>. QED
    BY <1>2, <2>1, <2>2
<1>7. \A i \in 1 .. n - 1 : my'[line'[i]] = Plus(serving', i - 1)
  <2>. SUFFICES ASSUME NEW i \in 1 .. n - 1 PROVE my'[line'[i]] = Plus(serving', i - 1)
    OBVIOUS
  <2>1. my'[line'[i]] = Plus(serving, i)
    BY <1>2 DEF MutexInv, MutexTypeOK, TicketsInLine
  <2>2. i \in Nat /\ i < Width /\ i > 0 /\ serving \in Counter
    BY <1>2, MutexAssumption DEF MutexInv, MutexTypeOK
  <2>3. Plus(Inc(serving), i - 1) = Plus(serving, i)
    BY <2>2, Wrap
  <2>. QED
    BY <2>1, <2>3
<1>8. \A u \in Queued' : \E i \in 1 .. n - 1 : line'[i] = u
  <2>. SUFFICES ASSUME NEW u \in Queued' PROVE \E i \in 1 .. n - 1 : line'[i] = u
    OBVIOUS
  <2>1. PICK j \in 1 .. n : line[j] = u
    BY <1>3 DEF MutexInv, TicketsInLine
  <2>2. j # 1
    BY <1>1, <1>3, <2>1
  <2>3. j - 1 \in 1 .. n - 1 /\ line'[j - 1] = u
    BY <1>2, <2>1, <2>2
  <2>. QED
    BY <2>3
<1>9. \A i \in 1 .. n - 1 : line'[i] \in Queued'
  <2>. SUFFICES ASSUME NEW i \in 1 .. n - 1 PROVE line'[i] \in Queued'
    OBVIOUS
  <2>1. i + 1 \in 1 .. n /\ 1 \in 1 .. n /\ i + 1 # 1
    BY <1>2
  <2>2. line[i + 1] \in Queued /\ line[i + 1] # line[1]
    BY <2>1 DEF MutexInv, TicketsInLine
  <2>. QED
    BY <1>1, <1>2, <1>3, <2>2
<1>10. \A i, j \in 1 .. n - 1 : line'[i] = line'[j] => i = j
  <2>. SUFFICES ASSUME NEW i \in 1 .. n - 1, NEW j \in 1 .. n - 1, line'[i] = line'[j]
                PROVE  i = j
    OBVIOUS
  <2>1. i + 1 \in 1 .. n /\ j + 1 \in 1 .. n /\ line[i + 1] = line[j + 1]
    BY <1>2
  <2>. QED
    BY <2>1 DEF MutexInv, TicketsInLine
<1>11. HolderServed'
  <2>1. \A u \in Threads : pc[u] = "held" => u = t
    BY <1>1, HolderIsHead DEF MutexInv, HolderServed, Queued
  <2>. QED
    BY <2>1 DEF MutexInv, MutexTypeOK, HolderServed
<1>. QED
  BY <1>2, <1>4, <1>5, <1>6, <1>7, <1>8, <1>9, <1>10, <1>11 DEF MutexInv, TicketsInLine

\* Sleeping, waking and notifying move nobody in the line.
LEMMA WaitStep ==
  ASSUME MutexInv, NEW t \in Threads, WakeUp(t) \/ TestAgain(t) \/ NotifyAll(t)
  PROVE  MutexInv'
<1>1. MutexTypeOK' /\ Queued' = Queued /\ HolderServed'
  BY DEF MutexInv, MutexTypeOK, WakeUp, TestAgain, NotifyAll, Queued, HolderServed
<1>2. UNCHANGED <<next, serving, my, line>>
  BY DEF WakeUp, TestAgain, NotifyAll
<1>3. TicketsInLine'
  BY <1>1, <1>2 DEF MutexInv, TicketsInLine, Plus
<1>. QED
  BY <1>1, <1>3 DEF MutexInv

\* Line and tickets agree in every reachable state.
THEOREM TicketsInductive == MutexSpec => []MutexInv
<1>1. MutexInit => MutexInv
  <2>. SUFFICES ASSUME MutexInit PROVE MutexInv
    OBVIOUS
  <2>1. MutexTypeOK /\ HolderServed
    BY MutexAssumption, QueuedCount DEF MutexInit, MutexTypeOK, Counter, HolderServed
  <2>2. Queued = {} /\ Len(line) = 0
    BY DEF MutexInit, Queued
  <2>3. TicketsInLine
    BY <2>2, FS_EmptySet, MutexAssumption, FS_CardinalityType DEF MutexInit, TicketsInLine, Plus
  <2>. QED
    BY <2>1, <2>3 DEF MutexInv
<1>2. MutexInv /\ [MutexNext]_mutexVars => MutexInv'
  <2>1. ASSUME MutexInv, NEW t \in Threads, Lock(t) PROVE MutexInv'
    <3>1. CASE serving = next
      BY <2>1, <3>1, TicketStep DEF Lock
    <3>2. CASE serving # next
      BY <2>1, <3>2, TicketStep DEF Lock
    <3>. QED
      BY <3>1, <3>2
  <2>2. ASSUME MutexInv, NEW t \in Threads, TryLock(t) PROVE MutexInv'
    BY <2>2, TicketStep DEF TryLock
  <2>3. ASSUME MutexInv, UNCHANGED mutexVars PROVE MutexInv'
    BY <2>3 DEF mutexVars, MutexInv, MutexTypeOK, TicketsInLine, Queued, HolderServed, Plus
  <2>. QED
    BY <2>1, <2>2, <2>3, UnlockStep, WaitStep DEF MutexNext
<1>. QED
  BY <1>1, <1>2, PTL DEF MutexSpec

\* At most one thread is inside, whatever the counters wrap to.
THEOREM MutexExcludes == MutexSpec => []MutualExclusion
<1>1. MutexInv => MutualExclusion
  BY HolderIsHead DEF MutexInv, HolderServed, Queued, MutualExclusion
<1>. QED
  BY <1>1, TicketsInductive, PTL

Inside == {t \in Threads : pc[t] = "held"}

\* The critical section is empty, or holds exactly the head of the line.
LEMMA InsideHead ==
  ASSUME MutexInv
  PROVE  \A t \in Inside : line # << >> /\ Head(line) = t /\ Inside = {t}
<1>1. \A t \in Inside : line # << >> /\ line[1] = t
  BY HolderIsHead DEF MutexInv, HolderServed, Queued, Inside
<1>2. \A t \in Inside : Inside = {t}
  BY <1>1
<1>. QED
  BY <1>1, <1>2

\* The ticket lock implements the first-come-first-served lock.
THEOREM MutexIsFair == MutexSpec => FirstComeFirstServed
<1>1. MutexInit => Fifo!Init
  BY DEF MutexInit, Fifo!Init
<1>2. MutexInv /\ [MutexNext]_mutexVars => [Fifo!Next]_<<line, Inside>>
  <2>. SUFFICES ASSUME MutexInv, [MutexNext]_mutexVars
                PROVE  Fifo!Next \/ (line' = line /\ Inside' = Inside)
    OBVIOUS
  <2>1. next = serving <=> line = << >>
    <3>1. Len(line) \in Nat /\ Len(line) < Width
      BY LineLength
    <3>2. next = serving <=> Len(line) = 0
      BY <3>1, Wrap DEF MutexInv, MutexTypeOK, TicketsInLine
    <3>. QED
      BY <3>2 DEF MutexInv, MutexTypeOK
  <2>2. ASSUME NEW t \in Threads, Lock(t) \/ TryLock(t) PROVE Fifo!Next
    <3>1. \A i \in DOMAIN line : line[i] # t
      <4>1. DOMAIN line = 1 .. Len(line) /\ t \notin Queued
        BY <2>2 DEF MutexInv, MutexTypeOK, Lock, TryLock, Queued
      <4>. QED
        BY <4>1 DEF MutexInv, TicketsInLine
    <3>2. line' = Append(line, t)
      BY <2>2 DEF Lock, TryLock, TakeTicket
    <3>3. CASE line = << >>
      <4>1. Inside = {}
        BY <3>3, InsideHead
      <4>2. Inside' = {t}
        BY <2>1, <2>2, <3>3, <4>1 DEF Lock, TryLock, Inside, MutexInv, MutexTypeOK
      <4>. QED
        BY <3>1, <3>2, <3>3, <4>2 DEF Fifo!Next, Fifo!Join, Inside
    <3>4. CASE line # << >>
      <4>1. Inside' = Inside
        BY <2>1, <2>2, <3>4 DEF Lock, TryLock, Inside, MutexInv, MutexTypeOK
      <4>. QED
        BY <3>1, <3>2, <3>4, <4>1 DEF Fifo!Next, Fifo!Join, Inside
    <3>. QED
      BY <3>3, <3>4
  <2>3. ASSUME NEW t \in Threads, WakeUp(t) \/ NotifyAll(t)
        PROVE  line' = line /\ Inside' = Inside
    BY <2>3 DEF WakeUp, NotifyAll, Inside, MutexInv, MutexTypeOK
  <2>4. ASSUME NEW t \in Threads, TestAgain(t)
        PROVE  Fifo!Next \/ (line' = line /\ Inside' = Inside)
    <3>1. CASE serving = my[t]
      <4>1. line # << >> /\ Head(line) = t
        BY <2>4, <3>1, HolderIsHead DEF TestAgain, Queued
      <4>2. Inside = {} /\ Inside' = {t} /\ line' = line
        BY <2>4, <3>1, <4>1, InsideHead DEF TestAgain, Inside, MutexInv, MutexTypeOK
      <4>. QED
        BY <4>1, <4>2 DEF Fifo!Next, Fifo!Enter, Inside
    <3>2. CASE serving # my[t]
      BY <2>4, <3>2 DEF TestAgain, Inside, MutexInv, MutexTypeOK
    <3>. QED
      BY <3>1, <3>2
  <2>5. ASSUME NEW t \in Threads, Unlock(t) PROVE Fifo!Next
    <3>1. t \in Inside
      BY <2>5 DEF Unlock, Inside
    <3>2. Inside = {Head(line)} /\ line # << >> /\ Inside = {t}
      BY <3>1, InsideHead
    <3>3. Inside' = {} /\ line' = Tail(line)
      BY <2>5, <3>2 DEF Unlock, Inside, MutexInv, MutexTypeOK
    <3>. QED
      BY <3>2, <3>3 DEF Fifo!Next, Fifo!Leave, Inside
  <2>6. CASE UNCHANGED mutexVars
    BY <2>6 DEF mutexVars, Inside
  <2>. QED
    BY <2>2, <2>3, <2>4, <2>5, <2>6 DEF MutexNext
<1>3. [Fifo!Next]_<<line, Inside>> => [Fifo!Next]_<<line, {t \in Threads : pc[t] = "held"}>>
  BY DEF Inside
<1>. QED
  BY <1>1, <1>2, <1>3, TicketsInductive, PTL DEF MutexSpec, FirstComeFirstServed, Fifo!Spec
=============================================================================
