----------------------------- MODULE PeerServer -----------------------------
(***************************************************************************)
(* The sharing side of the AVA peer protocol (ava_peer::Server, one        *)
(* Session per accepted connection) together with the physical J-Link      *)
(* backend it exports (JLinkPort::startDeviceSharing) and with the local   *)
(* threads that use the same probe.                                        *)
(*                                                                         *)
(* Two mutexes order everything: `ownership`, the process-wide recursive   *)
(* mutex that a WriteGuard also takes, and the probe's I/O mutex mtx_.     *)
(* The epochs and the connected flag are atomics that device() and the     *)
(* backend lambdas read with no lock at all, so every load and every       *)
(* increment of them is a step of its own.                                 *)
(***************************************************************************)
EXTENDS Naturals, FiniteSets

CONSTANTS
  Sessions,     \* session ids; an id is used once, as sessionCounter only grows
  Locals,       \* threads of the sharing process that use the probe directly
  None,         \* the value 0 of `owner`, and a free mutex
  Workers,      \* size of the worker pool (8 in Server::start)
  MaxEpoch,     \* bound: device generations
  MaxSwitch     \* bound: moves of targetEpoch_ that leave the device alone

ASSUME ServerAssumption ==
  /\ None \notin Sessions \cup Locals
  /\ Sessions \cap Locals = {}
  /\ IsFiniteSet(Sessions)
  /\ Workers \in Nat \ {0}
  /\ MaxEpoch \in Nat \ {0}
  /\ MaxSwitch \in Nat

Threads == Sessions \cup Locals

VARIABLES
  srv,          \* progress of Server::start / Server::stop
  allowWrites,  \* the "allow remote control" switch passed to Server::start
  listening,    \* the listener socket accepts
  clients,      \* Impl::clients, the sockets stop() will shut
  dead,         \* sockets shut by stop(), or whose peer has vanished
  viewers,      \* Impl::authenticated
  pc,           \* where each thread is
  op,           \* the operation each thread is executing
  req,          \* the epoch carried by the session's current request
  tgt,          \* targetEpoch_ as loaded by the backend lambda
  got,          \* generation of the bytes a read will answer with, 0 if none
  ownership,    \* holder of the ownership mutex
  owner,        \* the session that holds control of the device
  io,           \* holder of JLinkPort::mtx_
  targetEpoch, deviceEpoch, connected,
  gen           \* history: the generation of the physical target

netVars   == <<srv, allowWrites, listening, clients, dead, viewers>>
localVars == <<op, req, tgt, got>>
devVars   == <<targetEpoch, deviceEpoch, connected, gen>>
vars      == <<netVars, pc, localVars, ownership, owner, io, devVars>>

Epochs  == 0 .. MaxEpoch
Targets == 0 .. MaxEpoch + MaxSwitch
Ops     == {"none", "read", "write", "reset", "connect"}
NetPcs  == {"unborn", "accepted", "pairing", "loop", "idle", "reply",
            "ending", "closing", "leaving", "ended"}
WorkPcs == {"check1", "ready1", "lock", "check2", "ready2", "target", "device",
            "enter", "access", "bumpT", "bumpD", "lostT", "lostD", "lostC"}

Live(s) == pc[s] \notin {"unborn", "ended"}

Init ==
  /\ srv = "running" /\ listening = TRUE /\ allowWrites \in BOOLEAN
  /\ clients = {} /\ dead = {} /\ viewers = 0
  /\ pc  = [t \in Threads |-> IF t \in Sessions THEN "unborn" ELSE "idle"]
  /\ op  = [t \in Threads |-> "none"]
  /\ req = [s \in Sessions |-> 0]
  /\ tgt = [s \in Sessions |-> 0]
  /\ got = [s \in Sessions |-> 0]
  /\ ownership = None /\ owner = None /\ io = None
  /\ targetEpoch = 1 /\ deviceEpoch = 1 /\ connected = TRUE /\ gen = 1

Goto(t, where) == pc' = [pc EXCEPT ![t] = where]

-----------------------------------------------------------------------------
(* The life of a connection: a pool worker accepts, registers the socket,  *)
(* pairs, then alternates between receiving a request and answering it.    *)

Accept(s) ==
  /\ listening /\ pc[s] = "unborn"
  /\ Cardinality({x \in Sessions : Live(x)}) < Workers
  /\ Goto(s, "accepted")
  /\ UNCHANGED <<netVars, localVars, ownership, owner, io, devVars>>

Register(s) ==
  /\ pc[s] = "accepted"
  /\ clients' = clients \cup {s}
  /\ Goto(s, "pairing")
  /\ UNCHANGED <<srv, allowWrites, listening, dead, viewers, localVars,
                 ownership, owner, io, devVars>>

Pair(s) ==
  /\ pc[s] = "pairing" /\ s \notin dead
  /\ viewers' = viewers + 1
  /\ Goto(s, "loop")
  /\ UNCHANGED <<srv, allowWrites, listening, clients, dead, localVars,
                 ownership, owner, io, devVars>>

\* Wrong proof, peer lost, 5 s without an answer, or socket shut by stop().
PairFails(s) ==
  /\ pc[s] = "pairing"
  /\ Goto(s, "closing")
  /\ UNCHANGED <<netVars, localVars, ownership, owner, io, devVars>>

\* while (alive): stop() clears alive before anything else.
NextRequest(s) ==
  /\ pc[s] = "loop"
  /\ Goto(s, IF srv = "running" THEN "idle" ELSE "ending")
  /\ UNCHANGED <<netVars, localVars, ownership, owner, io, devVars>>

\* A request bound to an epoch the server reported at some time.
Request(s, o, e) ==
  /\ pc[s] = "idle" /\ s \notin dead
  /\ e \in 1 .. deviceEpoch
  /\ op'  = [op EXCEPT ![s] = o]
  /\ req' = [req EXCEPT ![s] = e]
  /\ got' = [got EXCEPT ![s] = 0]
  /\ Goto(s, "check1")
  /\ UNCHANGED <<netVars, tgt, ownership, owner, io, devVars>>

\* receive() throws: end of stream, 5 s timeout, bad MAC or sequence.
ReceiveFails(s) ==
  /\ pc[s] = "idle"
  /\ Goto(s, "ending")
  /\ UNCHANGED <<netVars, localVars, ownership, owner, io, devVars>>

Reply(s) ==
  /\ pc[s] = "reply"
  /\ Goto(s, "loop") \/ Goto(s, "ending")
  /\ req' = [req EXCEPT ![s] = 0]
  /\ tgt' = [tgt EXCEPT ![s] = 0]
  /\ got' = [got EXCEPT ![s] = 0]
  /\ UNCHANGED <<netVars, op, ownership, owner, io, devVars>>

\* --authenticated, for a session that had been paired.
LeaveViewers(s) ==
  /\ pc[s] = "ending"
  /\ viewers' = viewers - 1
  /\ Goto(s, "closing")
  /\ UNCHANGED <<srv, allowWrites, listening, clients, dead, localVars,
                 ownership, owner, io, devVars>>

\* ~Session gives up the control lease.
EndSession(s) ==
  /\ pc[s] = "closing" /\ ownership = None
  /\ owner' = IF owner = s THEN None ELSE owner
  /\ Goto(s, "leaving")
  /\ UNCHANGED <<netVars, localVars, ownership, io, devVars>>

Unregister(s) ==
  /\ pc[s] = "leaving"
  /\ clients' = clients \ {s} /\ dead' = dead \ {s}
  /\ Goto(s, "ended")
  /\ UNCHANGED <<srv, allowWrites, listening, viewers, localVars,
                 ownership, owner, io, devVars>>

PeerVanishes(s) ==
  /\ Live(s) /\ s \notin dead
  /\ dead' = dead \cup {s}
  /\ UNCHANGED <<srv, allowWrites, listening, clients, viewers, pc, localVars,
                 ownership, owner, io, devVars>>

-----------------------------------------------------------------------------
(* The lease: operation "claim" with acquire = true or false.              *)

Claim(s) ==
  /\ pc[s] = "idle" /\ s \notin dead
  /\ ownership = None
  /\ owner' = IF allowWrites /\ owner = None THEN s ELSE owner
  /\ Goto(s, "reply")
  /\ UNCHANGED <<netVars, localVars, ownership, io, devVars>>

Release(s) ==
  /\ pc[s] = "idle" /\ s \notin dead
  /\ ownership = None
  /\ owner' = IF owner = s THEN None ELSE owner
  /\ Goto(s, "reply")
  /\ UNCHANGED <<netVars, localVars, ownership, io, devVars>>

-----------------------------------------------------------------------------
(* read, write and reset.  Session::check loads deviceEpoch_, then the     *)
(* connected flag; a write repeats it under the ownership mutex, a read    *)
(* repeats it once it has its bytes.                                       *)

\* The operation is over: give back the ownership mutex if this thread has it.
Answer(t) ==
  /\ ownership' = IF ownership = t THEN None ELSE ownership
  /\ op' = [op EXCEPT ![t] = "none"]
  /\ Goto(t, IF t \in Sessions THEN "reply" ELSE "idle")

Proceed(t, where) ==
  /\ Goto(t, where)
  /\ UNCHANGED <<ownership, op>>

\* An exception in dispatch turns whatever was read into an error answer.
Refuse(s) ==
  /\ Answer(s)
  /\ got' = [got EXCEPT ![s] = 0]

CheckEpoch(s) ==
  /\ pc[s] \in {"check1", "check2"}
  /\ IF deviceEpoch = req[s]
     THEN /\ Proceed(s, IF pc[s] = "check1" THEN "ready1" ELSE "ready2")
          /\ UNCHANGED got
     ELSE Refuse(s)
  /\ UNCHANGED <<netVars, req, tgt, owner, io, devVars>>

CheckReady(s) ==
  /\ pc[s] \in {"ready1", "ready2"}
  /\ \/ /\ connected /\ pc[s] = "ready1"
        /\ Proceed(s, IF op[s] = "read" THEN "target" ELSE "lock")
        /\ UNCHANGED got
     \/ /\ connected /\ pc[s] = "ready2" /\ op[s] = "write"
        /\ Proceed(s, "target")
        /\ UNCHANGED got
     \/ /\ connected /\ pc[s] = "ready2" /\ op[s] = "read"
        /\ Answer(s)
        /\ UNCHANGED got
     \/ ~connected /\ Refuse(s)
  /\ UNCHANGED <<netVars, req, tgt, owner, io, devVars>>

\* write and reset hold `ownership` from the owner test to their end.
LockOwnership(s) ==
  /\ pc[s] = "lock" /\ ownership = None
  /\ IF owner = s /\ allowWrites
     THEN /\ ownership' = s
          /\ Goto(s, IF op[s] = "write" THEN "check2" ELSE "target")
          /\ UNCHANGED op
     ELSE Answer(s)
  /\ UNCHANGED <<netVars, req, tgt, got, owner, io, devVars>>

\* The three backend lambdas: target = targetEpoch_.load(), then the test
\* epoch == deviceEpoch_.load().
LoadTarget(s) ==
  /\ pc[s] = "target"
  /\ tgt' = [tgt EXCEPT ![s] = targetEpoch]
  /\ Goto(s, "device")
  /\ UNCHANGED <<netVars, op, req, got, ownership, owner, io, devVars>>

CompareDevice(s) ==
  /\ pc[s] = "device"
  /\ IF deviceEpoch = req[s]
     THEN Proceed(s, "enter")
     ELSE Answer(s)
  /\ UNCHANGED <<netVars, req, tgt, got, owner, io, devVars>>

\* readMemAtEpoch, writeMemAtEpoch and resetTarget take mtx_ and then test
\* the connection and the epoch; the firmware gate may refuse as well.
EnterProbe(s) ==
  /\ pc[s] = "enter" /\ s \in Sessions /\ io = None
  /\ \/ /\ connected /\ targetEpoch = tgt[s]
        /\ op[s] = "reset" => gen < MaxEpoch
        /\ io' = s
        /\ Proceed(s, "access")
     \/ Answer(s) /\ UNCHANGED io
  /\ UNCHANGED <<netVars, req, tgt, got, owner, devVars>>

ReadMemoryUnchecked(s) ==        \* broken variant: no check after the read
  /\ pc[s] = "access" /\ s \in Sessions /\ op[s] = "read"
  /\ got' = [got EXCEPT ![s] = gen]
  /\ io' = None
  /\ Answer(s)
  /\ UNCHANGED <<netVars, req, tgt, owner, devVars>>

ReadMemory(s) ==
  /\ pc[s] = "access" /\ s \in Sessions /\ op[s] = "read"
  /\ got' = [got EXCEPT ![s] = gen]
  /\ io' = None
  /\ Goto(s, "check2")
  /\ UNCHANGED <<netVars, op, req, tgt, ownership, owner, devVars>>

\* WriteMemEx, a local read, or an SDK error below the failure limit.
FinishAccess(t) ==
  /\ pc[t] = "access"
  /\ t \in Sessions => op[t] # "reset"
  /\ t \in Locals   => op[t] \in {"read", "write"}
  /\ io' = None
  /\ Answer(t)
  /\ UNCHANGED <<netVars, req, tgt, got, owner, devVars>>

\* JLINKARM_Reset: from here on the memory belongs to the next generation.
ResetTarget(t) ==
  /\ pc[t] = "access" /\ op[t] = "reset"
  /\ gen' = gen + 1
  /\ Goto(t, "bumpT")
  /\ UNCHANGED <<netVars, localVars, ownership, owner, io,
                 targetEpoch, deviceEpoch, connected>>

BumpTarget(t) ==
  /\ pc[t] = "bumpT"
  /\ targetEpoch' = targetEpoch + 1
  /\ Goto(t, "bumpD")
  /\ UNCHANGED <<netVars, localVars, ownership, owner, io,
                 deviceEpoch, connected, gen>>

BumpDeviceForgotten(t) ==        \* broken variant: peers see no new epoch
  /\ pc[t] = "bumpD"
  /\ io' = None
  /\ Answer(t)
  /\ UNCHANGED <<netVars, req, tgt, got, owner, devVars>>

BumpDevice(t) ==
  /\ pc[t] = "bumpD"
  /\ deviceEpoch' = deviceEpoch + 1
  /\ io' = None
  /\ Answer(t)
  /\ UNCHANGED <<netVars, req, tgt, got, owner, targetEpoch, connected, gen>>

\* recordTransportResultLocked at the failure limit, with mtx_ held: both
\* epochs first, the flags last.
TransportLost(t) ==
  /\ pc[t] = "access" /\ op[t] \in {"read", "write"}
  /\ gen < MaxEpoch
  /\ gen' = gen + 1
  /\ Goto(t, "lostT")
  /\ UNCHANGED <<netVars, localVars, ownership, owner, io,
                 targetEpoch, deviceEpoch, connected>>

LostTarget(t) ==
  /\ pc[t] = "lostT"
  /\ targetEpoch' = targetEpoch + 1
  /\ Goto(t, "lostD")
  /\ UNCHANGED <<netVars, localVars, ownership, owner, io,
                 deviceEpoch, connected, gen>>

LostDevice(t) ==
  /\ pc[t] = "lostD"
  /\ deviceEpoch' = deviceEpoch + 1
  /\ Goto(t, "lostC")
  /\ UNCHANGED <<netVars, localVars, ownership, owner, io,
                 targetEpoch, connected, gen>>

LostConnection(t) ==
  /\ pc[t] = "lostC"
  /\ connected' = FALSE
  /\ io' = None
  /\ Answer(t)
  /\ UNCHANGED <<netVars, req, tgt, got, owner, targetEpoch, deviceEpoch, gen>>

-----------------------------------------------------------------------------
(* The sharing process's own threads.                                      *)

\* Broken variant: the guard is a temporary, destroyed before the operation
\* it should cover.
LocalGuardTemporary(l, o) ==
  /\ pc[l] = "idle" /\ ownership = None /\ owner = None
  /\ op' = [op EXCEPT ![l] = o]
  /\ Goto(l, "enter")
  /\ UNCHANGED <<netVars, req, tgt, got, ownership, owner, io, devVars>>

\* writeMem, resetTarget and connect start with a WriteGuard, which is
\* refused while a remote session owns the device.
LocalGuard(l, o) ==
  /\ pc[l] = "idle" /\ ownership = None /\ owner = None
  /\ ownership' = l
  /\ op' = [op EXCEPT ![l] = o]
  /\ Goto(l, "enter")
  /\ UNCHANGED <<netVars, req, tgt, got, owner, io, devVars>>

\* readMem takes mtx_ only.
LocalRead(l) ==
  /\ pc[l] = "idle" /\ io = None /\ connected
  /\ io' = l
  /\ op' = [op EXCEPT ![l] = "read"]
  /\ Goto(l, "access")
  /\ UNCHANGED <<netVars, req, tgt, got, ownership, owner, devVars>>

LocalEnter(l) ==
  /\ pc[l] = "enter" /\ l \in Locals /\ io = None
  /\ \/ /\ connected \/ op[l] = "connect"
        /\ op[l] # "write" => gen < MaxEpoch
        /\ io' = l
        /\ Proceed(l, "access")
     \/ Answer(l) /\ UNCHANGED io
  /\ UNCHANGED <<netVars, req, tgt, got, owner, devVars>>

\* JLINKARM_Connect succeeds: the flag is set before the epochs move.
ConnectTarget(l) ==
  /\ pc[l] = "access" /\ op[l] = "connect"
  /\ gen' = gen + 1
  /\ connected' = TRUE
  /\ Goto(l, "bumpT")
  /\ UNCHANGED <<netVars, localVars, ownership, owner, io,
                 targetEpoch, deviceEpoch>>

\* resetSdk(): any failing SDK call drops the session.
ConnectFails(l) ==
  /\ pc[l] = "access" /\ op[l] = "connect"
  /\ connected' = FALSE
  /\ io' = None
  /\ Answer(l)
  /\ UNCHANGED <<netVars, req, tgt, got, owner, targetEpoch, deviceEpoch, gen>>

\* close() takes mtx_ but no WriteGuard, and moves no epoch.
CloseProbe(l) ==
  /\ pc[l] = "idle" /\ io = None /\ connected
  /\ connected' = FALSE
  /\ UNCHANGED <<netVars, pc, localVars, ownership, owner, io,
                 targetEpoch, deviceEpoch, gen>>

\* connectRemoteDevice and selectLocalDevice move targetEpoch_ without mtx_,
\* and so may a new symbol file or an expired firmware override.
SwitchSource(l) ==
  /\ pc[l] = "idle"
  /\ targetEpoch < deviceEpoch + MaxSwitch
  /\ targetEpoch' = targetEpoch + 1
  /\ UNCHANGED <<netVars, pc, localVars, ownership, owner, io,
                 deviceEpoch, connected, gen>>

-----------------------------------------------------------------------------
(* Server::stop, then Server::start again.                                 *)

StopBegins ==
  /\ srv = "running"
  /\ srv' = "notAlive"
  /\ UNCHANGED <<allowWrites, listening, clients, dead, viewers, pc, localVars,
                 ownership, owner, io, devVars>>

ShutListener ==
  /\ srv = "notAlive"
  /\ srv' = "deaf" /\ listening' = FALSE
  /\ UNCHANGED <<allowWrites, clients, dead, viewers, pc, localVars,
                 ownership, owner, io, devVars>>

ShutClientsForgotten ==          \* broken variant: only the listener is shut
  /\ srv = "deaf"
  /\ srv' = "joining"
  /\ UNCHANGED <<allowWrites, listening, clients, dead, viewers, pc, localVars,
                 ownership, owner, io, devVars>>

ShutClients ==
  /\ srv = "deaf"
  /\ srv' = "joining" /\ dead' = dead \cup clients
  /\ UNCHANGED <<allowWrites, listening, clients, viewers, pc, localVars,
                 ownership, owner, io, devVars>>

\* All workers joined: only now is the backend released.
JoinWorkers ==
  /\ srv = "joining"
  /\ \A s \in Sessions : ~Live(s)
  /\ srv' = "stopped"
  /\ UNCHANGED <<allowWrites, listening, clients, dead, viewers, pc, localVars,
                 ownership, owner, io, devVars>>

Restart ==
  /\ srv = "stopped"
  /\ srv' = "running" /\ listening' = TRUE /\ allowWrites' \in BOOLEAN
  /\ UNCHANGED <<clients, dead, viewers, pc, localVars,
                 ownership, owner, io, devVars>>

-----------------------------------------------------------------------------
(* Steps that the scheduler owes a session or a local thread.              *)
SessionStep(s) ==
  \/ Register(s) \/ PairFails(s) \/ NextRequest(s) \/ Reply(s)
  \/ LeaveViewers(s) \/ Unregister(s) \/ CheckEpoch(s) \/ CheckReady(s)
  \/ LoadTarget(s) \/ CompareDevice(s) \/ ReadMemory(s)

\* Steps inside the I/O critical section, for sessions and local threads.
ProbeStep(t) ==
  \/ FinishAccess(t) \/ BumpTarget(t) \/ BumpDevice(t)
  \/ LostTarget(t) \/ LostDevice(t) \/ LostConnection(t)

\* Steps that must first win a mutex.
LockStep(t) ==
  \/ /\ t \in Sessions
     /\ EndSession(t) \/ LockOwnership(t) \/ EnterProbe(t)
  \/ t \in Locals /\ LocalEnter(t)

PeerStep(s) ==
  \/ Accept(s) \/ Pair(s) \/ ReceiveFails(s) \/ PeerVanishes(s)
  \/ Claim(s) \/ Release(s)
  \/ \E o \in {"read", "write", "reset"}, e \in 1 .. MaxEpoch : Request(s, o, e)

LocalStep(l) ==
  \/ \E o \in {"write", "reset", "connect"} : LocalGuard(l, o)
  \/ LocalRead(l) \/ ConnectTarget(l) \/ ConnectFails(l)
  \/ CloseProbe(l) \/ SwitchSource(l)

StopStep == StopBegins \/ ShutListener \/ ShutClients \/ JoinWorkers \/ Restart

Next ==
  \/ \E s \in Sessions : SessionStep(s) \/ PeerStep(s)
  \/ \E t \in Threads : ProbeStep(t) \/ LockStep(t) \/ ResetTarget(t) \/ TransportLost(t)
  \/ \E l \in Locals : LocalStep(l)
  \/ StopStep

Spec == Init /\ [][Next]_vars

(* The scheduler runs every thread, neither mutex starves one waiter for   *)
(* ever (FairMutex is a ticket lock, `ownership` leaves it to the OS), a   *)
(* dead socket ends its receive (5 s deadline) and a stop() in progress    *)
(* goes on.  Peers and users owe nothing.                                  *)
ThreadStep(t) ==
  \/ ProbeStep(t) \/ ResetTarget(t)
  \/ /\ t \in Sessions
     /\ SessionStep(t) \/ (t \in dead /\ ReceiveFails(t))
  \/ t \in Locals /\ ConnectFails(t)

Fairness ==
  /\ \A t \in Threads : WF_vars(ThreadStep(t)) /\ SF_vars(LockStep(t))
  /\ WF_vars(ShutListener \/ ShutClients \/ JoinWorkers)

FairSpec == Spec /\ Fairness

-----------------------------------------------------------------------------
(* Properties.                                                             *)

TypeOK ==
  /\ srv \in {"running", "notAlive", "deaf", "joining", "stopped"}
  /\ allowWrites \in BOOLEAN /\ listening \in BOOLEAN /\ connected \in BOOLEAN
  /\ clients \subseteq Sessions /\ dead \subseteq Sessions
  /\ viewers \in Nat
  /\ pc  \in [Threads -> NetPcs \cup WorkPcs]
  /\ op  \in [Threads -> Ops]
  /\ req \in [Sessions -> Epochs]
  /\ tgt \in [Sessions -> Targets]
  /\ got \in [Sessions -> Epochs]
  /\ ownership \in Threads \cup {None} /\ io \in Threads \cup {None}
  /\ owner \in Sessions \cup {None}
  /\ targetEpoch \in Targets /\ deviceEpoch \in Epochs /\ gen \in Epochs

\* A thread between taking mtx_ for an operation that alters the target and
\* giving it back.
Touching(t) == pc[t] \in {"access", "bumpT", "bumpD", "lostT", "lostD", "lostC"}
Writing(t)  == Touching(t) /\ op[t] \in {"write", "reset", "connect"}

\* The control lease is only ever held by a paired session that is still
\* served: no disconnect, failed frame, or stop() leaves it behind.
LeaseHolderLive ==
  owner # None => pc[owner] \notin {"unborn", "accepted", "pairing", "leaving", "ended"}

\* One writer: while a session alters the target it holds the lease, sharing
\* permits it, and no local thread alters the target; while a local thread
\* does, nobody holds the lease.
ControlExclusive ==
  \A t \in Threads : Writing(t) =>
    /\ IF t \in Sessions THEN owner = t /\ allowWrites ELSE owner = None
    /\ \A u \in Threads : Writing(u) => u = t

\* A remote write or reset reaches the memory of the very generation its
\* request names, whatever resets, reconnects and losses came meanwhile.
NoStaleWrite ==
  \A s \in Sessions :
    pc[s] = "access" /\ op[s] \in {"write", "reset"} => req[s] = gen

\* A read is answered with bytes of the generation its request names.
NoStaleRead ==
  \A s \in Sessions : pc[s] = "reply" => got[s] \in {0, req[s]}

\* When stop() has joined its workers no session, viewer or lease is left,
\* so the backend it releases next is used by nobody.
StoppedIsQuiet ==
  srv = "stopped" =>
    owner = None /\ clients = {} /\ viewers = 0 /\ \A s \in Sessions : ~Live(s)

\* The server implements the lease protocol of PeerLease.
Lease == INSTANCE PeerLease WITH
  Remote <- Sessions, Local <- Locals, None <- None,
  holder <- owner, writing <- {t \in Threads : Writing(t)}

LeaseProtocol == Lease!Spec

\* stop() terminates: no worker waits for ever on a socket or a mutex.
StopTerminates == (srv = "notAlive") ~> (srv = "stopped")

-----------------------------------------------------------------------------
(* The inductive strengthening of the safety properties, part by part.     *)

LocalPcs == {"idle", "enter"} \cup
            {"access", "bumpT", "bumpD", "lostT", "lostD", "lostC"}

\* Which operations can be at which control point.
Shape ==
  /\ \A l \in Locals :
       /\ pc[l] \in LocalPcs
       /\ pc[l] = "idle" <=> op[l] = "none"
       /\ pc[l] = "enter" => op[l] \in {"write", "reset", "connect"}
  /\ \A s \in Sessions :
       /\ op[s] # "connect"
       /\ pc[s] \in NetPcs <=> op[s] = "none"
       /\ pc[s] = "lock" => op[s] # "read"
       /\ pc[s] \in {"check2", "ready2"} => op[s] # "reset"
  /\ \A t \in Threads :
       /\ pc[t] \in {"bumpT", "bumpD"} => op[t] \in {"reset", "connect"}
       /\ pc[t] \in {"lostT", "lostD", "lostC"} => op[t] \in {"read", "write"}

\* mtx_ is held exactly by the thread inside the probe.
IoHeld == \A t \in Threads : io = t <=> Touching(t)

\* `ownership` is held from the owner test of a remote write or reset, or the
\* WriteGuard of a local one, to the end of that operation.
Guarded(t) ==
  /\ op[t] \in {"write", "reset", "connect"}
  /\ pc[t] \notin {"check1", "ready1", "lock"}

OwnershipHeld == \A t \in Threads : ownership = t <=> Guarded(t)

LeaseKept ==
  /\ \A s \in Sessions : Guarded(s) => owner = s /\ allowWrites
  /\ \A l \in Locals : Guarded(l) => owner = None
  /\ LeaseHolderLive

Paired(s) == pc[s] \notin {"unborn", "accepted", "pairing", "closing", "leaving", "ended"}

StopOrdered ==
  /\ srv \in {"deaf", "joining", "stopped"} => ~listening
  /\ srv = "stopped" => \A s \in Sessions : ~Live(s)
  /\ \A s \in clients : pc[s] \notin {"unborn", "accepted", "ended"}
  /\ viewers = Cardinality({s \in Sessions : Paired(s)})

Moving(t) == pc[t] \in {"bumpT", "bumpD", "lostT", "lostD"}

\* deviceEpoch is the device generation except while mtx_'s holder is moving it.
EpochsAgree ==
  /\ (\A t \in Threads : ~Moving(t)) => deviceEpoch = gen
  /\ \A t \in Threads : Moving(t) => deviceEpoch + 1 = gen
  /\ (\A t \in Threads : pc[t] \notin {"bumpD", "lostD"})
       => targetEpoch <= deviceEpoch + MaxSwitch
  /\ targetEpoch <= deviceEpoch + 1 + MaxSwitch
  /\ \A t \in Threads :
       pc[t] = "access" /\ op[t] \in {"reset", "connect"} => gen < MaxEpoch

\* A remote writer about to enter the probe is bound to the current
\* generation, or will find the connection gone.
WriteBound ==
  \A s \in Sessions : op[s] \in {"write", "reset"} =>
    /\ pc[s] = "access" => req[s] = gen
    /\ pc[s] = "enter"  => \/ req[s] = gen
                           \/ ~connected
                           \/ \E t \in Threads : pc[t] \in {"lostT", "lostD", "lostC"}

\* The bytes a read carries are never older than its request, and bytes that
\* pass the second check are of the request's generation.
ReadBound ==
  /\ NoStaleRead
  /\ \A s \in Sessions :
       /\ pc[s] \in WorkPcs => req[s] <= deviceEpoch
       /\ pc[s] = "check2" /\ op[s] = "read" => req[s] <= got[s] /\ got[s] <= deviceEpoch
       /\ pc[s] = "ready2" /\ op[s] = "read" => got[s] = req[s]
       /\ pc[s] # "reply" /\ ~(op[s] = "read" /\ pc[s] \in {"check2", "ready2"}) => got[s] = 0

IInv ==
  /\ TypeOK /\ Shape /\ IoHeld /\ OwnershipHeld /\ LeaseKept
  /\ StopOrdered /\ EpochsAgree /\ WriteBound /\ ReadBound
=============================================================================
