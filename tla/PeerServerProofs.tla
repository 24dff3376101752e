-------------------------- MODULE PeerServerProofs --------------------------
(***************************************************************************)
(* Proofs about PeerServer for any number of peers, local threads, workers *)
(* and generations.  IInv is inductive: one lemma per part of it, one step *)
(* per group of actions; the theorems then read the properties off IInv.   *)
(***************************************************************************)
EXTENDS PeerServer, TLAPS, FiniteSetTheorems

\* Every set of sessions can be counted, and counts move by one at a time.
LEMMA PairedFinite ==
  ASSUME ServerAssumption
  PROVE  LET P == {r \in Sessions : Paired(r)}
         IN  /\ IsFiniteSet(P) /\ Cardinality(P) \in Nat
             /\ \A s \in Sessions \ P : Cardinality(P \cup {s}) = Cardinality(P) + 1
             /\ \A s \in P : /\ Cardinality(P \ {s}) = Cardinality(P) - 1
                             /\ Cardinality(P) - 1 \in Nat
<1>1. IsFiniteSet({r \in Sessions : Paired(r)})
  BY FS_Subset DEF ServerAssumption
<1>2. ASSUME NEW P, IsFiniteSet(P) PROVE
        /\ Cardinality(P) \in Nat
        /\ \A s : s \notin P => Cardinality(P \cup {s}) = Cardinality(P) + 1
        /\ \A s \in P : /\ Cardinality(P \ {s}) = Cardinality(P) - 1
                        /\ Cardinality(P) - 1 \in Nat
  <2>1. \A s \in P : Cardinality(P \ {s}) = Cardinality(P) - 1
    BY <1>2, FS_RemoveElement
  <2>2. \A s \in P : Cardinality(P \ {s}) \in Nat
    BY <1>2, FS_RemoveElement, FS_CardinalityType
  <2>. QED
    BY <1>2, <2>1, <2>2, FS_AddElement, FS_CardinalityType
<1>. QED
  BY <1>1, <1>2

\* The epochs stay within their bounds because mtx_'s holder is the only one
\* that moves them; viewers never drops below the number of paired sessions.
LEMMA TypeOKStep == ASSUME IInv, Next PROVE TypeOK'
<1>. USE ServerAssumption DEF IInv, TypeOK, netVars, localVars, devVars, Threads, Goto, Answer, Proceed, Refuse, Ops,
          Epochs, Targets, NetPcs, WorkPcs, EpochsAgree, Moving
<1>1. ASSUME NEW s \in Sessions, SessionStep(s) PROVE TypeOK'
  <2>1. CASE Register(s)
    BY <2>1 DEF Register
  <2>2. CASE PairFails(s)
    BY <2>2 DEF PairFails
  <2>3. CASE NextRequest(s)
    BY <2>3 DEF NextRequest
  <2>4. CASE Reply(s)
    BY <2>4 DEF Reply
  <2>5. CASE LeaveViewers(s)
    <3>1. s \in {r \in Sessions : Paired(r)}
      BY <2>5 DEF LeaveViewers, Paired
    <3>2. viewers - 1 \in Nat
      BY <3>1, PairedFinite, FS_EmptySet, FS_CardinalityType DEF StopOrdered
    <3>. QED
      BY <2>5, <3>2 DEF LeaveViewers
  <2>6. CASE Unregister(s)
    BY <2>6 DEF Unregister
  <2>7. CASE CheckEpoch(s)
    BY <2>7 DEF CheckEpoch
  <2>8. CASE CheckReady(s)
    BY <2>8 DEF CheckReady
  <2>9. CASE LoadTarget(s)
    BY <2>9 DEF LoadTarget
  <2>10. CASE CompareDevice(s)
    BY <2>10 DEF CompareDevice
  <2>11. CASE ReadMemory(s)
    BY <2>11 DEF ReadMemory
  <2>. QED
    BY <1>1, <2>1, <2>2, <2>3, <2>4, <2>5, <2>6, <2>7, <2>8, <2>9, <2>10,
        <2>11 DEF SessionStep
<1>2. ASSUME NEW s \in Sessions, PeerStep(s) PROVE TypeOK'
  BY <1>2 DEF PeerStep, Accept, Pair, ReceiveFails, PeerVanishes, Claim,
      Release, Request
<1>3. ASSUME NEW t \in Threads, ProbeStep(t) PROVE TypeOK'
  <2>1. CASE FinishAccess(t)
    BY <2>1 DEF FinishAccess
  <2>2. CASE BumpTarget(t)
    <3>1. \A u \in Threads : pc[u] \notin {"bumpD", "lostD"}
      BY <2>2 DEF BumpTarget, IoHeld, Touching
    <3>2. targetEpoch + 1 \in Targets
      BY <2>2, <3>1 DEF BumpTarget
    <3>. QED
      BY <2>2, <3>2 DEF BumpTarget
  <2>3. CASE BumpDevice(t)
    BY <2>3 DEF BumpDevice
  <2>4. CASE LostTarget(t)
    <3>1. \A u \in Threads : pc[u] \notin {"bumpD", "lostD"}
      BY <2>4 DEF LostTarget, IoHeld, Touching
    <3>2. targetEpoch + 1 \in Targets
      BY <2>4, <3>1 DEF LostTarget
    <3>. QED
      BY <2>4, <3>2 DEF LostTarget
  <2>5. CASE LostDevice(t)
    BY <2>5 DEF LostDevice
  <2>6. CASE LostConnection(t)
    BY <2>6 DEF LostConnection
  <2>. QED
    BY <1>3, <2>1, <2>2, <2>3, <2>4, <2>5, <2>6 DEF ProbeStep
<1>4. ASSUME NEW t \in Threads, LockStep(t) PROVE TypeOK'
  BY <1>4 DEF LockStep, EndSession, LockOwnership, EnterProbe, LocalEnter
<1>5. ASSUME NEW t \in Threads, ResetTarget(t) \/ TransportLost(t) PROVE TypeOK'
  BY <1>5 DEF ResetTarget, TransportLost
<1>6. ASSUME NEW l \in Locals, LocalStep(l) PROVE TypeOK'
  <2>1. CASE \E o \in {"write", "reset", "connect"} : LocalGuard(l, o)
    BY <2>1 DEF LocalGuard
  <2>2. CASE LocalRead(l)
    BY <2>2 DEF LocalRead
  <2>3. CASE ConnectTarget(l)
    BY <2>3 DEF ConnectTarget
  <2>4. CASE ConnectFails(l)
    BY <2>4 DEF ConnectFails
  <2>5. CASE CloseProbe(l)
    BY <2>5 DEF CloseProbe
  <2>6. CASE SwitchSource(l)
    BY <2>6 DEF SwitchSource
  <2>. QED
    BY <1>6, <2>1, <2>2, <2>3, <2>4, <2>5, <2>6 DEF LocalStep
<1>7. CASE StopStep
  BY <1>7 DEF StopStep, StopBegins, ShutListener, ShutClients, JoinWorkers,
      Restart
<1>. QED
  BY <1>1, <1>2, <1>3, <1>4, <1>5, <1>6, <1>7 DEF Next

\* The operation a thread executes fits its control point.
LEMMA ShapeStep == ASSUME IInv, Next PROVE Shape'
<1>. USE ServerAssumption DEF IInv, TypeOK, netVars, localVars, devVars, Threads, Goto, Answer, Proceed, Refuse, Shape,
          LocalPcs, NetPcs, WorkPcs, Ops
<1>1. ASSUME NEW s \in Sessions, SessionStep(s) PROVE Shape'
  BY <1>1 DEF SessionStep, Register, PairFails, NextRequest, Reply,
      LeaveViewers, Unregister, CheckEpoch, CheckReady, LoadTarget,
      CompareDevice, ReadMemory
<1>2. ASSUME NEW s \in Sessions, PeerStep(s) PROVE Shape'
  BY <1>2 DEF PeerStep, Accept, Pair, ReceiveFails, PeerVanishes, Claim,
      Release, Request
<1>3. ASSUME NEW t \in Threads, ProbeStep(t) PROVE Shape'
  BY <1>3 DEF ProbeStep, FinishAccess, BumpTarget, BumpDevice, LostTarget,
      LostDevice, LostConnection
<1>4. ASSUME NEW t \in Threads, LockStep(t) PROVE Shape'
  BY <1>4 DEF LockStep, EndSession, LockOwnership, EnterProbe, LocalEnter
<1>5. ASSUME NEW t \in Threads, ResetTarget(t) \/ TransportLost(t) PROVE Shape'
  BY <1>5 DEF ResetTarget, TransportLost
<1>6. ASSUME NEW l \in Locals, LocalStep(l) PROVE Shape'
  BY <1>6 DEF LocalStep, LocalGuard, LocalRead, ConnectTarget, ConnectFails,
      CloseProbe, SwitchSource
<1>7. CASE StopStep
  BY <1>7 DEF StopStep, StopBegins, ShutListener, ShutClients, JoinWorkers,
      Restart
<1>. QED
  BY <1>1, <1>2, <1>3, <1>4, <1>5, <1>6, <1>7 DEF Next

\* mtx_ is held by the one thread that is inside the probe.
LEMMA IoHeldStep == ASSUME IInv, Next PROVE IoHeld'
<1>. USE ServerAssumption DEF IInv, TypeOK, netVars, localVars, devVars, Threads, Goto, Answer, Proceed, Refuse, IoHeld,
          Shape, LocalPcs, NetPcs, WorkPcs, Touching
<1>1. ASSUME NEW s \in Sessions, SessionStep(s) PROVE IoHeld'
  BY <1>1 DEF SessionStep, Register, PairFails, NextRequest, Reply,
      LeaveViewers, Unregister, CheckEpoch, CheckReady, LoadTarget,
      CompareDevice, ReadMemory
<1>2. ASSUME NEW s \in Sessions, PeerStep(s) PROVE IoHeld'
  BY <1>2 DEF PeerStep, Accept, Pair, ReceiveFails, PeerVanishes, Claim,
      Release, Request
<1>3. ASSUME NEW t \in Threads, ProbeStep(t) PROVE IoHeld'
  BY <1>3 DEF ProbeStep, FinishAccess, BumpTarget, BumpDevice, LostTarget,
      LostDevice, LostConnection
<1>4. ASSUME NEW t \in Threads, LockStep(t) PROVE IoHeld'
  BY <1>4 DEF LockStep, EndSession, LockOwnership, EnterProbe, LocalEnter
<1>5. ASSUME NEW t \in Threads, ResetTarget(t) \/ TransportLost(t) PROVE IoHeld'
  BY <1>5 DEF ResetTarget, TransportLost
<1>6. ASSUME NEW l \in Locals, LocalStep(l) PROVE IoHeld'
  BY <1>6 DEF LocalStep, LocalGuard, LocalRead, ConnectTarget, ConnectFails,
      CloseProbe, SwitchSource
<1>7. CASE StopStep
  BY <1>7 DEF StopStep, StopBegins, ShutListener, ShutClients, JoinWorkers,
      Restart
<1>. QED
  BY <1>1, <1>2, <1>3, <1>4, <1>5, <1>6, <1>7 DEF Next

\* Every guarded operation holds `ownership` from beginning to end.
LEMMA OwnershipHeldStep == ASSUME IInv, Next PROVE OwnershipHeld'
<1>. USE ServerAssumption DEF IInv, TypeOK, netVars, localVars, devVars, Threads, Goto, Answer, Proceed, Refuse,
          OwnershipHeld, Guarded, Shape, LocalPcs, NetPcs, WorkPcs
<1>1. ASSUME NEW s \in Sessions, SessionStep(s) PROVE OwnershipHeld'
  BY <1>1 DEF SessionStep, Register, PairFails, NextRequest, Reply,
      LeaveViewers, Unregister, CheckEpoch, CheckReady, LoadTarget,
      CompareDevice, ReadMemory
<1>2. ASSUME NEW s \in Sessions, PeerStep(s) PROVE OwnershipHeld'
  BY <1>2 DEF PeerStep, Accept, Pair, ReceiveFails, PeerVanishes, Claim,
      Release, Request
<1>3. ASSUME NEW t \in Threads, ProbeStep(t) PROVE OwnershipHeld'
  BY <1>3 DEF ProbeStep, FinishAccess, BumpTarget, BumpDevice, LostTarget,
      LostDevice, LostConnection
<1>4. ASSUME NEW t \in Threads, LockStep(t) PROVE OwnershipHeld'
  <2>1. CASE EndSession(t)
    BY <2>1 DEF EndSession
  <2>2. CASE LockOwnership(t)
    <3>0. t \in Sessions
      BY <2>2 DEF LockOwnership
    <3>1. op[t] \in {"write", "reset"}
      <4>1. op[t] # "none" /\ op[t] # "read" /\ op[t] # "connect"
        BY <2>2, <3>0 DEF LockOwnership
      <4>. QED
        BY <3>0, <4>1 DEF Ops
    <3>2. \A u \in Threads : ~Guarded(u)
      BY <2>2 DEF LockOwnership
    <3>3. CASE owner = t /\ allowWrites
      BY <2>2, <3>0, <3>1, <3>2, <3>3 DEF LockOwnership
    <3>4. CASE ~(owner = t /\ allowWrites)
      BY <2>2, <3>0, <3>1, <3>2, <3>4 DEF LockOwnership
    <3>. QED
      BY <3>3, <3>4
  <2>3. CASE EnterProbe(t)
    BY <2>3 DEF EnterProbe
  <2>4. CASE LocalEnter(t)
    BY <2>4 DEF LocalEnter
  <2>. QED
    BY <1>4, <2>1, <2>2, <2>3, <2>4 DEF LockStep
<1>5. ASSUME NEW t \in Threads, ResetTarget(t) \/ TransportLost(t) PROVE OwnershipHeld'
  BY <1>5 DEF ResetTarget, TransportLost
<1>6. ASSUME NEW l \in Locals, LocalStep(l) PROVE OwnershipHeld'
  BY <1>6 DEF LocalStep, LocalGuard, LocalRead, ConnectTarget, ConnectFails,
      CloseProbe, SwitchSource
<1>7. CASE StopStep
  BY <1>7 DEF StopStep, StopBegins, ShutListener, ShutClients, JoinWorkers,
      Restart
<1>. QED
  BY <1>1, <1>2, <1>3, <1>4, <1>5, <1>6, <1>7 DEF Next

\* The lease cannot change under a guarded operation, nor outlive its session.
LEMMA LeaseKeptStep == ASSUME IInv, Next PROVE LeaseKept'
<1>. USE ServerAssumption DEF IInv, TypeOK, netVars, localVars, devVars, Threads, Goto, Answer, Proceed, Refuse,
          LeaseKept, LeaseHolderLive, OwnershipHeld, Guarded, StopOrdered, Live,
          Shape, LocalPcs, NetPcs, WorkPcs
<1>1. ASSUME NEW s \in Sessions, SessionStep(s) PROVE LeaseKept'
  BY <1>1 DEF SessionStep, Register, PairFails, NextRequest, Reply,
      LeaveViewers, Unregister, CheckEpoch, CheckReady, LoadTarget,
      CompareDevice, ReadMemory
<1>2. ASSUME NEW s \in Sessions, PeerStep(s) PROVE LeaseKept'
  BY <1>2 DEF PeerStep, Accept, Pair, ReceiveFails, PeerVanishes, Claim,
      Release, Request
<1>3. ASSUME NEW t \in Threads, ProbeStep(t) PROVE LeaseKept'
  BY <1>3 DEF ProbeStep, FinishAccess, BumpTarget, BumpDevice, LostTarget,
      LostDevice, LostConnection
<1>4. ASSUME NEW t \in Threads, LockStep(t) PROVE LeaseKept'
  BY <1>4 DEF LockStep, EndSession, LockOwnership, EnterProbe, LocalEnter
<1>5. ASSUME NEW t \in Threads, ResetTarget(t) \/ TransportLost(t) PROVE LeaseKept'
  BY <1>5 DEF ResetTarget, TransportLost
<1>6. ASSUME NEW l \in Locals, LocalStep(l) PROVE LeaseKept'
  BY <1>6 DEF LocalStep, LocalGuard, LocalRead, ConnectTarget, ConnectFails,
      CloseProbe, SwitchSource
<1>7. CASE StopStep
  BY <1>7 DEF StopStep, StopBegins, ShutListener, ShutClients, JoinWorkers,
      Restart
<1>. QED
  BY <1>1, <1>2, <1>3, <1>4, <1>5, <1>6, <1>7 DEF Next

\* deviceEpoch_ lags behind the device only under mtx_.
LEMMA EpochsAgreeStep == ASSUME IInv, Next PROVE EpochsAgree'
<1>. USE ServerAssumption DEF IInv, TypeOK, netVars, localVars, devVars, Threads, Goto, Answer, Proceed, Refuse,
          EpochsAgree, Moving, IoHeld, Touching, Epochs, Targets, Shape, LocalPcs,
          NetPcs, WorkPcs
<1>1. ASSUME NEW s \in Sessions, SessionStep(s) PROVE EpochsAgree'
  BY <1>1 DEF SessionStep, Register, PairFails, NextRequest, Reply,
      LeaveViewers, Unregister, CheckEpoch, CheckReady, LoadTarget,
      CompareDevice, ReadMemory
<1>2. ASSUME NEW s \in Sessions, PeerStep(s) PROVE EpochsAgree'
  BY <1>2 DEF PeerStep, Accept, Pair, ReceiveFails, PeerVanishes, Claim,
      Release, Request
<1>3. ASSUME NEW t \in Threads, ProbeStep(t) PROVE EpochsAgree'
  BY <1>3 DEF ProbeStep, FinishAccess, BumpTarget, BumpDevice, LostTarget,
      LostDevice, LostConnection
<1>4. ASSUME NEW t \in Threads, LockStep(t) PROVE EpochsAgree'
  BY <1>4 DEF LockStep, EndSession, LockOwnership, EnterProbe, LocalEnter
<1>5. ASSUME NEW t \in Threads, ResetTarget(t) \/ TransportLost(t) PROVE EpochsAgree'
  BY <1>5 DEF ResetTarget, TransportLost
<1>6. ASSUME NEW l \in Locals, LocalStep(l) PROVE EpochsAgree'
  BY <1>6 DEF LocalStep, LocalGuard, LocalRead, ConnectTarget, ConnectFails,
      CloseProbe, SwitchSource
<1>7. CASE StopStep
  BY <1>7 DEF StopStep, StopBegins, ShutListener, ShutClients, JoinWorkers,
      Restart
<1>. QED
  BY <1>1, <1>2, <1>3, <1>4, <1>5, <1>6, <1>7 DEF Next

\* Only a transport loss can overtake a remote writer, and it disconnects.
LEMMA WriteBoundStep == ASSUME IInv, Next PROVE WriteBound'
<1>. USE ServerAssumption DEF IInv, TypeOK, netVars, localVars, devVars, Threads, Goto, Answer, Proceed, Refuse,
          WriteBound, EpochsAgree, Moving, IoHeld, Touching, Epochs,
          OwnershipHeld, Guarded, Shape, LocalPcs, NetPcs, WorkPcs
<1>1. ASSUME NEW s \in Sessions, SessionStep(s) PROVE WriteBound'
  BY <1>1 DEF SessionStep, Register, PairFails, NextRequest, Reply,
      LeaveViewers, Unregister, CheckEpoch, CheckReady, LoadTarget,
      CompareDevice, ReadMemory
<1>2. ASSUME NEW s \in Sessions, PeerStep(s) PROVE WriteBound'
  BY <1>2 DEF PeerStep, Accept, Pair, ReceiveFails, PeerVanishes, Claim,
      Release, Request
<1>3. ASSUME NEW t \in Threads, ProbeStep(t) PROVE WriteBound'
  BY <1>3 DEF ProbeStep, FinishAccess, BumpTarget, BumpDevice, LostTarget,
      LostDevice, LostConnection
<1>4. ASSUME NEW t \in Threads, LockStep(t) PROVE WriteBound'
  BY <1>4 DEF LockStep, EndSession, LockOwnership, EnterProbe, LocalEnter
<1>5. ASSUME NEW t \in Threads, ResetTarget(t) \/ TransportLost(t) PROVE WriteBound'
  BY <1>5 DEF ResetTarget, TransportLost
<1>6. ASSUME NEW l \in Locals, LocalStep(l) PROVE WriteBound'
  BY <1>6 DEF LocalStep, LocalGuard, LocalRead, ConnectTarget, ConnectFails,
      CloseProbe, SwitchSource
<1>7. CASE StopStep
  BY <1>7 DEF StopStep, StopBegins, ShutListener, ShutClients, JoinWorkers,
      Restart
<1>. QED
  BY <1>1, <1>2, <1>3, <1>4, <1>5, <1>6, <1>7 DEF Next

\* The check after the read rejects bytes of a later generation.
LEMMA ReadBoundStep == ASSUME IInv, Next PROVE ReadBound'
<1>. USE ServerAssumption DEF IInv, TypeOK, netVars, localVars, devVars, Threads, Goto, Answer, Proceed, Refuse,
          ReadBound, NoStaleRead, EpochsAgree, Moving, IoHeld, Touching, Epochs,
          Shape, LocalPcs, NetPcs, WorkPcs
<1>1. ASSUME NEW s \in Sessions, SessionStep(s) PROVE ReadBound'
  BY <1>1 DEF SessionStep, Register, PairFails, NextRequest, Reply,
      LeaveViewers, Unregister, CheckEpoch, CheckReady, LoadTarget,
      CompareDevice, ReadMemory
<1>2. ASSUME NEW s \in Sessions, PeerStep(s) PROVE ReadBound'
  BY <1>2 DEF PeerStep, Accept, Pair, ReceiveFails, PeerVanishes, Claim,
      Release, Request
<1>3. ASSUME NEW t \in Threads, ProbeStep(t) PROVE ReadBound'
  BY <1>3 DEF ProbeStep, FinishAccess, BumpTarget, BumpDevice, LostTarget,
      LostDevice, LostConnection
<1>4. ASSUME NEW t \in Threads, LockStep(t) PROVE ReadBound'
  BY <1>4 DEF LockStep, EndSession, LockOwnership, EnterProbe, LocalEnter
<1>5. ASSUME NEW t \in Threads, ResetTarget(t) \/ TransportLost(t) PROVE ReadBound'
  BY <1>5 DEF ResetTarget, TransportLost
<1>6. ASSUME NEW l \in Locals, LocalStep(l) PROVE ReadBound'
  BY <1>6 DEF LocalStep, LocalGuard, LocalRead, ConnectTarget, ConnectFails,
      CloseProbe, SwitchSource
<1>7. CASE StopStep
  BY <1>7 DEF StopStep, StopBegins, ShutListener, ShutClients, JoinWorkers,
      Restart
<1>. QED
  BY <1>1, <1>2, <1>3, <1>4, <1>5, <1>6, <1>7 DEF Next

\* viewers counts the paired sessions; stop() passes its phases in order.
LEMMA StopOrderedStep == ASSUME IInv, Next PROVE StopOrdered'
<1>. USE ServerAssumption DEF IInv, TypeOK, netVars, localVars, devVars, Threads, Goto,
         Answer, Proceed, Refuse, Shape, LocalPcs, NetPcs, WorkPcs, Live
<1> DEFINE P == {r \in Sessions : Paired(r)}
<1> DEFINE Rest == /\ srv \in {"deaf", "joining", "stopped"} => ~listening
                   /\ srv = "stopped" => \A s \in Sessions : ~Live(s)
                   /\ \A s \in clients : pc[s] \notin {"unborn", "accepted", "ended"}
<1>0. /\ Rest /\ viewers = Cardinality(P)
      /\ StopOrdered' <=> (Rest' /\ viewers' = Cardinality(P'))
  BY DEF StopOrdered
<1>. HIDE DEF P
<1>1. Rest'
  <2>. USE <1>0
  <2>1. ASSUME NEW s \in Sessions, SessionStep(s) PROVE Rest'
    BY <2>1 DEF SessionStep, Register, PairFails, NextRequest, Reply, LeaveViewers,
        Unregister, CheckEpoch, CheckReady, LoadTarget, CompareDevice, ReadMemory
  <2>2. ASSUME NEW s \in Sessions, PeerStep(s) PROVE Rest'
    BY <2>2 DEF PeerStep, Accept, Pair, ReceiveFails, PeerVanishes, Claim, Release,
        Request
  <2>3. ASSUME NEW t \in Threads, ProbeStep(t) PROVE Rest'
    BY <2>3 DEF ProbeStep, FinishAccess, BumpTarget, BumpDevice, LostTarget, LostDevice,
        LostConnection
  <2>4. ASSUME NEW t \in Threads, LockStep(t) \/ ResetTarget(t) \/ TransportLost(t)
        PROVE Rest'
    BY <2>4 DEF LockStep, EndSession, LockOwnership, EnterProbe, LocalEnter, ResetTarget,
        TransportLost
  <2>5. ASSUME NEW l \in Locals, LocalStep(l) PROVE Rest'
    BY <2>5 DEF LocalStep, LocalGuard, LocalRead, ConnectTarget, ConnectFails,
        CloseProbe, SwitchSource
  <2>6. CASE StopStep
    BY <2>6 DEF StopStep, StopBegins, ShutListener, ShutClients, JoinWorkers, Restart
  <2>. QED
    BY <2>1, <2>2, <2>3, <2>4, <2>5, <2>6 DEF Next
<1>2. viewers' = Cardinality(P')
  <2>1. ASSUME NEW s \in Sessions, Pair(s) PROVE viewers' = Cardinality(P')
    <3>1. s \in Sessions \ P /\ P' = P \cup {s}
      BY <2>1 DEF Pair, P, Paired
    <3>. QED
      BY <2>1, <3>1, <1>0, PairedFinite DEF Pair, P
  <2>2. ASSUME NEW s \in Sessions, LeaveViewers(s) PROVE viewers' = Cardinality(P')
    <3>1. s \in P /\ P' = P \ {s}
      BY <2>2 DEF LeaveViewers, P, Paired
    <3>. QED
      BY <2>2, <3>1, <1>0, PairedFinite DEF LeaveViewers, P
  <2>3. ASSUME viewers' = viewers, \A r \in Sessions : Paired(r)' <=> Paired(r)
        PROVE  viewers' = Cardinality(P')
    <3>1. P' = P
      BY <2>3 DEF P
    <3>. QED
      BY <2>3, <3>1, <1>0
  <2>. USE DEF Paired
  <2>4. ASSUME NEW s \in Sessions, SessionStep(s), ~LeaveViewers(s)
        PROVE  viewers' = viewers /\ \A r \in Sessions : Paired(r)' <=> Paired(r)
    BY <2>4 DEF SessionStep, Register, PairFails, NextRequest, Reply, Unregister,
        CheckEpoch, CheckReady, LoadTarget, CompareDevice, ReadMemory
  <2>5. ASSUME NEW s \in Sessions, PeerStep(s), ~Pair(s)
        PROVE  viewers' = viewers /\ \A r \in Sessions : Paired(r)' <=> Paired(r)
    BY <2>5 DEF PeerStep, Accept, ReceiveFails, PeerVanishes, Claim, Release, Request
  <2>6. ASSUME NEW t \in Threads, ProbeStep(t) \/ ResetTarget(t) \/ TransportLost(t)
        PROVE  viewers' = viewers /\ \A r \in Sessions : Paired(r)' <=> Paired(r)
    BY <2>6 DEF ProbeStep, FinishAccess, BumpTarget, BumpDevice, LostTarget, LostDevice,
        LostConnection, ResetTarget, TransportLost
  <2>7. ASSUME NEW t \in Threads, LockStep(t)
        PROVE  viewers' = viewers /\ \A r \in Sessions : Paired(r)' <=> Paired(r)
    BY <2>7 DEF LockStep, EndSession, LockOwnership, EnterProbe, LocalEnter
  <2>8. ASSUME NEW l \in Locals, LocalStep(l)
        PROVE  viewers' = viewers /\ \A r \in Sessions : Paired(r)' <=> Paired(r)
    BY <2>8 DEF LocalStep, LocalGuard, LocalRead, ConnectTarget, ConnectFails,
        CloseProbe, SwitchSource
  <2>9. ASSUME StopStep
        PROVE  viewers' = viewers /\ \A r \in Sessions : Paired(r)' <=> Paired(r)
    BY <2>9 DEF StopStep, StopBegins, ShutListener, ShutClients, JoinWorkers, Restart
  <2>. QED
    BY <2>1, <2>2, <2>3, <2>4, <2>5, <2>6, <2>7, <2>8, <2>9 DEF Next
<1>. QED
  BY <1>0, <1>1, <1>2

-----------------------------------------------------------------------------

\* The strengthened invariant holds in every reachable state.
THEOREM Inductive == Spec => []IInv
<1>1. Init => IInv
  <2>. SUFFICES ASSUME Init PROVE IInv
    OBVIOUS
  <2>. USE ServerAssumption DEF Init, Threads
  <2>1. TypeOK /\ Shape
    BY DEF TypeOK, Shape, LocalPcs, NetPcs, WorkPcs, Ops, Epochs, Targets
  <2>2. IoHeld /\ OwnershipHeld /\ LeaseKept
    BY DEF IoHeld, Touching, OwnershipHeld, Guarded, LeaseKept, LeaseHolderLive
  <2>3. StopOrdered
    <3>1. {s \in Sessions : Paired(s)} = {}
      BY DEF Paired
    <3>. QED
      BY <3>1, FS_EmptySet DEF StopOrdered, Live
  <2>4. EpochsAgree /\ WriteBound /\ ReadBound
    BY DEF EpochsAgree, Moving, WriteBound, ReadBound, WorkPcs, NoStaleRead
  <2>. QED
    BY <2>1, <2>2, <2>3, <2>4 DEF IInv
<1>2. IInv /\ [Next]_vars => IInv'
  <2>1. ASSUME IInv, Next PROVE IInv'
    BY <2>1, TypeOKStep, ShapeStep, IoHeldStep, OwnershipHeldStep, LeaseKeptStep,
       StopOrderedStep, EpochsAgreeStep, WriteBoundStep, ReadBoundStep DEF IInv
  <2>2. ASSUME IInv, UNCHANGED vars PROVE IInv'
    <3>. USE <2>2 DEF vars, netVars, localVars, devVars
    <3>1. TypeOK' /\ Shape' /\ IoHeld' /\ OwnershipHeld'
      BY DEF IInv, TypeOK, Shape, IoHeld, Touching, OwnershipHeld, Guarded
    <3>2. LeaseKept' /\ StopOrdered'
      BY DEF IInv, LeaseKept, Guarded, LeaseHolderLive, StopOrdered, Live, Paired
    <3>3. EpochsAgree' /\ WriteBound' /\ ReadBound'
      BY DEF IInv, EpochsAgree, Moving, WriteBound, ReadBound, NoStaleRead
    <3>. QED
      BY <3>1, <3>2, <3>3 DEF IInv
  <2>. QED
    BY <2>1, <2>2
<1>. QED
  BY <1>1, <1>2, PTL DEF Spec

\* Types: in particular the bounds of the epochs, and a viewer count that
\* never goes below zero.
THEOREM TypeCorrect == Spec => []TypeOK
<1>1. IInv => TypeOK
  BY DEF IInv
<1>. QED
  BY <1>1, Inductive, PTL

\* The lease is only ever held by a paired session that is still served.
THEOREM LeaseNeverOrphaned == Spec => []LeaseHolderLive
<1>1. IInv => LeaseHolderLive
  BY DEF IInv, LeaseKept
<1>. QED
  BY <1>1, Inductive, PTL

\* One thread alters the target at a time, and only with the right to do so.
THEOREM OneWriter == Spec => []ControlExclusive
<1>1. ASSUME IInv PROVE ControlExclusive
  <2>1. \A t \in Threads : Writing(t) => Guarded(t) /\ io = t
    BY <1>1 DEF IInv, Writing, Touching, Guarded, IoHeld
  <2>. QED
    BY <1>1, <2>1 DEF IInv, LeaseKept, ControlExclusive, Threads
<1>. QED
  BY <1>1, Inductive, PTL

\* A remote write or reset acts on the generation its request names.
THEOREM WritesHitTheirGeneration == Spec => []NoStaleWrite
<1>1. IInv => NoStaleWrite
  BY DEF IInv, WriteBound, NoStaleWrite
<1>. QED
  BY <1>1, Inductive, PTL

\* A read is answered from the generation its request names.
THEOREM ReadsComeFromTheirGeneration == Spec => []NoStaleRead
<1>1. IInv => NoStaleRead
  BY DEF IInv, ReadBound
<1>. QED
  BY <1>1, Inductive, PTL

\* A stopped server has no session, viewer, socket or lease.
THEOREM StopLeavesNothing == Spec => []StoppedIsQuiet
<1>1. ASSUME IInv, srv = "stopped"
      PROVE  owner = None /\ clients = {} /\ viewers = 0 /\ \A s \in Sessions : ~Live(s)
  <2>1. \A s \in Sessions : ~Live(s)
    BY <1>1 DEF IInv, StopOrdered
  <2>2. {s \in Sessions : Paired(s)} = {}
    BY <2>1 DEF Live, Paired
  <2>3. owner = None /\ clients = {}
    BY <1>1, <2>1 DEF IInv, TypeOK, LeaseKept, LeaseHolderLive, StopOrdered, Live
  <2>. QED
    BY <1>1, <2>1, <2>2, <2>3, FS_EmptySet DEF IInv, StopOrdered
<1>2. IInv => StoppedIsQuiet
  BY <1>1 DEF StoppedIsQuiet
<1>. QED
  BY <1>2, Inductive, PTL

-----------------------------------------------------------------------------
(* PeerServer implements PeerLease.                                        *)

W == {t \in Threads : Writing(t)}

\* Whoever alters the target is alone, guarded, and inside mtx_.
LEMMA WriterAlone ==
  ASSUME IInv
  PROVE  /\ \A t \in W : io = t /\ ownership = t /\ W = {t}
         /\ io = None => W = {}
         /\ ownership = None => W = {}
<1>1. \A t \in W : io = t /\ ownership = t
  BY DEF IInv, W, Writing, Touching, IoHeld, OwnershipHeld, Guarded
<1>2. \A t \in W : W = {t}
  BY <1>1
<1>3. \A t \in W : t # None
  BY ServerAssumption DEF W, Threads
<1>. QED
  BY <1>1, <1>2, <1>3

\* A step that changes neither the lease nor anybody's writing is a stutter.
LEMMA SameWriters ==
  ASSUME \A t \in Threads : Writing(t)' <=> Writing(t)
  PROVE  W' = W
BY DEF W

\* Every step of the server is a step of the lease protocol or a stutter.
LEMMA LeaseStep ==
  ASSUME IInv, Next
  PROVE  Lease!Next \/ (owner' = owner /\ W' = W)
<1>. USE ServerAssumption DEF IInv, TypeOK, netVars, localVars, devVars, Threads, Goto,
         Answer, Proceed, Refuse, Shape, LocalPcs, NetPcs, WorkPcs, Writing, Touching
<1>1. ASSUME NEW s \in Sessions, SessionStep(s) PROVE owner' = owner /\ W' = W
  BY <1>1, SameWriters DEF SessionStep, Register, PairFails, NextRequest, Reply,
     LeaveViewers, Unregister, CheckEpoch, CheckReady, LoadTarget, CompareDevice, ReadMemory
<1>2. ASSUME NEW s \in Sessions, PeerStep(s)
      PROVE  Lease!Next \/ (owner' = owner /\ W' = W)
  <2>1. W' = W
    BY <1>2, SameWriters DEF PeerStep, Accept, Pair, ReceiveFails, PeerVanishes, Claim,
       Release, Request
  <2>2. owner' # owner => ownership = None /\ ((owner = None /\ owner' = s) \/ owner' = None)
    BY <1>2 DEF PeerStep, Accept, Pair, ReceiveFails, PeerVanishes, Claim, Release, Request
  <2>. QED
    BY <2>1, <2>2, WriterAlone DEF Lease!Next, Lease!Grant, Lease!Drop, W
<1>3. ASSUME NEW t \in Threads, ProbeStep(t)
      PROVE  Lease!Next \/ (owner' = owner /\ W' = W)
  <2>1. owner' = owner
    BY <1>3 DEF ProbeStep, FinishAccess, BumpTarget, BumpDevice, LostTarget, LostDevice,
       LostConnection
  <2>2. CASE BumpTarget(t) \/ LostTarget(t) \/ LostDevice(t)
    BY <2>1, <2>2, SameWriters DEF BumpTarget, LostTarget, LostDevice
  <2>3. CASE FinishAccess(t) \/ BumpDevice(t) \/ LostConnection(t)
    <3>1. Touching(t) /\ ~Writing(t)' /\ \A u \in Threads \ {t} : Writing(u)' <=> Writing(u)
      BY <2>3 DEF FinishAccess, BumpDevice, LostConnection
    <3>2. CASE t \in W
      <4>1. W' = {}
        BY <3>1, <3>2, WriterAlone DEF W
      <4>. QED
        BY <2>1, <3>2, <4>1 DEF Lease!Next, Lease!Finish, W
    <3>3. CASE t \notin W
      BY <2>1, <3>1, <3>3 DEF W
    <3>. QED
      BY <3>2, <3>3
  <2>. QED
    BY <1>3, <2>2, <2>3 DEF ProbeStep
<1>4. ASSUME NEW t \in Threads, LockStep(t)
      PROVE  Lease!Next \/ (owner' = owner /\ W' = W)
  <2>1. CASE t \in Sessions /\ EndSession(t)
    <3>1. W' = W
      BY <2>1, SameWriters DEF EndSession
    <3>. QED
      BY <2>1, <3>1, WriterAlone DEF EndSession, Lease!Next, Lease!Drop, W
  <2>2. CASE t \in Sessions /\ LockOwnership(t)
    BY <2>2, SameWriters DEF LockOwnership
  <2>3. CASE (t \in Sessions /\ EnterProbe(t)) \/ (t \in Locals /\ LocalEnter(t))
    <3>1. owner' = owner /\ W = {} /\ \A u \in Threads \ {t} : Writing(u)' <=> Writing(u)
      BY <2>3, WriterAlone DEF EnterProbe, LocalEnter
    <3>2. CASE Writing(t)'
      <4>1. W' = {t}
        BY <3>1, <3>2 DEF W
      <4>2. Guarded(t)
        BY <2>3, <3>2 DEF EnterProbe, LocalEnter, Guarded
      <4>3. (t \in Sessions /\ owner = t) \/ (t \in Locals /\ owner = None)
        BY <4>2 DEF LeaseKept
      <4>. QED
        BY <3>1, <4>1, <4>3 DEF Lease!Next, Lease!Begin, W
    <3>3. CASE ~Writing(t)'
      BY <3>1, <3>3 DEF W
    <3>. QED
      BY <3>2, <3>3
  <2>. QED
    BY <1>4, <2>1, <2>2, <2>3 DEF LockStep
<1>5. ASSUME NEW t \in Threads, ResetTarget(t) \/ TransportLost(t)
      PROVE  owner' = owner /\ W' = W
  BY <1>5, SameWriters DEF ResetTarget, TransportLost
<1>6. ASSUME NEW l \in Locals, LocalStep(l)
      PROVE  Lease!Next \/ (owner' = owner /\ W' = W)
  <2>1. CASE ConnectFails(l)
    <3>1. l \in W
      BY <2>1 DEF ConnectFails, W
    <3>2. owner' = owner /\ ~Writing(l)' /\ \A u \in Threads \ {l} : Writing(u)' <=> Writing(u)
      BY <2>1 DEF ConnectFails
    <3>3. W' = {}
      BY <3>1, <3>2, WriterAlone DEF W
    <3>. QED
      BY <3>1, <3>2, <3>3 DEF Lease!Next, Lease!Finish, W
  <2>2. CASE ~ConnectFails(l)
    BY <1>6, <2>2, SameWriters DEF LocalStep, LocalGuard, LocalRead, ConnectTarget,
       CloseProbe, SwitchSource
  <2>. QED
    BY <2>1, <2>2
<1>7. CASE StopStep
  BY <1>7, SameWriters DEF StopStep, StopBegins, ShutListener, ShutClients, JoinWorkers,
     Restart
<1>. QED
  BY <1>1, <1>2, <1>3, <1>4, <1>5, <1>6, <1>7 DEF Next

\* The server, with its two mutexes, its epochs and its failures, behaves as
\* the lease protocol promises.
THEOREM ImplementsLease == Spec => LeaseProtocol
<1>1. Init => Lease!Init
  BY ServerAssumption DEF Init, Lease!Init, Writing, Touching, Threads
<1>2. IInv /\ [Next]_vars => [Lease!Next]_<<owner, W>>
  <2>1. ASSUME IInv, Next PROVE Lease!Next \/ (owner' = owner /\ W' = W)
    BY <2>1, LeaseStep
  <2>2. ASSUME UNCHANGED vars PROVE owner' = owner /\ W' = W
    BY <2>2 DEF vars, devVars, localVars, W, Writing, Touching
  <2>. QED
    BY <2>1, <2>2
<1>3. [Lease!Next]_<<owner, W>> => [Lease!Next]_<<owner, {t \in Threads : Writing(t)}>>
  BY DEF W
<1>. QED
  BY <1>1, <1>2, <1>3, Inductive, PTL DEF Spec, LeaseProtocol, Lease!Spec
=============================================================================
