----------------------------- MODULE FairMutex ------------------------------
(***************************************************************************)
(* FairMutex, the ticket lock under JLinkPort::mtx_: a std::mutex, a       *)
(* condition variable and two unsigned counters.  Everything done under    *)
(* the inner mutex is one step; the notification is sent after it has been *)
(* released and is a step of its own, and a waiter may wake up spuriously. *)
(***************************************************************************)
EXTENDS Naturals, Sequences, FiniteSets

CONSTANTS Threads,
          Width      \* number of values of the counters (2^32 for unsigned)

\* The lock tells callers apart as long as fewer of them than tickets exist.
ASSUME MutexAssumption ==
  IsFiniteSet(Threads) /\ Width \in Nat /\ Cardinality(Threads) < Width

VARIABLES
  next,       \* next_
  serving,    \* serving_
  my,         \* the local `my` of each caller
  pc,         \* idle, asleep in cv_.wait, awake (about to test), held, notify
  line        \* history: the callers holding a ticket, oldest first

mutexVars == <<next, serving, my, pc, line>>

Counter == 0 .. Width - 1
Inc(x)  == IF x = Width - 1 THEN 0 ELSE x + 1

MutexInit ==
  /\ next = 0 /\ serving = 0
  /\ my = [t \in Threads |-> 0]
  /\ pc = [t \in Threads |-> "idle"]
  /\ line = << >>

TakeTicket(t) ==
  /\ next' = Inc(next)
  /\ my' = [my EXCEPT ![t] = next]
  /\ line' = Append(line, t)

\* lock(): draw a ticket and test the predicate; if it fails, cv_.wait goes
\* to sleep and releases the inner mutex in one step.
Lock(t) ==
  /\ pc[t] = "idle"
  /\ TakeTicket(t)
  /\ pc' = [pc EXCEPT ![t] = IF serving = next THEN "held" ELSE "asleep"]
  /\ UNCHANGED serving

TryLock(t) ==
  /\ pc[t] = "idle"
  /\ next = serving
  /\ TakeTicket(t)
  /\ pc' = [pc EXCEPT ![t] = "held"]
  /\ UNCHANGED serving

\* cv_.wait may return although nobody notified.
WakeUp(t) ==
  /\ pc[t] = "asleep"
  /\ pc' = [pc EXCEPT ![t] = "awake"]
  /\ UNCHANGED <<next, serving, my, line>>

\* Broken variant: any waiter that is woken takes the lock.
BargeIn(t) ==
  /\ pc[t] = "awake"
  /\ pc' = [pc EXCEPT ![t] = IF \E u \in Threads : pc[u] = "held" THEN "asleep" ELSE "held"]
  /\ UNCHANGED <<next, serving, my, line>>

\* The predicate is tested again under the inner mutex.
TestAgain(t) ==
  /\ pc[t] = "awake"
  /\ pc' = [pc EXCEPT ![t] = IF serving = my[t] THEN "held" ELSE "asleep"]
  /\ UNCHANGED <<next, serving, my, line>>

Unlock(t) ==
  /\ pc[t] = "held"
  /\ serving' = Inc(serving)
  /\ line' = Tail(line)
  /\ pc' = [pc EXCEPT ![t] = "notify"]
  /\ UNCHANGED <<next, my>>

\* Broken variant: notify_one in place of notify_all.
NotifyOne(t) ==
  /\ pc[t] = "notify"
  /\ \/ \E w \in Threads :
          pc[w] = "asleep" /\ pc' = [pc EXCEPT ![t] = "idle", ![w] = "awake"]
     \/ /\ \A w \in Threads : pc[w] # "asleep"
        /\ pc' = [pc EXCEPT ![t] = "idle"]
  /\ UNCHANGED <<next, serving, my, line>>

NotifyAll(t) ==
  /\ pc[t] = "notify"
  /\ pc' = [u \in Threads |-> CASE u = t -> "idle"
                                [] u # t /\ pc[u] = "asleep" -> "awake"
                                [] OTHER -> pc[u]]
  /\ UNCHANGED <<next, serving, my, line>>

MutexNext == \E t \in Threads :
  \/ Lock(t) \/ TryLock(t) \/ WakeUp(t) \/ TestAgain(t) \/ Unlock(t) \/ NotifyAll(t)

MutexSpec == MutexInit /\ [][MutexNext]_mutexVars

(* Threads are scheduled and leave the critical section; nobody is obliged *)
(* to ask for the lock, and no spurious wake-up is ever owed.              *)
MutexFairSpec ==
  MutexSpec /\ \A t \in Threads : WF_mutexVars(TestAgain(t) \/ Unlock(t) \/ NotifyAll(t))

-----------------------------------------------------------------------------
MutexTypeOK ==
  /\ next \in Counter /\ serving \in Counter
  /\ my \in [Threads -> Counter]
  /\ pc \in [Threads -> {"idle", "asleep", "awake", "held", "notify"}]
  /\ line \in Seq(Threads)

\* At most one thread is inside, also when the counters wrap round.
MutualExclusion ==
  \A t, u \in Threads : pc[t] = "held" /\ pc[u] = "held" => t = u

\* Callers are served in the order of their tickets: FairMutex implements
\* the first-come-first-served lock.
Fifo == INSTANCE FifoLock WITH inside <- {t \in Threads : pc[t] = "held"}

FirstComeFirstServed == Fifo!Spec

\* No wake-up is lost and no caller is overtaken for ever.
NoStarvation ==
  \A t \in Threads : (pc[t] = "asleep") ~> (pc[t] = "held")

-----------------------------------------------------------------------------
(* The inductive strengthening: the tickets of the line are consecutive    *)
(* from serving_ on, round the wrap, and next_ follows the last of them.   *)
Plus(x, k) == IF x + k < Width THEN x + k ELSE x + k - Width

Queued == {t \in Threads : pc[t] \in {"asleep", "awake", "held"}}

TicketsInLine ==
  /\ Len(line) = Cardinality(Queued)
  /\ next = Plus(serving, Len(line))
  /\ \A i \in 1 .. Len(line) : my[line[i]] = Plus(serving, i - 1)
  /\ \A t \in Queued : \E i \in 1 .. Len(line) : line[i] = t
  /\ \A i \in 1 .. Len(line) : line[i] \in Queued
  /\ \A i, j \in 1 .. Len(line) : line[i] = line[j] => i = j

HolderServed == \A t \in Threads : pc[t] = "held" => my[t] = serving

MutexInv == MutexTypeOK /\ TicketsInLine /\ HolderServed
=============================================================================
