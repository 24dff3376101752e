------------------------------ MODULE AsyncLog ------------------------------
(***************************************************************************)
(* The asynchronous log of src/ckit (src/log.c) as src/src/main.cpp runs   *)
(* it: worker threads append records to chunks of their own under a spin   *)
(* lock each, full chunks go through the queue of module Mpsc, a flusher   *)
(* thread (or the crash handler of a worker) drains the queue into a       *)
(* rotated file, and main deinitialises the log when it stops.             *)
(***************************************************************************)
EXTENDS Mpsc, FiniteSets

CONSTANTS Workers,     \* 1 .. producer_cnt: the threads that log, by index
          Flusher,     \* the thread of log_flusher_func
          Main,        \* the thread that stops the others
          Writes,      \* Writes[p]: the lines worker p will log
          ChunkCap,    \* records a chunk holds (cfg.chunk_size)
          FileCap,     \* records a file holds (cfg.file_size)
          Crashing,    \* bound: the workers that may hit a fatal exception
          MaxFaults    \* bound: failures of the file system

ASSUME LogAssumption ==
  /\ IsFiniteSet(Workers) /\ Workers = 1 .. Cardinality(Workers)
  /\ Threads = Workers \cup {Flusher, Main}
  /\ Flusher # Main /\ {Flusher, Main} \cap Workers = {}
  /\ Writes \in [Workers -> Nat] /\ Crashing \subseteq Workers
  /\ ChunkCap \in Nat \ {0} /\ FileCap \in Nat \ {0} /\ MaxFaults \in Nat

VARIABLES
  pc,        \* pc[t]: the next step of thread t
  left,      \* left[p]: lines worker p has still to log
  lock,      \* lock[p]: producers[p].lock is taken
  chunk,     \* chunk[p]: producers[p].chunk
  data,      \* data[c]: the records of chunk c still to be output
  free,      \* blocks of the memory pool that are free
  busy,      \* lo.busy
  at,        \* at[t]: the producer log_submit_pending has reached
  moving,    \* moving[t]: the chunk it took and has not pushed
  ret,       \* ret[t]: what the flush of t returns
  file,      \* the file stream, see Closed
  buffered,  \* records in the buffer of the stream
  durable,   \* records handed to the operating system
  faults,    \* failures so far
  running,   \* g_flusherRunning
  draining,  \* the flusher is past its loop, in its last flush
  crashed,   \* the worker the crash handler runs on
  accepted,  \* history: records log_write stored
  lost,      \* history: records dropped because of a file error
  before,    \* history: before[t]: accepted when the flush of t took busy
  overlap    \* history: overlap[t]: a worker's push overlapped the last pop of t

wvars == <<left, lock, chunk, data, free, accepted>>
cvars == <<busy, at, moving, ret, before, overlap>>
fvars == <<file, buffered, durable, faults, lost>>
svars == <<running, draining, crashed>>
vars == <<pc, wvars, cvars, fvars, svars, mvars>>

(* log_file and log_check: whether a stream is open, the records in it,    *)
(* and file_failed, which stays until the next file is opened.             *)
Closed == [open |-> FALSE, count |-> 0, failed |-> FALSE]

Init ==
  /\ MInit
  /\ pc = [t \in Threads |-> "idle"]
  /\ left = Writes
  /\ lock = [p \in Workers |-> FALSE]
  /\ chunk = [p \in Workers |-> Null]
  /\ data = [c \in Chunks |-> <<>>]
  /\ free = Chunks /\ accepted = {}
  /\ busy = FALSE
  /\ at = [t \in Threads |-> 1]
  /\ moving = [t \in Threads |-> Null]
  /\ ret = [t \in Threads |-> "ok"]
  /\ before = [t \in Threads |-> {}]
  /\ overlap = [t \in Threads |-> FALSE]
  /\ file = Closed
  /\ buffered = {} /\ durable = {} /\ faults = 0 /\ lost = {}
  /\ running = TRUE /\ draining = FALSE /\ crashed = Null

Step(t, from, to) == pc[t] = from /\ pc' = [pc EXCEPT ![t] = to]

(***************************************************************************)
(* log_write on worker p.                                                  *)
(***************************************************************************)
Record(p) == <<p, left[p]>>

Write(p) ==
  /\ left[p] > 0 /\ running
  /\ Step(p, "idle", "lock")
  /\ UNCHANGED <<mvars, wvars, cvars, fvars, svars>>

(* An exception no one handles: the handler logs the crash and flushes.    *)
Crash(p) ==
  /\ p \in Crashing /\ left[p] > 0 /\ running /\ crashed = Null
  /\ crashed' = p
  /\ Step(p, "idle", "lock")
  /\ UNCHANGED <<mvars, wvars, cvars, fvars, running, draining>>

LockProducer(p) ==
  /\ ~lock[p]
  /\ lock' = [lock EXCEPT ![p] = TRUE]
  /\ Step(p, "lock", IF chunk[p] = Null THEN "alloc"
                     ELSE IF Len(data[chunk[p]]) = ChunkCap THEN "full" ELSE "append")
  /\ UNCHANGED <<mvars, left, chunk, data, free, accepted, cvars, fvars, svars>>

PushFull(p) ==
  /\ Step(p, "full", "linkfull")
  /\ Push(p, chunk[p])
  /\ chunk' = [chunk EXCEPT ![p] = Null]
  /\ overlap' = [t \in Threads |-> overlap[t] \/ pop[t] # "idle"]
  /\ UNCHANGED <<left, lock, data, free, accepted, busy, at, moving, ret, before, fvars, svars>>

LinkFull(p) ==
  /\ Step(p, "linkfull", "alloc")
  /\ PushLink(p)
  /\ UNCHANGED <<wvars, cvars, fvars, svars>>

(* The end of a write: the worker goes on, in the crash handler with       *)
(* log_flush.                                                              *)
Unlock(p, from) ==
  /\ Step(p, from, IF crashed = p THEN "flush" ELSE "idle")
  /\ lock' = [lock EXCEPT ![p] = FALSE]
  /\ left' = [left EXCEPT ![p] = @ - 1]

(* A new chunk from the pool takes the record.                             *)
Alloc(p) ==
  /\ Unlock(p, "alloc")
  /\ \E c \in free :
       /\ free' = free \ {c}
       /\ data' = [data EXCEPT ![c] = <<Record(p)>>]
       /\ chunk' = [chunk EXCEPT ![p] = c]
  /\ accepted' = accepted \cup {Record(p)}
  /\ UNCHANGED <<mvars, cvars, fvars, svars>>

(* The pool has no block left: log_write returns MEALLOC without a line.   *)
AllocFails(p) ==
  /\ free = {}
  /\ Unlock(p, "alloc")
  /\ UNCHANGED <<mvars, chunk, data, free, accepted, cvars, fvars, svars>>

AppendRecord(p) ==
  /\ Unlock(p, "append")
  /\ data' = [data EXCEPT ![chunk[p]] = Append(@, Record(p))]
  /\ accepted' = accepted \cup {Record(p)}
  /\ UNCHANGED <<mvars, chunk, free, cvars, fvars, svars>>

(* Mutant: busy is set without looking at it (a store, not an exchange).   *)
TakeBusyBlindly(t) ==
  /\ busy' = TRUE
  /\ Step(t, "flush", "submit")
  /\ ret' = [ret EXCEPT ![t] = "ok"]
  /\ before' = [before EXCEPT ![t] = accepted]
  /\ UNCHANGED <<mvars, wvars, at, moving, overlap, fvars, svars>>

(***************************************************************************)
(* log_flush on thread t: take busy, submit what the producers hold, pop   *)
(* until the queue shows nothing more, write, flush the stream.            *)
(***************************************************************************)
(* log_flusher_func flushes in a loop, and once more after the stop.       *)
Tick ==
  /\ Step(Flusher, "idle", "flush")
  /\ draining' = ~running
  /\ UNCHANGED <<mvars, wvars, cvars, fvars, running, crashed>>

TakeBusy(t) ==
  /\ ~busy /\ busy' = TRUE
  /\ Step(t, "flush", "submit")
  /\ ret' = [ret EXCEPT ![t] = "ok"]
  /\ before' = [before EXCEPT ![t] = accepted]
  /\ UNCHANGED <<mvars, wvars, at, moving, overlap, fvars, svars>>

Busy(t) ==
  /\ busy
  /\ Step(t, "flush", "returned")
  /\ ret' = [ret EXCEPT ![t] = "busy"]
  /\ UNCHANGED <<mvars, wvars, busy, at, moving, before, overlap, fvars, svars>>

(* Mutant: producer->chunk keeps pointing to the chunk that was submitted. *)
TakeChunkShared(t) ==
  LET p == at[t] IN
  /\ p \in Workers /\ ~lock[p]
  /\ IF chunk[p] # Null /\ data[chunk[p]] # <<>> /\ chunk[p] \notin InQueue
     THEN /\ Step(t, "submit", "push")
          /\ moving' = [moving EXCEPT ![t] = chunk[p]]
          /\ UNCHANGED at
     ELSE /\ pc[t] = "submit"
          /\ at' = [at EXCEPT ![t] = p + 1]
          /\ UNCHANGED <<pc, moving>>
  /\ UNCHANGED <<mvars, wvars, busy, ret, before, overlap, fvars, svars>>

(* Mutant: only chunks that are full are submitted.                        *)
TakeFullChunk(t) ==
  LET p == at[t] IN
  /\ p \in Workers /\ ~lock[p]
  /\ IF chunk[p] # Null /\ Len(data[chunk[p]]) = ChunkCap
     THEN /\ Step(t, "submit", "push")
          /\ moving' = [moving EXCEPT ![t] = chunk[p]]
          /\ chunk' = [chunk EXCEPT ![p] = Null]
          /\ UNCHANGED at
     ELSE /\ pc[t] = "submit"
          /\ at' = [at EXCEPT ![t] = p + 1]
          /\ UNCHANGED <<pc, moving, chunk>>
  /\ UNCHANGED <<mvars, left, lock, data, free, accepted, busy, ret, before, overlap, fvars, svars>>

(* log_submit_pending takes the chunk under the producer's lock and pushes *)
(* it after the unlock.                                                    *)
TakeChunk(t) ==
  LET p == at[t] IN
  /\ p \in Workers /\ ~lock[p]
  /\ IF chunk[p] # Null /\ data[chunk[p]] # <<>>
     THEN /\ Step(t, "submit", "push")
          /\ moving' = [moving EXCEPT ![t] = chunk[p]]
          /\ chunk' = [chunk EXCEPT ![p] = Null]
          /\ UNCHANGED at
     ELSE /\ pc[t] = "submit"
          /\ at' = [at EXCEPT ![t] = p + 1]
          /\ UNCHANGED <<pc, moving, chunk>>
  /\ UNCHANGED <<mvars, left, lock, data, free, accepted, busy, ret, before, overlap, fvars, svars>>

PushTaken(t) ==
  /\ Step(t, "push", "linktaken")
  /\ Push(t, moving[t])
  /\ moving' = [moving EXCEPT ![t] = Null]
  /\ UNCHANGED <<wvars, busy, at, ret, before, overlap, fvars, svars>>

LinkTaken(t) ==
  /\ Step(t, "linktaken", "submit")
  /\ PushLink(t)
  /\ at' = [at EXCEPT ![t] = @ + 1]
  /\ UNCHANGED <<wvars, busy, moving, ret, before, overlap, fvars, svars>>

(* log_deinit submits once before its flush, without busy.                 *)
Submitted(t) ==
  /\ at[t] \notin Workers
  /\ Step(t, "submit", IF ret[t] = "deinit" THEN "flush" ELSE "drain")
  /\ at' = [at EXCEPT ![t] = 1]
  /\ UNCHANGED <<mvars, wvars, busy, moving, ret, before, overlap, fvars, svars>>

Drain(t) ==
  /\ pc[t] = "drain"
  /\ PopStep(t)
  /\ overlap' = IF pop[t] = "idle"
                THEN [overlap EXCEPT ![t] = \E u \in Threads : link[u] # Null]
                ELSE overlap
  /\ UNCHANGED <<pc, wvars, busy, at, moving, ret, before, fvars, svars>>

(* mpsc_pop returned NULL.                                                 *)
Drained(t) ==
  /\ pop[t] = "empty"
  /\ Step(t, "drain", "sync")
  /\ Finish(t)
  /\ UNCHANGED <<wvars, cvars, fvars, svars>>

FreeChunk(t) ==
  /\ pc[t] = "drain" /\ pop[t] = "node"
  /\ data[hand[t]] = <<>>
  /\ free' = free \cup {hand[t]}
  /\ Finish(t)
  /\ UNCHANGED <<pc, left, lock, chunk, data, accepted, cvars, fvars, svars>>

(***************************************************************************)
(* log_flush_ring, for the next record of the chunk in hand.  A record     *)
(* that cannot be written is dropped and the flush goes on with the next.  *)
(***************************************************************************)
NextRecord(t) ==
  /\ pc[t] = "drain" /\ pop[t] = "node"
  /\ data[hand[t]] # <<>>
  /\ data' = [data EXCEPT ![hand[t]] = Tail(@)]
  /\ UNCHANGED <<pc, mvars, left, lock, chunk, free, accepted, busy, at, moving, before, overlap,
                 svars>>

Full  == file.open /\ file.count = FileCap
Fault == faults < MaxFaults /\ faults' = faults + 1

DropRecord(t, more) ==
  /\ lost' = lost \cup {data[hand[t]][1]} \cup more
  /\ ret' = [ret EXCEPT ![t] = "err"]

(* log_stream_close: sync, close and rename; with file_failed set it       *)
(* closes all the same and reports the failure.                            *)
CloseFails(t) ==
  /\ NextRecord(t) /\ Full
  /\ file' = [file EXCEPT !.open = FALSE, !.failed = TRUE]
  /\ buffered' = {}
  /\ \/ /\ Fault
        /\ DropRecord(t, buffered)
        /\ UNCHANGED durable
     \/ /\ file.failed /\ UNCHANGED faults
        /\ DropRecord(t, {})
        /\ durable' = durable \cup buffered

CanWrite == file.open /\ ~Full

(* The records of a full file are safe once it is closed.                  *)
Rotate ==
  IF Full THEN ~file.failed /\ durable' = durable \cup buffered ELSE UNCHANGED durable

OpenFails(t) ==
  /\ NextRecord(t) /\ ~CanWrite /\ Fault /\ Rotate
  /\ file' = [file EXCEPT !.open = FALSE]
  /\ buffered' = {}
  /\ DropRecord(t, {})

WriteFails(t) ==
  /\ NextRecord(t) /\ Fault /\ Rotate
  /\ file' = [open |-> TRUE, count |-> IF CanWrite THEN file.count ELSE 0, failed |-> TRUE]
  /\ buffered' = IF CanWrite THEN buffered ELSE {}
  /\ DropRecord(t, {})

WriteRecord(t) ==
  /\ NextRecord(t) /\ Rotate
  /\ file' = IF CanWrite THEN [file EXCEPT !.count = @ + 1]
             ELSE [open |-> TRUE, count |-> 1, failed |-> FALSE]
  /\ buffered' = (IF CanWrite THEN buffered ELSE {}) \cup {data[hand[t]][1]}
  /\ UNCHANGED <<faults, lost, ret>>

(* Mutant: the early exit of a failed flush forgets to give busy back.     *)
SyncKeepsBusy(t) ==
  /\ Step(t, "sync", "returned")
  /\ busy' = (ret[t] = "err")
  /\ IF ret[t] = "ok" /\ file.open
     THEN durable' = durable \cup buffered /\ buffered' = {}
     ELSE UNCHANGED <<durable, buffered>>
  /\ UNCHANGED <<mvars, wvars, at, moving, before, overlap, ret, file, faults, lost, svars>>

(* log_stream_maybe_flush, only after a drain without an error; then busy  *)
(* is given back.                                                          *)
Sync(t) ==
  /\ Step(t, "sync", "returned")
  /\ busy' = FALSE
  /\ \/ /\ ret[t] = "ok" /\ file.open
        /\ durable' = durable \cup buffered /\ buffered' = {}
        /\ UNCHANGED <<ret, file, faults>>
     \/ /\ ret[t] = "ok" /\ file.open /\ Fault
        /\ ret' = [ret EXCEPT ![t] = "err"]
        /\ file' = [file EXCEPT !.failed = TRUE]
        /\ UNCHANGED <<durable, buffered>>
     \/ /\ ~(ret[t] = "ok" /\ file.open)
        /\ UNCHANGED <<ret, file, faults, durable, buffered>>
  /\ UNCHANGED <<mvars, wvars, at, moving, before, overlap, lost, svars>>

(* The flusher sleeps and flushes again or ends, the crash handler ends    *)
(* the process, main goes on with log_deinit.                              *)
Return(t) ==
  /\ Step(t, "returned", CASE t = Flusher -> IF draining THEN "done" ELSE "idle"
                           [] t = Main -> IF ret[t] = "busy" THEN "done" ELSE "close"
                           [] OTHER -> "dead")
  /\ ret' = [ret EXCEPT ![t] = "ok"]
  /\ before' = [before EXCEPT ![t] = {}]
  /\ overlap' = [overlap EXCEPT ![t] = FALSE]
  /\ UNCHANGED <<mvars, wvars, busy, at, moving, fvars, svars>>

(***************************************************************************)
(* Shutdown on Main: the workers are joined, the flusher is stopped and    *)
(* joined, log_deinit.                                                     *)
(***************************************************************************)
StopFlusher ==
  /\ \A p \in Workers : pc[p] = "idle"
  /\ running' = FALSE
  /\ Step(Main, "idle", "join")
  /\ UNCHANGED <<mvars, wvars, cvars, fvars, draining, crashed>>

Deinit ==
  /\ pc[Flusher] = "done"
  /\ Step(Main, "join", "submit")
  /\ ret' = [ret EXCEPT ![Main] = "deinit"]
  /\ UNCHANGED <<mvars, wvars, busy, at, moving, before, overlap, fvars, svars>>

(* Chunks the producers still have are freed, the file is closed.          *)
Close ==
  /\ Step(Main, "close", "done")
  /\ free' = free \cup ({chunk[p] : p \in Workers} \ {Null})
  /\ chunk' = [p \in Workers |-> Null]
  /\ buffered' = {}
  /\ file' = IF file.open THEN [file EXCEPT !.open = FALSE] ELSE file
  /\ \/ durable' = durable \cup buffered /\ UNCHANGED <<lost, faults>>
     \/ file.open /\ Fault /\ lost' = lost \cup buffered /\ UNCHANGED durable
  /\ UNCHANGED <<mvars, left, lock, data, accepted, cvars, svars>>

-----------------------------------------------------------------------------
Alive == \A p \in Workers : pc[p] # "dead"

FlushStep(t) ==
  \/ TakeBusy(t) \/ Busy(t) \/ TakeChunk(t) \/ PushTaken(t) \/ LinkTaken(t) \/ Submitted(t)
  \/ Drain(t) \/ Drained(t) \/ FreeChunk(t)
  \/ CloseFails(t) \/ OpenFails(t) \/ WriteFails(t) \/ WriteRecord(t)
  \/ Sync(t) \/ Return(t)

WriteStep(p) ==
  \/ LockProducer(p) \/ PushFull(p) \/ LinkFull(p) \/ Alloc(p) \/ AllocFails(p) \/ AppendRecord(p)

(* What thread t does once it has begun; a worker begins on its own.       *)
ThreadStep(t) ==
  \/ FlushStep(t)
  \/ t \in Workers /\ WriteStep(t)
  \/ t = Flusher /\ Tick
  \/ t = Main /\ (Deinit \/ Close)

Finished == (~Alive \/ pc[Main] = "done") /\ UNCHANGED vars

Next ==
  \/ /\ Alive
     /\ \/ \E p \in Workers : Write(p) \/ Crash(p)
        \/ \E t \in Threads : ThreadStep(t)
        \/ StopFlusher
  \/ Finished

(* A thread in the middle of something goes on, and the flusher keeps      *)
(* flushing.  The spin lock is not fair, but a worker has finitely many    *)
(* lines to log.  Nothing has to crash or to stop.                         *)
Fairness == \A t \in Threads : WF_vars(Alive /\ ThreadStep(t))

Spec == Init /\ [][Next]_vars /\ Fairness

-----------------------------------------------------------------------------
Records(c) == {data[c][i] : i \in DOMAIN data[c]}

TypeOK ==
  /\ pc \in [Threads -> {"idle", "lock", "full", "linkfull", "alloc", "append", "flush", "submit",
                         "push", "linktaken", "drain", "sync", "returned", "join", "close",
                         "done", "dead"}]
  /\ left \in [Workers -> Nat] /\ lock \in [Workers -> BOOLEAN]
  /\ chunk \in [Workers -> Chunks \cup {Null}]
  /\ free \subseteq Chunks
  /\ busy \in BOOLEAN /\ at \in [Threads -> Nat]
  /\ moving \in [Threads -> Chunks \cup {Null}]
  /\ ret \in [Threads -> {"ok", "err", "busy", "deinit"}]
  /\ file \in [open : BOOLEAN, count : 0 .. FileCap, failed : BOOLEAN]
  /\ {buffered, durable, lost, accepted} \subseteq SUBSET (Workers \X Nat)

(* The queue is used within its contract (mpsc.h), one consumer at a time, *)
(* a chunk pushed by its only owner and not reused before it is popped;    *)
(* and it is then the FIFO it promises to be, whoever stalls in a push.    *)
QueueContract == MSpec /\ QueueIsFifo

(* Every record log_write reported as stored is in exactly one place, and  *)
(* stays in one: a chunk that is not free, the stream's buffer, the        *)
(* operating system, or among the lines dropped with an error.  A failure  *)
(* of the file system costs at most the records of one file that were      *)
(* still in its buffer and one more: the next file opens clean.            *)
RecordsConserved ==
  /\ \A r \in accepted :
       Cardinality({c \in Chunks \ free : r \in Records(c)})
         + Cardinality({s \in {1, 2, 3} : r \in <<buffered, durable, lost>>[s]}) = 1
  /\ Cardinality(lost) <= (FileCap + 1) * faults

(* log_flush (log.h) writes what is pending: when it returns 0, each       *)
(* record stored before it began has reached the system or was reported    *)
(* lost, unless a worker's push overlapped the pop that ended the drain.   *)
FlushCovers ==
  \A t \in Threads :
    pc[t] = "returned" /\ ret[t] = "ok" /\ ~overlap[t] => before[t] \subseteq durable \cup lost

(* Nothing is forgotten while the process lives.                           *)
EventuallyWritten == []<>(accepted \subseteq durable \cup lost \/ ~Alive)
=============================================================================
