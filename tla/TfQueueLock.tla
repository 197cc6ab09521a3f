---------------------------- MODULE TfQueueLock ----------------------------
(***************************************************************************)
(* The task-fair queued database lock of WhiteDB (dblock.c, LOCK_PROTO 3,  *)
(* the protocol config.h selects).  A request allocates a cell, appends it *)
(* to a doubly linked queue under a spin mutex and sleeps in a futex until *)
(* the cell in front of it clears its `waiting' word.                      *)
(*                                                                         *)
(* Everything but the `waiting' words is read and written only while       *)
(* queue_lock is held, so the body of a critical section together with the *)
(* unlock_queue that ends it is one action; taking the mutex, testing      *)
(* `waiting', the two halves of the futex system call and the wake that    *)
(* follows an unlock are actions of their own.                             *)
(*                                                                         *)
(* A definition named X_slip is X with a plausible programming slip; it is *)
(* part of no specification and serves to test the properties.             *)
(***************************************************************************)
EXTENDS Naturals

CONSTANTS
  Procs,          \* the attached processes
  MaxNodes,       \* locks.max_nodes, the number of lock cells
  UseLockTimeout, \* USE_LOCK_TIMEOUT: a wait may end with ETIMEDOUT
  LateWakes       \* a cell may be freed and allocated again between the
                  \* unlock_queue of a releaser and its futex_wake

ASSUME MaxNodesAssumption == MaxNodes \in Nat \ {0}
ASSUME FlagsAssumption ==
  /\ UseLockTimeout \in BOOLEAN
  /\ LateWakes \in BOOLEAN

Cells == 1 .. MaxNodes
Null  == 0                  \* offset 0: no cell
Read  == "read"             \* LOCKQ_READ
Write == "write"            \* LOCKQ_WRITE

VARIABLES
  freelist,    \* locks.freelist: top of the stack of free cells
  tail,        \* locks.tail: last cell of the queue
  queue_lock,  \* locks.queue_lock: the mutex around the fields below
  next_cell, class, waiting, next, prev,   \* the fields of lock_queue_node
  pc,          \* where each process is
  mode,        \* the class a process asks for
  lock,        \* its local variable `lock': the cell it was given
  syn_addr,    \* its local variable `syn_addr': the cell it must wake
  ahead        \* history only: the cells still queued that arrived before

cellVars == <<next_cell, class, waiting, next, prev>>
vars == <<freelist, tail, queue_lock, cellVars, pc, mode, lock, syn_addr, ahead>>

-----------------------------------------------------------------------------
(* Control points.  A name starting with "want" spins on queue_lock, the   *)
(* point after it is inside the critical section.  A holder spins in       *)
(* wg_end_read or wg_end_write while it is still "held".                   *)

Waiting == {"check", "trywait", "asleep"}
Holding == {"held", "release"}
Chaining == {"want_chain", "chain", "chain_wake"}
GivingUp == {"want_dequeue", "dequeue"}
Queueing == Waiting \cup Holding \cup Chaining \cup GivingUp
PCs == Queueing \cup {"idle", "want_enqueue", "enqueue", "release_wake"}

Queued == {lock[p] : p \in {q \in Procs : pc[q] \in Queueing}}
PendingWakes == {syn_addr[p] : p \in Procs} \ {Null}

Init ==
  /\ freelist = 1
  /\ tail = Null
  /\ queue_lock = 0
  /\ next_cell = [c \in Cells |-> IF c = MaxNodes THEN Null ELSE c + 1]
  /\ class = [c \in Cells |-> Read]
  /\ waiting = [c \in Cells |-> 0]
  /\ next = [c \in Cells |-> Null]
  /\ prev = [c \in Cells |-> Null]
  /\ pc = [p \in Procs |-> "idle"]
  /\ mode = [p \in Procs |-> Read]
  /\ lock = [p \in Procs |-> Null]
  /\ syn_addr = [p \in Procs |-> Null]
  /\ ahead = [c \in Cells |-> {}]

Goto(p, from, to) ==
  /\ pc[p] = from
  /\ pc' = [pc EXCEPT ![p] = to]

\* wg_start_read or wg_start_write is called.
Request(p) ==
  /\ Goto(p, "idle", "want_enqueue")
  /\ \E m \in {Read, Write} : mode' = [mode EXCEPT ![p] = m]
  /\ UNCHANGED <<freelist, tail, queue_lock, cellVars, lock, syn_addr, ahead>>

\* The spin forgets to test the mutex.
LockQueue_slip(p) ==
  /\ queue_lock' = queue_lock + 1
  /\ \/ Goto(p, "want_enqueue", "enqueue")
     \/ Goto(p, "want_chain", "chain")
     \/ Goto(p, "want_dequeue", "dequeue")
     \/ Goto(p, "held", "release")
  /\ UNCHANGED <<freelist, tail, cellVars, mode, lock, syn_addr, ahead>>

\* One of the spins of lock_queue() wins the compare-and-swap.
LockQueue(p) ==
  /\ queue_lock = 0
  /\ queue_lock' = 1
  /\ \/ Goto(p, "want_enqueue", "enqueue")
     \/ Goto(p, "want_chain", "chain")
     \/ Goto(p, "want_dequeue", "dequeue")
     \/ Goto(p, "held", "release")
  /\ UNCHANGED <<freelist, tail, cellVars, mode, lock, syn_addr, ahead>>

UnlockQueue == queue_lock' = 0

\* ALLOC_LOCK finds the free list empty: the caller gets no lock.
AllocFails(p) ==
  /\ freelist = Null
  /\ Goto(p, "enqueue", "idle")
  /\ UnlockQueue
  /\ UNCHANGED <<freelist, tail, cellVars, mode, lock, syn_addr, ahead>>

\* A reader does not look at the class, or at the state, of the tail.
MustWait_slip_class(m) == tail # Null /\ ~ (m = Read /\ waiting[tail] = 0)
MustWait_slip_state(m) == tail # Null /\ ~ (m = Read /\ class[tail] = Read)

\* Whether a request of class m behind the cell at the tail has to wait.
MustWait(m) ==
  /\ tail # Null
  /\ ~ (m = Read /\ class[tail] = Read /\ waiting[tail] = 0)

Enqueue(p) ==
  LET c == freelist IN
  /\ c # Null
  /\ LateWakes \/ c \notin PendingWakes
  /\ Goto(p, "enqueue", "check")
  /\ freelist' = next_cell[c]
  /\ tail' = c
  /\ lock' = [lock EXCEPT ![p] = c]
  /\ class' = [class EXCEPT ![c] = mode[p]]
  /\ prev' = [prev EXCEPT ![c] = tail]
  /\ next' = [n \in Cells |-> IF n = c THEN Null
                              ELSE IF n = tail THEN c ELSE next[n]]
  /\ waiting' = [waiting EXCEPT ![c] = IF MustWait(mode[p]) THEN 1 ELSE 0]
  /\ ahead' = [ahead EXCEPT ![c] = Queued]
  /\ UnlockQueue
  /\ UNCHANGED <<next_cell, mode, syn_addr>>

-----------------------------------------------------------------------------
(* Waiting: the test of `waiting' outside the mutex, then FUTEX_WAIT.      *)

\* What follows a wait that did not time out: a reader goes on to wake the
\* reader behind it, a writer returns.
AfterWait(p) == IF mode[p] = Read THEN "want_chain" ELSE "held"

Check(p) ==
  /\ \/ Goto(p, "check", "held") /\ waiting[lock[p]] = 0
     \/ Goto(p, "check", "trywait") /\ waiting[lock[p]] # 0
  /\ UNCHANGED <<freelist, tail, queue_lock, cellVars, mode, lock, syn_addr, ahead>>

\* The caller goes to sleep without looking at the word again.
FutexWait_slip(p) ==
  /\ Goto(p, "trywait", "asleep")
  /\ UNCHANGED <<freelist, tail, queue_lock, cellVars, mode, lock, syn_addr, ahead>>

\* The kernel compares the word with 1 and puts the caller to sleep, or
\* returns EAGAIN, which the code takes for a wake-up.
FutexWait(p) ==
  /\ \/ Goto(p, "trywait", "asleep") /\ waiting[lock[p]] = 1
     \/ Goto(p, "trywait", AfterWait(p)) /\ waiting[lock[p]] # 1
  /\ UNCHANGED <<freelist, tail, queue_lock, cellVars, mode, lock, syn_addr, ahead>>

Timeout(p) ==
  /\ UseLockTimeout
  /\ Goto(p, "asleep", "want_dequeue")
  /\ UNCHANGED <<freelist, tail, queue_lock, cellVars, mode, lock, syn_addr, ahead>>

\* The wake-up is never sent.
FutexWake_slip(p, from, to) ==
  /\ Goto(p, from, to)
  /\ syn_addr' = [syn_addr EXCEPT ![p] = Null]
  /\ UNCHANGED <<freelist, tail, queue_lock, cellVars, mode, lock, ahead>>

\* FUTEX_WAKE of one sleeper on the word of cell syn_addr[p], if there is one.
FutexWake(p, from, to) ==
  LET sleepers == {q \in Procs : pc[q] = "asleep" /\ lock[q] = syn_addr[p]} IN
  /\ pc[p] = from
  /\ \/ /\ sleepers = {}
        /\ pc' = [pc EXCEPT ![p] = to]
     \/ \E q \in sleepers : pc' = [pc EXCEPT ![p] = to, ![q] = AfterWait(q)]
  /\ syn_addr' = [syn_addr EXCEPT ![p] = Null]
  /\ UNCHANGED <<freelist, tail, queue_lock, cellVars, mode, lock, ahead>>

-----------------------------------------------------------------------------
(* Leaving the queue.                                                      *)

\* The freed cell is not linked to the rest of the free list.
FreeLock_slip(c) ==
  /\ freelist' = c
  /\ UNCHANGED next_cell

FreeLock(c) ==
  /\ next_cell' = [next_cell EXCEPT ![c] = freelist]
  /\ freelist' = c

Forget(p) ==
  /\ lock' = [lock EXCEPT ![p] = Null]
  /\ ahead' = [d \in Cells |-> IF d = lock[p] THEN {} ELSE ahead[d] \ {lock[p]}]

\* An unlock that cleared the `waiting' word of cell n wakes its sleeper next;
\* n = Null means it cleared none.
Granting(p, n, then, else) ==
  /\ waiting' = IF n = Null THEN waiting ELSE [waiting EXCEPT ![n] = 0]
  /\ syn_addr' = [syn_addr EXCEPT ![p] = n]
  /\ pc' = [pc EXCEPT ![p] = IF n = Null THEN else ELSE then]

\* The cell behind the dequeued one keeps its `prev'.
Dequeue_slip(p) ==
  LET c == lock[p] IN
  /\ Goto(p, "dequeue", "idle")
  /\ next' = IF prev[c] = Null THEN next ELSE [next EXCEPT ![prev[c]] = next[c]]
  /\ tail' = IF next[c] = Null /\ tail = c THEN prev[c] ELSE tail
  /\ FreeLock(c)
  /\ Forget(p)
  /\ UnlockQueue
  /\ UNCHANGED <<class, waiting, prev, mode, syn_addr>>

\* DEQUEUE_LOCK and free_lock after a timeout: the request returns 0.
Dequeue(p) ==
  LET c == lock[p] IN
  /\ Goto(p, "dequeue", "idle")
  /\ next' = IF prev[c] = Null THEN next ELSE [next EXCEPT ![prev[c]] = next[c]]
  /\ prev' = IF next[c] = Null THEN prev ELSE [prev EXCEPT ![next[c]] = prev[c]]
  /\ tail' = IF next[c] = Null /\ tail = c THEN prev[c] ELSE tail
  /\ FreeLock(c)
  /\ Forget(p)
  /\ UnlockQueue
  /\ UNCHANGED <<class, waiting, mode, syn_addr>>

\* A woken reader lets the reader behind it in.
Chain(p) ==
  LET n == next[lock[p]]
      admitted == IF n # Null /\ class[n] = Read /\ waiting[n] # 0 THEN n ELSE Null
  IN
  /\ pc[p] = "chain"
  /\ Granting(p, admitted, "chain_wake", "held")
  /\ UnlockQueue
  /\ UNCHANGED <<freelist, tail, next_cell, class, next, prev, mode, lock, ahead>>

\* db_tfqueue_wulock: the writer is the head of the queue.
ReleaseWrite(p) ==
  LET c == lock[p]  n == next[lock[p]] IN
  /\ pc[p] = "release" /\ mode[p] = Write
  /\ Granting(p, n, "release_wake", "idle")
  /\ prev' = IF n = Null THEN prev ELSE [prev EXCEPT ![n] = Null]
  /\ tail' = IF n = Null /\ tail = c THEN Null ELSE tail
  /\ FreeLock(c)
  /\ Forget(p)
  /\ UnlockQueue
  /\ UNCHANGED <<class, next, mode>>

\* Any waiting cell is let in, or readers only.
Admits_slip_any(c, n) == n # Null /\ waiting[n] # 0
Admits_slip_readers(c, n) == n # Null /\ waiting[n] # 0 /\ class[n] = Read

\* Whether a leaving reader lets the waiting cell behind it in.
Admits(c, n) ==
  /\ n # Null
  /\ waiting[n] # 0
  /\ prev[c] = Null \/ class[n] = Read

\* db_tfqueue_rulock: a reader may leave from the middle of the queue.
ReleaseRead(p) ==
  LET c == lock[p]  n == next[lock[p]]
      admitted == IF Admits(c, n) THEN n ELSE Null
  IN
  /\ pc[p] = "release" /\ mode[p] = Read
  /\ Granting(p, admitted, "release_wake", "idle")
  /\ next' = IF prev[c] = Null THEN next ELSE [next EXCEPT ![prev[c]] = n]
  /\ prev' = IF n = Null THEN prev ELSE [prev EXCEPT ![n] = prev[c]]
  /\ tail' = IF n = Null /\ tail = c THEN prev[c] ELSE tail
  /\ FreeLock(c)
  /\ Forget(p)
  /\ UnlockQueue
  /\ UNCHANGED <<class, mode>>

-----------------------------------------------------------------------------
ChainWake(p) == FutexWake(p, "chain_wake", "held")
ReleaseWake(p) == FutexWake(p, "release_wake", "idle")

\* The steps a process that has called into the lock takes by itself.
Step(p) ==
  \/ LockQueue(p) \/ AllocFails(p) \/ Enqueue(p)
  \/ Check(p) \/ FutexWait(p)
  \/ Chain(p) \/ ChainWake(p) \/ Dequeue(p)
  \/ ReleaseWrite(p) \/ ReleaseRead(p) \/ ReleaseWake(p)

Next ==
  \E p \in Procs :
    Step(p) \/ Request(p) \/ Timeout(p)

Spec == Init /\ [][Next]_vars

\* A process in a call keeps running and transactions end.  queue_lock is
\* taken by whoever wins the compare-and-swap; the growing sleep between two
\* rounds of spinning is what lets every contender win one (lock_queue).
FairSpec ==
  /\ Spec
  /\ \A p \in Procs : WF_vars(Step(p)) /\ SF_vars(LockQueue(p))
=============================================================================
