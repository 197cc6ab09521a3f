------------------------------ MODULE DbLocks ------------------------------
(***************************************************************************)
(* The database lock behind wg_start_write, wg_start_read, wg_end_write    *)
(* and wg_end_read (dblock.c): one of three protocols.  LOCK_PROTO is fixed*)
(* when the library is compiled; here it is chosen in the initial state    *)
(* and kept.  Waits may time out under each of them.                       *)
(***************************************************************************)
EXTENDS Integers, FiniteSets

CONSTANTS Procs,          \* the attached processes
          MaxNodes,       \* the cells of the queued lock
          UseLockTimeout, \* USE_LOCK_TIMEOUT: a wait may be given up
          LateWakes       \* a cell of the queue may be freed and allocated
                          \* again before a wake-up on its way has been sent

ASSUME ProcsAssumption == IsFiniteSet(Procs)
ASSUME MaxNodesAssumption == MaxNodes \in Nat \ {0}
ASSUME FlagsAssumption == UseLockTimeout \in BOOLEAN /\ LateWakes \in BOOLEAN

RPSPIN == 1
WPSPIN == 2
TFQUEUE == 3

VARIABLES
  LOCK_PROTO,
  gl, writers, pc, readers,                        \* the spinlocks
  freelist, tail, queue_lock, next_cell, class,    \* the queued lock
  waiting, next, prev, qpc, mode, lock, syn_addr, ahead

spinVars == <<gl, writers, pc, readers>>
queueVars == <<freelist, tail, queue_lock, next_cell, class, waiting, next,
               prev, qpc, mode, lock, syn_addr, ahead>>
vars == <<LOCK_PROTO, spinVars, queueVars>>

Rp == INSTANCE RpSpinLock
Wp == INSTANCE WpSpinLock
Tfq == INSTANCE TfQueueLockProps WITH pc <- qpc

\* wg_init_locks clears the words and chains the cells.
Init ==
  /\ LOCK_PROTO \in {RPSPIN, WPSPIN, TFQUEUE}
  /\ Rp!Init /\ Wp!Init /\ Tfq!Init

InRpSpin == LOCK_PROTO = RPSPIN /\ UNCHANGED <<LOCK_PROTO, writers, readers, queueVars>>
InWpSpin == LOCK_PROTO = WPSPIN /\ UNCHANGED <<LOCK_PROTO, queueVars>>
InQueue == LOCK_PROTO = TFQUEUE /\ UNCHANGED <<LOCK_PROTO, spinVars>>

RpStep(p) == InRpSpin /\ Rp!Step(p)
RpCall(p) == InRpSpin /\ Rp!Call(p)
WpStep(p) == InWpSpin /\ Wp!Step(p)
WpCall(p) == InWpSpin /\ Wp!Call(p)
TfqStep(p) == InQueue /\ Tfq!Step(p)
TfqCall(p) == InQueue /\ (Tfq!Request(p) \/ Tfq!Timeout(p))
TfqLock(p) == InQueue /\ Tfq!LockQueue(p)

Step(p) == RpStep(p) \/ WpStep(p) \/ TfqStep(p)
Call(p) == RpCall(p) \/ WpCall(p) \/ TfqCall(p)

Next == \E p \in Procs : Step(p) \/ Call(p)

\* A process that is in a call, or in a transaction, goes on; whether it makes
\* a call or gives one up is left to it.  queue_lock is taken by whoever wins
\* the compare-and-swap; the growing sleep between two rounds of spinning is
\* what lets every contender win one (lock_queue).
Spec ==
  /\ Init /\ [][Next]_vars
  /\ \A p \in Procs : WF_vars(Step(p)) /\ SF_vars(TfqLock(p))

-----------------------------------------------------------------------------
\* The words are the sum of what the processes in the lock added to them,
\* whoever gave up in between (the counters restored by the timeout branches).
WordsCount ==
  /\ LOCK_PROTO = RPSPIN => Rp!WordCounts
  /\ LOCK_PROTO = WPSPIN => Wp!WordsCount

\* "Reader-preference" of db_rpspin_wlock: no writer is let in past a reader
\* that waits or holds.
ReaderPreference == [][LOCK_PROTO = RPSPIN => Rp!WriterWaitsForReaders]_vars

\* Every protocol implements the shared/exclusive lock.
SpinHolds(p) == CASE pc[p] = "whold" -> "write"
                  [] pc[p] = "rhold" -> "read"
                  [] OTHER -> "none"
QueueHolds(p) == IF qpc[p] \in Tfq!Holding THEN mode[p] ELSE "none"
HoldsMap == [p \in Procs |-> IF LOCK_PROTO = TFQUEUE THEN QueueHolds(p) ELSE SpinHolds(p)]
Abstract == INSTANCE RwLock WITH holds <- HoldsMap
ImplementsRwLock == Abstract!Spec

\* Nobody spins for ever: db_rpspin_rlock's reader, db_wpspin_wlock's writers.
PreferredServed ==
  /\ LOCK_PROTO = RPSPIN => Rp!EveryReaderServed
  /\ LOCK_PROTO = WPSPIN => Wp!SomeWriterServed

\* "A task-fair lock": every request in the queue is served, or refused for
\* want of a cell, with wake-ups that pass from one process to the next, unless
\* some request is given up: a timeout that drops a grant stops the queue.
NobodyGivesUp == \A p \in Procs : qpc[p] \notin Tfq!GivingUp
EveryRequestServed ==
  LOCK_PROTO = TFQUEUE /\ []NobodyGivesUp => Tfq!EveryRequestServed
=============================================================================
