-------------------------- MODULE TfQueueLockProps --------------------------
(* What the task-fair queued lock must guarantee. *)
EXTENDS TfQueueLock

Holders(m) == {p \in Procs : pc[p] \in Holding /\ mode[p] = m}

\* Types of the shared words and of the processes' local variables
\* (lock_queue_node in dblock.h, the locals of the db_tfqueue functions).
TypeOK ==
  /\ freelist \in Cells \cup {Null}
  /\ tail \in Cells \cup {Null}
  /\ queue_lock \in {0, 1}
  /\ next_cell \in [Cells -> Cells \cup {Null}]
  /\ class \in [Cells -> {Read, Write}]
  /\ waiting \in [Cells -> {0, 1}]
  /\ next \in [Cells -> Cells \cup {Null}]
  /\ prev \in [Cells -> Cells \cup {Null}]
  /\ pc \in [Procs -> PCs]
  /\ mode \in [Procs -> {Read, Write}]
  /\ lock \in [Procs -> Cells \cup {Null}]
  /\ syn_addr \in [Procs -> Cells \cup {Null}]
  /\ ahead \in [Cells -> SUBSET Cells]

\* "Acquire database level exclusive lock": while a writer is between its
\* return from db_tfqueue_wlock and its release, no other process holds the
\* lock in either mode.
MutualExclusion ==
  \A w \in Holders(Write) : Holders(Write) \cup Holders(Read) = {w}

\* "A task-fair lock": nobody is admitted past a request that arrived earlier
\* and still waits, whatever timed out or left in between.
NoOvertaking ==
  \A d \in Queued : waiting[d] = 0 => \A c \in ahead[d] : waiting[c] = 0

\* A cell is in the queue of at most one process, and a free cell in none:
\* the free list handles every cell outside the queue once.
CellsConserved ==
  /\ \A p, q \in Procs :
       pc[p] \in Queueing /\ pc[q] \in Queueing /\ lock[p] = lock[q] => p = q
  /\ freelist \notin Queued
  /\ \A c \in Cells \ Queued :
       /\ next_cell[c] \notin Queued
       /\ next_cell[c] # Null => next_cell[c] # freelist
       /\ \A d \in Cells \ Queued :
            next_cell[c] = next_cell[d] /\ next_cell[c] # Null => c = d

\* The links describe one list in order of arrival: `prev' names the last of
\* those ahead, `next' undoes `prev', and `tail' names the last arrival.
QueueLinked ==
  /\ tail = Null <=> Queued = {}
  /\ tail # Null => tail \in Queued /\ next[tail] = Null
                    /\ Queued = ahead[tail] \cup {tail}
  /\ \A c \in Queued :
       /\ c \notin ahead[c]
       /\ IF prev[c] = Null
          THEN ahead[c] = {}
          ELSE /\ prev[c] \in Queued
               /\ next[prev[c]] = c
               /\ ahead[c] = ahead[prev[c]] \cup {prev[c]}
       /\ next[c] # Null => next[c] \in Queued /\ prev[next[c]] = c
       /\ next[c] = Null => tail = c

\* A sleeper whose cell was cleared is about to be woken: clearing the word
\* and going to sleep never miss each other.
NoLostWakeup ==
  \A p \in Procs :
    pc[p] = "asleep" /\ waiting[lock[p]] = 0 => lock[p] \in PendingWakes

\* Somebody in a non-empty queue has been admitted, so that the queue moves:
\* the request at its head is never left waiting for nobody.
HeadAdmitted ==
  \A c \in Queued : ahead[c] = {} => waiting[c] = 0

-----------------------------------------------------------------------------
(* The strengthening that makes exclusion and order inductive.             *)

\* The cell of a process in the queue is a cell and carries its class.
CellOfCaller ==
  \A p \in Procs : pc[p] \in Queueing =>
    lock[p] \in Cells /\ class[lock[p]] = mode[p]

\* Arrival is a strict total order on the queued cells.
ArrivalOrder ==
  \A c \in Queued :
    /\ ahead[c] \subseteq Queued
    /\ c \notin ahead[c]
    /\ \A d \in Queued : c = d \/ c \in ahead[d] \/ d \in ahead[c]

\* An admitted writer is alone at the head, and an admitted reader is behind
\* admitted readers only.
AdmittedPrefix ==
  \A c \in Queued : waiting[c] = 0 =>
    /\ class[c] = Write => ahead[c] = {}
    /\ \A d \in ahead[c] : class[d] = Read /\ waiting[d] = 0

\* Nobody gets past its wait unless its cell was cleared, and only a cleared
\* cell is ever the target of a wake-up.
PassedOnlyIfCleared ==
  /\ \A p \in Procs :
       /\ pc[p] \in Holding \cup Chaining => waiting[lock[p]] = 0
       /\ pc[p] \in Chaining => mode[p] = Read
  /\ \A c \in PendingWakes : waiting[c] = 0

\* What no step of any process disturbs beyond the links themselves: every
\* waiter owns its cell, arrival is a total order, the admitted requests are
\* a prefix of it, and only an admitted request passes its wait.
AdmissionRules ==
  /\ CellOfCaller
  /\ ArrivalOrder
  /\ AdmittedPrefix
  /\ PassedOnlyIfCleared

\* The inductive invariant.
AdmissionInv == TypeOK /\ CellsConserved /\ QueueLinked /\ AdmissionRules

-----------------------------------------------------------------------------
\* The queued lock implements the shared/exclusive lock: a process holds it
\* from the return of db_tfqueue_[rw]lock to the removal of its cell.
HoldsMap == [p \in Procs |-> IF pc[p] \in Holding THEN mode[p] ELSE "none"]
Abstract == INSTANCE RwLock WITH holds <- HoldsMap
ImplementsRwLock == Abstract!Spec

\* Without timeouts every request is served, or refused for want of a cell.
EveryRequestServed ==
  \A p \in Procs : pc[p] = "want_enqueue" ~> pc[p] \in {"held", "idle"}
=============================================================================
