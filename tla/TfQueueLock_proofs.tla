------------------------- MODULE TfQueueLock_proofs -------------------------
(***************************************************************************)
(* Proofs about the task-fair queued lock, for any number of processes and *)
(* cells, with timeouts or without, in processes that handle no signals,   *)
(* and under the condition its futex handshake relies on: a cell is not    *)
(* allocated again before a wake-up meant for its former owner was         *)
(* delivered (~LateWakes).  The code does not enforce that condition; what *)
(* happens without it is MutualExclusion's counterexample in TfqLateWake.  *)
(*                                                                         *)
(* AdmissionInv is inductive.  The actions fall into three kinds: those    *)
(* that only move a process between control points (QueueUntouched), the   *)
(* one that appends a cell (Enqueue) and those that remove one (Removes).  *)
(***************************************************************************)
EXTENDS TfQueueLockProps, TLAPS

QueueVars == <<freelist, tail, cellVars, lock, ahead>>

-----------------------------------------------------------------------------
LEMMA InitInv == Init => AdmissionInv
<1> SUFFICES ASSUME Init PROVE AdmissionInv
  OBVIOUS
<1> USE MaxNodesAssumption DEF Init, Cells, Null, Read, Write
<1>1. TypeOK
  BY DEF TypeOK, PCs
<1>2. Queued = {} /\ PendingWakes = {}
  BY DEF Queued, PendingWakes, Queueing, Waiting, Holding, Chaining, GivingUp
<1>3. \A p \in Procs : pc[p] \notin Queueing
  BY DEF Queueing, Waiting, Holding, Chaining, GivingUp
<1>4. CellOfCaller /\ QueueLinked /\ ArrivalOrder /\ AdmittedPrefix
  BY <1>2, <1>3 DEF CellOfCaller, QueueLinked, ArrivalOrder, AdmittedPrefix
<1>5. CellsConserved
  <2>1. \A c \in Cells : next_cell[c] # Null => next_cell[c] = c + 1 /\ c \in Nat \ {0}
    OBVIOUS
  <2>2. \A c \in Cells : next_cell[c] # Null => next_cell[c] # freelist
    BY <2>1
  <2>3. \A c, d \in Cells : next_cell[c] = next_cell[d] /\ next_cell[c] # Null => c = d
    BY <2>1
  <2>4. QED
    BY <1>2, <1>3, <2>2, <2>3 DEF CellsConserved
<1>6. PassedOnlyIfCleared
  BY <1>2, <1>3 DEF PassedOnlyIfCleared, Queueing
<1>7. QED
  BY <1>1, <1>4, <1>5, <1>6 DEF AdmissionInv, AdmissionRules

(* A step that leaves the queue alone and moves nobody into or out of it   *)
(* keeps every part of the invariant that does not mention control points. *)
LEMMA QueueUntouched ==
  ASSUME AdmissionInv, UNCHANGED QueueVars,
         \A p \in Procs : /\ pc'[p] \in Queueing <=> pc[p] \in Queueing
                          /\ pc[p] \in Queueing => mode'[p] = mode[p]
  PROVE  /\ Queued' = Queued
         /\ CellOfCaller'
         /\ CellsConserved'
         /\ QueueLinked'
         /\ ArrivalOrder'
         /\ AdmittedPrefix'
<1>0. /\ freelist' = freelist /\ tail' = tail /\ next_cell' = next_cell
      /\ class' = class /\ waiting' = waiting /\ next' = next /\ prev' = prev
      /\ lock' = lock /\ ahead' = ahead
  BY DEF QueueVars, cellVars
<1>1. Queued' = Queued
  <2>1. {q \in Procs : pc'[q] \in Queueing} = {q \in Procs : pc[q] \in Queueing}
    OBVIOUS
  <2>2. QED
    BY <1>0, <2>1 DEF Queued
<1>2. CellOfCaller'
  BY <1>0 DEF AdmissionInv, AdmissionRules, CellOfCaller, Cells
<1>3. CellsConserved'
  BY <1>0, <1>1 DEF AdmissionInv, AdmissionRules, CellsConserved, Cells
<1>4. QueueLinked'
  BY <1>0, <1>1 DEF AdmissionInv, AdmissionRules, QueueLinked
<1>5. ArrivalOrder' /\ AdmittedPrefix'
  BY <1>0, <1>1 DEF AdmissionInv, AdmissionRules, ArrivalOrder, AdmittedPrefix
<1>6. QED
  BY <1>1, <1>2, <1>3, <1>4, <1>5

-----------------------------------------------------------------------------
LEMMA TypeStep == AdmissionInv /\ [Next]_vars => TypeOK'
<1> SUFFICES ASSUME AdmissionInv, [Next]_vars PROVE TypeOK'
  OBVIOUS
<1>a. TypeOK /\ CellOfCaller
  BY DEF AdmissionInv, AdmissionRules
<1> USE <1>a DEF TypeOK, CellOfCaller, cellVars, Goto, UnlockQueue, AfterWait,
                 PCs, Queueing, Waiting, Holding, Chaining, GivingUp, Read, Write
<1>1. CASE UNCHANGED vars
  BY <1>1 DEF vars
<1>2. ASSUME NEW p \in Procs, Request(p) PROVE TypeOK'
  BY <1>2 DEF Request
<1>3. ASSUME NEW p \in Procs, LockQueue(p) PROVE TypeOK'
  BY <1>3 DEF LockQueue
<1>4. ASSUME NEW p \in Procs, AllocFails(p) PROVE TypeOK'
  BY <1>4 DEF AllocFails
<1>5. ASSUME NEW p \in Procs, Enqueue(p) PROVE TypeOK'
  BY <1>5 DEF Enqueue, Queued
<1>6. ASSUME NEW p \in Procs, Check(p) PROVE TypeOK'
  BY <1>6 DEF Check
<1>7. ASSUME NEW p \in Procs, FutexWait(p) PROVE TypeOK'
  BY <1>7 DEF FutexWait
<1>8. ASSUME NEW p \in Procs, Timeout(p) PROVE TypeOK'
  BY <1>8 DEF Timeout
<1>10. ASSUME NEW p \in Procs, ChainWake(p) PROVE TypeOK'
  BY <1>10 DEF ChainWake, FutexWake
<1>11. ASSUME NEW p \in Procs, ReleaseWake(p) PROVE TypeOK'
  BY <1>11 DEF ReleaseWake, FutexWake
<1>13. ASSUME NEW p \in Procs, Chain(p) PROVE TypeOK'
  BY <1>13 DEF Chain, Granting
<1>14. ASSUME NEW p \in Procs, Dequeue(p) PROVE TypeOK'
  BY <1>14 DEF Dequeue, FreeLock, Forget
<1>15. ASSUME NEW p \in Procs, ReleaseWrite(p) PROVE TypeOK'
  BY <1>15 DEF ReleaseWrite, Granting, FreeLock, Forget
<1>16. ASSUME NEW p \in Procs, ReleaseRead(p) PROVE TypeOK'
  BY <1>16 DEF ReleaseRead, Granting, FreeLock, Forget
<1>17. QED
  BY <1>1, <1>2, <1>3, <1>4, <1>5, <1>6, <1>7, <1>8, <1>10, <1>11,
     <1>13, <1>14, <1>15, <1>16 DEF Next, Step
(* The steps that only move processes between control points.  A process   *)
(* passes its wait because the kernel saw its word cleared, or because it  *)
(* was woken through the cell it still owns.                               *)
LEMMA MoveStep ==
  ASSUME AdmissionInv, TypeOK', NEW p \in Procs,
         \/ Request(p) \/ LockQueue(p) \/ AllocFails(p) \/ Check(p) \/ FutexWait(p)
         \/ Timeout(p) \/ ChainWake(p) \/ ReleaseWake(p)

  PROVE  AdmissionInv'
<1> USE DEF QueueVars, cellVars, Goto
<1>a. TypeOK /\ CellOfCaller /\ PassedOnlyIfCleared
  BY DEF AdmissionInv, AdmissionRules
<1>b. ASSUME UNCHANGED QueueVars, PassedOnlyIfCleared',
             \A q \in Procs : /\ pc'[q] \in Queueing <=> pc[q] \in Queueing
                              /\ pc[q] \in Queueing => mode'[q] = mode[q]
      PROVE  AdmissionInv'
  BY <1>b, QueueUntouched DEF AdmissionInv, AdmissionRules
<1> USE DEF PCs, Queueing, Waiting, Holding, Chaining, GivingUp
<1>1. CASE Request(p)
  <2>1. PassedOnlyIfCleared'
    BY <1>1, <1>a DEF Request, TypeOK, PassedOnlyIfCleared, PendingWakes
  <2>2. QED
    BY <1>1, <1>a, <1>b, <2>1 DEF Request, TypeOK
<1>2. CASE LockQueue(p)
  <2>1. PassedOnlyIfCleared'
    BY <1>2, <1>a DEF LockQueue, TypeOK, PassedOnlyIfCleared, PendingWakes
  <2>2. QED
    BY <1>2, <1>a, <1>b, <2>1 DEF LockQueue, TypeOK
<1>3. CASE AllocFails(p)
  <2>1. PassedOnlyIfCleared'
    BY <1>3, <1>a DEF AllocFails, TypeOK, PassedOnlyIfCleared, PendingWakes
  <2>2. QED
    BY <1>3, <1>a, <1>b, <2>1 DEF AllocFails, TypeOK
<1>4. CASE Check(p)
  <2>1. PassedOnlyIfCleared'
    BY <1>4, <1>a DEF Check, TypeOK, PassedOnlyIfCleared, PendingWakes
  <2>2. QED
    BY <1>4, <1>a, <1>b, <2>1 DEF Check, TypeOK
<1>5. CASE FutexWait(p)
  <2>1. lock[p] \in Cells /\ waiting[lock[p]] \in {0, 1}
    BY <1>5, <1>a DEF FutexWait, TypeOK, CellOfCaller
  <2>2. PassedOnlyIfCleared'
    BY <1>5, <1>a, <2>1 DEF FutexWait, AfterWait, TypeOK, PassedOnlyIfCleared, PendingWakes
  <2>3. QED
    BY <1>5, <1>a, <1>b, <2>2 DEF FutexWait, AfterWait, TypeOK
<1>6. CASE Timeout(p)
  <2>1. PassedOnlyIfCleared'
    BY <1>6, <1>a DEF Timeout, TypeOK, PassedOnlyIfCleared, PendingWakes
  <2>2. QED
    BY <1>6, <1>a, <1>b, <2>1 DEF Timeout, TypeOK
<1>9. ASSUME NEW from \in {"chain_wake", "release_wake"}, NEW to \in {"held", "idle"},
             FutexWake(p, from, to),
             from = "chain_wake" <=> to = "held"
      PROVE  AdmissionInv'
  <2>1. ASSUME NEW q \in Procs, pc[q] = "asleep", lock[q] = syn_addr[p]
        PROVE  waiting[lock[q]] = 0
    BY <1>a, <2>1 DEF TypeOK, CellOfCaller, PassedOnlyIfCleared, PendingWakes, Cells, Null
  <2>2. \A c \in PendingWakes' : c \in PendingWakes
    BY <1>9, <1>a DEF FutexWake, PendingWakes, TypeOK
  <2>3. \A q \in Procs : \/ pc'[q] = pc[q]
                         \/ q = p /\ pc[p] = from /\ pc'[p] = to
                         \/ pc[q] = "asleep" /\ pc'[q] = AfterWait(q) /\ waiting[lock[q]] = 0
    BY <1>9, <1>a, <2>1 DEF FutexWake, TypeOK
  <2>4. UNCHANGED <<waiting, lock, mode>> /\ UNCHANGED QueueVars
    BY <1>9 DEF FutexWake
  <2>5. PassedOnlyIfCleared'
    BY <1>9, <1>a, <2>2, <2>3, <2>4 DEF PassedOnlyIfCleared, AfterWait
  <2>6. \A q \in Procs : pc'[q] \in Queueing <=> pc[q] \in Queueing
    BY <1>9, <2>3 DEF AfterWait
  <2>7. QED
    BY <1>b, <2>4, <2>5, <2>6
<1>10. CASE ChainWake(p)
  BY <1>10, <1>9 DEF ChainWake
<1>11. CASE ReleaseWake(p)
  BY <1>11, <1>9 DEF ReleaseWake
<1>12. QED
  BY <1>1, <1>2, <1>3, <1>4, <1>5, <1>6, <1>10, <1>11
-----------------------------------------------------------------------------
(* Every cell ahead of the one an admitted reader lets in is an admitted   *)
(* reader's: those ahead of the admitted reader, and the reader itself.    *)
LEMMA ChainStep ==
  ASSUME AdmissionInv, TypeOK', NEW p \in Procs, Chain(p)
  PROVE  AdmissionInv'
<1> DEFINE c == lock[p]
           n == next[c]
           admitted == IF n # Null /\ class[n] = Read /\ waiting[n] # 0 THEN n ELSE Null
<1>a. TypeOK /\ CellOfCaller /\ CellsConserved /\ QueueLinked /\ ArrivalOrder
      /\ AdmittedPrefix /\ PassedOnlyIfCleared
  BY DEF AdmissionInv, AdmissionRules
<1>b. /\ pc[p] = "chain" /\ pc' = [pc EXCEPT ![p] = IF admitted = Null THEN "held" ELSE "chain_wake"]
      /\ waiting' = IF admitted = Null THEN waiting ELSE [waiting EXCEPT ![admitted] = 0]
      /\ syn_addr' = [syn_addr EXCEPT ![p] = admitted]
      /\ UNCHANGED <<freelist, tail, next_cell, class, next, prev, mode, lock, ahead>>
  BY DEF Chain, Granting
<1> USE DEF Queueing, Waiting, Holding, Chaining, GivingUp
<1>c. p \in Procs /\ pc[p] \in Queueing /\ c \in Cells /\ c \in Queued /\ waiting[c] = 0 /\ class[c] = Read
  BY <1>a, <1>b DEF CellOfCaller, PassedOnlyIfCleared, Queued
<1>d. Queued' = Queued
  <2>1. {q \in Procs : pc'[q] \in Queueing} = {q \in Procs : pc[q] \in Queueing}
    BY <1>a, <1>b DEF TypeOK
  <2>2. QED
    BY <1>b, <2>1 DEF Queued
<1>e. Queued \subseteq Cells
  BY <1>a DEF Queued, CellOfCaller
<1> HIDE DEF c
<1>f. n # Null => n \in Queued /\ prev[n] = c /\ ahead[n] = ahead[c] \cup {c}
  <2>1. c # Null
    BY <1>c DEF Cells, Null
  <2>2. n # Null => n \in Queued /\ prev[n] = c
    BY <1>a, <1>c DEF QueueLinked
  <2>3. QED
    BY <1>a, <2>1, <2>2 DEF QueueLinked
<1> HIDE DEF n
<1>1. CellOfCaller'
  BY <1>a, <1>b DEF CellOfCaller, TypeOK, Cells
<1>2. CellsConserved'
  BY <1>a, <1>b, <1>d DEF CellsConserved, Cells, TypeOK
<1>3. QueueLinked' /\ ArrivalOrder'
  BY <1>a, <1>b, <1>d DEF QueueLinked, ArrivalOrder
<1>4. \A d \in Queued : waiting'[d] = 0 => waiting[d] = 0 \/ (d = n /\ admitted = n /\ n # Null /\ class[n] = Read)
  BY <1>b, <1>a, <1>e DEF TypeOK
<1>5. \A d \in Cells : waiting[d] = 0 => waiting'[d] = 0
  BY <1>b, <1>a DEF TypeOK
<1>6. AdmittedPrefix'
  <2> SUFFICES ASSUME NEW d \in Queued, waiting'[d] = 0
               PROVE  /\ class[d] = Write => ahead[d] = {}
                      /\ \A e \in ahead[d] : class[e] = Read /\ waiting'[e] = 0
    BY <1>b, <1>d DEF AdmittedPrefix
  <2>1. ahead[d] \subseteq Cells
    BY <1>a, <1>e DEF ArrivalOrder
  <2>2. CASE waiting[d] = 0
    BY <1>a, <1>5, <2>1, <2>2 DEF AdmittedPrefix
  <2>3. CASE d = n /\ n # Null /\ class[n] = Read
    BY <1>a, <1>c, <1>f, <1>5, <2>1, <2>3 DEF AdmittedPrefix, Read, Write
  <2>4. QED
    BY <1>4, <2>2, <2>3
<1>7. PassedOnlyIfCleared'
  <2>1. \A q \in Procs : pc'[q] \in Holding \cup Chaining => pc[q] \in Holding \cup Chaining
    BY <1>a, <1>b DEF TypeOK
  <2>2. \A q \in Procs : pc'[q] \in Chaining => pc[q] \in Chaining
    BY <1>a, <1>b DEF TypeOK
  <2>3. \A q \in Procs : pc[q] \in Holding \cup Chaining => lock[q] \in Cells
    BY <1>a DEF CellOfCaller
  <2>4. \A q \in Procs : syn_addr'[q] # Null => waiting'[syn_addr'[q]] = 0
    BY <1>a, <1>b, <1>5 DEF PassedOnlyIfCleared, PendingWakes, TypeOK, Cells, Null
  <2>5. \A q \in Procs : pc'[q] \in Holding \cup Chaining => waiting'[lock'[q]] = 0
    BY <1>a, <1>b, <1>5, <2>1, <2>3 DEF PassedOnlyIfCleared
  <2>6. \A q \in Procs : pc'[q] \in Chaining => mode'[q] = Read
    BY <1>a, <1>b, <2>2 DEF PassedOnlyIfCleared
  <2>7. QED
    BY <2>4, <2>5, <2>6 DEF PassedOnlyIfCleared, PendingWakes
<1>8. QED
  BY <1>1, <1>2, <1>3, <1>6, <1>7 DEF AdmissionInv, AdmissionRules

(* The new cell goes behind every queued one; it is admitted at once only  *)
(* into an empty queue or, a reader, behind an admitted reader at the tail.*)
LEMMA EnqueueStep ==
  ASSUME ~LateWakes, AdmissionInv, TypeOK', NEW p \in Procs, Enqueue(p)
  PROVE  AdmissionInv'
<1> DEFINE c == freelist
<1>a. TypeOK /\ CellOfCaller /\ CellsConserved /\ QueueLinked /\ ArrivalOrder
      /\ AdmittedPrefix /\ PassedOnlyIfCleared
  BY DEF AdmissionInv, AdmissionRules
<1>b. /\ c # Null /\ c \notin PendingWakes
      /\ pc[p] = "enqueue" /\ pc' = [pc EXCEPT ![p] = "check"]
      /\ freelist' = next_cell[c] /\ tail' = c
      /\ lock' = [lock EXCEPT ![p] = c]
      /\ class' = [class EXCEPT ![c] = mode[p]]
      /\ prev' = [prev EXCEPT ![c] = tail]
      /\ next' = [n \in Cells |-> IF n = c THEN Null ELSE IF n = tail THEN c ELSE next[n]]
      /\ waiting' = [waiting EXCEPT ![c] = IF MustWait(mode[p]) THEN 1 ELSE 0]
      /\ ahead' = [ahead EXCEPT ![c] = Queued]
      /\ UNCHANGED <<next_cell, mode, syn_addr>>
  BY DEF Enqueue, Goto
<1> USE DEF Queueing, Waiting, Holding, Chaining, GivingUp
<1>c. c \in Cells /\ c \notin Queued /\ pc[p] \notin Queueing
  BY <1>a, <1>b DEF TypeOK, CellsConserved
<1>d. \A q \in Procs : /\ pc'[q] \in Queueing <=> pc[q] \in Queueing \/ q = p
                       /\ q # p => pc'[q] = pc[q] /\ lock'[q] = lock[q]
                       /\ q # p /\ pc[q] \in Queueing => lock[q] \in Queued
  BY <1>a, <1>b DEF TypeOK, Queued
<1>d1. lock'[p] = c /\ pc'[p] = "check"
  BY <1>a, <1>b DEF TypeOK
<1>e. Queued' = Queued \cup {c}
  <2>1. \A x : x \in Queued' <=> \E q \in Procs : pc'[q] \in Queueing /\ x = lock'[q]
    BY DEF Queued
  <2>2. \A x : x \in Queued <=> \E q \in Procs : pc[q] \in Queueing /\ x = lock[q]
    BY DEF Queued
  <2>3. QED
    BY <1>c, <1>d, <1>d1, <2>1, <2>2
<1>f. Queued \subseteq Cells
  BY <1>a DEF Queued, CellOfCaller
<1>g. \A d \in Queued : /\ class'[d] = class[d] /\ waiting'[d] = waiting[d]
                        /\ prev'[d] = prev[d] /\ ahead'[d] = ahead[d]
                        /\ next'[d] = IF d = tail THEN c ELSE next[d]
  BY <1>a, <1>b, <1>c, <1>f DEF TypeOK
<1>h. /\ class'[c] = mode[p] /\ prev'[c] = tail /\ ahead'[c] = Queued /\ next'[c] = Null
      /\ waiting'[c] = IF MustWait(mode[p]) THEN 1 ELSE 0
  BY <1>a, <1>b, <1>c DEF TypeOK
<1> HIDE DEF c
<1>1. CellOfCaller'
  BY <1>a, <1>b, <1>c, <1>d, <1>d1, <1>f, <1>g, <1>h DEF CellOfCaller, Cells
<1>2. CellsConserved'
  <2>1. \A q, r \in Procs : pc'[q] \in Queueing /\ pc'[r] \in Queueing /\ lock'[q] = lock'[r] => q = r
    BY <1>a, <1>c, <1>d, <1>d1 DEF CellsConserved
  <2>2. freelist' \notin Queued'
    BY <1>a, <1>b, <1>c, <1>e, <1>f DEF CellsConserved, Cells, Null, c
  <2>3. \A d \in Cells \ Queued' :
          /\ next_cell[d] \notin Queued'
          /\ next_cell[d] # Null => next_cell[d] # freelist'
    BY <1>a, <1>b, <1>c, <1>e, <1>f DEF CellsConserved, Cells, Null, c
  <2>4. \A d, e \in Cells \ Queued' : next_cell[d] = next_cell[e] /\ next_cell[d] # Null => d = e
    BY <1>a, <1>e DEF CellsConserved
  <2>5. QED
    BY <1>b, <2>1, <2>2, <2>3, <2>4 DEF CellsConserved, Cells
<1>3. QueueLinked'
  <2>1. tail' # Null /\ tail' \in Queued' /\ next'[tail'] = Null /\ Queued' = ahead'[tail'] \cup {tail'}
    BY <1>b, <1>e, <1>h
  <2>2. /\ c \notin ahead'[c]
        /\ IF prev'[c] = Null
           THEN ahead'[c] = {}
           ELSE /\ prev'[c] \in Queued'
                /\ next'[prev'[c]] = c
                /\ ahead'[c] = ahead'[prev'[c]] \cup {prev'[c]}
        /\ next'[c] = Null /\ tail' = c
    BY <1>a, <1>b, <1>c, <1>e, <1>g, <1>h DEF QueueLinked
  <2>3. ASSUME NEW d \in Queued
        PROVE  /\ d \notin ahead'[d]
               /\ IF prev'[d] = Null
                  THEN ahead'[d] = {}
                  ELSE /\ prev'[d] \in Queued'
                       /\ next'[prev'[d]] = d
                       /\ ahead'[d] = ahead'[prev'[d]] \cup {prev'[d]}
               /\ next'[d] # Null /\ next'[d] \in Queued' /\ prev'[next'[d]] = d
    <3>1. d # Null /\ d # c
      BY <1>c, <1>f, <2>3 DEF Cells, Null
    <3>2. prev[d] # Null => prev[d] # tail
      BY <1>a, <3>1, <2>3 DEF QueueLinked
    <3>3. next[d] = Null => tail = d
      BY <1>a, <2>3 DEF QueueLinked
    <3>4. next[d] # Null => d # tail /\ next[d] \in Queued /\ prev[next[d]] = d
      BY <1>a, <2>3 DEF QueueLinked
    <3>5. next'[d] # Null /\ next'[d] \in Queued' /\ prev'[next'[d]] = d
      <4>1. CASE d = tail
        BY <1>c, <1>e, <1>g, <1>h, <4>1, <3>1 DEF Cells, Null
      <4>2. CASE d # tail
        BY <1>e, <1>g, <3>3, <3>4, <4>2
      <4>3. QED
        BY <4>1, <4>2
    <3>6. QED
      BY <1>a, <1>e, <1>g, <3>1, <3>2, <3>5 DEF QueueLinked
  <2>4. QED
    BY <1>b, <1>e, <1>h, <2>1, <2>2, <2>3 DEF QueueLinked
<1>4. ArrivalOrder'
  BY <1>a, <1>c, <1>e, <1>g, <1>h DEF ArrivalOrder
<1>5. AdmittedPrefix'
  <2>1. ASSUME NEW d \in Queued, waiting'[d] = 0
        PROVE  /\ class'[d] = Write => ahead'[d] = {}
               /\ \A e \in ahead'[d] : class'[e] = Read /\ waiting'[e] = 0
    BY <1>a, <1>g, <2>1 DEF AdmittedPrefix, ArrivalOrder
  <2>2. ASSUME waiting'[c] = 0
        PROVE  /\ class'[c] = Write => ahead'[c] = {}
               /\ \A e \in ahead'[c] : class'[e] = Read /\ waiting'[e] = 0
    <3>1. tail = Null \/ (mode[p] = Read /\ class[tail] = Read /\ waiting[tail] = 0)
      BY <1>h, <2>2 DEF MustWait
    <3>2. CASE tail = Null
      BY <1>a, <1>h, <3>2 DEF QueueLinked
    <3>3. CASE tail # Null /\ mode[p] = Read /\ class[tail] = Read /\ waiting[tail] = 0
      BY <1>a, <1>g, <1>h, <3>3 DEF QueueLinked, AdmittedPrefix, Read, Write
    <3>4. QED
      BY <3>1, <3>2, <3>3
  <2>3. QED
    BY <1>e, <2>1, <2>2 DEF AdmittedPrefix
<1>6. PassedOnlyIfCleared'
  <2>1. \A q \in Procs : pc'[q] \in Holding \cup Chaining => q # p /\ pc[q] \in Holding \cup Chaining
    BY <1>d, <1>d1
  <2>2. \A q \in Procs : pc'[q] \in Chaining => q # p /\ pc[q] \in Chaining
    BY <1>d, <1>d1
  <2>3. \A q \in Procs : pc'[q] \in Holding \cup Chaining => waiting'[lock'[q]] = 0
    BY <1>a, <1>d, <1>g, <2>1 DEF PassedOnlyIfCleared
  <2>4. \A d \in PendingWakes' : waiting'[d] = 0
    BY <1>a, <1>b DEF PassedOnlyIfCleared, PendingWakes, TypeOK
  <2>5. QED
    BY <1>a, <1>b, <2>2, <2>3, <2>4 DEF PassedOnlyIfCleared
<1>7. QED
  BY <1>1, <1>2, <1>3, <1>4, <1>5, <1>6 DEF AdmissionInv, AdmissionRules
-----------------------------------------------------------------------------
(* The cell of p is unlinked and freed, and the cell behind it is admitted *)
(* or, a = Null, nobody is.                                                *)
Removes(p, a) ==
  LET c == lock[p]  n == next[lock[p]] IN
  /\ pc[p] \in Queueing
  /\ pc' \in {[pc EXCEPT ![p] = "idle"], [pc EXCEPT ![p] = "release_wake"]}
  /\ next' = IF prev[c] = Null THEN next ELSE [next EXCEPT ![prev[c]] = n]
  /\ prev' = IF n = Null THEN prev ELSE [prev EXCEPT ![n] = prev[c]]
  /\ tail' = IF n = Null /\ tail = c THEN prev[c] ELSE tail
  /\ FreeLock(c)
  /\ Forget(p)
  /\ waiting' = IF a = Null THEN waiting ELSE [waiting EXCEPT ![a] = 0]
  /\ a = Null \/ (a = n /\ (prev[c] = Null \/ (class[c] = Read /\ waiting[c] = 0 /\ class[n] = Read)))
  /\ \A q \in Procs : syn_addr'[q] \in {syn_addr[q], a}
  /\ UNCHANGED <<class, mode>>

(* Removing one cell from a list in arrival order leaves a list in arrival *)
(* order, and the admitted ones stay a prefix of it.                       *)
LEMMA RemoveStep ==
  ASSUME AdmissionInv, TypeOK', NEW p \in Procs, NEW a, Removes(p, a)
  PROVE  AdmissionInv'
<1> DEFINE c == lock[p]
           n == next[c]
           b == prev[c]
<1>a. TypeOK /\ CellOfCaller /\ CellsConserved /\ QueueLinked /\ ArrivalOrder
      /\ AdmittedPrefix /\ PassedOnlyIfCleared
  BY DEF AdmissionInv, AdmissionRules
<1>b. /\ pc[p] \in Queueing
      /\ pc' \in {[pc EXCEPT ![p] = "idle"], [pc EXCEPT ![p] = "release_wake"]}
      /\ next' = IF b = Null THEN next ELSE [next EXCEPT ![b] = n]
      /\ prev' = IF n = Null THEN prev ELSE [prev EXCEPT ![n] = b]
      /\ tail' = IF n = Null /\ tail = c THEN b ELSE tail
      /\ next_cell' = [next_cell EXCEPT ![c] = freelist]
      /\ freelist' = c
      /\ lock' = [lock EXCEPT ![p] = Null]
      /\ ahead' = [d \in Cells |-> IF d = c THEN {} ELSE ahead[d] \ {c}]
      /\ waiting' = IF a = Null THEN waiting ELSE [waiting EXCEPT ![a] = 0]
      /\ a = Null \/ (a = n /\ (b = Null \/ (class[c] = Read /\ waiting[c] = 0 /\ class[n] = Read)))
      /\ \A q \in Procs : syn_addr'[q] \in {syn_addr[q], a}
      /\ UNCHANGED <<class, mode>>
  BY DEF Removes, FreeLock, Forget
<1>c. c \in Cells /\ c \in Queued /\ c # Null
  BY <1>a, <1>b DEF CellOfCaller, Queued, Cells, Null
<1>d. \A q \in Procs : /\ pc'[q] \in Queueing <=> pc[q] \in Queueing /\ q # p
                       /\ q # p => pc'[q] = pc[q] /\ lock'[q] = lock[q]
                       /\ q # p /\ pc[q] \in Queueing => lock[q] \in Queued /\ lock[q] # c
  <2> USE DEF Queueing, Waiting, Holding, Chaining, GivingUp
  <2>1. \A q \in Procs : /\ pc'[q] \in Queueing <=> pc[q] \in Queueing /\ q # p
                         /\ q # p => pc'[q] = pc[q] /\ lock'[q] = lock[q]
    BY <1>a, <1>b DEF TypeOK
  <2>2. \A q \in Procs : q # p /\ pc[q] \in Queueing => lock[q] \in Queued
    BY DEF Queued
  <2>3. \A q \in Procs : q # p /\ pc[q] \in Queueing => lock[q] # c
    BY <1>a, <1>b DEF CellsConserved
  <2>4. QED
    BY <2>1, <2>2, <2>3
<1>e. Queued' = Queued \ {c}
  <2>1. \A x : x \in Queued' <=> \E q \in Procs : pc'[q] \in Queueing /\ x = lock'[q]
    BY DEF Queued
  <2>2. \A x : x \in Queued <=> \E q \in Procs : pc[q] \in Queueing /\ x = lock[q]
    BY DEF Queued
  <2>3. QED
    BY <1>d, <2>1, <2>2
<1>f. Queued \subseteq Cells /\ Null \notin Queued
  BY <1>a DEF Queued, CellOfCaller, Cells, Null
<1> HIDE DEF c, b
<1>g. /\ n # Null => n \in Queued /\ prev[n] = c /\ n # c
      /\ n = Null <=> tail = c
  <2>1. n # Null => n \in Queued /\ prev[n] = c
    BY <1>a, <1>c DEF QueueLinked
  <2>2. n # Null => n # c
    BY <1>a, <1>c, <2>1 DEF QueueLinked
  <2>3. n = Null <=> tail = c
    BY <1>a, <1>c DEF QueueLinked
  <2>4. QED
    BY <2>1, <2>2, <2>3
<1> HIDE DEF n
<1>h. IF b = Null THEN ahead[c] = {}
      ELSE b \in Queued /\ next[b] = c /\ b # c /\ ahead[c] = ahead[b] \cup {b}
  BY <1>a, <1>c DEF QueueLinked, b
<1>i. \A d \in Queued \ {c} :
        /\ class'[d] = class[d]
        /\ ahead'[d] = ahead[d] \ {c}
        /\ next'[d] = IF d = b THEN n ELSE next[d]
        /\ prev'[d] = IF d = n THEN b ELSE prev[d]
        /\ waiting'[d] = IF d = a THEN 0 ELSE waiting[d]
  BY <1>a, <1>b, <1>c, <1>f DEF TypeOK
<1>1. CellOfCaller'
  BY <1>a, <1>b, <1>d DEF CellOfCaller, Cells
<1>2. CellsConserved'
  <2>1. \A q, r \in Procs : pc'[q] \in Queueing /\ pc'[r] \in Queueing /\ lock'[q] = lock'[r] => q = r
    BY <1>a, <1>d DEF CellsConserved
  <2>2. \A d \in Cells \ Queued' : next_cell'[d] = IF d = c THEN freelist ELSE next_cell[d]
    BY <1>a, <1>b DEF TypeOK
  <2>3. \A d \in Cells \ Queued : /\ next_cell[d] \notin Queued
                                  /\ next_cell[d] # Null => next_cell[d] # freelist
    BY <1>a DEF CellsConserved
  <2>4. \A d \in Cells \ Queued' :
          /\ next_cell'[d] \notin Queued'
          /\ next_cell'[d] # Null => next_cell'[d] # freelist'
    BY <1>a, <1>b, <1>c, <1>e, <2>2, <2>3 DEF CellsConserved
  <2>5. \A d, e \in Cells \ Queued' : next_cell'[d] = next_cell'[e] /\ next_cell'[d] # Null => d = e
    BY <1>a, <1>e, <2>2, <2>3 DEF CellsConserved
  <2>6. QED
    BY <1>b, <1>e, <2>1, <2>4, <2>5 DEF CellsConserved, Cells
<1>3. QueueLinked'
  <2>1. CASE tail = c
    <3>1. n = Null /\ tail' = b /\ Queued = ahead[c] \cup {c} /\ c \notin ahead[c]
      BY <1>a, <1>b, <1>c, <1>g, <2>1 DEF QueueLinked
    <3>2. CASE b = Null
      BY <1>e, <1>h, <3>1, <3>2 DEF QueueLinked
    <3>3. ASSUME b # Null, NEW d \in Queued'
          PROVE  /\ d \notin ahead'[d]
                 /\ IF prev'[d] = Null
                    THEN ahead'[d] = {}
                    ELSE /\ prev'[d] \in Queued'
                         /\ next'[prev'[d]] = d
                         /\ ahead'[d] = ahead'[prev'[d]] \cup {prev'[d]}
                 /\ next'[d] # Null => next'[d] \in Queued' /\ prev'[next'[d]] = d
                 /\ next'[d] = Null => tail' = d
      <4>1. d \in Queued /\ d # c /\ d # n /\ prev'[d] = prev[d]
        BY <1>e, <1>f, <1>i, <3>1, <3>3
      <4>2. prev[d] # c
        BY <1>a, <1>c, <1>g, <2>1, <4>1, <1>f DEF QueueLinked, n
      <4>3. prev[d] # Null => prev[d] # b
        BY <1>a, <1>h, <3>3, <4>1 DEF QueueLinked
      <4>4. IF prev'[d] = Null
                    THEN ahead'[d] = {}
                    ELSE /\ prev'[d] \in Queued'
                         /\ next'[prev'[d]] = d
                         /\ ahead'[d] = ahead'[prev'[d]] \cup {prev'[d]}
        BY <1>a, <1>e, <1>i, <4>1, <4>2, <4>3 DEF QueueLinked
      <4>5. next[d] = c => d = b
        BY <1>a, <1>c, <4>1 DEF QueueLinked, b
      <4>6. next'[d] # Null => next'[d] \in Queued' /\ prev'[next'[d]] = d
        BY <1>a, <1>e, <1>i, <3>1, <4>1, <4>5 DEF QueueLinked
      <4>7. next'[d] = Null => tail' = d
        BY <1>a, <1>i, <2>1, <3>1, <4>1 DEF QueueLinked
      <4>8. QED
        BY <1>a, <1>i, <4>1, <4>4, <4>6, <4>7 DEF QueueLinked
    <3>4. b # Null => /\ tail' # Null /\ tail' \in Queued' /\ next'[tail'] = Null
                      /\ Queued' = ahead'[tail'] \cup {tail'}
      BY <1>e, <1>h, <1>i, <3>1
    <3>5. QED
      BY <3>2, <3>3, <3>4, <1>e, <1>h, <3>1 DEF QueueLinked
  <2>2. CASE tail # c
    <3>1. n # Null /\ n \in Queued' /\ tail' = tail /\ tail \in Queued' /\ tail # Null
      BY <1>a, <1>b, <1>c, <1>e, <1>g, <2>2 DEF QueueLinked
    <3>2. tail # b /\ next'[tail'] = Null
      BY <1>a, <1>c, <1>e, <1>h, <1>i, <3>1 DEF QueueLinked
    <3>3. Queued' = ahead'[tail'] \cup {tail'}
      BY <1>a, <1>e, <1>i, <3>1, <2>2 DEF QueueLinked
    <3>4. ASSUME NEW d \in Queued'
          PROVE  /\ d \notin ahead'[d]
                 /\ IF prev'[d] = Null
                    THEN ahead'[d] = {}
                    ELSE /\ prev'[d] \in Queued'
                         /\ next'[prev'[d]] = d
                         /\ ahead'[d] = ahead'[prev'[d]] \cup {prev'[d]}
                 /\ next'[d] # Null => next'[d] \in Queued' /\ prev'[next'[d]] = d
                 /\ next'[d] = Null => tail' = d
      <4>1. d \in Queued /\ d # c
        BY <1>e, <3>4
      <4>2. prev[d] = c <=> d = n
        BY <1>a, <1>c, <1>f, <1>g, <3>1, <4>1 DEF QueueLinked, n
      <4>3. CASE d = n
        <5>1. ahead[n] = ahead[c] \cup {c} /\ c \notin ahead[c]
          BY <1>a, <1>c, <1>g, <3>1 DEF QueueLinked
        <5>2. ahead'[n] = ahead[c] /\ prev'[n] = b
          <6>1. n \in Queued \ {c}
            BY <4>1, <4>3
          <6>2. ahead'[n] = ahead[n] \ {c} /\ prev'[n] = b
            BY <1>i, <6>1
          <6>3. QED
            BY <5>1, <6>2
        <5>3. b # Null => b \in Queued' /\ next'[b] = n /\ ahead'[b] = ahead[b] /\ b # n
          <6>1. b # Null => b \in Queued \ {c} /\ c \notin ahead[b]
            BY <1>h, <5>1
          <6>2. b # Null => b # n
            BY <1>h, <5>1, <6>1, <1>g, <3>1, <1>a DEF QueueLinked
          <6>3. QED
            BY <1>e, <1>i, <6>1, <6>2
        <5>4. n # b /\ next'[n] = next[n]
          BY <1>i, <4>1, <4>3, <5>3, <3>1
        <5>5. n # c /\ next[n] # c
          BY <1>a, <1>c, <1>g, <1>h, <3>1, <5>3, <5>4 DEF QueueLinked, b
        <5>6. next[n] # Null => next[n] # n
          BY <1>a, <1>g, <3>1 DEF QueueLinked
        <5>7. next'[n] # Null => next'[n] \in Queued' /\ prev'[next'[n]] = n
          BY <1>a, <1>e, <1>g, <1>i, <3>1, <5>4, <5>5, <5>6 DEF QueueLinked
        <5>8. next'[n] = Null => tail' = n
          BY <1>a, <1>g, <3>1, <5>4 DEF QueueLinked
        <5>9. QED
          BY <1>h, <1>g, <1>i, <1>a, <3>1, <4>3, <5>2, <5>3, <5>7, <5>8, <5>1 DEF QueueLinked
      <4>4. CASE d # n
        <5>1. prev'[d] = prev[d] /\ prev[d] # c
          BY <1>i, <4>1, <4>2, <4>4
        <5>2. prev[d] # Null => prev[d] # b
          BY <1>a, <1>h, <4>1 DEF QueueLinked
        <5>3. IF prev'[d] = Null
                    THEN ahead'[d] = {}
                    ELSE /\ prev'[d] \in Queued'
                         /\ next'[prev'[d]] = d
                         /\ ahead'[d] = ahead'[prev'[d]] \cup {prev'[d]}
          BY <1>a, <1>e, <1>i, <4>1, <5>1, <5>2 DEF QueueLinked
        <5>4. CASE d = b
          <6>1. next'[d] = n /\ n \in Queued \ {c}
            BY <1>e, <1>i, <3>1, <4>1, <5>4
          <6>2. prev'[n] = b
            BY <1>i, <6>1
          <6>3. d \notin ahead'[d]
            BY <1>a, <1>i, <4>1 DEF QueueLinked
          <6>4. QED
            BY <3>1, <5>3, <5>4, <6>1, <6>2, <6>3
        <5>5. CASE d # b
          <6>1. next'[d] = next[d]
            BY <1>i, <4>1, <5>5
          <6>2. next[d] # c
            BY <1>a, <1>c, <4>1, <5>5 DEF QueueLinked, b
          <6>3. next[d] # Null => next[d] # n
            BY <1>a, <1>g, <3>1, <4>1 DEF QueueLinked
          <6>4. next'[d] # Null => next'[d] \in Queued' /\ prev'[next'[d]] = d
            BY <1>a, <1>e, <1>i, <4>1, <6>1, <6>2, <6>3 DEF QueueLinked
          <6>5. QED
            BY <1>a, <1>i, <3>1, <4>1, <5>3, <6>1, <6>4 DEF QueueLinked
        <5>6. QED
          BY <5>4, <5>5
      <4>5. QED
        BY <4>3, <4>4
    <3>5. QED
      BY <3>1, <3>2, <3>3, <3>4 DEF QueueLinked
  <2>3. QED
    BY <2>1, <2>2
<1>4. ArrivalOrder'
  BY <1>a, <1>e, <1>i DEF ArrivalOrder
<1>5. AdmittedPrefix'
  <2> SUFFICES ASSUME NEW d \in Queued', waiting'[d] = 0
               PROVE  /\ class[d] = Write => ahead'[d] = {}
                      /\ \A e \in ahead'[d] : class[e] = Read /\ waiting'[e] = 0
    BY <1>b DEF AdmittedPrefix
  <2>1. /\ d \in Queued /\ d # c /\ ahead'[d] = ahead[d] \ {c}
        /\ \A e \in ahead'[d] : e \in Queued \ {c}
    BY <1>a, <1>e, <1>i DEF ArrivalOrder
  <2>2. CASE waiting[d] = 0
    BY <1>a, <1>i, <2>1, <2>2 DEF AdmittedPrefix
  <2>3. CASE d = a /\ a # Null /\ waiting[d] # 0
    <3>1. d = n /\ ahead[n] = ahead[c] \cup {c}
      BY <1>a, <1>b, <1>c, <1>g, <2>3, <2>1 DEF QueueLinked
    <3>2. ahead'[d] = ahead[c]
      BY <1>a, <1>c, <2>1, <3>1 DEF QueueLinked
    <3>3. CASE b = Null
      BY <1>h, <3>2, <3>3
    <3>4. CASE class[c] = Read /\ waiting[c] = 0 /\ class[n] = Read
      BY <1>a, <1>c, <1>i, <2>1, <3>1, <3>2, <3>4 DEF AdmittedPrefix, Read, Write
    <3>5. QED
      BY <1>b, <2>3, <3>3, <3>4
  <2>4. QED
    BY <1>i, <1>f, <2>1, <2>2, <2>3
<1>6. PassedOnlyIfCleared'
  <2>1. \A q \in Procs : pc'[q] \in Queueing => q # p /\ pc'[q] = pc[q] /\ lock'[q] = lock[q]
                                               /\ lock[q] \in Queued \ {c}
    BY <1>d
  <2>2. \A q \in Procs : pc'[q] \in Holding \cup Chaining => waiting'[lock'[q]] = 0
    BY <1>a, <1>i, <2>1 DEF PassedOnlyIfCleared, Queueing
  <2>3. \A q \in Procs : pc'[q] \in Chaining => mode'[q] = Read
    BY <1>a, <1>b, <2>1 DEF PassedOnlyIfCleared, Queueing
  <2>4. \A x \in Cells : waiting[x] = 0 \/ x = a => waiting'[x] = 0
    BY <1>a, <1>b DEF TypeOK, Cells, Null
  <2>5. \A q \in Procs : syn_addr'[q] # Null => waiting'[syn_addr'[q]] = 0
    BY <1>a, <1>b, <2>4 DEF PassedOnlyIfCleared, PendingWakes, TypeOK
  <2>6. QED
    BY <2>2, <2>3, <2>5 DEF PassedOnlyIfCleared, PendingWakes
<1>7. QED
  BY <1>1, <1>2, <1>3, <1>4, <1>5, <1>6 DEF AdmissionInv, AdmissionRules
LEMMA DequeueStep ==
  ASSUME AdmissionInv, TypeOK', NEW p \in Procs, Dequeue(p)
  PROVE  AdmissionInv'
<1>1. pc[p] \in Queueing /\ pc' = [pc EXCEPT ![p] = "idle"]
  BY DEF Dequeue, Goto, Queueing, GivingUp
<1>2. \A q \in Procs : syn_addr'[q] \in {syn_addr[q], Null}
  BY DEF Dequeue
<1>3. /\ next' = IF prev[lock[p]] = Null THEN next
               ELSE [next EXCEPT ![prev[lock[p]]] = next[lock[p]]]
      /\ prev' = IF next[lock[p]] = Null THEN prev
               ELSE [prev EXCEPT ![next[lock[p]]] = prev[lock[p]]]
      /\ tail' = IF next[lock[p]] = Null /\ tail = lock[p] THEN prev[lock[p]] ELSE tail
      /\ FreeLock(lock[p]) /\ Forget(p)
      /\ UNCHANGED <<class, mode, waiting>>
  BY DEF Dequeue
<1>4. pc' \in {[pc EXCEPT ![p] = "idle"], [pc EXCEPT ![p] = "release_wake"]}
  BY <1>1
<1>5. Removes(p, Null)
  BY <1>1, <1>2, <1>3, <1>4 DEF Removes
<1>6. QED
  BY <1>5, RemoveStep

(* A writer that holds the lock is at the head, so there is no cell in     *)
(* front of it whose `next' would have to change.                          *)
LEMMA ReleaseWriteStep ==
  ASSUME AdmissionInv, TypeOK', NEW p \in Procs, ReleaseWrite(p)
  PROVE  AdmissionInv'
<1>1. pc[p] = "release" /\ mode[p] = Write /\ lock[p] \in Queued
  BY DEF ReleaseWrite, Queued, Queueing, Holding
<1>2. class[lock[p]] = Write /\ waiting[lock[p]] = 0
  BY <1>1 DEF AdmissionInv, AdmissionRules, CellOfCaller, PassedOnlyIfCleared, Queueing, Holding
<1>3. prev[lock[p]] = Null
  <2>1. ahead[lock[p]] = {}
    BY <1>1, <1>2 DEF AdmissionInv, AdmissionRules, AdmittedPrefix
  <2>2. QED
    BY <1>1, <2>1 DEF AdmissionInv, AdmissionRules, QueueLinked
<1>4. Removes(p, next[lock[p]])
  <2>1. \A q \in Procs : syn_addr'[q] \in {syn_addr[q], next[lock[p]]}
    BY DEF AdmissionInv, AdmissionRules, TypeOK, ReleaseWrite, Granting
  <2>2. QED
    BY <1>1, <1>3, <2>1 DEF Removes, ReleaseWrite, Granting, Queueing, Holding
<1>5. QED
  BY <1>4, RemoveStep

LEMMA ReleaseReadStep ==
  ASSUME AdmissionInv, TypeOK', NEW p \in Procs, ReleaseRead(p)
  PROVE  AdmissionInv'
<1> DEFINE c == lock[p]
           n == next[lock[p]]
           a == IF Admits(c, n) THEN n ELSE Null
<1>1. pc[p] = "release" /\ mode[p] = Read
  BY DEF ReleaseRead
<1>2. class[c] = Read /\ waiting[c] = 0
  BY <1>1 DEF AdmissionInv, AdmissionRules, CellOfCaller, PassedOnlyIfCleared, Queueing, Holding
<1>3. Removes(p, a)
  <2>1. \A q \in Procs : syn_addr'[q] \in {syn_addr[q], a}
    BY DEF AdmissionInv, AdmissionRules, TypeOK, ReleaseRead, Granting
  <2>2. pc[p] \in Queueing
    BY <1>1 DEF Queueing, Holding
  <2>3. /\ pc' = [pc EXCEPT ![p] = IF a = Null THEN "idle" ELSE "release_wake"]
        /\ waiting' = IF a = Null THEN waiting ELSE [waiting EXCEPT ![a] = 0]
        /\ next' = IF prev[c] = Null THEN next ELSE [next EXCEPT ![prev[c]] = n]
        /\ prev' = IF n = Null THEN prev ELSE [prev EXCEPT ![n] = prev[c]]
        /\ tail' = IF n = Null /\ tail = c THEN prev[c] ELSE tail
        /\ FreeLock(c) /\ Forget(p)
        /\ UNCHANGED <<class, mode>>
    BY DEF ReleaseRead, Granting
  <2>4. a = Null \/ (a = n /\ (prev[c] = Null \/ (class[c] = Read /\ waiting[c] = 0 /\ class[n] = Read)))
    BY <1>2 DEF Admits
  <2>5. pc' = [pc EXCEPT ![p] = "idle"] \/ pc' = [pc EXCEPT ![p] = "release_wake"]
    BY <2>3
  <2> HIDE DEF a
  <2>6. pc' \in {[pc EXCEPT ![p] = "idle"], [pc EXCEPT ![p] = "release_wake"]}
    BY <2>5
  <2>7. QED
    BY <2>1, <2>2, <2>3, <2>4, <2>6 DEF Removes
<1>4. QED
  BY <1>3, RemoveStep

-----------------------------------------------------------------------------
LEMMA StepInv ==
  ASSUME ~LateWakes, AdmissionInv, [Next]_vars
  PROVE  AdmissionInv'
<1>1. TypeOK'
  BY TypeStep
<1>2. CASE UNCHANGED vars
  <2>1. UNCHANGED QueueVars /\ UNCHANGED <<pc, mode, waiting, syn_addr, lock>>
    BY <1>2 DEF vars, cellVars, QueueVars
  <2>2. PassedOnlyIfCleared'
    BY <2>1 DEF AdmissionInv, AdmissionRules, PassedOnlyIfCleared, PendingWakes
  <2>3. QED
    BY <1>1, <2>1, <2>2, QueueUntouched DEF AdmissionInv, AdmissionRules
<1>3. ASSUME NEW p \in Procs,
             Step(p) \/ Request(p) \/ Timeout(p)
      PROVE  AdmissionInv'
  <2>1. CASE Enqueue(p)
    BY <1>1, <2>1, EnqueueStep
  <2>2. CASE Chain(p)
    BY <1>1, <2>2, ChainStep
  <2>3. CASE Dequeue(p)
    BY <1>1, <2>3, DequeueStep
  <2>4. CASE ReleaseWrite(p)
    BY <1>1, <2>4, ReleaseWriteStep
  <2>5. CASE ReleaseRead(p)
    BY <1>1, <2>5, ReleaseReadStep
  <2>6. CASE \/ Request(p) \/ LockQueue(p) \/ AllocFails(p) \/ Check(p) \/ FutexWait(p)
             \/ Timeout(p) \/ ChainWake(p) \/ ReleaseWake(p)

    BY <1>1, <2>6, MoveStep
  <2>7. QED
    BY <1>3, <2>1, <2>2, <2>3, <2>4, <2>5, <2>6 DEF Step
<1>4. QED
  BY <1>2, <1>3 DEF Next

(* Types, the free list, the queue links and the admission order hold in   *)
(* every reachable state: nothing the lock calls do in any order, with any *)
(* number of timeouts, leaves a dangling link or a cell in two places, as  *)
(* long as no wake-up comes late.                                          *)
THEOREM AdmissionInvariant ==
  ASSUME ~LateWakes PROVE Spec => []AdmissionInv
<1>1. AdmissionInv /\ [Next]_vars => AdmissionInv'
  BY StepInv
<1>2. QED
  BY InitInv, <1>1, PTL DEF Spec

(* Every shared word and local variable keeps its type, under ~LateWakes.   *)
THEOREM TypeCorrect ==
  ASSUME ~LateWakes PROVE Spec => []TypeOK
BY AdmissionInvariant, PTL DEF AdmissionInv

(* No cell is lost or in two places, though each request takes one from    *)
(* the free list and gives it back at its end, served or timed out, as     *)
(* long as no wake-up comes late.                                          *)
THEOREM CellsKept ==
  ASSUME ~LateWakes PROVE Spec => []CellsConserved
BY AdmissionInvariant, PTL DEF AdmissionInv

(* `next', `prev' and `tail' describe one list in order of arrival,        *)
(* wherever readers and timed out requests leave it, as long as no wake-up *)
(* comes late: a writer woken late releases as if it were at the head.     *)
THEOREM QueueKept ==
  ASSUME ~LateWakes PROVE Spec => []QueueLinked
BY AdmissionInvariant, PTL DEF AdmissionInv

(* wg_start_write gives exclusive access: no second process is between the *)
(* return of db_tfqueue_[rw]lock and its release while a writer is, as     *)
(* long as no wake-up comes late.                                          *)
THEOREM Exclusion ==
  ASSUME ~LateWakes PROVE Spec => []MutualExclusion
<1>1. AdmissionInv => MutualExclusion
  <2> SUFFICES ASSUME AdmissionInv, NEW w \in Holders(Write),
                      NEW h \in Holders(Write) \cup Holders(Read)
               PROVE  h = w
    BY DEF MutualExclusion, Holders
  <2>a. CellOfCaller /\ CellsConserved /\ ArrivalOrder /\ AdmittedPrefix /\ PassedOnlyIfCleared
    BY DEF AdmissionInv, AdmissionRules
  <2>1. /\ w \in Procs /\ pc[w] \in Queueing /\ lock[w] \in Queued
        /\ class[lock[w]] = Write /\ waiting[lock[w]] = 0
    BY <2>a DEF Holders, CellOfCaller, PassedOnlyIfCleared, Queued, Queueing
  <2>2. /\ h \in Procs /\ pc[h] \in Queueing /\ lock[h] \in Queued
        /\ waiting[lock[h]] = 0
    BY <2>a DEF Holders, CellOfCaller, PassedOnlyIfCleared, Queued, Queueing
  <2>3. lock[h] \notin ahead[lock[w]]
    BY <2>a, <2>1 DEF AdmittedPrefix
  <2>4. lock[w] \notin ahead[lock[h]]
    BY <2>a, <2>1, <2>2 DEF AdmittedPrefix, Read, Write
  <2>5. lock[h] = lock[w]
    BY <2>a, <2>1, <2>2, <2>3, <2>4 DEF ArrivalOrder
  <2>6. QED
    BY <2>a, <2>1, <2>2, <2>5 DEF CellsConserved
<1>2. QED
  BY AdmissionInvariant, <1>1, PTL

(* Task fairness: no request is admitted past an earlier one that waits,   *)
(* as long as no wake-up comes late.                                       *)
THEOREM ArrivalOrderKept ==
  ASSUME ~LateWakes PROVE Spec => []NoOvertaking
<1>1. AdmissionInv => NoOvertaking
  BY DEF AdmissionInv, AdmissionRules, NoOvertaking, AdmittedPrefix
<1>2. QED
  BY AdmissionInvariant, <1>1, PTL

-----------------------------------------------------------------------------
(* Wake-ups.  A process has a cell to wake only on the way to its futex    *)
(* call, and it is the only one that sleeps on that cell.                  *)

WakersKnown == \A p \in Procs : syn_addr[p] # Null => pc[p] \in {"chain_wake", "release_wake"}

(* A step that clears no word and forgets no wake-up is safe if whoever it *)
(* sends to sleep has found its word set, and nobody's cell changes there. *)
LEMMA SleepersKept ==
  ASSUME NoLostWakeup, waiting' = waiting, syn_addr' = syn_addr,
         \A q \in Procs : pc'[q] = "asleep" =>
           lock'[q] = lock[q] /\ (pc[q] = "asleep" \/ waiting[lock[q]] # 0)
  PROVE  NoLostWakeup'
BY DEF NoLostWakeup, PendingWakes, Null

LEMMA WakeStep ==
  ASSUME ~LateWakes, AdmissionInv, WakersKnown, NoLostWakeup, [Next]_vars
  PROVE  WakersKnown' /\ NoLostWakeup'
<1>a. TypeOK /\ CellOfCaller
  BY DEF AdmissionInv, AdmissionRules
<1>b. \A q \in Procs : pc[q] = "asleep" => lock[q] \in Cells
  BY <1>a DEF CellOfCaller, TypeOK, Queueing, Waiting
<1>1. CASE UNCHANGED vars
  <2>1. pc' = pc /\ lock' = lock /\ waiting' = waiting /\ syn_addr' = syn_addr
    BY <1>1 DEF vars, cellVars
  <2>2. QED
    BY <2>1, SleepersKept DEF WakersKnown
<1>2. ASSUME NEW p \in Procs,
             \/ Request(p) \/ LockQueue(p) \/ AllocFails(p) \/ Check(p) \/ FutexWait(p)
             \/ Timeout(p)
      PROVE  WakersKnown' /\ NoLostWakeup'
  <2>1. waiting' = waiting /\ syn_addr' = syn_addr /\ lock' = lock
    BY <1>2 DEF Request, LockQueue, AllocFails, Check, FutexWait, Timeout, cellVars
  <2>2. pc[p] \notin {"chain_wake", "release_wake"} /\ \A q \in Procs \ {p} : pc'[q] = pc[q]
    BY <1>2, <1>a DEF Request, LockQueue, AllocFails, Check, FutexWait, Timeout, Goto, TypeOK
  <2>3. pc'[p] = "asleep" => waiting[lock[p]] # 0
    BY <1>2, <1>a DEF Request, LockQueue, AllocFails, Check, FutexWait, Timeout, Goto,
       AfterWait, TypeOK
  <2>4. QED
    BY <2>1, <2>2, <2>3, SleepersKept DEF WakersKnown
<1>3. ASSUME NEW p \in Procs, Enqueue(p) PROVE WakersKnown' /\ NoLostWakeup'
  <2>1. /\ freelist \in Cells /\ pc[p] = "enqueue" /\ pc'[p] = "check" /\ syn_addr' = syn_addr
        /\ \A q \in Procs \ {p} : pc'[q] = pc[q] /\ lock'[q] = lock[q]
        /\ \A c \in Cells \ {freelist} : waiting'[c] = waiting[c]
    BY <1>3, <1>a DEF Enqueue, Goto, TypeOK, Null
  <2>2. \A q \in Procs : pc[q] = "asleep" => lock[q] # freelist
    BY DEF AdmissionInv, CellsConserved, Queued, Queueing, Waiting
  <2>3. NoLostWakeup'
    BY <1>b, <2>1, <2>2 DEF NoLostWakeup, PendingWakes, Null
  <2>4. QED
    BY <2>1, <2>3 DEF WakersKnown
<1>4. ASSUME NEW p \in Procs, Dequeue(p) PROVE WakersKnown' /\ NoLostWakeup'
  <2>1. waiting' = waiting /\ syn_addr' = syn_addr /\ pc[p] = "dequeue" /\ pc'[p] = "idle"
        /\ \A q \in Procs \ {p} : pc'[q] = pc[q] /\ lock'[q] = lock[q]
    BY <1>4, <1>a DEF Dequeue, Goto, Forget, TypeOK
  <2>2. QED
    BY <2>1, SleepersKept DEF WakersKnown
\* An unlock that clears a word remembers to wake its sleeper.
<1>5. ASSUME NEW p \in Procs, NEW n \in Cells \cup {Null}, NEW to \in {"chain_wake", "release_wake"},
             NEW else, else # "asleep", Granting(p, n, to, else),
             pc[p] \notin {"chain_wake", "release_wake"},
             \A q \in Procs \ {p} : lock'[q] = lock[q]
      PROVE  WakersKnown' /\ NoLostWakeup'
  <2>1. /\ \A q \in Procs \ {p} : pc'[q] = pc[q] /\ syn_addr'[q] = syn_addr[q]
        /\ syn_addr'[p] = n /\ pc'[p] = IF n = Null THEN else ELSE to
        /\ \A c \in Cells : waiting'[c] = IF c = n THEN 0 ELSE waiting[c]
    BY <1>5, <1>a DEF Granting, TypeOK, Cells, Null
  <2>2. syn_addr[p] = Null
    BY <1>5 DEF WakersKnown
  <2>3. WakersKnown'
    BY <1>5, <2>1 DEF WakersKnown, Null
  <2>4. PendingWakes \subseteq PendingWakes' /\ (n # Null => n \in PendingWakes')
    BY <2>1, <2>2 DEF PendingWakes, Null
  <2>5. NoLostWakeup'
    <3> SUFFICES ASSUME NEW q \in Procs, pc'[q] = "asleep", waiting'[lock'[q]] = 0
                 PROVE  lock'[q] \in PendingWakes'
      BY DEF NoLostWakeup
    <3>1. q # p /\ pc[q] = "asleep" /\ lock'[q] = lock[q] /\ lock[q] \in Cells
      BY <1>5, <1>b, <2>1
    <3>2. CASE lock[q] = n
      BY <2>4, <3>1, <3>2 DEF Cells, Null
    <3>3. CASE lock[q] # n
      BY <2>1, <2>4, <3>1, <3>3 DEF NoLostWakeup
    <3>4. QED
      BY <3>2, <3>3
  <2>6. QED
    BY <2>3, <2>5
<1>6. ASSUME NEW p \in Procs, Chain(p) \/ ReleaseWrite(p) \/ ReleaseRead(p)
      PROVE  WakersKnown' /\ NoLostWakeup'
  <2> DEFINE n == next[lock[p]]
  <2>1. lock[p] \in Cells /\ pc[p] \in {"chain", "release"}
        /\ \A q \in Procs \ {p} : lock'[q] = lock[q]
    BY <1>6, <1>a DEF Chain, ReleaseWrite, ReleaseRead, Forget, CellOfCaller, TypeOK, Queueing,
       Holding, Chaining
  <2>2. n \in Cells \cup {Null}
    BY <1>a, <2>1 DEF TypeOK
  <2>3. CASE Chain(p)
    <3>1. PICK a \in Cells \cup {Null} : Granting(p, a, "chain_wake", "held")
      BY <2>2, <2>3 DEF Chain
    <3>2. QED
      BY <1>5, <2>1, <3>1
  <2>4. CASE ReleaseWrite(p)
    <3>1. Granting(p, n, "release_wake", "idle")
      BY <2>4 DEF ReleaseWrite
    <3>2. QED
      BY <1>5, <2>1, <2>2, <3>1
  <2>5. CASE ReleaseRead(p)
    <3>1. PICK a \in Cells \cup {Null} : Granting(p, a, "release_wake", "idle")
      BY <2>2, <2>5 DEF ReleaseRead
    <3>2. QED
      BY <1>5, <2>1, <3>1
  <2>6. QED
    BY <1>6, <2>3, <2>4, <2>5
\* FUTEX_WAKE wakes the only sleeper on its cell.
<1>7. ASSUME NEW p \in Procs, NEW to, to # "asleep",
             FutexWake(p, "chain_wake", to) \/ FutexWake(p, "release_wake", to)
      PROVE  WakersKnown' /\ NoLostWakeup'
  <2>1. /\ waiting' = waiting /\ lock' = lock
        /\ syn_addr' = [syn_addr EXCEPT ![p] = Null]
        /\ pc[p] \in {"chain_wake", "release_wake"}
    BY <1>7 DEF FutexWake, cellVars
  <2>2. \A q \in Procs : pc'[q] = "asleep" => pc[q] = "asleep" /\ q # p
    BY <1>7, <1>a DEF FutexWake, AfterWait, TypeOK
  <2>3. \A q \in Procs : pc'[q] = "asleep" => lock[q] # syn_addr[p]
    <3> SUFFICES ASSUME NEW q \in Procs, pc'[q] = "asleep", lock[q] = syn_addr[p] PROVE FALSE
      OBVIOUS
    <3>1. PICK x \in Procs : /\ pc[x] = "asleep" /\ lock[x] = syn_addr[p]
                             /\ pc' = [pc EXCEPT ![p] = to, ![x] = AfterWait(x)]
      BY <1>7, <2>2 DEF FutexWake
    <3>2. x = q
      BY <2>2, <3>1 DEF AdmissionInv, CellsConserved, Queueing, Waiting
    <3>3. pc'[q] # "asleep"
      BY <1>a, <3>1, <3>2 DEF AfterWait, TypeOK
    <3>4. QED
      BY <3>3
  <2>4. \A q \in Procs : pc[q] \in {"chain_wake", "release_wake"} /\ q # p => pc'[q] = pc[q]
    BY <1>7, <1>a DEF FutexWake, TypeOK
  <2>5. WakersKnown'
    BY <1>a, <2>1, <2>4 DEF WakersKnown, TypeOK
  <2>6. NoLostWakeup'
    BY <1>a, <2>1, <2>2, <2>3 DEF NoLostWakeup, PendingWakes, TypeOK, Null
  <2>7. QED
    BY <2>5, <2>6
<1>8. QED
  BY <1>1, <1>2, <1>3, <1>4, <1>6, <1>7 DEF Next, Step, ChainWake, ReleaseWake

(* A process asleep in the kernel whose word was cleared will be woken by  *)
(* the process that cleared it: the test of `waiting', FUTEX_WAIT and the  *)
(* wake-up after unlock_queue never miss each other, under ~LateWakes.     *)
THEOREM WakeupsKept ==
  ASSUME ~LateWakes PROVE Spec => []NoLostWakeup
<1>1. Init => WakersKnown /\ NoLostWakeup
  BY DEF Init, WakersKnown, NoLostWakeup
<1>2. AdmissionInv /\ WakersKnown /\ NoLostWakeup /\ [Next]_vars => (WakersKnown /\ NoLostWakeup)'
  BY WakeStep
<1>3. QED
  BY AdmissionInvariant, <1>1, <1>2, PTL DEF Spec

-----------------------------------------------------------------------------
(* The lock implements the shared/exclusive lock of RwLock.  Each step     *)
(* that moves a process into or out of Holding is one step of the abstract *)
(* lock, every other one a stutter.  FUTEX_WAKE moves two processes at     *)
(* once; only one of them can take the lock by it, because a chained       *)
(* wake-up is always for a reader, who has the reader behind it still to   *)
(* see to.                                                                 *)

\* A woken reader wakes readers only.
ChainWakesReader ==
  \A p \in Procs :
    pc[p] = "chain_wake" => syn_addr[p] \in Cells /\ class[syn_addr[p]] = Read

RefinementInv == AdmissionInv /\ MutualExclusion /\ ChainWakesReader

-----------------------------------------------------------------------------
LEMMA ChainWakesStep ==
  ASSUME ~LateWakes, AdmissionInv, ChainWakesReader, [Next]_vars
  PROVE  ChainWakesReader'
<1>a. TypeOK
  BY DEF AdmissionInv
<1> USE <1>a DEF ChainWakesReader, Goto, cellVars, TypeOK
<1>1. CASE UNCHANGED vars
  BY <1>1 DEF vars
<1>2. ASSUME NEW p \in Procs, Enqueue(p) PROVE ChainWakesReader'
  <2>1. freelist \notin PendingWakes
    BY <1>2 DEF Enqueue
  <2>2. \A q \in Procs : pc'[q] = "chain_wake" =>
          pc[q] = "chain_wake" /\ syn_addr'[q] = syn_addr[q] /\ syn_addr[q] \in PendingWakes
    BY <1>2 DEF Enqueue, PendingWakes, Cells, Null
  <2>3. QED
    BY <1>2, <2>1, <2>2 DEF Enqueue
<1>3. ASSUME NEW p \in Procs, Chain(p) PROVE ChainWakesReader'
  <2>1. \A q \in Procs : q # p => pc'[q] = pc[q] /\ syn_addr'[q] = syn_addr[q]
    BY <1>3 DEF Chain, Granting
  <2> DEFINE n == next[lock[p]]
             admitted == IF n # Null /\ class[n] = Read /\ waiting[n] # 0 THEN n ELSE Null
  <2>2. pc'[p] = "chain_wake" => syn_addr'[p] \in Cells /\ class[syn_addr'[p]] = Read
    <3>1. lock[p] \in Cells
      BY <1>3 DEF Chain, AdmissionInv, AdmissionRules, CellOfCaller, Queueing, Chaining
    <3>2. n \in Cells \cup {Null}
      BY <3>1
    <3>3. admitted = Null \/ (admitted \in Cells /\ class[admitted] = Read)
      BY <3>2
    <3>4. Granting(p, admitted, "chain_wake", "held")
      BY <1>3 DEF Chain
    <3> HIDE DEF admitted
    <3>5. syn_addr'[p] = admitted /\ (admitted = Null => pc'[p] = "held")
      BY <3>4 DEF Granting
    <3>6. QED
      BY <3>3, <3>5
  <2>3. class' = class
    BY <1>3 DEF Chain
  <2>4. QED
    BY <2>1, <2>2, <2>3
<1>4. ASSUME NEW p \in Procs,
             \/ Request(p) \/ LockQueue(p) \/ AllocFails(p) \/ Check(p) \/ FutexWait(p)
             \/ Timeout(p) \/ Dequeue(p)
      PROVE  ChainWakesReader'
  BY <1>4 DEF Request, LockQueue, AllocFails, Check, FutexWait, Timeout, Dequeue, AfterWait
<1>5. ASSUME NEW p \in Procs, ReleaseWrite(p) \/ ReleaseRead(p) PROVE ChainWakesReader'
  <2>1. \A q \in Procs : pc'[q] = "chain_wake" => q # p /\ pc[q] = "chain_wake"
    BY <1>5 DEF ReleaseWrite, ReleaseRead, Granting
  <2>2. class' = class /\ \A q \in Procs : q # p => syn_addr'[q] = syn_addr[q]
    BY <1>5 DEF ReleaseWrite, ReleaseRead, Granting
  <2>3. QED
    BY <2>1, <2>2
<1>6. ASSUME NEW p \in Procs, ChainWake(p) \/ ReleaseWake(p) PROVE ChainWakesReader'
  <2>1. \A q \in Procs : pc'[q] = "chain_wake" => q # p /\ pc[q] = "chain_wake"
    BY <1>6 DEF ChainWake, ReleaseWake, FutexWake, AfterWait
  <2>2. class' = class /\ \A q \in Procs : q # p => syn_addr'[q] = syn_addr[q]
    BY <1>6 DEF ChainWake, ReleaseWake, FutexWake
  <2>3. QED
    BY <2>1, <2>2
<1>7. QED
  BY <1>1, <1>2, <1>3, <1>4, <1>5, <1>6 DEF Next, Step

-----------------------------------------------------------------------------
(* What a step does to the abstract lock, told by who enters or leaves     *)
(* Holding.                                                                *)
LEMMA HoldsUnchanged ==
  ASSUME mode' = mode, \A q \in Procs : pc'[q] \in Holding <=> pc[q] \in Holding
  PROVE  HoldsMap' = HoldsMap
BY DEF HoldsMap

LEMMA EnterStep ==
  ASSUME TypeOK, MutualExclusion', NEW x \in Procs,
         pc[x] \notin Holding, pc'[x] \in Holding, mode' = mode,
         \A q \in Procs \ {x} : pc'[q] \in Holding <=> pc[q] \in Holding
  PROVE  Abstract!AcquireRead(x) \/ Abstract!AcquireWrite(x)
<1>1. HoldsMap' = [HoldsMap EXCEPT ![x] = mode[x]]
  BY DEF HoldsMap
<1>2. HoldsMap[x] = "none" /\ mode[x] \in {"read", "write"}
  BY DEF HoldsMap, TypeOK, Read, Write
<1>3. CASE mode[x] = "write"
  <2>1. \A q \in Procs \ {x} : pc[q] \notin Holding
    BY <1>3 DEF MutualExclusion, Holders, TypeOK, Read, Write
  <2>2. HoldsMap = Abstract!Free
    BY <2>1 DEF HoldsMap, Abstract!Free
  <2>3. QED
    BY <1>1, <1>3, <2>2 DEF Abstract!AcquireWrite
<1>4. CASE mode[x] = "read"
  <2>1. \A q \in Procs : HoldsMap[q] # "write"
    <3> SUFFICES ASSUME NEW q \in Procs, HoldsMap[q] = "write" PROVE FALSE
      OBVIOUS
    <3>1. q # x /\ pc'[q] \in Holding /\ mode'[q] = Write
      BY DEF HoldsMap, Write
    <3>2. q \in Holders(Write)' /\ x \in Holders(Read)'
      BY <1>4, <3>1 DEF Holders, Read
    <3>3. QED
      BY <3>1, <3>2 DEF MutualExclusion
  <2>2. QED
    BY <1>1, <1>2, <1>4, <2>1 DEF Abstract!AcquireRead
<1>5. QED
  BY <1>2, <1>3, <1>4

LEMMA LeaveStep ==
  ASSUME NEW x \in Procs, TypeOK,
         pc[x] \in Holding, pc'[x] \notin Holding, mode' = mode,
         \A q \in Procs \ {x} : pc'[q] \in Holding <=> pc[q] \in Holding
  PROVE  Abstract!Release(x)
<1>1. HoldsMap' = [HoldsMap EXCEPT ![x] = "none"]
  BY DEF HoldsMap
<1>2. HoldsMap[x] # "none"
  BY DEF HoldsMap, TypeOK, Read, Write
<1>3. QED
  BY <1>1, <1>2 DEF Abstract!Release

-----------------------------------------------------------------------------
(* Every step of the queued lock is a step of the abstract one.            *)
LEMMA StepMaps ==
  ASSUME RefinementInv, RefinementInv', [Next]_vars
  PROVE  [Abstract!Next]_HoldsMap
<1>a. TypeOK /\ MutualExclusion' /\ ChainWakesReader
  BY DEF RefinementInv, AdmissionInv
<1>b. ASSUME NEW x \in Procs,
             Abstract!AcquireRead(x) \/ Abstract!AcquireWrite(x) \/ Abstract!Release(x)
      PROVE  Abstract!Next
  BY <1>b DEF Abstract!Next
<1>1. CASE UNCHANGED vars
  BY <1>1 DEF vars, HoldsMap
<1>2. ASSUME NEW p \in Procs, Request(p) PROVE [Abstract!Next]_HoldsMap
  <2>1. \A q \in Procs : /\ pc'[q] \in Holding <=> pc[q] \in Holding
                         /\ pc[q] \in Holding => mode'[q] = mode[q]
    BY <1>a, <1>2 DEF Request, Goto, TypeOK, Holding
  <2>2. HoldsMap' = HoldsMap
    BY <2>1 DEF HoldsMap
  <2>3. QED
    BY <2>2
<1>3. ASSUME NEW p \in Procs,
             \/ LockQueue(p) \/ AllocFails(p) \/ Enqueue(p) \/ Timeout(p) \/ Dequeue(p)
      PROVE  [Abstract!Next]_HoldsMap
  <2>1. mode' = mode
    BY <1>3 DEF LockQueue, AllocFails, Enqueue, Timeout, Dequeue
  <2>2. \A q \in Procs : pc'[q] \in Holding <=> pc[q] \in Holding
    BY <1>a, <1>3 DEF LockQueue, AllocFails, Enqueue, Timeout, Dequeue, Goto, TypeOK, Holding
  <2>3. QED
    BY <2>1, <2>2, HoldsUnchanged
<1>4. ASSUME NEW p \in Procs, Check(p) \/ FutexWait(p) PROVE [Abstract!Next]_HoldsMap
  <2>1. mode' = mode /\ pc[p] \notin Holding
    BY <1>4 DEF Check, FutexWait, Goto, Holding
  <2>2. \A q \in Procs \ {p} : pc'[q] = pc[q]
    BY <1>a, <1>4 DEF Check, FutexWait, Goto, TypeOK
  <2>3. CASE pc'[p] \in Holding
    BY <1>a, <1>b, <2>1, <2>2, <2>3, EnterStep
  <2>4. CASE pc'[p] \notin Holding
    BY <2>1, <2>2, <2>4, HoldsUnchanged
  <2>5. QED
    BY <2>3, <2>4
<1>5. ASSUME NEW p \in Procs, Chain(p) PROVE [Abstract!Next]_HoldsMap
  <2>1. mode' = mode /\ pc[p] \notin Holding
    BY <1>5 DEF Chain, Holding
  <2>2. \A q \in Procs \ {p} : pc'[q] = pc[q]
    BY <1>a, <1>5 DEF Chain, Granting, TypeOK
  <2>3. CASE pc'[p] \in Holding
    BY <1>a, <1>b, <2>1, <2>2, <2>3, EnterStep
  <2>4. CASE pc'[p] \notin Holding
    BY <2>1, <2>2, <2>4, HoldsUnchanged
  <2>5. QED
    BY <2>3, <2>4
<1>6. ASSUME NEW p \in Procs, ReleaseWrite(p) \/ ReleaseRead(p)
      PROVE  [Abstract!Next]_HoldsMap
  <2>1. mode' = mode /\ pc[p] \in Holding
    BY <1>6 DEF ReleaseWrite, ReleaseRead, Holding
  <2>2. pc'[p] \notin Holding /\ \A q \in Procs \ {p} : pc'[q] = pc[q]
    BY <1>a, <1>6 DEF ReleaseWrite, ReleaseRead, Granting, TypeOK, Holding
  <2>3. QED
    BY <1>a, <1>b, <2>1, <2>2, LeaveStep
<1>7. ASSUME NEW p \in Procs, ChainWake(p) PROVE [Abstract!Next]_HoldsMap
  <2>1. mode' = mode /\ pc[p] \notin Holding /\ pc'[p] \in Holding
    BY <1>a, <1>7 DEF ChainWake, FutexWake, TypeOK, Holding
  <2>2. \A q \in Procs : q # p /\ pc[q] = "asleep" /\ lock[q] = syn_addr[p] => mode[q] = Read
    BY <1>7 DEF ChainWake, FutexWake, ChainWakesReader, RefinementInv, AdmissionInv,
                AdmissionRules, CellOfCaller, Queueing, Waiting
  <2>3. \A q \in Procs \ {p} : pc'[q] \in Holding <=> pc[q] \in Holding
    BY <1>a, <1>7, <2>2 DEF ChainWake, FutexWake, AfterWait, TypeOK, Holding
  <2>4. QED
    BY <1>a, <1>b, <2>1, <2>3, EnterStep
<1>8. ASSUME NEW p \in Procs, ReleaseWake(p) PROVE [Abstract!Next]_HoldsMap
  <2>1. mode' = mode /\ pc[p] = "release_wake"
    BY <1>8 DEF ReleaseWake, FutexWake
  <2>2. CASE pc' = [pc EXCEPT ![p] = "idle"]
    <3>1. \A q \in Procs : pc'[q] \in Holding <=> pc[q] \in Holding
      BY <1>a, <2>1, <2>2 DEF TypeOK, Holding
    <3>2. QED
      BY <2>1, <3>1, HoldsUnchanged
  <2>3. ASSUME NEW x \in Procs, pc[x] = "asleep",
               pc' = [pc EXCEPT ![p] = "idle", ![x] = AfterWait(x)]
        PROVE  [Abstract!Next]_HoldsMap
    <3>1. pc[x] \notin Holding /\ \A q \in Procs \ {x} : pc'[q] \in Holding <=> pc[q] \in Holding
      BY <1>a, <2>1, <2>3 DEF TypeOK, Holding
    <3>2. CASE pc'[x] \in Holding
      BY <1>a, <1>b, <2>1, <3>1, <3>2, EnterStep
    <3>3. CASE pc'[x] \notin Holding
      <4>1. \A q \in Procs : pc'[q] \in Holding <=> pc[q] \in Holding
        BY <3>1, <3>3
      <4>2. QED
        BY <2>1, <4>1, HoldsUnchanged
    <3>4. QED
      BY <3>2, <3>3
  <2>4. QED
    BY <1>8, <2>2, <2>3 DEF ReleaseWake, FutexWake
<1>9. QED
  BY <1>1, <1>2, <1>3, <1>4, <1>5, <1>6, <1>7, <1>8 DEF Next, Step

LEMMA RefinementInvariant ==
  ASSUME ~LateWakes PROVE Spec => []RefinementInv
<1>1. Init => ChainWakesReader
  BY DEF Init, ChainWakesReader
<1>2. AdmissionInv /\ ChainWakesReader /\ [Next]_vars => ChainWakesReader'
  BY ChainWakesStep
<1>3. QED
  BY AdmissionInvariant, Exclusion, <1>1, <1>2, PTL DEF Spec, RefinementInv

(* wg_start_read, wg_start_write, wg_end_read and wg_end_write are, seen   *)
(* from outside, the operations of a shared/exclusive lock: the queue, its *)
(* mutex, the futexes, timeouts and exhausted cells add nothing to it, as  *)
(* long as no wake-up comes late.                                          *)
THEOREM Implementation ==
  ASSUME ~LateWakes PROVE Spec => ImplementsRwLock
<1>1. Init => Abstract!Init
  BY DEF Init, Abstract!Init, HoldsMap, Abstract!Free, Holding
<1>2. RefinementInv /\ RefinementInv' /\ [Next]_vars => [Abstract!Next]_HoldsMap
  BY StepMaps
<1>3. QED
  BY RefinementInvariant, <1>1, <1>2, PTL DEF Spec, ImplementsRwLock, Abstract!Spec
=============================================================================
