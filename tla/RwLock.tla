------------------------------- MODULE RwLock -------------------------------
(***************************************************************************)
(* What the database lock promises (wg_start_read, wg_start_write,         *)
(* wg_end_read, wg_end_write in dblock.c): a shared/exclusive lock.  The   *)
(* three protocols of dblock.c are checked to implement it.                *)
(***************************************************************************)
CONSTANT Procs

VARIABLE holds    \* the mode in which each process holds the lock

Free == [p \in Procs |-> "none"]

Init == holds = Free

AcquireRead(p) ==
  /\ holds[p] = "none"
  /\ \A q \in Procs : holds[q] # "write"
  /\ holds' = [holds EXCEPT ![p] = "read"]

AcquireWrite(p) ==
  /\ holds = Free
  /\ holds' = [holds EXCEPT ![p] = "write"]

Release(p) ==
  /\ holds[p] # "none"
  /\ holds' = [holds EXCEPT ![p] = "none"]

Next == \E p \in Procs : AcquireRead(p) \/ AcquireWrite(p) \/ Release(p)

Spec == Init /\ [][Next]_holds
=============================================================================
