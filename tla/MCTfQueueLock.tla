---------------------------- MODULE MCTfQueueLock ----------------------------
(***************************************************************************)
(* Instances of the task-fair queued lock for TLC: with a cell for every   *)
(* process, and with one cell less, so that a request may find none.  The  *)
(* last cell is then on no list and stays out of use.                      *)
(***************************************************************************)
EXTENDS TfQueueLockProps, TLC

Symmetry == Permutations(Procs)

ScarceInit ==
  /\ freelist = 1 /\ tail = Null /\ queue_lock = 0
  /\ next_cell = [c \in Cells |-> IF c >= MaxNodes - 1 THEN Null ELSE c + 1]
  /\ class = [c \in Cells |-> Read] /\ waiting = [c \in Cells |-> 0]
  /\ next = [c \in Cells |-> Null] /\ prev = [c \in Cells |-> Null]
  /\ pc = [p \in Procs |-> "idle"] /\ mode = [p \in Procs |-> Read]
  /\ lock = [p \in Procs |-> Null] /\ syn_addr = [p \in Procs |-> Null]
  /\ ahead = [c \in Cells |-> {}]

MCSpec == (Init \/ ScarceInit) /\ [][Next]_vars
==============================================================================
