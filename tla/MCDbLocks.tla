----------------------------- MODULE MCDbLocks -----------------------------
(***************************************************************************)
(* The three protocols for TLC.  The spinlocks run unrestricted.  For the  *)
(* queue each process keeps to one class of request, chosen in the initial *)
(* state: three processes with a cell each, of which one or two write,     *)
(* wait to the end, so that a reader waits behind a waiting reader         *)
(* or a waiting writer; the third asks once and is gone.  Two processes    *)
(* may give their waits up as well.                                        *)
(***************************************************************************)
EXTENDS DbLocks

VARIABLE role  \* what each process asks of the queue

Role(n, w) == [p \in Procs |-> IF p > n THEN "absent" ELSE IF p <= w THEN "write" ELSE "read"]
Roles == {Role(3, w) : w \in 1 .. 2} \cup {Role(2, 1)}

MCInit ==
  /\ Init
  /\ role \in IF LOCK_PROTO = TFQUEUE THEN Roles ELSE {Role(3, 3)}

\* Requests keep to the roles; three processes do not give up.
InRole ==
  \A p \in Procs :
    /\ qpc[p] = "idle" /\ qpc'[p] # "idle" => mode'[p] = role[p]
    /\ qpc[p] = "asleep" /\ qpc'[p] \in Tfq!GivingUp => role[3] = "absent"

\* The third process leaves with its first lock.
Left(p) == p = 3 /\ role[p] # "absent" /\ qpc[p] # "idle" /\ qpc'[p] = "idle"

MCNext ==
  /\ Next
  /\ LOCK_PROTO = TFQUEUE => InRole
  /\ role' = [p \in Procs |-> IF Left(p) THEN "gone" ELSE role[p]]

\* The fairness is that of Spec: no step of a process in a call is refused.
MCSpec ==
  /\ MCInit /\ [][MCNext]_<<vars, role>>
  /\ \A p \in Procs : WF_vars(Step(p)) /\ SF_vars(TfqLock(p))
=============================================================================
