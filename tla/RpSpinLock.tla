----------------------------- MODULE RpSpinLock -----------------------------
(***************************************************************************)
(* The reader-preference spinlock of WhiteDB (dblock.c, LOCK_PROTO 1): one *)
(* word holds the writer-active flag and the number of readers, a reader   *)
(* counts itself before it waits for the writer to go.                     *)
(* A definition named X_slip is X with a plausible slip, used by no        *)
(* specification; it serves to test the properties.                        *)
(***************************************************************************)
EXTENDS Integers, FiniteSets

CONSTANTS Procs,          \* the attached processes
          UseLockTimeout  \* USE_LOCK_TIMEOUT: a spin may be given up

WAFLAG  == 1   \* writer active flag
RC_INCR == 2   \* increment step for reader count

VARIABLES gl,  \* the word at locks.global_lock
          pc   \* where each process is
vars == <<gl, pc>>

PCs == {"idle", "wspin", "whold", "rspin", "rhold"}

Init == gl = 0 /\ pc = [p \in Procs |-> "idle"]

Goto(p, from, to) == pc[p] = from /\ pc' = [pc EXCEPT ![p] = to]

\* db_rpspin_wlock: the first attempt and every round of the spin loop are
\* the same compare-and-swap.
RequestWrite(p) == Goto(p, "idle", "wspin") /\ UNCHANGED gl

\* The writer waits for the active writer only, not for the readers.
SwapWrite_slip(p) ==
  /\ gl % 2 = 0
  /\ gl' = gl + WAFLAG
  /\ Goto(p, "wspin", "whold")

SwapWrite(p) ==
  /\ gl = 0
  /\ gl' = WAFLAG
  /\ Goto(p, "wspin", "whold")

TimeoutWrite(p) == UseLockTimeout /\ Goto(p, "wspin", "idle") /\ UNCHANGED gl

ReleaseWrite_slip(p) == gl' = 0 /\ Goto(p, "whold", "idle")
ReleaseWrite(p) == gl' = gl - (gl % 2) /\ Goto(p, "whold", "idle")

\* db_rpspin_rlock counts the reader first.
RequestRead(p) == gl' = gl + RC_INCR /\ Goto(p, "idle", "rspin")

TestRead(p) == gl % 2 = 0 /\ Goto(p, "rspin", "rhold") /\ UNCHANGED gl

\* The reader gives up but stays counted.
TimeoutRead_slip(p) == UseLockTimeout /\ Goto(p, "rspin", "idle") /\ UNCHANGED gl

TimeoutRead(p) ==
  /\ UseLockTimeout
  /\ gl' = gl - RC_INCR
  /\ Goto(p, "rspin", "idle")

ReleaseRead(p) == gl' = gl - RC_INCR /\ Goto(p, "rhold", "idle")

\* The steps of a process that is in a call or holds the lock, and those it
\* is free to take.
Step(p) ==
  SwapWrite(p) \/ ReleaseWrite(p) \/ TestRead(p) \/ ReleaseRead(p)

Call(p) == RequestWrite(p) \/ RequestRead(p) \/ TimeoutWrite(p) \/ TimeoutRead(p)

-----------------------------------------------------------------------------
At(c) == {p \in Procs : pc[p] = c}
Counted == At("rspin") \cup At("rhold")

TypeOK == gl \in Nat /\ pc \in [Procs -> PCs]

\* The word is what its readers and its writer added to it, whoever timed
\* out in between: no increment is lost and none is left behind.
WordCounts ==
  /\ Cardinality(At("whold")) <= 1
  /\ gl = Cardinality(At("whold")) * WAFLAG + Cardinality(Counted) * RC_INCR

\* "Acquire database level exclusive lock": a writer holds the lock alone.
MutualExclusion == \A w \in At("whold") : At("whold") \cup At("rhold") = {w}

\* "Reader-preference": no writer is let in while a reader waits.
WriterWaitsForReaders ==
  \A p \in Procs : pc[p] # "whold" /\ pc'[p] = "whold" => Counted = {}

\* A reader waits for one writer at most, because no other can come in: it
\* is admitted or, if it may, gives up.
EveryReaderServed == \A p \in Procs : pc[p] = "rspin" ~> pc[p] # "rspin"
=============================================================================
