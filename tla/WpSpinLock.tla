----------------------------- MODULE WpSpinLock -----------------------------
(***************************************************************************)
(* The writer-preference spinlock of WhiteDB (dblock.c, LOCK_PROTO 2): a   *)
(* writer announces itself in a second word, and a reader tests that word  *)
(* before it tries to count itself in the first.                           *)
(* A definition named X_slip is X with a plausible slip, used by no        *)
(* specification; it serves to test the properties.                        *)
(***************************************************************************)
EXTENDS Integers, FiniteSets

CONSTANTS Procs,          \* the attached processes
          UseLockTimeout  \* USE_LOCK_TIMEOUT: a spin may be given up

WAFLAG  == 1   \* writer active flag
RC_INCR == 2   \* increment step for reader count

VARIABLES gl,       \* the word at locks.global_lock
          writers,  \* the word at locks.writers
          pc,       \* where each process is
          readers   \* a reader's local copy of gl without the flag
vars == <<gl, writers, pc, readers>>

WriterPCs == {"wspin", "whold", "wleave"}
ReaderPCs == {"rtest", "rspin", "rload", "rswap", "rhold"}

Init ==
  /\ gl = 0 /\ writers = 0
  /\ pc = [p \in Procs |-> "idle"]
  /\ readers = [p \in Procs |-> 0]

Goto(p, from, to) == pc[p] = from /\ pc' = [pc EXCEPT ![p] = to]

-----------------------------------------------------------------------------
\* db_wpspin_wlock: "let the readers know a writer is present".
Announce(p) ==
  /\ writers' = writers + 1
  /\ Goto(p, "idle", "wspin")
  /\ UNCHANGED <<gl, readers>>

SwapWrite(p) ==
  /\ gl = 0
  /\ gl' = WAFLAG
  /\ Goto(p, "wspin", "whold")
  /\ UNCHANGED <<writers, readers>>

TimeoutWrite(p) ==
  /\ UseLockTimeout
  /\ writers' = writers - 1
  /\ Goto(p, "wspin", "idle")
  /\ UNCHANGED <<gl, readers>>

\* db_wpspin_wulock clears the flag, then takes the announcement back.
ClearFlag(p) ==
  /\ gl' = gl - (gl % 2)
  /\ Goto(p, "whold", "wleave")
  /\ UNCHANGED <<writers, readers>>

Leave(p) ==
  /\ writers' = writers - 1
  /\ Goto(p, "wleave", "idle")
  /\ UNCHANGED <<gl, readers>>

-----------------------------------------------------------------------------
RequestRead(p) == Goto(p, "idle", "rtest") /\ UNCHANGED <<gl, writers, readers>>

\* The reader tries its luck whether a writer is announced or not.
TestWriters_slip(p) ==
  /\ Goto(p, "rtest", "rload")
  /\ UNCHANGED <<gl, writers, readers>>

\* The test before an attempt; the attempt loop ends when it fails.
TestWriters(p) ==
  /\ Goto(p, "rtest", IF writers = 0 THEN "rload" ELSE "rspin")
  /\ UNCHANGED <<gl, writers, readers>>

\* "Spin-wait until writers disappear."
SpinRead(p) ==
  /\ writers = 0
  /\ Goto(p, "rspin", "rload")
  /\ UNCHANGED <<gl, writers, readers>>

TimeoutRead(p) ==
  /\ UseLockTimeout
  /\ Goto(p, "rspin", "idle")
  /\ UNCHANGED <<gl, writers, readers>>

\* The copy keeps the flag, so that the swap succeeds under a writer.
LoadReaders_slip(p) ==
  /\ readers' = [readers EXCEPT ![p] = gl]
  /\ Goto(p, "rload", "rswap")
  /\ UNCHANGED <<gl, writers>>

LoadReaders(p) ==
  /\ readers' = [readers EXCEPT ![p] = gl - (gl % 2)]
  /\ Goto(p, "rload", "rswap")
  /\ UNCHANGED <<gl, writers>>

\* The compare-and-swap fails if a writer is active or the count has moved.
SwapRead(p) ==
  /\ IF gl = readers[p]
     THEN gl' = gl + RC_INCR /\ Goto(p, "rswap", "rhold")
     ELSE gl' = gl /\ Goto(p, "rswap", "rtest")
  /\ readers' = [readers EXCEPT ![p] = 0]
  /\ UNCHANGED writers

ReleaseRead(p) ==
  /\ gl' = gl - RC_INCR
  /\ Goto(p, "rhold", "idle")
  /\ UNCHANGED <<writers, readers>>

-----------------------------------------------------------------------------
\* The steps of a process that is in a call or holds the lock, and those it
\* is free to take.
Step(p) ==
  \/ SwapWrite(p) \/ ClearFlag(p) \/ Leave(p)
  \/ TestWriters(p) \/ SpinRead(p) \/ LoadReaders(p) \/ SwapRead(p) \/ ReleaseRead(p)

Call(p) == Announce(p) \/ RequestRead(p) \/ TimeoutWrite(p) \/ TimeoutRead(p)


-----------------------------------------------------------------------------
At(c) == {p \in Procs : pc[p] = c}

TypeOK ==
  /\ gl \in Nat /\ writers \in Nat
  /\ pc \in [Procs -> WriterPCs \cup ReaderPCs \cup {"idle"}]
  /\ readers \in [Procs -> Nat]

\* Both words are what the processes in the lock added to them; the copy a
\* reader swaps against never carries the writer flag.
WordsCount ==
  /\ Cardinality(At("whold")) <= 1
  /\ gl = Cardinality(At("whold")) * WAFLAG + Cardinality(At("rhold")) * RC_INCR
  /\ writers = Cardinality({p \in Procs : pc[p] \in WriterPCs})
  /\ \A p \in Procs : readers[p] % 2 = 0

\* "Acquire database level exclusive lock": a writer holds the lock alone.
MutualExclusion == \A w \in At("whold") : At("whold") \cup At("rhold") = {w}

\* "Writer-preference": readers that come and go cannot keep a writer out; it
\* is admitted, or another is, unless it gives up.
SomeWriterServed ==
  \A p \in Procs : pc[p] = "wspin"
    ~> (\E q \in Procs : pc[q] = "whold") \/ pc[p] # "wspin"
=============================================================================
