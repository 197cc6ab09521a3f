--------------------------- MODULE DbLocks_proofs ---------------------------
(***************************************************************************)
(* Proofs about the spinlocks among the three protocols of dblock.c, for   *)
(* any finite number of processes.  Both keep the number of their users in *)
(* a word that processes change by adding and subtracting, so that what is *)
(* proved is how the set of users at a control point grows and shrinks.    *)
(***************************************************************************)
EXTENDS DbLocks, FiniteSetTheorems, TLAPS

-----------------------------------------------------------------------------
(* One process moves: the number of processes in a set of control points   *)
(* changes by one at most.                                                 *)

Within(at, S) == {q \in Procs : at[q] \in S}

LEMMA Counting ==
  ASSUME NEW at, NEW moved, NEW S, NEW p \in Procs,
         \A q \in Procs \ {p} : moved[q] = at[q]
  PROVE  /\ IsFiniteSet(Within(at, S))
         /\ Cardinality(Within(at, S)) \in Nat
         /\ Cardinality(Within(moved, S)) =
              Cardinality(Within(at, S))
                + (IF moved[p] \in S THEN 1 ELSE 0) - (IF at[p] \in S THEN 1 ELSE 0)
         /\ at[p] \in S => Cardinality(Within(at, S)) > 0
<1> DEFINE others == Within(at, S) \ {p}
<1>1. IsFiniteSet(Within(at, S)) /\ IsFiniteSet(others)
  BY ProcsAssumption, FS_Subset DEF Within
<1>2. Within(at, S) = (IF at[p] \in S THEN others \cup {p} ELSE others)
  BY DEF Within
<1>3. Within(moved, S) = (IF moved[p] \in S THEN others \cup {p} ELSE others)
  BY DEF Within
<1>4. /\ Cardinality(others \cup {p}) = Cardinality(others) + 1
      /\ Cardinality(others) \in Nat
  <2>1. p \notin others
    OBVIOUS
  <2>2. QED
    BY <1>1, <2>1, FS_AddElement, FS_CardinalityType
<1> HIDE DEF others
<1>5. Cardinality(Within(at, S)) = Cardinality(others) + (IF at[p] \in S THEN 1 ELSE 0)
  BY <1>2, <1>4
<1>6. Cardinality(Within(moved, S)) = Cardinality(others) + (IF moved[p] \in S THEN 1 ELSE 0)
  BY <1>3, <1>4
<1>7. QED
  BY <1>1, <1>4, <1>5, <1>6

(* The instances count with the same operator.                             *)
LEMMA SameCardinality ==
  ASSUME NEW S
  PROVE  Rp!Cardinality(S) = Cardinality(S) /\ Wp!Cardinality(S) = Cardinality(S)
BY DEF Rp!Cardinality, Wp!Cardinality, Cardinality,
       Rp!IsFiniteSet, Wp!IsFiniteSet, IsFiniteSet

-----------------------------------------------------------------------------
(* LOCK_PROTO 1, reader preference.                                        *)

\* The inductive invariant: what the word is, and that a reader is let in
\* only when the flag in it is clear.
RpInv ==
  /\ Rp!TypeOK
  /\ Rp!WordCounts
  /\ Rp!At("whold") = {} \/ Rp!At("rhold") = {}

Writing(at) == Cardinality(Within(at, {"whold"}))
RpReading(at) == Cardinality(Within(at, {"rspin", "rhold"}))

(* The word counts the processes at these control points.                  *)
LEMMA RpWord ==
  /\ Rp!WordCounts <=> Writing(pc) <= 1 /\ gl = Writing(pc) * 1 + RpReading(pc) * 2
  /\ Rp!WordCounts' <=> Writing(pc') <= 1 /\ gl' = Writing(pc') * 1 + RpReading(pc') * 2
<1>1. Rp!At("whold") = Within(pc, {"whold"}) /\ Rp!Counted = Within(pc, {"rspin", "rhold"})
  BY DEF Rp!At, Rp!Counted, Within
<1>2. Rp!At("whold")' = Within(pc, {"whold"})' /\ Rp!Counted' = Within(pc, {"rspin", "rhold"})'
  BY DEF Rp!At, Rp!Counted, Within
<1>3. QED
  BY <1>1, <1>2, SameCardinality
     DEF Rp!WordCounts, Writing, RpReading, Rp!WAFLAG, Rp!RC_INCR

LEMMA RpInit == Rp!Init => RpInv
<1> SUFFICES ASSUME Rp!Init PROVE RpInv
  OBVIOUS
<1>1. Rp!TypeOK
  BY DEF Rp!Init, Rp!TypeOK, Rp!PCs
<1>2. Within(pc, {"whold"}) = {} /\ Within(pc, {"rspin", "rhold"}) = {} /\ Rp!At("whold") = {}
  BY DEF Rp!Init, Rp!At, Within
<1>3. Writing(pc) = 0 /\ RpReading(pc) = 0 /\ gl = 0
  BY <1>2, FS_EmptySet DEF Writing, RpReading, Rp!Init
<1>4. QED
  BY <1>1, <1>2, <1>3, RpWord DEF RpInv

(* What a move of one process does to the two numbers in the word.         *)
LEMMA RpMove ==
  ASSUME RpInv, NEW p \in Procs, NEW from, NEW to \in Rp!PCs, Rp!Goto(p, from, to)
  PROVE  /\ pc' \in [Procs -> Rp!PCs]
         /\ Writing(pc) \in Nat /\ RpReading(pc) \in Nat
         /\ Writing(pc') = Writing(pc) + (IF to = "whold" THEN 1 ELSE 0)
                                   - (IF from = "whold" THEN 1 ELSE 0)
         /\ RpReading(pc') = RpReading(pc) + (IF to \in {"rspin", "rhold"} THEN 1 ELSE 0)
                                   - (IF from \in {"rspin", "rhold"} THEN 1 ELSE 0)
         /\ from = "whold" => Writing(pc) > 0
         /\ from \in {"rspin", "rhold"} => RpReading(pc) > 0
<1>1. pc \in [Procs -> Rp!PCs] /\ pc[p] = from /\ pc' = [pc EXCEPT ![p] = to]
  BY DEF RpInv, Rp!TypeOK, Rp!Goto
<1>2. pc' \in [Procs -> Rp!PCs] /\ pc'[p] = to /\ \A q \in Procs \ {p} : pc'[q] = pc[q]
  BY <1>1
<1>c. ASSUME NEW S
      PROVE  /\ Cardinality(Within(pc, S)) \in Nat
             /\ Cardinality(Within(pc', S)) =
                  Cardinality(Within(pc, S)) + (IF to \in S THEN 1 ELSE 0) - (IF from \in S THEN 1 ELSE 0)
             /\ from \in S => Cardinality(Within(pc, S)) > 0
  BY <1>1, <1>2, Counting
<1>5. /\ Writing(pc) \in Nat
      /\ Writing(pc') = Writing(pc) + (IF to = "whold" THEN 1 ELSE 0)
                                - (IF from = "whold" THEN 1 ELSE 0)
      /\ from = "whold" => Writing(pc) > 0
  BY <1>c DEF Writing
<1>6. /\ RpReading(pc) \in Nat
      /\ RpReading(pc') = RpReading(pc) + (IF to \in {"rspin", "rhold"} THEN 1 ELSE 0)
                                - (IF from \in {"rspin", "rhold"} THEN 1 ELSE 0)
      /\ from \in {"rspin", "rhold"} => RpReading(pc) > 0
  BY <1>c DEF RpReading
<1>7. QED
  BY <1>2, <1>5, <1>6

(* Nobody is at a control point that nobody is counted at.                 *)
LEMMA RpNobody ==
  ASSUME RpInv
  PROVE  /\ Writing(pc) \in Nat /\ RpReading(pc) \in Nat
         /\ Writing(pc) = 0 => Rp!At("whold") = {}
         /\ RpReading(pc) = 0 => Rp!Counted = {}
<1>1. DOMAIN pc = Procs
  BY DEF RpInv, Rp!TypeOK
<1>2. \A S : IsFiniteSet(Within(pc, S))
  BY ProcsAssumption, FS_Subset DEF Within
<1>3. QED
  BY <1>2, FS_EmptySet, FS_CardinalityType
     DEF Writing, RpReading, Within, Rp!At, Rp!Counted

LEMMA RpStepInv ==
  ASSUME RpInv, NEW p \in Procs, Rp!Step(p) \/ Rp!Call(p)
  PROVE  RpInv'
<1>a. /\ Rp!TypeOK /\ gl = Writing(pc) * 1 + RpReading(pc) * 2 /\ Writing(pc) <= 1
      /\ Writing(pc) \in Nat /\ RpReading(pc) \in Nat
  BY RpWord, RpNobody DEF RpInv
<1>b. ASSUME pc' \in [Procs -> Rp!PCs], Writing(pc') <= 1, Writing(pc') \in Nat, RpReading(pc') \in Nat,
             gl' = Writing(pc') * 1 + RpReading(pc') * 2,
             Rp!At("whold")' = {} \/ Rp!At("rhold")' = {}
      PROVE  RpInv'
  <2>1. gl' \in Nat /\ Rp!WordCounts'
    BY <1>b, RpWord
  <2>2. QED
    BY <1>b, <2>1 DEF RpInv, Rp!TypeOK
<1>c. Rp!PCs = {"idle", "wspin", "whold", "rspin", "rhold"}
  BY DEF Rp!PCs
<1> USE DEF Rp!WAFLAG, Rp!RC_INCR
<1>1. CASE Rp!RequestWrite(p)
  <2>1. Rp!Goto(p, "idle", "wspin") /\ gl' = gl
    BY <1>1 DEF Rp!RequestWrite
  <2>2. Rp!At("whold")' = Rp!At("whold") /\ Rp!At("rhold")' = Rp!At("rhold")
    BY <1>a, <2>1 DEF Rp!TypeOK, Rp!At, Rp!Goto
  <2>m. /\ pc' \in [Procs -> Rp!PCs]
        /\ Writing(pc') \in Nat /\ Writing(pc') <= 1 /\ RpReading(pc') \in Nat
        /\ gl' = Writing(pc') * 1 + RpReading(pc') * 2
    BY <1>a, <1>c, <2>1, <2>2, RpMove
  <2>3. QED
    BY <1>b, <2>m, <2>2 DEF RpInv
<1>2. CASE Rp!SwapWrite(p)
  <2>1. Rp!Goto(p, "wspin", "whold") /\ gl = 0 /\ gl' = 1
    BY <1>2 DEF Rp!SwapWrite
  <2>2. RpReading(pc) = 0 /\ Writing(pc) = 0
    BY <1>a, <2>1
  <2>3. Rp!At("rhold")' = {}
    BY <1>a, <2>1, <2>2, RpNobody DEF Rp!Counted, Rp!At, Rp!Goto, Rp!TypeOK
  <2>m. /\ pc' \in [Procs -> Rp!PCs]
        /\ Writing(pc') \in Nat /\ Writing(pc') <= 1 /\ RpReading(pc') \in Nat
        /\ gl' = Writing(pc') * 1 + RpReading(pc') * 2
    BY <1>a, <1>c, <2>1, <2>2, <2>3, RpMove
  <2>4. QED
    BY <1>b, <2>m, <2>2, <2>3
<1>3. CASE Rp!TimeoutWrite(p)
  <2>1. Rp!Goto(p, "wspin", "idle") /\ gl' = gl
    BY <1>3 DEF Rp!TimeoutWrite
  <2>2. Rp!At("whold")' = Rp!At("whold") /\ Rp!At("rhold")' = Rp!At("rhold")
    BY <1>a, <2>1 DEF Rp!TypeOK, Rp!At, Rp!Goto
  <2>m. /\ pc' \in [Procs -> Rp!PCs]
        /\ Writing(pc') \in Nat /\ Writing(pc') <= 1 /\ RpReading(pc') \in Nat
        /\ gl' = Writing(pc') * 1 + RpReading(pc') * 2
    BY <1>a, <1>c, <2>1, <2>2, RpMove
  <2>3. QED
    BY <1>b, <2>m, <2>2 DEF RpInv
<1>4. CASE Rp!ReleaseWrite(p)
  <2>1. Rp!Goto(p, "whold", "idle")
    BY <1>4 DEF Rp!ReleaseWrite
  <2>m. /\ Writing(pc) > 0 /\ Writing(pc') = Writing(pc) - 1
        /\ RpReading(pc') = RpReading(pc) /\ pc' \in [Procs -> Rp!PCs]
    BY <1>a, <1>c, <2>1, RpMove
  <2>2. Writing(pc) = 1 /\ Writing(pc') = 0
    BY <1>a, <2>m
  <2>3. gl' = RpReading(pc) * 2
    BY <1>4, <1>a, <2>2 DEF Rp!ReleaseWrite
  <2>4. Rp!At("rhold")' = {}
    BY <1>a, <2>1 DEF RpInv, Rp!TypeOK, Rp!At, Rp!Goto
  <2>5. QED
    BY <1>a, <1>b, <2>m, <2>2, <2>3, <2>4
<1>5. CASE Rp!RequestRead(p)
  <2>1. Rp!Goto(p, "idle", "rspin") /\ gl' = gl + 2
    BY <1>5 DEF Rp!RequestRead
  <2>2. Rp!At("whold")' = Rp!At("whold") /\ Rp!At("rhold")' = Rp!At("rhold")
    BY <1>a, <2>1 DEF Rp!TypeOK, Rp!At, Rp!Goto
  <2>m. /\ pc' \in [Procs -> Rp!PCs]
        /\ Writing(pc') \in Nat /\ Writing(pc') <= 1 /\ RpReading(pc') \in Nat
        /\ gl' = Writing(pc') * 1 + RpReading(pc') * 2
    BY <1>a, <1>c, <2>1, <2>2, RpMove
  <2>3. QED
    BY <1>b, <2>m, <2>2 DEF RpInv
<1>6. CASE Rp!TestRead(p)
  <2>1. Rp!Goto(p, "rspin", "rhold") /\ gl' = gl /\ gl % 2 = 0
    BY <1>6 DEF Rp!TestRead
  <2>2. Writing(pc) = 0
    BY <1>a, <2>1
  <2>3. Rp!At("whold")' = {}
    BY <1>a, <2>1, <2>2, RpNobody DEF Rp!TypeOK, Rp!At, Rp!Goto
  <2>m. /\ pc' \in [Procs -> Rp!PCs]
        /\ Writing(pc') \in Nat /\ Writing(pc') <= 1 /\ RpReading(pc') \in Nat
        /\ gl' = Writing(pc') * 1 + RpReading(pc') * 2
    BY <1>a, <1>c, <2>1, <2>3, RpMove
  <2>4. QED
    BY <1>b, <2>m, <2>3
<1>7. CASE Rp!TimeoutRead(p) \/ Rp!ReleaseRead(p)
  <2>1. PICK from \in {"rspin", "rhold"} : Rp!Goto(p, from, "idle") /\ gl' = gl - 2
    BY <1>7 DEF Rp!TimeoutRead, Rp!ReleaseRead
  <2>2. Rp!At("whold")' = Rp!At("whold") /\ Rp!At("rhold")' \subseteq Rp!At("rhold")
    BY <1>a, <2>1 DEF Rp!TypeOK, Rp!At, Rp!Goto
  <2>m. /\ pc' \in [Procs -> Rp!PCs]
        /\ Writing(pc') \in Nat /\ Writing(pc') <= 1 /\ RpReading(pc') \in Nat
        /\ gl' = Writing(pc') * 1 + RpReading(pc') * 2
    BY <1>a, <1>c, <2>1, <2>2, RpMove
  <2>3. QED
    BY <1>b, <2>m, <2>2 DEF RpInv
<1>8. QED
  BY <1>1, <1>2, <1>3, <1>4, <1>5, <1>6, <1>7 DEF Rp!Step, Rp!Call
-----------------------------------------------------------------------------
(* LOCK_PROTO 2, writer preference.                                        *)

\* The inductive invariant: what the two words are, and that a reader swaps
\* its copy in only when the flag is clear.
WpInv ==
  /\ Wp!TypeOK
  /\ Wp!WordsCount
  /\ Wp!At("whold") = {} \/ Wp!At("rhold") = {}

WpReading(at) == Cardinality(Within(at, {"rhold"}))
Announced(at) == Cardinality(Within(at, Wp!WriterPCs))

(* The words count the processes at these control points.                  *)
LEMMA WpWords ==
  /\ Wp!WordsCount <=>
       /\ Writing(pc) <= 1 /\ gl = Writing(pc) * 1 + WpReading(pc) * 2
       /\ writers = Announced(pc) /\ \A p \in Procs : readers[p] % 2 = 0
  /\ Wp!WordsCount' <=>
       /\ Writing(pc') <= 1 /\ gl' = Writing(pc') * 1 + WpReading(pc') * 2
       /\ writers' = Announced(pc') /\ \A p \in Procs : readers'[p] % 2 = 0
<1>1. /\ Wp!At("whold") = Within(pc, {"whold"}) /\ Wp!At("rhold") = Within(pc, {"rhold"})
      /\ {p \in Procs : pc[p] \in Wp!WriterPCs} = Within(pc, Wp!WriterPCs)
  BY DEF Wp!At, Within
<1>2. /\ Wp!At("whold")' = Within(pc', {"whold"}) /\ Wp!At("rhold")' = Within(pc', {"rhold"})
      /\ {p \in Procs : pc'[p] \in Wp!WriterPCs} = Within(pc', Wp!WriterPCs)
  BY DEF Wp!At, Within
<1>3. QED
  BY <1>1, <1>2, SameCardinality
     DEF Wp!WordsCount, Writing, WpReading, Announced, Wp!WAFLAG, Wp!RC_INCR

LEMMA WpInit == Wp!Init => WpInv
<1> SUFFICES ASSUME Wp!Init PROVE WpInv
  OBVIOUS
<1>1. Wp!TypeOK
  BY DEF Wp!Init, Wp!TypeOK
<1>2. Within(pc, {"whold"}) = {} /\ Within(pc, {"rhold"}) = {} /\ Wp!At("whold") = {}
      /\ Within(pc, Wp!WriterPCs) = {}
  BY DEF Wp!Init, Wp!At, Within, Wp!WriterPCs
<1>3. Writing(pc) = 0 /\ WpReading(pc) = 0 /\ Announced(pc) = 0
  BY <1>2, FS_EmptySet DEF Writing, WpReading, Announced
<1>4. gl = 0 /\ writers = 0 /\ \A p \in Procs : readers[p] % 2 = 0
  BY DEF Wp!Init
<1>5. QED
  BY <1>1, <1>2, <1>3, <1>4, WpWords DEF WpInv

(* Nobody is at a control point that nobody is counted at.                 *)
LEMMA WpNobody ==
  ASSUME WpInv
  PROVE  /\ Writing(pc) \in Nat /\ WpReading(pc) \in Nat /\ Announced(pc) \in Nat
         /\ Writing(pc) = 0 => Wp!At("whold") = {}
         /\ WpReading(pc) = 0 => Wp!At("rhold") = {}
<1>1. \A S : IsFiniteSet(Within(pc, S))
  BY ProcsAssumption, FS_Subset DEF Within
<1>2. QED
  BY <1>1, FS_EmptySet, FS_CardinalityType
     DEF Writing, WpReading, Announced, Within, Wp!At

WpPCs == Wp!WriterPCs \cup Wp!ReaderPCs \cup {"idle"}

(* What a move of one process does to the numbers in the words.            *)
LEMMA WpMove ==
  ASSUME WpInv, NEW p \in Procs, NEW from, NEW to \in WpPCs, Wp!Goto(p, from, to)
  PROVE  /\ pc' \in [Procs -> WpPCs]
         /\ Writing(pc') = Writing(pc) + (IF to = "whold" THEN 1 ELSE 0)
                                       - (IF from = "whold" THEN 1 ELSE 0)
         /\ WpReading(pc') = WpReading(pc) + (IF to = "rhold" THEN 1 ELSE 0)
                                           - (IF from = "rhold" THEN 1 ELSE 0)
         /\ Announced(pc') = Announced(pc) + (IF to \in Wp!WriterPCs THEN 1 ELSE 0)
                                           - (IF from \in Wp!WriterPCs THEN 1 ELSE 0)
         /\ from = "whold" => Writing(pc) > 0
         /\ from = "rhold" => WpReading(pc) > 0
         /\ from \in Wp!WriterPCs => Announced(pc) > 0
<1>1. pc \in [Procs -> WpPCs] /\ pc[p] = from /\ pc' = [pc EXCEPT ![p] = to]
  BY DEF WpInv, Wp!TypeOK, Wp!Goto, WpPCs
<1>2. pc' \in [Procs -> WpPCs] /\ pc'[p] = to /\ \A q \in Procs \ {p} : pc'[q] = pc[q]
  BY <1>1
<1>3. ASSUME NEW S
      PROVE  /\ Cardinality(Within(pc', S)) =
                  Cardinality(Within(pc, S)) + (IF to \in S THEN 1 ELSE 0) - (IF from \in S THEN 1 ELSE 0)
             /\ from \in S => Cardinality(Within(pc, S)) > 0
  BY <1>1, <1>2, Counting
<1>4. QED
  BY <1>2, <1>3 DEF Writing, WpReading, Announced

LEMMA WpStepInv ==
  ASSUME WpInv, NEW p \in Procs, Wp!Step(p) \/ Wp!Call(p)
  PROVE  WpInv'
<1>a. /\ Wp!TypeOK /\ gl = Writing(pc) * 1 + WpReading(pc) * 2 /\ Writing(pc) <= 1
      /\ writers = Announced(pc) /\ \A q \in Procs : readers[q] % 2 = 0
      /\ Writing(pc) \in Nat /\ WpReading(pc) \in Nat /\ Announced(pc) \in Nat
  BY WpWords, WpNobody DEF WpInv
<1>b. ASSUME pc' \in [Procs -> WpPCs],
             Writing(pc') <= 1, Writing(pc') \in Nat, WpReading(pc') \in Nat,
             Announced(pc') \in Nat, writers' = Announced(pc'),
             gl' = Writing(pc') * 1 + WpReading(pc') * 2,
             readers' \in [Procs -> Nat], \A q \in Procs : readers'[q] % 2 = 0,
             Wp!At("whold")' = {} \/ Wp!At("rhold")' = {}
      PROVE  WpInv'
  <2>1. gl' \in Nat /\ Wp!WordsCount'
    BY <1>b, WpWords
  <2>2. QED
    BY <1>b, <2>1 DEF WpInv, Wp!TypeOK, WpPCs
<1>c. /\ Wp!WriterPCs = {"wspin", "whold", "wleave"}
      /\ WpPCs = {"wspin", "whold", "wleave", "rtest", "rspin", "rload", "rswap", "rhold", "idle"}
  BY DEF WpPCs, Wp!WriterPCs, Wp!ReaderPCs
\* A move to a control point of a reader or a writer that does not hold.
<1>d. ASSUME NEW from \in WpPCs \ {"whold"}, NEW to \in WpPCs \ {"whold", "rhold"},
             Wp!Goto(p, from, to),
             gl' = gl - (IF from = "rhold" THEN 2 ELSE 0),
             writers' = writers + (IF to \in Wp!WriterPCs THEN 1 ELSE 0)
                                - (IF from \in Wp!WriterPCs THEN 1 ELSE 0),
             readers' \in [Procs -> Nat], \A q \in Procs : readers'[q] % 2 = 0
      PROVE  WpInv'
  <2>1. Wp!At("whold")' = Wp!At("whold") /\ Wp!At("rhold")' \subseteq Wp!At("rhold")
    BY <1>a, <1>d DEF Wp!TypeOK, Wp!At, Wp!Goto
  <2>2. /\ pc' \in [Procs -> WpPCs] /\ Writing(pc') = Writing(pc)
        /\ WpReading(pc') = WpReading(pc) - (IF from = "rhold" THEN 1 ELSE 0)
        /\ Announced(pc') = Announced(pc) + (IF to \in Wp!WriterPCs THEN 1 ELSE 0)
                                          - (IF from \in Wp!WriterPCs THEN 1 ELSE 0)
        /\ from = "rhold" => WpReading(pc) > 0
        /\ from \in Wp!WriterPCs => Announced(pc) > 0
    <3>1. from # "whold" /\ to # "whold" /\ to # "rhold" /\ to \in WpPCs
      BY <1>d
    <3>2. /\ pc' \in [Procs -> WpPCs]
          /\ Writing(pc') = Writing(pc) + 0 - 0
          /\ WpReading(pc') = WpReading(pc) + 0 - (IF from = "rhold" THEN 1 ELSE 0)
          /\ Announced(pc') = Announced(pc) + (IF to \in Wp!WriterPCs THEN 1 ELSE 0)
                                            - (IF from \in Wp!WriterPCs THEN 1 ELSE 0)
          /\ from = "rhold" => WpReading(pc) > 0
          /\ from \in Wp!WriterPCs => Announced(pc) > 0
      BY <1>d, <3>1, WpMove
    <3>3. QED
      BY <1>a, <3>2
  <2>3. WpReading(pc') \in Nat /\ gl' = Writing(pc') * 1 + WpReading(pc') * 2
    BY <1>a, <1>d, <2>2
  <2>4. Announced(pc') \in Nat /\ writers' = Announced(pc')
    BY <1>a, <1>d, <2>2
  <2>5. QED
    BY <1>a, <1>b, <1>d, <2>1, <2>2, <2>3, <2>4 DEF WpInv
<1>e. readers \in [Procs -> Nat]
  BY <1>a DEF Wp!TypeOK
<1>1. CASE Wp!Announce(p)
  BY <1>1, <1>a, <1>c, <1>d, <1>e DEF Wp!Announce
<1>2. CASE Wp!TimeoutWrite(p) \/ Wp!Leave(p)
  BY <1>2, <1>a, <1>c, <1>d, <1>e DEF Wp!TimeoutWrite, Wp!Leave
<1>3. CASE Wp!RequestRead(p) \/ Wp!TimeoutRead(p) \/ Wp!SpinRead(p)
  BY <1>3, <1>a, <1>c, <1>d, <1>e DEF Wp!RequestRead, Wp!TimeoutRead, Wp!SpinRead
<1>4. CASE Wp!TestWriters(p)
  BY <1>4, <1>a, <1>c, <1>d, <1>e DEF Wp!TestWriters
<1>5. CASE Wp!LoadReaders(p)
  <2>1. gl - (gl % 2) \in Nat /\ (gl - (gl % 2)) % 2 = 0
    BY <1>a DEF Wp!TypeOK
  <2>2. readers' \in [Procs -> Nat] /\ \A q \in Procs : readers'[q] % 2 = 0
    BY <1>5, <1>a, <1>e, <2>1 DEF Wp!LoadReaders
  <2>3. QED
    BY <1>5, <1>a, <1>c, <1>d, <2>2 DEF Wp!LoadReaders
<1>6. CASE Wp!ReleaseRead(p)
  BY <1>6, <1>a, <1>c, <1>d, <1>e DEF Wp!ReleaseRead, Wp!RC_INCR
<1>7. CASE Wp!SwapWrite(p)
  <2>1. Wp!Goto(p, "wspin", "whold") /\ gl = 0 /\ gl' = 1
    BY <1>7 DEF Wp!SwapWrite, Wp!WAFLAG
  <2>2. WpReading(pc) = 0 /\ Writing(pc) = 0
    BY <1>a, <2>1
  <2>3. Wp!At("rhold")' = {}
    BY <1>a, <2>1, <2>2, WpNobody DEF Wp!At, Wp!Goto, Wp!TypeOK
  <2>4. /\ pc' \in [Procs -> WpPCs] /\ Writing(pc') = 1 /\ WpReading(pc') = 0
        /\ Announced(pc') = Announced(pc)
    BY <1>a, <1>c, <2>1, <2>2, WpMove
  <2>5. writers' = writers /\ readers' = readers
    BY <1>7 DEF Wp!SwapWrite
  <2>6. /\ Writing(pc') <= 1 /\ Writing(pc') \in Nat /\ WpReading(pc') \in Nat
        /\ gl' = Writing(pc') * 1 + WpReading(pc') * 2
    BY <2>1, <2>4
  <2>7. QED
    BY <1>a, <1>b, <1>e, <2>3, <2>4, <2>5, <2>6
<1>8. CASE Wp!ClearFlag(p)
  <2>1. Wp!Goto(p, "whold", "wleave")
    BY <1>8 DEF Wp!ClearFlag
  <2>2. /\ pc' \in [Procs -> WpPCs] /\ Writing(pc) > 0 /\ Writing(pc') = Writing(pc) - 1
        /\ WpReading(pc') = WpReading(pc) /\ Announced(pc') = Announced(pc)
    BY <1>a, <1>c, <2>1, WpMove
  <2>3. Writing(pc) = 1 /\ Writing(pc') = 0
    BY <1>a, <2>2
  <2>4. gl' = WpReading(pc) * 2
    BY <1>8, <1>a, <2>3 DEF Wp!ClearFlag
  <2>5. Wp!At("rhold")' = {}
    <3>1. p \in Wp!At("whold")
      BY <2>1 DEF Wp!At, Wp!Goto
    <3>2. QED
      BY <1>a, <2>1, <3>1 DEF WpInv, Wp!TypeOK, Wp!At, Wp!Goto
  <2>6. QED
    BY <1>8, <1>a, <1>b, <1>e, <2>2, <2>3, <2>4, <2>5 DEF Wp!ClearFlag
<1>9. CASE Wp!SwapRead(p)
  <2>1. readers' \in [Procs -> Nat] /\ \A q \in Procs : readers'[q] % 2 = 0
    BY <1>9, <1>a, <1>e DEF Wp!SwapRead
  <2>2. CASE gl = readers[p]
    <3>1. Wp!Goto(p, "rswap", "rhold") /\ gl' = gl + 2 /\ writers' = writers
      BY <1>9, <2>2 DEF Wp!SwapRead, Wp!RC_INCR
    <3>2. Writing(pc) = 0
      BY <1>a, <2>2
    <3>3. Wp!At("whold")' = {}
      BY <1>a, <3>1, <3>2, WpNobody DEF Wp!TypeOK, Wp!At, Wp!Goto
    <3>4. /\ pc' \in [Procs -> WpPCs] /\ Writing(pc') = 0
          /\ WpReading(pc') = WpReading(pc) + 1 /\ Announced(pc') = Announced(pc)
      BY <1>a, <1>c, <3>1, <3>2, WpMove
    <3>5. QED
      BY <1>a, <1>b, <2>1, <3>1, <3>2, <3>3, <3>4
  <2>3. CASE gl # readers[p]
    BY <1>9, <1>a, <1>c, <1>d, <2>1, <2>3 DEF Wp!SwapRead
  <2>4. QED
    BY <2>2, <2>3
<1>10. QED
  BY <1>1, <1>2, <1>3, <1>4, <1>5, <1>6, <1>7, <1>8, <1>9 DEF Wp!Step, Wp!Call

-----------------------------------------------------------------------------
(* The database lock of a build with either of the spinlocks.              *)

SpinInv ==
  /\ LOCK_PROTO \in {RPSPIN, WPSPIN, TFQUEUE}
  /\ LOCK_PROTO = RPSPIN => RpInv
  /\ LOCK_PROTO = WPSPIN => WpInv

LEMMA SpinInvariant == Spec => []SpinInv
<1> USE DEF RPSPIN, WPSPIN, TFQUEUE
<1>1. Init => SpinInv
  BY RpInit, WpInit DEF Init, SpinInv
<1>2. SpinInv /\ [Next]_vars => SpinInv'
  <2> SUFFICES ASSUME SpinInv, [Next]_vars PROVE SpinInv'
    OBVIOUS
  <2>1. CASE UNCHANGED vars
    <3>1. LOCK_PROTO' = LOCK_PROTO /\ gl' = gl /\ writers' = writers /\ pc' = pc
          /\ readers' = readers
      BY <2>1 DEF vars, spinVars
    <3>2. RpInv => RpInv'
      BY <3>1 DEF RpInv, Rp!TypeOK, Rp!WordCounts, Rp!At, Rp!Counted
    <3>3. WpInv => WpInv'
      BY <3>1 DEF WpInv, Wp!TypeOK, Wp!WordsCount, Wp!At
    <3>4. QED
      BY <3>1, <3>2, <3>3 DEF SpinInv
  <2>2. ASSUME NEW p \in Procs, RpStep(p) \/ RpCall(p) PROVE SpinInv'
    BY <2>2, RpStepInv DEF SpinInv, RpStep, RpCall, InRpSpin
  <2>3. ASSUME NEW p \in Procs, WpStep(p) \/ WpCall(p) PROVE SpinInv'
    BY <2>3, WpStepInv DEF SpinInv, WpStep, WpCall, InWpSpin
  <2>4. ASSUME NEW p \in Procs, TfqStep(p) \/ TfqCall(p) PROVE SpinInv'
    BY <2>4 DEF SpinInv, TfqStep, TfqCall, InQueue
  <2>5. QED
    BY <2>1, <2>2, <2>3, <2>4 DEF Next, Step, Call
<1>3. QED
  BY <1>1, <1>2, PTL DEF Spec

(* The words at locks.global_lock and locks.writers are at any time what   *)
(* the processes in db_rpspin_* and db_wpspin_* have added to them: a      *)
(* timeout takes its own contribution back and no other.                   *)
THEOREM WordsKept == Spec => []WordsCount
<1>1. SpinInv => WordsCount
  BY DEF SpinInv, WordsCount, RpInv, WpInv
<1>2. QED
  BY SpinInvariant, <1>1, PTL

(* db_rpspin_wlock lets no writer in while a reader waits or holds.        *)
THEOREM ReadersPreferred == Spec => ReaderPreference
<1>1. SpinInv /\ [Next]_vars => [LOCK_PROTO = RPSPIN => Rp!WriterWaitsForReaders]_vars
  <2> SUFFICES ASSUME SpinInv, LOCK_PROTO = RPSPIN, Next,
                      NEW q \in Procs, pc[q] # "whold", pc'[q] = "whold"
               PROVE  Rp!Counted = {}
    BY DEF Rp!WriterWaitsForReaders
  <2>1. RpInv
    BY DEF SpinInv
  <2>2. PICK p \in Procs : Rp!Step(p) \/ Rp!Call(p)
    BY DEF Next, Step, Call, RpStep, RpCall, WpStep, WpCall, TfqStep, TfqCall,
           InWpSpin, InQueue, RPSPIN, WPSPIN, TFQUEUE
  <2>3. Rp!SwapWrite(p)
    BY <2>1, <2>2 DEF RpInv, Rp!TypeOK, Rp!Goto, Rp!Step, Rp!Call, Rp!ReleaseWrite, Rp!TestRead,
         Rp!ReleaseRead, Rp!RequestWrite, Rp!RequestRead, Rp!TimeoutWrite, Rp!TimeoutRead
  <2>4. gl = Writing(pc) * 1 + RpReading(pc) * 2 /\ Writing(pc) \in Nat /\ RpReading(pc) \in Nat
    BY <2>1, RpWord, RpNobody DEF RpInv
  <2>5. RpReading(pc) = 0
    BY <2>3, <2>4 DEF Rp!SwapWrite
  <2>6. QED
    BY <2>1, <2>5, RpNobody
<1>2. QED
  BY SpinInvariant, <1>1, PTL DEF Spec, ReaderPreference

-----------------------------------------------------------------------------
(* The queued lock in this module is the one proved correct in             *)
(* TfQueueLock_proofs, with its flags and control points.                  *)

TfqP == INSTANCE TfQueueLock_proofs WITH pc <- qpc

LEMMA SameQueue ==
  /\ Tfq!Init => TfqP!Init
  /\ \A p \in Procs : Tfq!Step(p) \/ Tfq!Request(p) \/ Tfq!Timeout(p) => TfqP!Next
<1>1. Tfq!Init => TfqP!Init
  BY DEF Tfq!Init, TfqP!Init, Tfq!Cells, TfqP!Cells, Tfq!Null, TfqP!Null, Tfq!Read, TfqP!Read
<1>2. ASSUME NEW p \in Procs PROVE Tfq!Step(p) => TfqP!Step(p)
  BY DEF Tfq!Step, TfqP!Step, Tfq!LockQueue, TfqP!LockQueue, Tfq!AllocFails, TfqP!AllocFails,
     Tfq!Enqueue, TfqP!Enqueue, Tfq!MustWait, TfqP!MustWait, Tfq!PendingWakes, TfqP!PendingWakes,
     Tfq!Queued, TfqP!Queued, Tfq!Check, TfqP!Check, Tfq!FutexWait, TfqP!FutexWait,
     Tfq!AfterWait, TfqP!AfterWait, Tfq!Chain, TfqP!Chain, Tfq!ChainWake, TfqP!ChainWake,
     Tfq!Dequeue, TfqP!Dequeue, Tfq!ReleaseWrite, TfqP!ReleaseWrite, Tfq!ReleaseRead,
     TfqP!ReleaseRead, Tfq!Admits, TfqP!Admits, Tfq!ReleaseWake, TfqP!ReleaseWake,
     Tfq!FutexWake, TfqP!FutexWake, Tfq!Goto, TfqP!Goto, Tfq!Granting, TfqP!Granting,
     Tfq!UnlockQueue, TfqP!UnlockQueue, Tfq!FreeLock, TfqP!FreeLock, Tfq!Forget, TfqP!Forget,
     Tfq!cellVars, TfqP!cellVars, Tfq!Null, TfqP!Null, Tfq!Cells, TfqP!Cells, Tfq!Read,
     TfqP!Read, Tfq!Write, TfqP!Write, Tfq!Queueing, TfqP!Queueing, Tfq!Waiting, TfqP!Waiting,
     Tfq!Holding, TfqP!Holding, Tfq!Chaining, TfqP!Chaining, Tfq!GivingUp, TfqP!GivingUp
<1>3. ASSUME NEW p \in Procs PROVE Tfq!Request(p) => TfqP!Request(p)
  BY DEF Tfq!Request, TfqP!Request, Tfq!Goto, TfqP!Goto, Tfq!Read, TfqP!Read,
         Tfq!Write, TfqP!Write, Tfq!cellVars, TfqP!cellVars
<1>4. ASSUME NEW p \in Procs PROVE Tfq!Timeout(p) => TfqP!Timeout(p)
  BY DEF Tfq!Timeout, TfqP!Timeout, Tfq!Goto, TfqP!Goto, Tfq!cellVars, TfqP!cellVars
<1>5. QED
  BY <1>1, <1>2, <1>3, <1>4 DEF TfqP!Next

(* What TfQueueLock_proofs asks of the queued lock: a cell is not freed    *)
(* and allocated again while a wake-up is on its way to it.                *)
WakesInTime == LateWakes => LOCK_PROTO # TFQUEUE

(* A build with the queued lock behaves as TfQueueLock.                    *)
LEMMA QueueInvariant ==
  Spec /\ WakesInTime => [](LOCK_PROTO = TFQUEUE => TfqP!RefinementInv)
<1>1. Init /\ LOCK_PROTO = TFQUEUE => TfqP!Init
  BY SameQueue DEF Init
<1>2. LOCK_PROTO = TFQUEUE /\ [Next]_vars => (LOCK_PROTO = TFQUEUE)' /\ [TfqP!Next]_(TfqP!vars)
  BY SameQueue DEF Next, Step, Call, RpStep, RpCall, WpStep, WpCall, TfqStep, TfqCall, InRpSpin,
     InWpSpin, InQueue, RPSPIN, WPSPIN, TFQUEUE, vars, queueVars, TfqP!vars, TfqP!cellVars
<1>3. ~ (LOCK_PROTO = TFQUEUE) /\ [Next]_vars => ~ (LOCK_PROTO = TFQUEUE)'
  BY DEF Next, Step, Call, RpStep, RpCall, WpStep, WpCall, TfqStep, TfqCall, InRpSpin,
     InWpSpin, InQueue, vars
<1>4. CASE LateWakes
  <2>1. WakesInTime => ~ (LOCK_PROTO = TFQUEUE)
    BY <1>4 DEF WakesInTime
  <2>2. QED
    BY <1>3, <2>1, PTL DEF Spec
<1>5. CASE ~LateWakes
  <2>1. TfqP!Spec => []TfqP!RefinementInv
    BY <1>5, TfqP!RefinementInvariant, MaxNodesAssumption, FlagsAssumption
  <2>2. QED
    BY <1>1, <1>2, <1>3, <2>1, PTL DEF Spec, TfqP!Spec
<1>6. QED
  BY <1>4, <1>5

-----------------------------------------------------------------------------
(* A process that enters or leaves a spinlock does to the abstract lock    *)
(* what its mode says, provided that it enters only when it may.           *)

LEMMA SpinMaps ==
  ASSUME LOCK_PROTO # TFQUEUE, LOCK_PROTO' = LOCK_PROTO, DOMAIN pc = Procs,
         NEW p \in Procs, NEW from, NEW to, pc[p] = from, pc' = [pc EXCEPT ![p] = to],
         from \in {"whold", "rhold"} => to \notin {"whold", "rhold"},
         to = "whold" => \A q \in Procs : pc[q] \notin {"whold", "rhold"},
         to = "rhold" => \A q \in Procs : pc[q] # "whold"
  PROVE  [Abstract!Next]_HoldsMap
<1> DEFINE held(c) == CASE c = "whold" -> "write" [] c = "rhold" -> "read" [] OTHER -> "none"
<1>1. HoldsMap = [q \in Procs |-> held(pc[q])] /\ HoldsMap' = [q \in Procs |-> held(pc'[q])]
  BY DEF HoldsMap, SpinHolds
<1>2. HoldsMap' = [HoldsMap EXCEPT ![p] = held(to)] /\ HoldsMap[p] = held(from)
  BY <1>1
<1>3. CASE to = "whold"
  <2>1. HoldsMap = Abstract!Free /\ held(to) = "write"
    BY <1>1, <1>3 DEF Abstract!Free
  <2>2. QED
    BY <1>2, <2>1 DEF Abstract!Next, Abstract!AcquireWrite
<1>4. CASE to = "rhold"
  <2>1. HoldsMap[p] = "none" /\ held(to) = "read" /\ \A q \in Procs : HoldsMap[q] # "write"
    BY <1>1, <1>4
  <2>2. QED
    BY <1>2, <2>1 DEF Abstract!Next, Abstract!AcquireRead
<1>5. CASE to \notin {"whold", "rhold"} /\ from \in {"whold", "rhold"}
  <2>1. HoldsMap[p] # "none" /\ held(to) = "none"
    BY <1>2, <1>5
  <2>2. QED
    BY <1>2, <2>1 DEF Abstract!Next, Abstract!Release
<1>6. CASE to \notin {"whold", "rhold"} /\ from \notin {"whold", "rhold"}
  BY <1>1, <1>2, <1>6
<1>7. QED
  BY <1>3, <1>4, <1>5, <1>6

LEMMA RpMaps ==
  ASSUME SpinInv, LOCK_PROTO = RPSPIN, LOCK_PROTO' = LOCK_PROTO,
         NEW p \in Procs, Rp!Step(p) \/ Rp!Call(p)
  PROVE  [Abstract!Next]_HoldsMap
<1>a. RpInv /\ LOCK_PROTO # TFQUEUE /\ DOMAIN pc = Procs
  BY DEF SpinInv, RPSPIN, TFQUEUE, RpInv, Rp!TypeOK
<1>b. gl = Writing(pc) * 1 + RpReading(pc) * 2 /\ Writing(pc) \in Nat /\ RpReading(pc) \in Nat
  BY <1>a, RpWord, RpNobody DEF RpInv
<1>1. CASE Rp!SwapWrite(p)
  <2>1. Writing(pc) = 0 /\ RpReading(pc) = 0
    BY <1>1, <1>b DEF Rp!SwapWrite
  <2>2. \A q \in Procs : pc[q] \notin {"whold", "rhold"}
    BY <1>a, <2>1, RpNobody DEF Rp!At, Rp!Counted
  <2>3. QED
    BY <1>1, <1>a, <2>2, SpinMaps DEF Rp!SwapWrite, Rp!Goto
<1>2. CASE Rp!TestRead(p)
  <2>1. Writing(pc) = 0
    BY <1>2, <1>a, <1>b, RpWord DEF Rp!TestRead, RpInv
  <2>2. \A q \in Procs : pc[q] # "whold"
    BY <1>a, <2>1, RpNobody DEF Rp!At
  <2>3. QED
    BY <1>2, <1>a, <2>2, SpinMaps DEF Rp!TestRead, Rp!Goto
<1>3. CASE Rp!ReleaseWrite(p) \/ Rp!ReleaseRead(p) \/ Rp!Call(p)
  BY <1>3, <1>a, SpinMaps DEF Rp!ReleaseWrite, Rp!ReleaseRead, Rp!Call, Rp!RequestWrite,
     Rp!RequestRead, Rp!TimeoutWrite, Rp!TimeoutRead, Rp!Goto
<1>4. QED
  BY <1>1, <1>2, <1>3 DEF Rp!Step

LEMMA WpMaps ==
  ASSUME SpinInv, LOCK_PROTO = WPSPIN, LOCK_PROTO' = LOCK_PROTO,
         NEW p \in Procs, Wp!Step(p) \/ Wp!Call(p)
  PROVE  [Abstract!Next]_HoldsMap
<1>a. WpInv /\ LOCK_PROTO # TFQUEUE /\ DOMAIN pc = Procs
  BY DEF SpinInv, WPSPIN, TFQUEUE, WpInv, Wp!TypeOK
<1>b. /\ gl = Writing(pc) * 1 + WpReading(pc) * 2 /\ Writing(pc) \in Nat /\ WpReading(pc) \in Nat
      /\ Writing(pc) <= 1 /\ \A q \in Procs : readers[q] % 2 = 0
  BY <1>a, WpWords, WpNobody DEF WpInv
<1>1. CASE Wp!SwapWrite(p)
  <2>1. Writing(pc) = 0 /\ WpReading(pc) = 0
    BY <1>1, <1>b DEF Wp!SwapWrite
  <2>2. \A q \in Procs : pc[q] \notin {"whold", "rhold"}
    BY <1>a, <2>1, WpNobody DEF Wp!At
  <2>3. QED
    BY <1>1, <1>a, <2>2, SpinMaps DEF Wp!SwapWrite, Wp!Goto
<1>2. CASE Wp!SwapRead(p) /\ gl = readers[p]
  <2>1. Writing(pc) = 0
    <3>1. gl % 2 = 0
      BY <1>2, <1>b
    <3>2. /\ gl = Writing(pc) * 1 + WpReading(pc) * 2 /\ Writing(pc) <= 1
          /\ Writing(pc) \in Nat /\ WpReading(pc) \in Nat
      BY <1>b
    <3>3. QED
      BY <3>1, <3>2
  <2>2. \A q \in Procs : pc[q] # "whold"
    BY <1>a, <2>1, WpNobody DEF Wp!At
  <2>3. QED
    BY <1>2, <1>a, <2>2, SpinMaps DEF Wp!SwapRead, Wp!Goto
<1>3. CASE Wp!SwapRead(p) /\ gl # readers[p]
  BY <1>3, <1>a, SpinMaps DEF Wp!SwapRead, Wp!Goto
<1>4. CASE Wp!TestWriters(p)
  BY <1>4, <1>a, SpinMaps DEF Wp!TestWriters, Wp!Goto
<1>5. CASE \/ Wp!ClearFlag(p) \/ Wp!Leave(p) \/ Wp!SpinRead(p) \/ Wp!LoadReaders(p)
           \/ Wp!ReleaseRead(p) \/ Wp!Call(p)
  BY <1>5, <1>a, SpinMaps DEF Wp!ClearFlag, Wp!Leave, Wp!SpinRead, Wp!LoadReaders,
     Wp!ReleaseRead, Wp!Call, Wp!Announce, Wp!RequestRead, Wp!TimeoutWrite, Wp!TimeoutRead, Wp!Goto
<1>6. QED
  BY <1>1, <1>2, <1>3, <1>4, <1>5 DEF Wp!Step

-----------------------------------------------------------------------------
(* With either spinlock, and with the queued lock as long as no cell is    *)
(* freed and allocated again while a wake-up is on its way to it, which    *)
(* the code does not enforce, wg_start_read, wg_start_write, wg_end_read   *)
(* and wg_end_write are the operations of a shared/exclusive lock.         *)
THEOREM EveryProtocolImplements == Spec /\ WakesInTime => ImplementsRwLock
<1>1. Init => Abstract!Init
  BY DEF Init, Rp!Init, Tfq!Init, Abstract!Init, Abstract!Free, HoldsMap, SpinHolds, QueueHolds,
         Tfq!Holding
<1>2. ASSUME SpinInv, LOCK_PROTO = TFQUEUE => TfqP!RefinementInv,
             (LOCK_PROTO = TFQUEUE => TfqP!RefinementInv)', [Next]_vars
      PROVE  [Abstract!Next]_HoldsMap
  <2>1. CASE UNCHANGED vars
    BY <2>1 DEF vars, spinVars, queueVars, HoldsMap, SpinHolds, QueueHolds
  <2>2. CASE \E p \in Procs : RpStep(p) \/ RpCall(p)
    BY <1>2, <2>2, RpMaps DEF RpStep, RpCall, InRpSpin
  <2>3. CASE \E p \in Procs : WpStep(p) \/ WpCall(p)
    BY <1>2, <2>3, WpMaps DEF WpStep, WpCall, InWpSpin
  <2>4. CASE \E p \in Procs : TfqStep(p) \/ TfqCall(p)
    <3>1. LOCK_PROTO = TFQUEUE /\ LOCK_PROTO' = TFQUEUE /\ TfqP!Next
      BY <2>4, SameQueue DEF TfqStep, TfqCall, InQueue
    <3>2. [TfqP!Abstract!Next]_(TfqP!HoldsMap)
      BY <1>2, <3>1, TfqP!StepMaps, MaxNodesAssumption, FlagsAssumption
    <3>3. HoldsMap = TfqP!HoldsMap /\ HoldsMap' = TfqP!HoldsMap'
      BY <3>1 DEF HoldsMap, QueueHolds, TfqP!HoldsMap, Tfq!Holding, TfqP!Holding
    <3>4. QED
      BY <3>2, <3>3 DEF Abstract!Next, TfqP!Abstract!Next, Abstract!AcquireRead,
         TfqP!Abstract!AcquireRead, Abstract!AcquireWrite, TfqP!Abstract!AcquireWrite,
         Abstract!Release, TfqP!Abstract!Release, Abstract!Free, TfqP!Abstract!Free
  <2>5. QED
    BY <1>2, <2>1, <2>2, <2>3, <2>4 DEF Next, Step, Call
<1>3. QED
  BY SpinInvariant, QueueInvariant, <1>1, <1>2, PTL DEF Spec, ImplementsRwLock, Abstract!Spec
=============================================================================
