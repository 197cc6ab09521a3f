----------------------------- MODULE ObjectHeap -----------------------------
(***************************************************************************)
(* What wg_alloc_gints and wg_free_object (dballoc.c) promise: a set of    *)
(* objects that do not overlap, each as long as it was asked for, and none *)
(* of which is touched when another one comes or goes.                     *)
(***************************************************************************)
EXTENDS Integers, Functions

CONSTANT Lengths

VARIABLE objs   \* from the address of each object to its length

Extent(a, n) == a .. a + n - 1

Init == objs = <<>>

Allocate(n, a) ==
  /\ \A b \in DOMAIN objs : Extent(a, n) \cap Extent(b, objs[b]) = {}
  /\ a \notin DOMAIN objs
  /\ objs' = [b \in DOMAIN objs \cup {a} |-> IF b = a THEN n ELSE objs[b]]

Release(a) ==
  /\ a \in DOMAIN objs
  /\ objs' = Restrict(objs, DOMAIN objs \ {a})

Next ==
  \/ \E a \in DOMAIN objs' \ DOMAIN objs : Allocate(objs'[a], a) /\ objs'[a] \in Lengths
  \/ \E a \in DOMAIN objs : Release(a)

Spec == Init /\ [][Next]_objs
=============================================================================
