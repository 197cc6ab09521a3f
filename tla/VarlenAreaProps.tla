--------------------------- MODULE VarlenAreaProps ---------------------------
(***************************************************************************)
(* What makes the variable-length allocator of WhiteDB (dballoc.c) correct.*)
(***************************************************************************)
EXTENDS VarlenArea, FiniteSets

Heads == DOMAIN h.head
FreeBlocks == {a \in Heads : h.head[a].mark = "free"}
Idle(a) == a \in FreeBlocks \/ a = h.dv
Behind(a) == a + RealSize(h.head[a])
Within(s) == {a \in Heads : s.offset <= a /\ a < s.offset + s.size}

\* "marking beginning and end of free area": the blocks tile every subarea
\* from its start marker to its end marker, without a gap or an overlap.
Tiling ==
  \A s \in Range(h.subs) :
    LET first == RoundUp(s.offset, Align)
        last == first + AlignedSize(s.offset, s.size) - MinObj
    IN /\ {first, last} \subseteq Within(s)
       /\ {Behind(a) : a \in Within(s) \ {last}} = Within(s) \ {first}

\* "no consecutive free elems": free blocks and the victim are merged with
\* every idle neighbour, whichever of the two was freed first.
Coalesced == \A a \in Heads : Idle(a) => ~Idle(Behind(a))

\* An object is marked as following a free block exactly if it does, and
\* the footer it would then merge by is the size of that block.
BoundaryTags ==
  /\ \A o \in Objects :
       h.head[o].mark = "prevfree" <=> \E a \in FreeBlocks : Behind(a) = o
  /\ h.foot = [e \in {Behind(a) : a \in FreeBlocks} |->
                 h.head[CHOOSE a \in FreeBlocks : Behind(a) = e].size]

\* The blocks on a free list, one after the other, and 0 behind.
Follower(a) == IF a \in DOMAIN h.nxt THEN h.nxt[a] ELSE 0
BlockAt(i) ==
  LET block[n \in 0 .. Cardinality(FreeBlocks)] ==
        IF n = 0 THEN h.bucket[i] ELSE Follower(block[n - 1])
  IN block
Bucketed(i) == Range(BlockAt(i)) \ {0}

\* Every free block is on the list of its size, and the back links lead the
\* way the forward links came, so that any block can be unlinked.
FreeListsExact ==
  /\ \A i \in Buckets :
       /\ BlockAt(i)[Cardinality(FreeBlocks)] = 0
       /\ Bucketed(i) = {a \in FreeBlocks : BucketIndex(h.head[a].size) = i}
  /\ \A a \in FreeBlocks :
       IF h.prv[a] > 0 THEN h.prv[a] \in FreeBlocks /\ h.nxt[h.prv[a]] = a
       ELSE h.bucket[BucketIndex(h.head[a].size)] = a
         /\ h.prv[a] = BucketAddr(BucketIndex(h.head[a].size))

\* What every allocation and every release relies on: the blocks of every
\* subarea, their tags, and the lists that lead to the free ones, agree.
BlocksExact == Tiling /\ Coalesced /\ BoundaryTags /\ FreeListsExact

\* The area is an object heap: objects do not overlap, and keep their place
\* and their size, whichever objects come and go around them.
Abstract ==
  INSTANCE ObjectHeap WITH objs <- [a \in Objects |-> UsedSize(h.head[a].size)],
                           Lengths <- {UsedSize(n) : n \in Lengths}
ImplementsObjectHeap == Abstract!Spec

\* "store wanted size to the returned object": the length an object was asked
\* for, which wg_get_record_len reads back, stays as long as the object.
LengthKept ==
  [][ \A a \in Objects \cap Objects' : h'.head[a].size = h.head[a].size ]_h
=============================================================================
