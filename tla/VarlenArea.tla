----------------------------- MODULE VarlenArea -----------------------------
(***************************************************************************)
(* The allocator of records and long strings in WhiteDB (dballoc.c): a     *)
(* Doug Lea heap of boundary-tagged blocks, doubly linked free lists in    *)
(* exact and exponential buckets, and a designated victim, inside subareas *)
(* that are taken from the memory segment as they are needed.              *)
(* Addresses and sizes count gints.  Only what is in use of a block is     *)
(* kept: the head of every block, the footer and the links of free ones.   *)
(* A definition named X_slip is X with a plausible slip, used by no        *)
(* specification; it serves to test the properties.                        *)
(***************************************************************************)
EXTENDS Segment, Sequences, Functions, FiniteSetsExt

CONSTANTS ExactNr,         \* EXACTBUCKETS_NR, in gints
          VarNr,           \* VARBUCKETS_NR
          InitialSubarea,  \* INITIAL_SUBAREA_SIZE
          Lengths          \* the lengths that are asked for

ASSUME AlignAssumption == Align \in {1, 2}
\* A subarea has room for its two markers and an object, however it is aligned,
\* and the segment for the first subarea.
ASSUME SizesAssumption ==
  /\ {InitialSubarea, MinimalSubarea, ExactNr, VarNr, SubareaArray, SegmentSize} \subseteq Nat
  /\ HeaderSize \in Nat \ {0} /\ Lengths \subseteq Nat
  /\ MinimalSubarea >= 3 * MinObj + Align /\ InitialSubarea >= MinimalSubarea
  /\ HeaderSize + InitialSubarea + 2 * Align < SegmentSize

VARIABLE h   \* the area: heads, footers, links, buckets, victim, subareas

\* The address of a free list's bucket, told apart from those of objects.
BucketAddr(i) == -1 - i
Buckets == 0 .. ExactNr + VarNr - 1

\* The space a used object takes (getusedobjectsize, usedbytes).
UsedSize(n) == IF n <= MinObj THEN MinObj ELSE n + (n % Align)
IsUsed(b) == b.mark \in {"used", "prevfree"}
RealSize(b) == IF IsUsed(b) THEN UsedSize(b.size) ELSE b.size

\* wg_freebuckets_index
VarBuckets(size) == {i \in 0 .. VarNr - 1 : size < ExactNr * 2^(i + 1)}
BucketIndex(size) ==
  IF size < ExactNr THEN size ELSE ExactNr + Min(VarBuckets(size))

\* There are enough buckets for every block that the segment has room for, and
\* for every object that is asked for.
ASSUME BucketsAssumption ==
  \A size \in 0 .. SegmentSize \cup {UsedSize(n) : n \in Lengths} : VarBuckets(size) # {}

-----------------------------------------------------------------------------
(* Stores into the heap *)

Put(f, a, v) == [x \in DOMAIN f \cup {a} |-> IF x = a THEN v ELSE f[x]]
Without(f, a) == Restrict(f, DOMAIN f \ {a})
PutHead(g, a, size, mark) ==
  [g EXCEPT !.head = Put(@, a, [size |-> size, mark |-> mark])]
DropHead(g, a) == [g EXCEPT !.head = Without(@, a)]

\* Marks the object at a, if it is a used one and not a special.
MarkNext(g, a, mark) ==
  IF IsUsed(g.head[a]) THEN [g EXCEPT !.head[a].mark = mark] ELSE g

SetVictim(g, a, size) ==
  [PutHead(g, a, size, "special") EXCEPT !.dv = a, !.dvsize = size]

\* The list may be empty: then this stores at address 0.
PushFree_slip(g, a, size) ==
  LET i == BucketIndex(size)
      first == g.bucket[i]
  IN [PutHead(g, a, size, "free") EXCEPT
        !.foot = Put(@, a + size, size),
        !.nxt = Put(@, a, first),
        !.prv = Put(Put(@, first, a), a, BucketAddr(i)),
        !.bucket[i] = a]

\* Puts a free block in front of the list of its size.
PushFree(g, a, size) ==
  LET i == BucketIndex(size)
      first == g.bucket[i]
      back == IF first = 0 THEN g.prv ELSE [g.prv EXCEPT ![first] = a]
  IN [PutHead(g, a, size, "free") EXCEPT
        !.foot = Put(@, a + size, size),
        !.nxt = Put(@, a, first),
        !.prv = Put(back, a, BucketAddr(i)),
        !.bucket[i] = a]

\* The successor keeps the link to the block that was taken out.
Unlink_slip(g, a) ==
  LET i == BucketIndex(g.head[a].size)
      g1 == IF g.bucket[i] = a THEN [g EXCEPT !.bucket[i] = g.nxt[a]]
            ELSE [g EXCEPT !.nxt[g.prv[a]] = g.nxt[a]]
  IN [DropHead(g1, a) EXCEPT
        !.foot = Without(@, a + g.head[a].size),
        !.nxt = Without(@, a), !.prv = Without(@, a)]

\* Takes a free block out of its list, first or not.
Unlink(g, a) ==
  LET i == BucketIndex(g.head[a].size)
      next == g.nxt[a]
      prev == g.prv[a]
      back == IF next = 0 THEN g.prv ELSE [g.prv EXCEPT ![next] = prev]
      g1 == IF g.bucket[i] = a THEN [g EXCEPT !.bucket[i] = next]
            ELSE [g EXCEPT !.nxt[prev] = next]
  IN [DropHead(g1, a) EXCEPT
        !.foot = Without(@, a + g.head[a].size),
        !.nxt = Without(@, a),
        !.prv = Without(back, a)]

-----------------------------------------------------------------------------
(* Subareas *)

\* The object behind the old victim is not told that it follows a free one.
RetireVictim_slip(g) ==
  IF g.dv # 0 /\ g.dvsize >= MinObj THEN PushFree(g, g.dv, g.dvsize) ELSE g

\* init_subarea_freespace: the old victim becomes a free block, the new
\* subarea a victim between two markers.  The mark of the object behind the
\* old victim is written with the space it takes, not with its length.
RetireVictim(g) ==
  LET next == g.dv + g.dvsize
      b == g.head[next]
      g1 == IF IsUsed(b) THEN PutHead(g, next, UsedSize(b.size), "prevfree")
            ELSE g
  IN IF g.dv # 0 /\ g.dvsize >= MinObj THEN PushFree(g1, g.dv, g.dvsize) ELSE g

InitSubareaFreespace(g, offset, size) ==
  LET g1 == PutHead(RetireVictim(g), offset, MinObj, "special")
      g2 == PutHead(g1, offset + size - MinObj, MinObj, "special")
  IN SetVictim(g2, offset + MinObj, size - 2 * MinObj)

\* init_db_subarea, with what alloc_db_segmentchunk takes
InitDbSubarea(g, size) ==
  InitSubareaFreespace(
    [g EXCEPT !.subs = Append(@, [offset |-> g.segfree, size |-> size]),
              !.segfree = NextFree(g, size)],
    RoundUp(g.segfree, Align), AlignedSize(g.segfree, size))

\* extend_varlen_area: doubles the size of the last subarea until it is
\* enough, then halves it until the segment has that much; it fails if it
\* never has, or if the array of subareas is full.
LastSize(g) == g.subs[Len(g.subs)].size
MinSize(used) == Max({used + Align + 2 * MinObj, MinimalSubarea})
Doubled(g, used) == LastSize(g) * 2^(CHOOSE k \in 1 .. 100 :
  /\ LastSize(g) * 2^k >= MinSize(used)
  /\ k = 1 \/ LastSize(g) * 2^(k - 1) < MinSize(used))
Fitting(g, used) ==
  LET doubled == Doubled(g, used)
  IN {s \in MinSize(used) .. SegmentSize :
        SegmentHas(g, s) /\ \E k \in 0 .. 30 : s = doubled \div 2^k}
Extensible(g, used) == Len(g.subs) < SubareaArray /\ Fitting(g, used) # {}
ExtendVarlenArea(g, used) == InitDbSubarea(g, Max(Fitting(g, used)))

-----------------------------------------------------------------------------
(* wg_alloc_gints *)

\* split_free: the head of the first block of a list is used, the remainder
\* goes to the list of its own size.
SplitFree(g, a, used) ==
  LET size == g.head[a].size
  IN PushFree(Unlink(g, a), a + used, size - used)

TakeExact(g, a, size) == MarkNext(Unlink(g, a), a + size, "used")

\* A victim of exactly the right size disappears.
UseUpVictim_slip(g) == g
UseUpVictim(g) == [g EXCEPT !.dv = 0, !.dvsize = 0]

FirstSize(g, i) == g.head[g.bucket[i]].size

\* A list whose first block is too short is passed over.
Larger(g, used, range) ==
  {i \in range : g.bucket[i] # 0 /\ FirstSize(g, i) >= used + MinObj}
Exactly(g, used, range) ==
  {i \in range : g.bucket[i] # 0 /\ FirstSize(g, i) = used}

\* The first block of list i, used up or split: where it is, and what is left of
\* the heap.
TakeFirst(g, i, used) ==
  LET a == g.bucket[i]
  IN [at |-> a, rest |-> IF FirstSize(g, i) = used THEN TakeExact(g, a, used)
                         ELSE SplitFree(g, a, used)]

\* The first space for an object of n gints.
PlaceIn(g, n) ==
  LET used == UsedSize(n)
      exact == Larger(g, used, used + 1 .. ExactNr - 1)
      var == BucketIndex(used) .. ExactNr + VarNr - 1
      fits == Larger(g, used, var) \cup Exactly(g, used, var)
  IN IF used < ExactNr /\ g.bucket[used] # 0 THEN TakeFirst(g, used, used)
     ELSE IF g.dv # 0 /\ used = g.dvsize
     THEN [at |-> g.dv, rest |-> UseUpVictim(g)]
     ELSE IF g.dv # 0 /\ used + MinObj <= g.dvsize
     THEN [at |-> g.dv, rest |-> SetVictim(g, g.dv + used, g.dvsize - used)]
     ELSE IF exact # {} THEN TakeFirst(g, Min(exact), used)
     ELSE IF fits # {} THEN TakeFirst(g, Min(fits), used)
     ELSE [at |-> 0, rest |-> g]

\* Extends the area and tries again for as long as there is no space: what is
\* tried k extensions later, of which there are no more than subareas.
Tried(g, n) ==
  LET heap[k \in 0 .. SubareaArray] ==
        IF k = 0 THEN g
        ELSE LET e == heap[k - 1] IN
             IF PlaceIn(e, n).at = 0 /\ Extensible(e, UsedSize(n))
             THEN ExtendVarlenArea(e, UsedSize(n)) ELSE e
  IN heap[SubareaArray]
AllocGints(g, n) ==
  LET last == Tried(g, n)
      p == PlaceIn(last, n)
  IN IF p.at = 0 THEN last ELSE PutHead(p.rest, p.at, n, "used")

-----------------------------------------------------------------------------
(* wg_free_object *)

\* A block larger than the victim takes its place and the victim is listed.
Settle(g, a, size) ==
  LET g1 == MarkNext(SetVictim(g, a, size), a + size, "used")
  IN IF size <= g.dvsize THEN PushFree(g, a, size)
     ELSE IF g.dv = 0 THEN g1
     ELSE PushFree(MarkNext(g1, g.dv + g.dvsize, "prevfree"), g.dv, g.dvsize)

\* A free block behind the freed one is not merged.
MergeNext_slip(g, a, size) ==
  IF a + size = g.dv
  THEN SetVictim(DropHead(g, a + size), a, size + g.dvsize)
  ELSE Settle(MarkNext(g, a + size, "prevfree"), a, size)

\* Merges with the block behind it: free, the victim, or neither.
MergeNext(g, a, size) ==
  LET next == a + size
      b == g.head[next]
  IN IF b.mark = "free" THEN Settle(Unlink(g, next), a, size + b.size)
     ELSE IF next = g.dv
     THEN SetVictim(DropHead(g, next), a, size + g.dvsize)
     ELSE Settle(MarkNext(g, next, "prevfree"), a, size)

\* The free block behind is taken off its list but not fed to the victim.
GrowVictim_slip(g, size) ==
  LET next == g.dv + size
  IN IF g.head[next].mark = "free" THEN SetVictim(Unlink(g, next), g.dv, size)
     ELSE SetVictim(g, g.dv, size)

\* Grows the victim over the object behind it and the free block behind that.
GrowVictim(g, size) ==
  LET next == g.dv + size
      b == g.head[next]
  IN IF b.mark = "free"
     THEN MarkNext(SetVictim(Unlink(g, next), g.dv, size + b.size),
                   next + b.size, "used")
     ELSE SetVictim(g, g.dv, size)

FreeObject(g, o) ==
  LET size == UsedSize(g.head[o].size)
      g1 == DropHead(g, o)
      before == g.foot[o]
  IN IF g.head[o].mark = "prevfree"
     THEN MergeNext(Unlink(g1, o - before), o - before, size + before)
     ELSE IF g.dv + g.dvsize = o THEN GrowVictim(g1, g.dvsize + size)
     ELSE MergeNext(g1, o, size)

-----------------------------------------------------------------------------
EmptyHeap ==
  [head |-> <<>>, foot |-> <<>>, nxt |-> <<>>, prv |-> <<>>,
   bucket |-> [i \in Buckets |-> 0], dv |-> 0, dvsize |-> 0,
   subs |-> <<>>, segfree |-> RoundUp(HeaderSize, Align)]

Init == h = InitDbSubarea(EmptyHeap, InitialSubarea)

\* The objects in use and the length each was asked for.
Objects == {a \in DOMAIN h.head : IsUsed(h.head[a])}

Alloc(n) == h' = AllocGints(h, n)
Free(o) == o \in Objects /\ h' = FreeObject(h, o)

\* Another area of the segment takes a subarea.
OtherAreaGrows ==
  /\ SegmentHas(h, MinimalSubarea)
  /\ h' = [h EXCEPT !.segfree = NextFree(h, MinimalSubarea)]

Next ==
  \/ \E n \in Lengths : Alloc(n)
  \/ \E o \in Objects : Free(o)
  \/ OtherAreaGrows

Spec == Init /\ [][Next]_h
=============================================================================
