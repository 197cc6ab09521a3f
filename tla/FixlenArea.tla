----------------------------- MODULE FixlenArea -----------------------------
(***************************************************************************)
(* The areas of fixed-length objects in a WhiteDB segment (dballoc.c): list*)
(* cells, short strings, numbers, T-nodes and headers.  Each area has a    *)
(* free list through its cells, and takes subareas of its own from the end *)
(* of the segment, which all areas share.  Offsets and sizes count gints.  *)
(* A definition named X_slip is X with a plausible slip, used by no        *)
(* specification; it serves to test the properties.                        *)
(***************************************************************************)
EXTENDS Segment, SequencesExt

CONSTANTS AreaOrder,    \* the areas, in the order in which they are made
          ObjLength,    \* ObjLength[a]: the length of the objects of a
          InitialSize,  \* InitialSize[a]: the size of the first subarea of a
          HashArea      \* what the array of the string hash takes

ASSUME AreasAssumption ==
  /\ AreaOrder \in Seq(Range(AreaOrder))
  /\ \A i, j \in DOMAIN AreaOrder : AreaOrder[i] = AreaOrder[j] => i = j
\* A cell fits in the smallest subarea, however that is aligned.
ASSUME RoomAssumption ==
  /\ Align \in Nat \ {0} /\ MinimalSubarea \in Nat
  /\ HeaderSize \in Nat \ {0} /\ HashArea \in Nat /\ SubareaArray \in Nat /\ SegmentSize \in Nat
  /\ \A a \in Range(AreaOrder) :
       /\ ObjLength[a] \in Nat \ {0} /\ InitialSize[a] \in Nat
       /\ MinimalSubarea >= ObjLength[a] + Align + MinObj
       /\ InitialSize[a] >= ObjLength[a] + Align + MinObj

Areas == Range(AreaOrder)

VARIABLES segfree,   \* the end of what is taken from the segment
          subs,      \* subs[a]: the subareas of a: records [offset, size]
          freelist,  \* freelist[a]: the first free cell of a, or 0
          link,      \* the first word of the free cells: the next one, or 0
          inuse      \* inuse[a]: the cells of a that were given out

fixlenVars == <<segfree, subs, freelist, link, inuse>>

\* The header of the segment and its free words, as a value.
Seg(free, areas, heads, words) ==
  [segfree |-> free, subs |-> areas, freelist |-> heads, link |-> words]
Now == Seg(segfree, subs, freelist, link)

\* init_db_subarea
TakeSubarea(g, a, size) ==
  Seg(NextFree(g, size),
      [g.subs EXCEPT ![a] = Append(@, [offset |-> g.segfree, size |-> size])],
      [g.freelist EXCEPT ![a] = 0],
      g.link)

\* Words written over what the memory held.
Stored(words, old) ==
  [c \in DOMAIN words \cup DOMAIN old |-> IF c \in DOMAIN words THEN words[c] ELSE old[c]]

\* make_subarea_freelist: the cells that fit, each linked to the next.
LastCell_slip(offset, size, len) == offset + len * (size \div len)
LastCell(offset, size, len) == offset + len * (size \div len - 1)
MakeSubareaFreelist(g, a) ==
  LET sub == Last(g.subs[a])
      first == RoundUp(sub.offset, Align)
      len == ObjLength[a]
      last == LastCell(first, AlignedSize(sub.offset, sub.size), len)
      cells == {first + len * k : k \in 0 .. (last - first) \div len}
  IN Seg(g.segfree, g.subs, [g.freelist EXCEPT ![a] = first],
         Stored([c \in cells |-> IF c = last THEN 0 ELSE c + len], g.link))

\* extend_fixedlen_area: twice the size of the last subarea, halved until the
\* segment has that much; as it was if it never has, or the array is full.
FixlenFitting(g, a) ==
  {s \in MinimalSubarea .. SegmentSize :
     SegmentHas(g, s) /\ \E k \in 0 .. 10 : s = (2 * Last(g.subs[a]).size) \div 2^k}
WithSubarea(g, a, size) == MakeSubareaFreelist(TakeSubarea(g, a, size), a)
ExtendFixedlenArea(g, a) ==
  IF Len(g.subs[a]) < SubareaArray /\ FixlenFitting(g, a) # {}
  THEN WithSubarea(g, a, Max(FixlenFitting(g, a)))
  ELSE g

-----------------------------------------------------------------------------
\* wg_init_db_memsegment gives every area its first subarea, and then the
\* string hash its array, which is of any length.
NoArea == Seg(RoundUp(HeaderSize, Align), [a \in Areas |-> <<>>], [a \in Areas |-> 0], <<>>)
FirstSubareas ==   \* after each number of areas
  LET made[n \in 0 .. Len(AreaOrder)] ==
        IF n = 0 THEN NoArea
        ELSE WithSubarea(made[n - 1], AreaOrder[n], InitialSize[AreaOrder[n]])
  IN made
StrhashArea(g) == Seg(NextFree(g, HashArea), g.subs, g.freelist, g.link)

FixlenInit ==
  /\ LET g == StrhashArea(FirstSubareas[Len(AreaOrder)])
     IN segfree = g.segfree /\ subs = g.subs /\ freelist = g.freelist /\ link = g.link
  /\ inuse = [a \in Areas |-> {}]

\* wg_alloc_fixlen_object: the first free cell, after an extension if there
\* is none; nothing if the area cannot be extended.
AllocFixlen(a) ==
  LET g == IF freelist[a] = 0 THEN ExtendFixedlenArea(Now, a) ELSE Now
      cell == g.freelist[a]
  IN /\ cell # 0
     /\ segfree' = g.segfree /\ subs' = g.subs
     /\ freelist' = [g.freelist EXCEPT ![a] = g.link[cell]]
     /\ link' = Restrict(g.link, DOMAIN g.link \ {cell})
     /\ inuse' = [inuse EXCEPT ![a] = @ \cup {cell}]

\* The list is changed before the link is stored.
FreeFixlen_slip(a, cell) ==
  /\ cell \in inuse[a]
  /\ freelist' = [freelist EXCEPT ![a] = cell]
  /\ link' = Stored([c \in {cell} |-> cell], link)
  /\ inuse' = [inuse EXCEPT ![a] = @ \ {cell}]
  /\ UNCHANGED <<segfree, subs>>

\* wg_free_listcell, wg_free_shortstr, wg_free_word, wg_free_doubleword,
\* wg_free_tnode, wg_free_fixlen_object
FreeFixlen(a, cell) ==
  /\ cell \in inuse[a]
  /\ link' = Stored([c \in {cell} |-> freelist[a]], link)
  /\ freelist' = [freelist EXCEPT ![a] = cell]
  /\ inuse' = [inuse EXCEPT ![a] = @ \ {cell}]
  /\ UNCHANGED <<segfree, subs>>

\* Another part of the database takes a chunk: an area of variable-length
\* objects a subarea, a new hash index its array.
OthersGrow ==
  /\ \E size \in {MinimalSubarea, HashArea} :
       SegmentHas(Now, size) /\ segfree' = NextFree(Now, size)
  /\ UNCHANGED <<subs, freelist, link, inuse>>

FixlenNext ==
  \/ \E a \in Areas : AllocFixlen(a) \/ \E cell \in inuse[a] : FreeFixlen(a, cell)
  \/ OthersGrow

FixlenSpec == FixlenInit /\ [][FixlenNext]_fixlenVars

-----------------------------------------------------------------------------
(* Properties *)

\* The cells on the free list of an area, one after the other, and 0 behind.
After(cell) == IF cell \in DOMAIN link THEN link[cell] ELSE 0
CellAt(a) ==
  LET cell[n \in 0 .. Cardinality(DOMAIN link)] ==
        IF n = 0 THEN freelist[a] ELSE After(cell[n - 1])
  IN cell
FreeCells(a) == Range(CellAt(a)) \ {0}

\* As many cells as a subarea has room for.
Room(a, s) == AlignedSize(s.offset, s.size) \div ObjLength[a]

\* No cell is lost and none is given out twice, over any number of extensions:
\* the free lists end, and that of an area and its cells in use make up its
\* subareas.
FixlenCellsExact ==
  /\ \A a \in Areas : CellAt(a)[Cardinality(DOMAIN link)] = 0
  /\ DOMAIN link = UNION {FreeCells(a) : a \in Areas}
  /\ \A a \in Areas :
       /\ FreeCells(a) \cap inuse[a] = {}
       /\ \A s \in Range(subs[a]) :
            Cardinality({c \in FreeCells(a) \cup inuse[a] : c \in s.offset .. s.offset + s.size - 1})
              = Room(a, s)

\* The areas of one segment are a heap of objects: those of one area do not
\* overlap those of another, nor move when an area grows.
InUse == [c \in UNION {inuse[a] : a \in Areas} |-> ObjLength[CHOOSE a \in Areas : c \in inuse[a]]]
CellHeap == INSTANCE ObjectHeap WITH objs <- InUse, Lengths <- {ObjLength[a] : a \in Areas}
FixlenImplementsObjectHeap == CellHeap!Spec
=============================================================================
