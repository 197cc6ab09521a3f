------------------------- MODULE FixlenArea_proofs -------------------------
(***************************************************************************)
(* Proofs about the areas of fixed-length objects (dballoc.c), for any     *)
(* number of areas, lengths of objects, sizes of subareas and alignment.   *)
(*                                                                         *)
(* The invariant names the free lists: L[a] is the list of area a as a     *)
(* sequence of cells.  What it says of a state is a relation between the   *)
(* record g of the segment (what Now collects), the cells given out and L; *)
(* so a step is a lemma about such records, with no variable in it.        *)
(***************************************************************************)
EXTENDS FixlenArea, FiniteSetTheorems, WellFoundedInduction, TLAPS

Sub == [offset : Nat \ {0}, size : Nat]
State == [segfree : Nat \ {0}, subs : [Areas -> Seq(Sub)],
          freelist : [Areas -> Nat], link : UNION {[S -> Nat] : S \in SUBSET Nat}]

\* The cells of a subarea of a that starts at an aligned offset.
Cells(a, s) == {s.offset + ObjLength[a] * k : k \in 0 .. Room(a, s) - 1}
CellsOf(g, a) == UNION {Cells(a, s) : s \in Range(g.subs[a])}

\* One of the two ends before the other begins.
Apart(x, m, y, n) == x + m <= y \/ y + n <= x

\* The subareas of all areas: aligned, with room for a cell, and apart.
Layout(g) ==
  /\ g.segfree % Align = 0
  /\ \A a \in Areas : \A s \in Range(g.subs[a]) :
       /\ s.offset % Align = 0 /\ s.offset + s.size <= g.segfree
       /\ s.size >= ObjLength[a] + Align + MinObj
  /\ \A a, b \in Areas : \A s \in Range(g.subs[a]), t \in Range(g.subs[b]) :
       (a = b /\ s = t) \/ Apart(s.offset, s.size, t.offset, t.size)

\* The free list of each area is L[a], and nothing else is linked.
ListIs(g, a, l) ==
  /\ l \in Seq(Nat \ {0})
  /\ g.freelist[a] = IF l = <<>> THEN 0 ELSE l[1]
  /\ \A i \in 1 .. Len(l) : g.link[l[i]] = IF i = Len(l) THEN 0 ELSE l[i + 1]
  /\ \A i, j \in 1 .. Len(l) : l[i] = l[j] => i = j
Chained(g, L) ==
  /\ \A a \in Areas : ListIs(g, a, L[a])
  /\ DOMAIN g.link = UNION {Range(L[a]) : a \in Areas}

\* The cells of the subareas are on the list or given out, and not both.
Owned(g, used, L) ==
  \A a \in Areas : Range(L[a]) \cap used[a] = {} /\ Range(L[a]) \cup used[a] = CellsOf(g, a)

Good(g, used, L) ==
  g \in State /\ Layout(g) /\ Chained(g, L) /\ Owned(g, used, L)

FixlenInv ==
  /\ inuse \in [Areas -> SUBSET Nat]
  /\ \E L \in [Areas -> Seq(Nat \ {0})] : Good(Now, inuse, L)

-----------------------------------------------------------------------------
(* Arithmetic                                                              *)

LEMMA Multiples ==
  ASSUME NEW m \in Nat \ {0}, NEW i \in Nat, NEW j \in Nat
  PROVE  m * i \in Nat /\ (i < j => m * i + m <= m * j) /\ (m * i) \div m = i
         /\ m * (i + 1) = m * i + m
OBVIOUS

LEMMA Quotient ==
  ASSUME NEW m \in Nat \ {0}, NEW n \in Nat
  PROVE  /\ n \div m \in Nat /\ m * (n \div m) <= n
         /\ n >= m => n \div m > 0
OBVIOUS

LEMMA Rounded ==
  ASSUME Align \in Nat \ {0}, NEW n \in Nat
  PROVE  /\ RoundUp(n, Align) \in Nat /\ RoundUp(n, Align) >= n
         /\ RoundUp(n, Align) % Align = 0
         /\ n % Align = 0 => RoundUp(n, Align) = n
BY DEF RoundUp

LEMMA LeastOf ==
  ASSUME NEW T, T \subseteq Nat, T # {}
  PROVE  \E i \in T : \A j \in T : i <= j
<1>1. OpToRel(<, Nat) = {ss \in Nat \X Nat : ss[1] < ss[2]}
  BY DEF OpToRel
<1>2. PICK i \in T : \A j \in T : <<j, i>> \notin {ss \in Nat \X Nat : ss[1] < ss[2]}
  BY <1>1, NatLessThanWellFounded, WFMin
<1>3. ASSUME NEW j \in T PROVE i <= j
  <2>1. i \in Nat /\ j \in Nat /\ ~ (j < i)
    BY <1>2
  <2>2. QED
    BY <2>1
<1>4. QED
  BY <1>3

\* Of a set of numbers that are bounded, Max is one.
LEMMA MaxIsOne ==
  ASSUME NEW lo \in Int, NEW hi \in Int, NEW T \in SUBSET (lo .. hi), T # {}
  PROVE  Max(T) \in T
<1> DEFINE D == {d \in Nat : hi - d \in T}
<1>1. \A x \in T : hi - x \in D
  <2>1. \A x \in T : hi - x \in Nat /\ hi - (hi - x) = x
    OBVIOUS
  <2>2. QED
    BY <2>1
<1>2. PICK d \in D : \A e \in D : d <= e
  <2>1. D \subseteq Nat /\ D # {}
    BY <1>1
  <2>2. QED
    BY <2>1, LeastOf
<1>3. hi - d \in T /\ d \in Nat
  OBVIOUS
<1>4. ASSUME NEW y \in T PROVE hi - d >= y
  <2>1. d <= hi - y /\ y \in Int
    <3>1. hi - y \in D
      BY <1>1
    <3> HIDE DEF D
    <3>2. QED
      BY <1>2, <3>1
  <2>2. QED
    BY <1>3, <2>1
<1>5. \E x \in T : \A y \in T : x >= y
  BY <1>3, <1>4
<1>6. QED
  BY <1>5 DEF Max

-----------------------------------------------------------------------------
(* The cells of a subarea                                                  *)

LEMMA RoomOf ==
  ASSUME NEW a \in Areas, NEW s \in Sub,
         s.offset % Align = 0, s.size >= ObjLength[a] + Align + MinObj
  PROVE  /\ ObjLength[a] \in Nat \ {0} /\ Room(a, s) \in Nat \ {0}
         /\ ObjLength[a] * Room(a, s) <= s.size
<1>1. ObjLength[a] \in Nat \ {0} /\ Align \in Nat \ {0} /\ s.offset \in Nat \ {0} /\ s.size \in Nat
  BY RoomAssumption DEF Areas, Sub
<1>2. RoundUp(s.offset, Align) = s.offset
  BY <1>1, Rounded
<1> DEFINE n == s.size - (s.size % MinObj)
<1>3. AlignedSize(s.offset, s.size) = n
  BY <1>1, <1>2 DEF AlignedSize
<1>4. n \in Nat /\ n <= s.size /\ n >= ObjLength[a]
  BY <1>1 DEF MinObj
<1> HIDE DEF n
<1>5. Room(a, s) = n \div ObjLength[a]
  BY <1>3 DEF Room
<1>6. n \div ObjLength[a] \in Nat /\ ObjLength[a] * (n \div ObjLength[a]) <= n
      /\ n \div ObjLength[a] > 0
  BY <1>1, <1>4, Quotient
<1>7. ObjLength[a] * (n \div ObjLength[a]) \in Nat
  BY <1>1, <1>6, Multiples
<1>8. QED
  BY <1>1, <1>4, <1>5, <1>6, <1>7

\* A cell lies in its subarea.
LEMMA CellsInside ==
  ASSUME NEW a \in Areas, NEW s \in Sub, NEW c \in Cells(a, s),
         s.offset % Align = 0, s.size >= ObjLength[a] + Align + MinObj
  PROVE  c \in Nat \ {0} /\ s.offset <= c /\ c + ObjLength[a] <= s.offset + s.size
<1>1. ObjLength[a] \in Nat \ {0} /\ Room(a, s) \in Nat \ {0}
      /\ ObjLength[a] * Room(a, s) <= s.size /\ s.offset \in Nat \ {0} /\ s.size \in Nat
  BY RoomOf DEF Sub
<1>2. PICK k \in 0 .. Room(a, s) - 1 : c = s.offset + ObjLength[a] * k
  BY DEF Cells
<1>3. k \in Nat /\ k < Room(a, s)
  BY <1>1
<1>4. ObjLength[a] * k \in Nat /\ ObjLength[a] * k + ObjLength[a] <= ObjLength[a] * Room(a, s)
      /\ ObjLength[a] * Room(a, s) \in Nat
  BY <1>1, <1>3, Multiples
<1>5. QED
  BY <1>1, <1>2, <1>4

\* Two cells of one subarea.
LEMMA CellsOfOne ==
  ASSUME NEW a \in Areas, NEW s \in Sub, NEW c \in Cells(a, s), NEW d \in Cells(a, s),
         s.offset % Align = 0, s.size >= ObjLength[a] + Align + MinObj
  PROVE  c = d \/ Apart(c, ObjLength[a], d, ObjLength[a])
<1>1. ObjLength[a] \in Nat \ {0} /\ Room(a, s) \in Nat /\ s.offset \in Nat
  BY RoomOf DEF Sub
<1>2. PICK k \in 0 .. Room(a, s) - 1 : c = s.offset + ObjLength[a] * k
  BY DEF Cells
<1>3. PICK j \in 0 .. Room(a, s) - 1 : d = s.offset + ObjLength[a] * j
  BY DEF Cells
<1>4. k \in Nat /\ j \in Nat /\ (k = j \/ k < j \/ j < k)
  BY <1>1
<1>5. ObjLength[a] * k \in Nat /\ ObjLength[a] * j \in Nat
      /\ (k < j => ObjLength[a] * k + ObjLength[a] <= ObjLength[a] * j)
      /\ (j < k => ObjLength[a] * j + ObjLength[a] <= ObjLength[a] * k)
  BY <1>1, <1>4, Multiples
<1>6. QED
  BY <1>1, <1>2, <1>3, <1>4, <1>5 DEF Apart

\* Two cells of any subareas.
LEMMA CellsApart ==
  ASSUME NEW g \in State, Layout(g), NEW a \in Areas, NEW b \in Areas,
         NEW s \in Range(g.subs[a]), NEW t \in Range(g.subs[b]),
         NEW c \in Cells(a, s), NEW d \in Cells(b, t)
  PROVE  (a = b /\ s = t /\ c = d) \/ (c # d /\ Apart(c, ObjLength[a], d, ObjLength[b]))
<1>1. s \in Sub /\ t \in Sub
  BY DEF State, Range
<1>2. /\ s.offset % Align = 0 /\ s.size >= ObjLength[a] + Align + MinObj
      /\ t.offset % Align = 0 /\ t.size >= ObjLength[b] + Align + MinObj
  BY DEF Layout
<1>3. /\ c \in Nat /\ s.offset <= c /\ c + ObjLength[a] <= s.offset + s.size
      /\ d \in Nat /\ t.offset <= d /\ d + ObjLength[b] <= t.offset + t.size
  BY <1>1, <1>2, CellsInside
<1>4. ObjLength[a] \in Nat \ {0} /\ ObjLength[b] \in Nat \ {0}
  BY RoomAssumption DEF Areas
<1>5. /\ s.offset \in Nat /\ s.size \in Nat /\ t.offset \in Nat /\ t.size \in Nat
  BY <1>1 DEF Sub
<1>6. CASE a = b /\ s = t
  BY <1>1, <1>2, <1>3, <1>4, <1>6, CellsOfOne DEF Apart
<1>7. CASE Apart(s.offset, s.size, t.offset, t.size)
  BY <1>3, <1>4, <1>5, <1>7 DEF Apart
<1>8. QED
  BY <1>6, <1>7 DEF Layout

LEMMA CellOfArea ==
  ASSUME NEW g \in State, Layout(g), NEW a \in Areas, NEW c \in CellsOf(g, a)
  PROVE  c \in Nat \ {0} /\ c < g.segfree
<1>1. PICK s \in Range(g.subs[a]) : c \in Cells(a, s)
  BY DEF CellsOf
<1>2. s \in Sub
  BY DEF State, Range
<1>3. /\ s.offset % Align = 0 /\ s.size >= ObjLength[a] + Align + MinObj
      /\ s.offset + s.size <= g.segfree
  BY DEF Layout
<1>4. c \in Nat \ {0} /\ s.offset <= c /\ c + ObjLength[a] <= s.offset + s.size
  BY <1>1, <1>2, <1>3, CellsInside
<1>5. ObjLength[a] \in Nat \ {0} /\ s.offset \in Nat /\ s.size \in Nat /\ g.segfree \in Nat
  BY <1>2, RoomAssumption DEF Areas, Sub, State
<1>6. QED
  BY <1>3, <1>4, <1>5

\* Cells of two areas, or two cells of one area, lie apart.
LEMMA AreasApart ==
  ASSUME NEW g \in State, Layout(g), NEW a \in Areas, NEW b \in Areas,
         NEW c \in CellsOf(g, a), NEW d \in CellsOf(g, b)
  PROVE  (a = b /\ c = d) \/ (c # d /\ Apart(c, ObjLength[a], d, ObjLength[b]))
<1>1. PICK s \in Range(g.subs[a]) : c \in Cells(a, s)
  BY DEF CellsOf
<1>2. PICK t \in Range(g.subs[b]) : d \in Cells(b, t)
  BY DEF CellsOf
<1>3. QED
  BY <1>1, <1>2, CellsApart

-----------------------------------------------------------------------------
(* A new subarea                                                           *)

NewSub(g, size) == [offset |-> g.segfree, size |-> size]
FinalCell(a, s) == s.offset + ObjLength[a] * (Room(a, s) - 1)
FreshLinks(a, s) ==
  [c \in Cells(a, s) |-> IF c = FinalCell(a, s) THEN 0 ELSE c + ObjLength[a]]
FreshList(a, s) == [i \in 1 .. Room(a, s) |-> s.offset + ObjLength[a] * (i - 1)]

\* What init_db_subarea and make_subarea_freelist change.
LEMMA Taken ==
  ASSUME NEW g \in State, g.segfree % Align = 0, NEW a \in Areas, NEW size \in Nat,
         size >= ObjLength[a] + Align + MinObj
  PROVE  WithSubarea(g, a, size) =
           Seg(NextFree(g, size), [g.subs EXCEPT ![a] = Append(@, NewSub(g, size))],
               [g.freelist EXCEPT ![a] = g.segfree],
               Stored(FreshLinks(a, NewSub(g, size)), g.link))
<1> DEFINE s == NewSub(g, size)
           h == TakeSubarea(g, a, size)
           len == ObjLength[a]
           room == Room(a, s)
<1>1. g.segfree \in Nat \ {0} /\ s \in Sub /\ s.offset = g.segfree /\ s.size = size
      /\ s.offset % Align = 0
  BY DEF State, Sub, NewSub
<1>2. h = Seg(NextFree(g, size), [g.subs EXCEPT ![a] = Append(@, s)],
               [g.freelist EXCEPT ![a] = 0], g.link)
  BY DEF TakeSubarea, NewSub
<1>3. Last(h.subs[a]) = s
  <2>1. g.subs[a] \in Seq(Sub) /\ h.subs[a] = Append(g.subs[a], s)
    BY <1>2 DEF State, Seg
  <2>2. QED
    BY <1>1, <2>1 DEF Last
<1>4. len \in Nat \ {0} /\ room \in Nat \ {0}
  BY <1>1, RoomOf
<1>5. RoundUp(s.offset, Align) = s.offset
  BY <1>1, Rounded, RoomAssumption
<1>6. AlignedSize(s.offset, s.size) \div len = room
  BY DEF Room
<1> HIDE DEF s, h, len, room
<1>7. LastCell(s.offset, AlignedSize(s.offset, s.size), len) = FinalCell(a, s)
  BY <1>6 DEF LastCell, FinalCell, len, room
<1>8. (FinalCell(a, s) - s.offset) \div len = room - 1
  <2>1. room - 1 \in Nat /\ s.offset \in Nat
    BY <1>1, <1>4
  <2>2. len * (room - 1) \in Nat /\ (len * (room - 1)) \div len = room - 1
    BY <1>4, <2>1, Multiples
  <2>3. FinalCell(a, s) - s.offset = len * (room - 1)
    BY <2>1, <2>2 DEF FinalCell, len, room
  <2>4. QED
    BY <2>2, <2>3
<1>9. {s.offset + len * k : k \in 0 .. (FinalCell(a, s) - s.offset) \div len} = Cells(a, s)
  BY <1>8 DEF Cells, len, room
<1>10. MakeSubareaFreelist(h, a) =
         Seg(h.segfree, h.subs, [h.freelist EXCEPT ![a] = s.offset],
             Stored([c \in Cells(a, s) |-> IF c = FinalCell(a, s) THEN 0 ELSE c + len], h.link))
  BY <1>3, <1>5, <1>7, <1>9 DEF MakeSubareaFreelist, len
<1>11. MakeSubareaFreelist(h, a) =
         Seg(h.segfree, h.subs, [h.freelist EXCEPT ![a] = s.offset], Stored(FreshLinks(a, s), h.link))
  BY <1>10 DEF FreshLinks, len
<1>12. h.segfree = NextFree(g, size) /\ h.subs = [g.subs EXCEPT ![a] = Append(@, s)]
       /\ h.freelist = [g.freelist EXCEPT ![a] = 0] /\ h.link = g.link
  BY <1>2 DEF Seg
<1>13. [h.freelist EXCEPT ![a] = s.offset] = [g.freelist EXCEPT ![a] = g.segfree]
  BY <1>1, <1>12 DEF State
<1>14. QED
  BY <1>11, <1>12, <1>13 DEF WithSubarea, s, h

\* The list that make_subarea_freelist makes has every cell of the subarea.
LEMMA FreshListIs ==
  ASSUME NEW a \in Areas, NEW s \in Sub,
         s.offset % Align = 0, s.size >= ObjLength[a] + Align + MinObj
  PROVE  LET l == FreshList(a, s)
         IN  /\ l \in Seq(Nat \ {0}) /\ Len(l) \in Nat \ {0} /\ l[1] = s.offset
             /\ Range(l) = Cells(a, s)
             /\ \A i \in 1 .. Len(l) :
                  FreshLinks(a, s)[l[i]] = IF i = Len(l) THEN 0 ELSE l[i + 1]
             /\ \A i, j \in 1 .. Len(l) : l[i] = l[j] => i = j
<1> DEFINE l == FreshList(a, s)
           len == ObjLength[a]
           room == Room(a, s)
<1>1. len \in Nat \ {0} /\ room \in Nat \ {0} /\ s.offset \in Nat \ {0}
  BY RoomOf DEF Sub
<1>2. \A i \in 1 .. room : i - 1 \in Nat /\ len * (i - 1) \in Nat
  BY <1>1, Multiples
<1>3. \A i \in 1 .. room : l[i] = s.offset + len * (i - 1)
  BY DEF FreshList
<1>4. l \in Seq(Nat \ {0}) /\ Len(l) = room /\ DOMAIN l = 1 .. room
  <2>1. \A i \in 1 .. room : l[i] \in Nat \ {0}
    BY <1>1, <1>2, <1>3
  <2>2. l = [i \in 1 .. room |-> l[i]]
    BY DEF FreshList
  <2> HIDE DEF l, room
  <2>3. QED
    BY <1>1, <2>1, <2>2
<1>5. \A i \in 1 .. room, j \in 1 .. room : l[i] = l[j] => i = j
  <2> SUFFICES ASSUME NEW i \in 1 .. room, NEW j \in 1 .. room, i < j
               PROVE  l[i] # l[j] /\ l[j] # l[i]
    BY <1>1
  <2>1. len * (i - 1) + len <= len * (j - 1)
    <3>1. i - 1 \in Nat /\ j - 1 \in Nat /\ i - 1 < j - 1
      BY <1>1
    <3>2. QED
      BY <1>1, <3>1, Multiples
  <2>2. QED
    BY <1>1, <1>2, <1>3, <2>1
<1>6. Range(l) = Cells(a, s)
  <2>1. \A i \in 1 .. room : l[i] \in Cells(a, s)
    <3>1. \A i \in 1 .. room : i - 1 \in 0 .. room - 1
      BY <1>1
    <3>2. QED
      BY <1>3, <3>1 DEF Cells
  <2>2. ASSUME NEW c \in Cells(a, s) PROVE c \in Range(l)
    <3>1. PICK k \in 0 .. room - 1 : c = s.offset + len * k
      BY DEF Cells
    <3>2. k + 1 \in 1 .. room /\ (k + 1) - 1 = k
      BY <1>1
    <3>3. l[k + 1] = c
      BY <1>3, <3>1, <3>2
    <3>4. QED
      BY <1>4, <3>2, <3>3 DEF Range
  <2>3. QED
    BY <1>4, <2>1, <2>2 DEF Range
<1>7. l[1] = s.offset
  <2>1. 1 \in 1 .. room /\ len * (1 - 1) = 0
    BY <1>1
  <2>2. QED
    BY <1>1, <1>3, <2>1
<1>8. ASSUME NEW i \in 1 .. room
      PROVE  FreshLinks(a, s)[l[i]] = IF i = room THEN 0 ELSE l[i + 1]
  <2>1. l[i] \in Cells(a, s)
    BY <1>4, <1>6 DEF Range
  <2>2. FreshLinks(a, s)[l[i]] = IF l[i] = FinalCell(a, s) THEN 0 ELSE l[i] + len
    BY <2>1 DEF FreshLinks
  <2>3. FinalCell(a, s) = l[room] /\ room \in 1 .. room
    BY <1>1, <1>3 DEF FinalCell
  <2>4. l[i] = FinalCell(a, s) <=> i = room
    BY <1>5, <2>3
  <2>5. i # room => l[i + 1] = l[i] + len
    <3>1. i # room => i + 1 \in 1 .. room /\ len * ((i + 1) - 1) = len * (i - 1) + len
      <4>1. i - 1 \in Nat /\ (i + 1) - 1 = (i - 1) + 1 /\ (i # room => i + 1 \in 1 .. room)
        BY <1>1
      <4>2. len * ((i - 1) + 1) = len * (i - 1) + len
        BY <1>1, <4>1, Multiples
      <4>3. QED
        BY <4>1, <4>2
    <3>2. QED
      BY <1>1, <1>2, <1>3, <3>1
  <2> HIDE DEF l, len, room
  <2>6. QED
    BY <2>2, <2>4, <2>5
<1> HIDE DEF l, room
<1>9. QED
  BY <1>1, <1>4, <1>5, <1>6, <1>7, <1>8 DEF l

LEMMA StoredIs ==
  ASSUME NEW words, NEW old
  PROVE  LET f == Stored(words, old)
         IN  /\ DOMAIN f = DOMAIN words \cup DOMAIN old
             /\ \A c \in DOMAIN words : f[c] = words[c]
             /\ \A c \in DOMAIN old \ DOMAIN words : f[c] = old[c]
BY DEF Stored

LEMMA RangeOfAppend ==
  ASSUME NEW S, NEW q \in Seq(S), NEW e \in S
  PROVE  Append(q, e) \in Seq(S) /\ Range(Append(q, e)) = Range(q) \cup {e}
<1>1. Len(q) \in Nat /\ DOMAIN q = 1 .. Len(q) /\ DOMAIN Append(q, e) = 1 .. Len(q) + 1
      /\ Append(q, e)[Len(q) + 1] = e /\ \A i \in 1 .. Len(q) : Append(q, e)[i] = q[i]
  OBVIOUS
<1>2. 1 .. Len(q) + 1 = (1 .. Len(q)) \cup {Len(q) + 1}
  BY <1>1
<1>3. QED
  BY <1>1, <1>2 DEF Range

\* The lists of areas other than a see nothing of what is stored in cells that
\* they do not have.
LEMMA OtherLists ==
  ASSUME NEW g, NEW h, NEW b, NEW l, ListIs(g, b, l),
         h.freelist[b] = g.freelist[b], \A c \in Range(l) : h.link[c] = g.link[c]
  PROVE  ListIs(h, b, l)
<1>1. \A i \in 1 .. Len(l) : l[i] \in Range(l)
  BY DEF ListIs, Range
<1>2. QED
  BY <1>1 DEF ListIs

LEMMA FreeIsOfArea ==
  ASSUME NEW g, NEW used, NEW L, Good(g, used, L), NEW a \in Areas
  PROVE  /\ \A c \in Range(L[a]) \cup used[a] :
              c \in CellsOf(g, a) /\ c \in Nat \ {0} /\ c < g.segfree
         /\ Range(L[a]) \subseteq DOMAIN g.link
<1>1. \A c \in Range(L[a]) \cup used[a] : c \in CellsOf(g, a)
  BY DEF Good, Owned
<1>2. \A c \in CellsOf(g, a) : c \in Nat \ {0} /\ c < g.segfree
  BY CellOfArea DEF Good
<1>3. QED
  BY <1>1, <1>2 DEF Good, Chained

\* An area without a free cell takes a subarea.
LEMMA Extended ==
  ASSUME NEW g, NEW used, NEW L \in [Areas -> Seq(Nat \ {0})], Good(g, used, L),
         NEW a \in Areas, L[a] = <<>>, NEW size \in Nat,
         size >= ObjLength[a] + Align + MinObj
  PROVE  LET s == NewSub(g, size)
             M == [L EXCEPT ![a] = FreshList(a, s)]
         IN  M \in [Areas -> Seq(Nat \ {0})] /\ Good(WithSubarea(g, a, size), used, M)
<1> DEFINE s == NewSub(g, size)
           l == FreshList(a, s)
           M == [L EXCEPT ![a] = l]
           h == WithSubarea(g, a, size)
<1>1. g \in State /\ g.segfree % Align = 0 /\ g.segfree \in Nat \ {0} /\ Align \in Nat \ {0}
  BY RoomAssumption DEF Good, Layout, State
<1>2. s \in Sub /\ s.offset = g.segfree /\ s.size = size /\ s.offset % Align = 0
  BY <1>1 DEF Sub, NewSub
<1>3. h = Seg(NextFree(g, size), [g.subs EXCEPT ![a] = Append(@, s)],
              [g.freelist EXCEPT ![a] = g.segfree], Stored(FreshLinks(a, s), g.link))
  BY <1>1, Taken
<1>4. /\ l \in Seq(Nat \ {0}) /\ Len(l) \in Nat \ {0} /\ l[1] = s.offset
      /\ Range(l) = Cells(a, s)
      /\ \A i \in 1 .. Len(l) : FreshLinks(a, s)[l[i]] = IF i = Len(l) THEN 0 ELSE l[i + 1]
      /\ \A i, j \in 1 .. Len(l) : l[i] = l[j] => i = j
  BY <1>2, FreshListIs
<1>5. \A c \in Cells(a, s) :
        c \in Nat \ {0} /\ g.segfree <= c /\ c + ObjLength[a] <= g.segfree + size
  BY <1>2, CellsInside
<1>6. h.segfree \in Nat \ {0} /\ h.segfree >= g.segfree + size /\ h.segfree % Align = 0
  <2>1. g.segfree + size \in Nat
    BY <1>1
  <2>2. h.segfree = RoundUp(g.segfree + size, Align)
    BY <1>3 DEF Seg, NextFree
  <2>3. h.segfree \in Nat /\ h.segfree >= g.segfree + size /\ h.segfree % Align = 0
    BY <1>1, <2>1, <2>2, Rounded
  <2>4. QED
    BY <1>1, <2>3
<1>7. /\ h.subs = [g.subs EXCEPT ![a] = Append(@, s)]
      /\ h.freelist = [g.freelist EXCEPT ![a] = g.segfree]
      /\ h.link = Stored(FreshLinks(a, s), g.link)
  BY <1>3 DEF Seg
<1> DEFINE fresh == FreshLinks(a, s)
<1>8. /\ DOMAIN fresh = Cells(a, s)
      /\ DOMAIN h.link = Cells(a, s) \cup DOMAIN g.link
      /\ \A c \in Cells(a, s) : h.link[c] = fresh[c]
      /\ \A c \in DOMAIN g.link \ Cells(a, s) : h.link[c] = g.link[c]
  <2>1. DOMAIN fresh = Cells(a, s)
    BY DEF FreshLinks
  <2>2. h.link = Stored(fresh, g.link)
    BY <1>7
  <2> HIDE DEF fresh, h, s
  <2>3. /\ DOMAIN Stored(fresh, g.link) = DOMAIN fresh \cup DOMAIN g.link
        /\ \A c \in DOMAIN fresh : Stored(fresh, g.link)[c] = fresh[c]
        /\ \A c \in DOMAIN g.link \ DOMAIN fresh : Stored(fresh, g.link)[c] = g.link[c]
    BY StoredIs
  <2>4. QED
    BY <2>1, <2>2, <2>3
<1>9. M \in [Areas -> Seq(Nat \ {0})] /\ M[a] = l /\ \A b \in Areas \ {a} : M[b] = L[b]
  BY <1>4
<1>10. /\ \A b \in Areas \ {a} : h.subs[b] = g.subs[b] /\ h.freelist[b] = g.freelist[b]
       /\ h.freelist[a] = g.segfree /\ h.subs[a] \in Seq(Sub)
       /\ Range(h.subs[a]) = Range(g.subs[a]) \cup {s}
       /\ h.subs \in [Areas -> Seq(Sub)] /\ h.freelist \in [Areas -> Nat]
  <2>1. g.subs \in [Areas -> Seq(Sub)] /\ g.freelist \in [Areas -> Nat]
    BY <1>1 DEF State
  <2>2. Append(g.subs[a], s) \in Seq(Sub) /\ Range(Append(g.subs[a], s)) = Range(g.subs[a]) \cup {s}
    BY <1>2, <2>1, RangeOfAppend
  <2> HIDE DEF s, h
  <2>3. QED
    BY <1>1, <1>7, <2>1, <2>2
<1> HIDE DEF s, l, M, h, fresh
<1>11. \A b \in Areas : \A c \in Range(L[b]) : c \in DOMAIN g.link \ Cells(a, s)
  BY <1>1, <1>5, FreeIsOfArea
<1>12. h \in State
  <2>1. h.link \in [DOMAIN h.link -> Nat] /\ DOMAIN h.link \in SUBSET Nat
    <3>1. g.link \in [DOMAIN g.link -> Nat] /\ DOMAIN g.link \in SUBSET Nat
      BY <1>1 DEF State
    <3>2. \A c \in Cells(a, s) : fresh[c] \in Nat
      <4>1. \A c \in Cells(a, s) : fresh[c] = IF c = FinalCell(a, s) THEN 0 ELSE c + ObjLength[a]
        BY DEF fresh, FreshLinks
      <4>2. ObjLength[a] \in Nat
        BY RoomAssumption DEF Areas
      <4>3. QED
        BY <1>5, <4>1, <4>2
    <3>3. h.link = [c \in DOMAIN h.link |-> h.link[c]]
      BY <1>7 DEF Stored
    <3>4. QED
      BY <1>5, <1>8, <3>1, <3>2, <3>3
  <2>2. h = Seg(h.segfree, h.subs, h.freelist, h.link)
    BY <1>3 DEF Seg
  <2>3. QED
    BY <1>6, <1>10, <2>1, <2>2 DEF State, Seg
<1>13. Layout(h)
  <2>1. \A b \in Areas : \A t \in Range(g.subs[b]) :
          /\ t \in Sub /\ t.offset % Align = 0 /\ t.offset + t.size <= g.segfree
          /\ t.size >= ObjLength[b] + Align + MinObj
    <3>1. \A b \in Areas : \A t \in Range(g.subs[b]) : t \in Sub
      BY <1>1 DEF State, Range
    <3>2. QED
      BY <3>1 DEF Good, Layout
  <2>2. \A b \in Areas : \A t \in Range(h.subs[b]) : t \in Range(g.subs[b]) \/ (b = a /\ t = s)
    BY <1>10
  <2>3. ASSUME NEW b \in Areas, NEW t \in Range(h.subs[b])
        PROVE  /\ t.offset % Align = 0 /\ t.offset + t.size <= h.segfree
               /\ t.size >= ObjLength[b] + Align + MinObj
    <3>1. CASE t \in Range(g.subs[b])
      <4>1. t \in Sub /\ t.offset + t.size <= g.segfree
        BY <2>1, <3>1
      <4>2. t.offset \in Nat /\ t.size \in Nat
        BY <4>1 DEF Sub
      <4>3. QED
        BY <1>1, <1>6, <2>1, <3>1, <4>1, <4>2
    <3>2. CASE b = a /\ t = s
      BY <1>2, <1>6, <3>2
    <3>3. QED
      BY <2>2, <3>1, <3>2
  <2>4. ASSUME NEW b \in Areas, NEW t \in Range(g.subs[b])
        PROVE  Apart(t.offset, t.size, s.offset, s.size) /\ Apart(s.offset, s.size, t.offset, t.size)
    <3>1. t.offset + t.size <= s.offset
      BY <1>2, <2>1
    <3>2. QED
      BY <3>1 DEF Apart
  <2>5. ASSUME NEW b \in Areas, NEW d \in Areas, NEW t \in Range(h.subs[b]), NEW u \in Range(h.subs[d])
        PROVE  (b = d /\ t = u) \/ Apart(t.offset, t.size, u.offset, u.size)
    <3>1. CASE t \in Range(g.subs[b]) /\ u \in Range(g.subs[d])
      BY <3>1 DEF Good, Layout
    <3>2. CASE t \in Range(g.subs[b]) /\ u = s
      BY <2>4, <3>2
    <3>3. CASE t = s /\ u \in Range(g.subs[d])
      BY <2>4, <3>3
    <3>4. QED
      BY <2>2, <3>1, <3>2, <3>3
  <2>6. QED
    BY <1>6, <2>3, <2>5 DEF Layout
<1>14. Chained(h, M)
  <2>1. ASSUME NEW b \in Areas PROVE ListIs(h, b, M[b])
    <3>1. CASE b = a
      <4>1. \A i \in 1 .. Len(l) : l[i] \in Cells(a, s)
        BY <1>4 DEF Range
      <4>2. l # <<>> /\ h.freelist[a] = l[1]
        BY <1>2, <1>4, <1>10
      <4>3. \A i \in 1 .. Len(l) : h.link[l[i]] = IF i = Len(l) THEN 0 ELSE l[i + 1]
        BY <1>4, <1>8, <4>1 DEF fresh
      <4>4. QED
        BY <1>4, <1>9, <3>1, <4>2, <4>3 DEF ListIs
    <3>2. CASE b # a
      <4>1. ListIs(g, b, L[b])
        BY DEF Good, Chained
      <4>2. \A c \in Range(L[b]) : h.link[c] = g.link[c]
        BY <1>8, <1>11
      <4>3. ListIs(h, b, L[b])
        BY <1>10, <3>2, <4>1, <4>2, OtherLists
      <4>4. QED
        BY <1>9, <3>2, <4>3
    <3>3. QED
      BY <3>1, <3>2
  <2>2. DOMAIN h.link = UNION {Range(M[b]) : b \in Areas}
    <3>1. DOMAIN g.link = UNION {Range(L[b]) : b \in Areas} /\ Range(L[a]) = {}
      <4>1. Range(<<>>) = {}
        BY DEF Range
      <4>2. QED
        BY <4>1 DEF Good, Chained
    <3>2. ASSUME NEW c PROVE c \in DOMAIN h.link <=> \E b \in Areas : c \in Range(M[b])
      <4>1. c \in DOMAIN h.link <=> c \in Range(l) \/ \E b \in Areas : c \in Range(L[b])
        BY <1>4, <1>8, <3>1
      <4>2. QED
        BY <1>9, <3>1, <4>1
    <3>3. QED
      BY <3>2
  <2>3. QED
    BY <2>1, <2>2 DEF Chained
<1>15. Owned(h, used, M)
  <2>1. ASSUME NEW b \in Areas
        PROVE  Range(M[b]) \cap used[b] = {} /\ Range(M[b]) \cup used[b] = CellsOf(h, b)
    <3>1. Range(L[b]) \cap used[b] = {} /\ Range(L[b]) \cup used[b] = CellsOf(g, b)
      BY DEF Good, Owned
    <3>2. CASE b = a
      <4>1. Range(L[a]) = {}
        BY DEF Range
      <4>2. CellsOf(h, a) = CellsOf(g, a) \cup Cells(a, s)
        BY <1>10 DEF CellsOf
      <4>3. \A c \in used[a] : c \in Nat /\ c < g.segfree
        BY FreeIsOfArea
      <4>4. Cells(a, s) \cap used[a] = {}
        BY <1>1, <1>5, <4>3
      <4>5. QED
        BY <1>4, <1>9, <3>1, <3>2, <4>1, <4>2, <4>4
    <3>3. CASE b # a
      BY <1>9, <1>10, <3>1, <3>3 DEF CellsOf
    <3>4. QED
      BY <3>2, <3>3
  <2>2. QED
    BY <2>1 DEF Owned
<1>16. QED
  BY <1>9, <1>12, <1>13, <1>14, <1>15 DEF Good, s, l, M, h

\* Another part takes a chunk of the segment.
LEMMA Pushed ==
  ASSUME NEW g, NEW used, NEW L \in [Areas -> Seq(Nat \ {0})], Good(g, used, L),
         NEW size \in Nat
  PROVE  Good(Seg(NextFree(g, size), g.subs, g.freelist, g.link), used, L)
<1> DEFINE h == Seg(NextFree(g, size), g.subs, g.freelist, g.link)
<1>1. g \in State /\ g.segfree \in Nat \ {0} /\ Align \in Nat \ {0}
  BY RoomAssumption DEF Good, State
<1>2. h.subs = g.subs /\ h.freelist = g.freelist /\ h.link = g.link
      /\ h.segfree = RoundUp(g.segfree + size, Align)
  BY DEF Seg, NextFree
<1>3. h.segfree \in Nat \ {0} /\ h.segfree >= g.segfree /\ h.segfree % Align = 0
  <2>1. g.segfree + size \in Nat
    BY <1>1
  <2>2. h.segfree \in Nat /\ h.segfree >= g.segfree + size /\ h.segfree % Align = 0
    BY <1>1, <1>2, <2>1, Rounded
  <2>3. QED
    BY <1>1, <2>2
<1>4. h \in State
  BY <1>1, <1>2, <1>3 DEF State, Seg
<1> HIDE DEF h
<1>5. Layout(h)
  <2>1. \A a \in Areas : \A s \in Range(g.subs[a]) : s.offset + s.size <= g.segfree /\ s \in Sub
    BY <1>1 DEF Good, Layout, State, Range
  <2>2. \A a \in Areas : \A s \in Range(g.subs[a]) : s.offset + s.size <= h.segfree
    BY <1>1, <1>3, <2>1 DEF Sub
  <2>3. QED
    BY <1>2, <1>3, <2>2 DEF Good, Layout
<1>6. Chained(h, L) /\ Owned(h, used, L)
  BY <1>2 DEF Good, Chained, ListIs, Owned, CellsOf
<1>7. QED
  BY <1>4, <1>5, <1>6 DEF Good, h

-----------------------------------------------------------------------------
(* Allocation and freeing                                                  *)

\* The first cell leaves the list.
LEMMA Popped ==
  ASSUME NEW g, NEW used \in [Areas -> SUBSET Nat], NEW L \in [Areas -> Seq(Nat \ {0})],
         Good(g, used, L), NEW a \in Areas, NEW cell, cell = g.freelist[a], cell # 0
  PROVE  LET h == Seg(g.segfree, g.subs, [g.freelist EXCEPT ![a] = g.link[cell]],
                      Restrict(g.link, DOMAIN g.link \ {cell}))
             M == [L EXCEPT ![a] = Tail(@)]
         IN  /\ M \in [Areas -> Seq(Nat \ {0})]
             /\ Good(h, [used EXCEPT ![a] = @ \cup {cell}], M)
             /\ cell \in CellsOf(g, a) /\ cell \notin used[a]
<1> DEFINE h == Seg(g.segfree, g.subs, [g.freelist EXCEPT ![a] = g.link[cell]],
                    Restrict(g.link, DOMAIN g.link \ {cell}))
           M == [L EXCEPT ![a] = Tail(@)]
           given == [used EXCEPT ![a] = @ \cup {cell}]
           l == L[a]
           r == Tail(l)
<1>1. g \in State /\ ListIs(g, a, l)
  BY DEF Good, Chained
<1>2. l # <<>> /\ l \in Seq(Nat \ {0}) /\ cell = l[1] /\ Len(l) \in Nat \ {0}
  BY <1>1 DEF ListIs
<1>3. r \in Seq(Nat \ {0}) /\ Len(r) = Len(l) - 1 /\ \A i \in 1 .. Len(r) : r[i] = l[i + 1]
  BY <1>2
<1>4. Range(l) = Range(r) \cup {cell} /\ cell \notin Range(r)
  <2>1. \A i, j \in 1 .. Len(l) : l[i] = l[j] => i = j
    BY <1>1 DEF ListIs
  <2>2. DOMAIN l = 1 .. Len(l) /\ DOMAIN r = 1 .. Len(r)
    BY <1>2, <1>3
  <2>3. cell \in Range(l) /\ \A i \in 1 .. Len(r) : r[i] \in Range(l) /\ r[i] # cell
    <3> HIDE DEF r
    <3>1. 1 \in 1 .. Len(l) /\ \A i \in 1 .. Len(r) : i + 1 \in 1 .. Len(l) /\ i + 1 # 1
      BY <1>2, <1>3
    <3>2. l[1] \in Range(l) /\ \A i \in 1 .. Len(r) : l[i + 1] \in Range(l) /\ l[i + 1] # l[1]
      BY <2>1, <2>2, <3>1 DEF Range
    <3>3. QED
      BY <1>2, <1>3, <3>2
  <2>4. ASSUME NEW c \in Range(l), c # cell PROVE c \in Range(r)
    <3>1. PICK i \in 1 .. Len(l) : c = l[i]
      BY <2>2 DEF Range
    <3>2. i - 1 \in 1 .. Len(r) /\ (i - 1) + 1 = i
      BY <1>2, <1>3, <2>4, <3>1
    <3>3. QED
      BY <1>3, <2>2, <3>1, <3>2 DEF Range
  <2> HIDE DEF l, r
  <2>5. QED
    BY <2>2, <2>3, <2>4 DEF Range
<1>5. /\ h.segfree = g.segfree /\ h.subs = g.subs
      /\ h.freelist = [g.freelist EXCEPT ![a] = g.link[cell]]
      /\ h.link = Restrict(g.link, DOMAIN g.link \ {cell})
  BY DEF Seg
<1>6. /\ DOMAIN h.link = DOMAIN g.link \ {cell}
      /\ \A c \in DOMAIN h.link : h.link[c] = g.link[c]
  BY <1>5 DEF Restrict
<1>7. M \in [Areas -> Seq(Nat \ {0})] /\ M[a] = r /\ \A b \in Areas \ {a} : M[b] = L[b]
  BY <1>3
<1>8. given[a] = used[a] \cup {cell} /\ \A b \in Areas \ {a} : given[b] = used[b]
  OBVIOUS
<1>9. \A b \in Areas \ {a} : cell \notin Range(L[b])
  <2>1. \A b \in Areas : \A c \in Range(L[b]) : c \in CellsOf(g, b)
    BY FreeIsOfArea
  <2>2. QED
    BY <1>1, <1>4, <2>1, AreasApart DEF Good
<1>10. cell \in CellsOf(g, a) /\ cell \notin used[a] /\ cell \in DOMAIN g.link /\ cell \in Nat
  BY <1>4, FreeIsOfArea DEF Good, Owned
<1>11. g.link[cell] = IF r = <<>> THEN 0 ELSE r[1]
  <2>1. g.link[l[1]] = IF 1 = Len(l) THEN 0 ELSE l[2]
    <3>1. 1 \in 1 .. Len(l) /\ 1 + 1 = 2
      BY <1>2
    <3>2. QED
      BY <1>1, <3>1 DEF ListIs
  <2> HIDE DEF l, r
  <2>2. r = <<>> <=> 1 = Len(l)
    <3>1. r = <<>> <=> Len(r) = 0
      <4>1. r \in Seq(Nat \ {0})
        BY <1>3
      <4>2. QED
        BY <4>1
    <3>2. Len(r) = 0 <=> 1 = Len(l)
      BY <1>2, <1>3
    <3>3. QED
      BY <3>1, <3>2
  <2>3. r # <<>> => r[1] = l[2]
    BY <1>2, <1>3
  <2>4. QED
    BY <1>2, <2>1, <2>2, <2>3
<1> HIDE DEF h, M, given, l, r
<1>12. h \in State
  <2>1. g.link \in [DOMAIN g.link -> Nat] /\ DOMAIN g.link \in SUBSET Nat
        /\ g.freelist \in [Areas -> Nat] /\ g.subs \in [Areas -> Seq(Sub)] /\ g.segfree \in Nat \ {0}
    BY <1>1 DEF State
  <2>2. h.link \in [DOMAIN h.link -> Nat] /\ DOMAIN h.link \in SUBSET Nat
    BY <1>5, <1>6, <2>1 DEF Restrict
  <2>3. h.freelist \in [Areas -> Nat]
    BY <1>5, <1>10, <2>1
  <2>4. h = Seg(h.segfree, h.subs, h.freelist, h.link)
    BY DEF h, Seg
  <2>5. QED
    BY <1>5, <2>1, <2>2, <2>3, <2>4 DEF State, Seg
<1>13. Layout(h)
  BY <1>5 DEF Good, Layout
<1>14. Chained(h, M)
  <2>1. ASSUME NEW b \in Areas PROVE ListIs(h, b, M[b])
    <3>1. CASE b = a
      <4>1. h.freelist[a] = IF r = <<>> THEN 0 ELSE r[1]
        BY <1>1, <1>5, <1>11 DEF State
      <4>2. ASSUME NEW i \in 1 .. Len(r)
            PROVE  h.link[r[i]] = IF i = Len(r) THEN 0 ELSE r[i + 1]
        <5>1. r[i] \in Range(r) /\ i + 1 \in 1 .. Len(l)
          BY <1>2, <1>3 DEF Range
        <5>2. r[i] \in DOMAIN h.link
          BY <1>4, <1>6, <5>1, FreeIsOfArea DEF l
        <5>3. g.link[l[i + 1]] = IF i + 1 = Len(l) THEN 0 ELSE l[(i + 1) + 1]
          BY <1>1, <5>1 DEF ListIs
        <5>4. i # Len(r) => i + 1 \in 1 .. Len(r)
          BY <1>2, <1>3
        <5>5. h.link[r[i]] = g.link[l[i + 1]]
          BY <1>3, <1>6, <5>2
        <5>6. i + 1 = Len(l) <=> i = Len(r)
          BY <1>2, <1>3
        <5>7. i # Len(r) => r[i + 1] = l[(i + 1) + 1]
          BY <1>3, <5>4
        <5>8. QED
          BY <5>3, <5>5, <5>6, <5>7
      <4>3. \A i, j \in 1 .. Len(r) : r[i] = r[j] => i = j
        <5>1. \A i, j \in 1 .. Len(l) : l[i] = l[j] => i = j
          BY <1>1 DEF ListIs
        <5>2. \A i \in 1 .. Len(r) : i + 1 \in 1 .. Len(l)
          BY <1>2, <1>3
        <5>3. ASSUME NEW i \in 1 .. Len(r), NEW j \in 1 .. Len(r), r[i] = r[j]
              PROVE  i = j
          <6>1. i + 1 = j + 1
            BY <1>3, <5>1, <5>2, <5>3
          <6>2. QED
            BY <6>1
        <5>4. QED
          BY <5>3
      <4>4. QED
        BY <1>3, <1>7, <3>1, <4>1, <4>2, <4>3 DEF ListIs
    <3>2. CASE b # a
      <4>1. ListIs(g, b, L[b])
        BY DEF Good, Chained
      <4>2. \A c \in Range(L[b]) : h.link[c] = g.link[c]
        BY <1>6, <1>9, <3>2, FreeIsOfArea
      <4>3. h.freelist[b] = g.freelist[b]
        BY <1>1, <1>5, <3>2 DEF State
      <4>4. QED
        BY <1>7, <3>2, <4>1, <4>2, <4>3, OtherLists
    <3>3. QED
      BY <3>1, <3>2
  <2>2. ASSUME NEW c PROVE c \in DOMAIN h.link <=> \E b \in Areas : c \in Range(M[b])
    <3>1. c \in DOMAIN g.link <=> \E b \in Areas : c \in Range(L[b])
      BY DEF Good, Chained
    <3>2. \A b \in Areas : c \in Range(M[b]) <=> c \in Range(L[b]) /\ c # cell
      BY <1>4, <1>7, <1>9 DEF l
    <3>3. QED
      BY <1>6, <3>1, <3>2
  <2>3. DOMAIN h.link = UNION {Range(M[b]) : b \in Areas}
    BY <2>2
  <2>4. QED
    BY <2>1, <2>3 DEF Chained
<1>15. Owned(h, given, M)
  <2>1. \A b \in Areas : CellsOf(h, b) = CellsOf(g, b)
    BY <1>5 DEF CellsOf
  <2>2. ASSUME NEW b \in Areas
        PROVE  Range(M[b]) \cap given[b] = {} /\ Range(M[b]) \cup given[b] = CellsOf(h, b)
    <3>1. Range(L[b]) \cap used[b] = {} /\ Range(L[b]) \cup used[b] = CellsOf(h, b)
      BY <2>1 DEF Good, Owned
    <3>2. CASE b = a
      BY <1>4, <1>7, <1>8, <1>10, <3>1, <3>2 DEF l
    <3>3. CASE b # a
      BY <1>7, <1>8, <3>1, <3>3
    <3>4. QED
      BY <3>2, <3>3
  <2>3. QED
    BY <2>2 DEF Owned
<1>16. QED
  BY <1>7, <1>10, <1>12, <1>13, <1>14, <1>15 DEF Good, h, M, given

\* A freed cell becomes the first of the list.
LEMMA Freed ==
  ASSUME NEW g, NEW used \in [Areas -> SUBSET Nat], NEW L \in [Areas -> Seq(Nat \ {0})],
         Good(g, used, L), NEW a \in Areas, NEW cell \in used[a]
  PROVE  LET h == Seg(g.segfree, g.subs, [g.freelist EXCEPT ![a] = cell],
                      Stored([c \in {cell} |-> g.freelist[a]], g.link))
             M == [L EXCEPT ![a] = <<cell>> \o @]
         IN  /\ M \in [Areas -> Seq(Nat \ {0})]
             /\ Good(h, [used EXCEPT ![a] = @ \ {cell}], M)
<1> DEFINE word == [c \in {cell} |-> g.freelist[a]]
           h == Seg(g.segfree, g.subs, [g.freelist EXCEPT ![a] = cell], Stored(word, g.link))
           M == [L EXCEPT ![a] = <<cell>> \o @]
           kept == [used EXCEPT ![a] = @ \ {cell}]
           l == L[a]
           r == <<cell>> \o l
<1>1. g \in State /\ ListIs(g, a, l) /\ l \in Seq(Nat \ {0}) /\ Len(l) \in Nat
  BY DEF Good, Chained
<1>2. cell \in CellsOf(g, a) /\ cell \in Nat \ {0} /\ cell \notin Range(l)
  BY FreeIsOfArea DEF Good, Owned
<1>3. /\ r \in Seq(Nat \ {0}) /\ Len(r) = Len(l) + 1 /\ r # <<>>
      /\ r[1] = cell /\ \A i \in 1 .. Len(l) : r[i + 1] = l[i]
  BY <1>1, <1>2
<1> HIDE DEF r
<1>4. ASSUME NEW i \in 1 .. Len(r), i # 1
      PROVE  i - 1 \in 1 .. Len(l) /\ r[i] = l[i - 1]
  <2>1. i - 1 \in 1 .. Len(l) /\ (i - 1) + 1 = i
    BY <1>1, <1>3, <1>4
  <2>2. r[(i - 1) + 1] = l[i - 1]
    BY <1>3, <2>1
  <2>3. QED
    BY <2>1, <2>2
<1>5. Range(r) = Range(l) \cup {cell}
  <2>1. DOMAIN l = 1 .. Len(l) /\ DOMAIN r = 1 .. Len(r) /\ 1 \in 1 .. Len(r)
        /\ \A i \in 1 .. Len(l) : i + 1 \in 1 .. Len(r)
    BY <1>1, <1>3
  <2>2. \A c \in Range(l) \cup {cell} : c \in Range(r)
    BY <1>3, <2>1 DEF Range
  <2>3. ASSUME NEW c \in Range(r) PROVE c \in Range(l) \cup {cell}
    <3>1. PICK i \in 1 .. Len(r) : c = r[i]
      BY <2>1 DEF Range
    <3> HIDE DEF l
    <3>2. i # 1 => c \in Range(l)
      BY <1>4, <2>1, <3>1 DEF Range
    <3>3. QED
      BY <1>3, <3>1, <3>2
  <2>4. QED
    BY <2>2, <2>3
<1>6. \A b \in Areas : cell \notin Range(L[b])
  <2>1. \A b \in Areas : \A c \in Range(L[b]) : c \in CellsOf(g, b)
    BY FreeIsOfArea
  <2>2. \A b \in Areas \ {a} : \A c \in Range(L[b]) : c # cell
    BY <1>1, <1>2, <2>1, AreasApart DEF Good
  <2>3. QED
    BY <1>2, <2>2
<1>7. cell \notin DOMAIN g.link
  BY <1>6 DEF Good, Chained
<1>8. /\ h.segfree = g.segfree /\ h.subs = g.subs
      /\ h.freelist = [g.freelist EXCEPT ![a] = cell] /\ h.link = Stored(word, g.link)
  BY DEF Seg
<1>9. /\ DOMAIN h.link = DOMAIN g.link \cup {cell} /\ h.link[cell] = g.freelist[a]
      /\ \A c \in DOMAIN g.link : h.link[c] = g.link[c]
  <2>1. DOMAIN word = {cell} /\ word[cell] = g.freelist[a]
    OBVIOUS
  <2> HIDE DEF word, h
  <2>2. LET f == Stored(word, g.link)
        IN  /\ DOMAIN f = DOMAIN word \cup DOMAIN g.link
            /\ \A c \in DOMAIN word : f[c] = word[c]
            /\ \A c \in DOMAIN g.link \ DOMAIN word : f[c] = g.link[c]
    BY StoredIs
  <2>3. QED
    BY <1>7, <1>8, <2>1, <2>2
<1>10. M \in [Areas -> Seq(Nat \ {0})] /\ M[a] = r /\ \A b \in Areas \ {a} : M[b] = L[b]
  BY <1>3 DEF r
<1>11. kept[a] = used[a] \ {cell} /\ \A b \in Areas \ {a} : kept[b] = used[b]
  OBVIOUS
<1> HIDE DEF word, h, M, kept, l
<1>12. h \in State
  <2>1. g.link \in [DOMAIN g.link -> Nat] /\ DOMAIN g.link \in SUBSET Nat
        /\ g.freelist \in [Areas -> Nat] /\ g.subs \in [Areas -> Seq(Sub)] /\ g.segfree \in Nat \ {0}
    BY <1>1 DEF State
  <2>2. h.link \in [DOMAIN h.link -> Nat] /\ DOMAIN h.link \in SUBSET Nat
    <3>1. h.link = [c \in DOMAIN h.link |-> h.link[c]]
      BY <1>8 DEF Stored
    <3>2. \A c \in DOMAIN h.link : h.link[c] \in Nat /\ c \in Nat
      BY <1>2, <1>9, <2>1
    <3>3. QED
      BY <3>1, <3>2
  <2>3. h.freelist \in [Areas -> Nat]
    BY <1>2, <1>8, <2>1
  <2>4. h = Seg(h.segfree, h.subs, h.freelist, h.link)
    BY DEF h, Seg
  <2>5. QED
    BY <1>8, <2>1, <2>2, <2>3, <2>4 DEF State, Seg
<1>13. Layout(h)
  BY <1>8 DEF Good, Layout
<1>14. Chained(h, M)
  <2>1. ASSUME NEW b \in Areas PROVE ListIs(h, b, M[b])
    <3>1. CASE b = a
      <4>1. h.freelist[a] = r[1]
        BY <1>1, <1>3, <1>8 DEF State
      <4>2. ASSUME NEW i \in 1 .. Len(r)
            PROVE  h.link[r[i]] = IF i = Len(r) THEN 0 ELSE r[i + 1]
        <5>1. CASE i = 1
          <6>1. h.link[r[1]] = IF l = <<>> THEN 0 ELSE l[1]
            BY <1>1, <1>3, <1>9 DEF ListIs
          <6>2. l = <<>> <=> 1 = Len(r)
            BY <1>1, <1>3
          <6>3. l # <<>> => r[1 + 1] = l[1]
            BY <1>1, <1>3
          <6>4. QED
            BY <5>1, <6>1, <6>2, <6>3
        <5>2. CASE i # 1
          <6>1. i - 1 \in 1 .. Len(l) /\ r[i] = l[i - 1] /\ (i - 1) + 1 = i
            BY <1>1, <1>3, <1>4, <5>2
          <6>2. l[i - 1] \in DOMAIN g.link
            <7>1. l[i - 1] \in Range(l)
              BY <1>1, <6>1 DEF Range
            <7>2. QED
              BY <7>1, FreeIsOfArea DEF l
          <6>3. g.link[l[i - 1]] = IF i - 1 = Len(l) THEN 0 ELSE l[i]
            BY <1>1, <6>1 DEF ListIs
          <6>4. i - 1 = Len(l) <=> i = Len(r)
            BY <1>1, <1>3
          <6>5. i # Len(r) => r[i + 1] = l[i]
            <7>1. i # Len(r) => i \in 1 .. Len(l)
              BY <1>1, <1>3
            <7>2. QED
              BY <1>3, <7>1
          <6>6. QED
            BY <1>9, <6>1, <6>2, <6>3, <6>4, <6>5
        <5>3. QED
          BY <5>1, <5>2
      <4>3. ASSUME NEW i \in 1 .. Len(r), NEW j \in 1 .. Len(r), r[i] = r[j]
            PROVE  i = j
        <5>1. \A k \in 1 .. Len(l) : l[k] # cell
          BY <1>1, <1>2 DEF Range
        <5>2. CASE i = 1 \/ j = 1
          BY <1>3, <1>4, <4>3, <5>1, <5>2
        <5>3. CASE i # 1 /\ j # 1
          <6>1. i - 1 \in 1 .. Len(l) /\ j - 1 \in 1 .. Len(l) /\ l[i - 1] = l[j - 1]
            BY <1>4, <4>3, <5>3
          <6>2. i - 1 = j - 1
            BY <1>1, <6>1 DEF ListIs
          <6>3. QED
            BY <6>2
        <5>4. QED
          BY <5>2, <5>3
      <4>4. QED
        BY <1>3, <1>10, <3>1, <4>1, <4>2, <4>3 DEF ListIs
    <3>2. CASE b # a
      <4>1. ListIs(g, b, L[b])
        BY DEF Good, Chained
      <4>2. \A c \in Range(L[b]) : h.link[c] = g.link[c]
        BY <1>9, FreeIsOfArea
      <4>3. h.freelist[b] = g.freelist[b]
        BY <1>1, <1>8, <3>2 DEF State
      <4>4. QED
        BY <1>10, <3>2, <4>1, <4>2, <4>3, OtherLists
    <3>3. QED
      BY <3>1, <3>2
  <2>2. ASSUME NEW c PROVE c \in DOMAIN h.link <=> \E b \in Areas : c \in Range(M[b])
    <3>1. c \in DOMAIN g.link <=> \E b \in Areas : c \in Range(L[b])
      BY DEF Good, Chained
    <3>2. \A b \in Areas : c \in Range(M[b]) <=> c \in Range(L[b]) \/ (b = a /\ c = cell)
      BY <1>5, <1>10 DEF l
    <3>3. QED
      BY <1>9, <3>1, <3>2
  <2>3. DOMAIN h.link = UNION {Range(M[b]) : b \in Areas}
    BY <2>2
  <2>4. QED
    BY <2>1, <2>3 DEF Chained
<1>15. Owned(h, kept, M)
  <2>1. \A b \in Areas : CellsOf(h, b) = CellsOf(g, b)
    BY <1>8 DEF CellsOf
  <2>2. ASSUME NEW b \in Areas
        PROVE  Range(M[b]) \cap kept[b] = {} /\ Range(M[b]) \cup kept[b] = CellsOf(h, b)
    <3>1. Range(L[b]) \cap used[b] = {} /\ Range(L[b]) \cup used[b] = CellsOf(h, b)
      BY <2>1 DEF Good, Owned
    <3>2. CASE b = a
      BY <1>5, <1>10, <1>11, <3>1, <3>2 DEF l
    <3>3. CASE b # a
      BY <1>10, <1>11, <3>1, <3>3
    <3>4. QED
      BY <3>2, <3>3
  <2>3. QED
    BY <2>2 DEF Owned
<1>16. QED
  BY <1>10, <1>12, <1>13, <1>14, <1>15 DEF Good, h, M, kept, word

-----------------------------------------------------------------------------
(* The segment as wg_init_db_memsegment leaves it                          *)

NextArea(g, n) == WithSubarea(g, AreaOrder[n], InitialSize[AreaOrder[n]])
MadeTo(m, f) == f = [n \in 0 .. m |-> IF n = 0 THEN NoArea ELSE NextArea(f[n - 1], n)]

\* The recursive definition of FirstSubareas has a solution.
LEMMA MadeExists ==
  ASSUME NEW m \in Nat
  PROVE  \E f : MadeTo(m, f)
<1> DEFINE None == {k \in Nat : ~ \E f : MadeTo(k, f)}
<1> SUFFICES ASSUME None # {} PROVE FALSE
  OBVIOUS
<1>1. PICK k \in None : \A j \in None : k <= j
  BY LeastOf
<1>2. CASE k = 0
  <2>1. MadeTo(0, [j \in 0 .. 0 |-> NoArea])
    BY DEF MadeTo
  <2>2. QED
    BY <1>2, <2>1
<1>3. CASE k # 0
  <2>1. k \in Nat /\ k - 1 \in Nat /\ k - 1 \notin None
    BY <1>1, <1>3
  <2>2. PICK f : MadeTo(k - 1, f)
    BY <2>1
  <2> DEFINE h == [j \in 0 .. k |-> IF j = k THEN NextArea(f[k - 1], k) ELSE f[j]]
  <2>3. f = [j \in 0 .. k - 1 |-> IF j = 0 THEN NoArea ELSE NextArea(f[j - 1], j)]
    BY <2>2 DEF MadeTo
  <2> HIDE DEF None
  <2>4. ASSUME NEW j \in 0 .. k
        PROVE  h[j] = IF j = 0 THEN NoArea ELSE NextArea(h[j - 1], j)
    <3>1. CASE j = 0
      <4>1. 0 \in 0 .. k - 1 /\ f[0] = NoArea
        BY <1>3, <2>1, <2>3
      <4>2. QED
        BY <3>1, <4>1, <1>3
    <3>2. CASE j = k
      <4>1. h[k - 1] = f[k - 1]
        BY <2>1
      <4>2. QED
        BY <3>2, <4>1, <1>3
    <3>3. CASE j # 0 /\ j # k
      <4>1. j \in 0 .. k - 1 /\ j - 1 \in 0 .. k /\ j - 1 # k
        BY <2>1, <3>3
      <4>2. f[j] = NextArea(f[j - 1], j) /\ h[j - 1] = f[j - 1] /\ h[j] = f[j]
        BY <2>3, <3>3, <4>1
      <4>3. QED
        BY <4>2, <3>3
    <3>4. QED
      BY <3>1, <3>2, <3>3
  <2> HIDE DEF h
  <2>5. h = [j \in 0 .. k |-> h[j]]
    BY DEF h
  <2>6. MadeTo(k, h)
    BY <2>4, <2>5 DEF MadeTo
  <2>7. QED
    BY <2>6 DEF None
<1>4. QED
  BY <1>2, <1>3

NoneUsed == [a \in Areas |-> {}]

\* The first n areas have their subarea, the others no cell yet.
Begun(g, n) ==
  \E L \in [Areas -> Seq(Nat \ {0})] :
    /\ Good(g, NoneUsed, L)
    /\ \A i \in n + 1 .. Len(AreaOrder) : L[AreaOrder[i]] = <<>>

LEMMA OrderOfAreas ==
  /\ Len(AreaOrder) \in Nat
  /\ \A i \in 1 .. Len(AreaOrder) : AreaOrder[i] \in Areas
  /\ \A i, j \in 1 .. Len(AreaOrder) : AreaOrder[i] = AreaOrder[j] => i = j
BY AreasAssumption DEF Areas, Range

LEMMA NoAreaBegun == Begun(NoArea, 0)
<1> DEFINE L == [a \in Areas |-> <<>>]
           g == NoArea
<1>1. /\ g.subs = [a \in Areas |-> <<>>] /\ g.freelist = [a \in Areas |-> 0]
      /\ g.link = <<>> /\ g.segfree = RoundUp(HeaderSize, Align)
      /\ g = Seg(g.segfree, g.subs, g.freelist, g.link)
  BY DEF NoArea, Seg
<1>2. g.segfree \in Nat \ {0} /\ g.segfree % Align = 0
  <2>1. HeaderSize \in Nat \ {0} /\ Align \in Nat \ {0}
    BY RoomAssumption
  <2>2. g.segfree \in Nat /\ g.segfree >= HeaderSize /\ g.segfree % Align = 0
    BY <1>1, <2>1, Rounded
  <2>3. QED
    BY <2>1, <2>2
<1> HIDE DEF g
<1>3. Range(<<>>) = {}
  BY DEF Range
<1>4. g \in State
  <2>1. <<>> \in [{} -> Nat]
    OBVIOUS
  <2>2. g.subs \in [Areas -> Seq(Sub)] /\ g.freelist \in [Areas -> Nat]
    BY <1>1
  <2>3. g.link \in UNION {[S -> Nat] : S \in SUBSET Nat}
    BY <1>1, <2>1
  <2>4. QED
    BY <1>1, <1>2, <2>2, <2>3 DEF State, Seg
<1>5. Layout(g)
  BY <1>1, <1>2, <1>3 DEF Layout
<1>6. Chained(g, L)
  <2>1. \A a \in Areas : ListIs(g, a, <<>>)
    BY <1>1 DEF ListIs
  <2>2. DOMAIN g.link = {}
    BY <1>1
  <2>3. UNION {Range(L[a]) : a \in Areas} = {}
    BY <1>3
  <2>4. QED
    BY <2>1, <2>2, <2>3 DEF Chained
<1>7. Owned(g, NoneUsed, L)
  BY <1>1, <1>3 DEF Owned, NoneUsed, CellsOf
<1>8. \A i \in 0 + 1 .. Len(AreaOrder) : L[AreaOrder[i]] = <<>>
  BY OrderOfAreas
<1>9. L \in [Areas -> Seq(Nat \ {0})]
  OBVIOUS
<1>10. QED
  BY <1>4, <1>5, <1>6, <1>7, <1>8, <1>9 DEF Begun, Good, g

LEMMA NextBegun ==
  ASSUME NEW n \in 1 .. Len(AreaOrder), NEW g, Begun(g, n - 1)
  PROVE  Begun(NextArea(g, n), n)
<1> DEFINE a == AreaOrder[n]
           size == InitialSize[a]
<1>1. PICK L \in [Areas -> Seq(Nat \ {0})] :
        /\ Good(g, NoneUsed, L)
        /\ \A i \in (n - 1) + 1 .. Len(AreaOrder) : L[AreaOrder[i]] = <<>>
  BY DEF Begun
<1>2. a \in Areas /\ L[a] = <<>>
  <2>1. n \in (n - 1) + 1 .. Len(AreaOrder)
    BY OrderOfAreas
  <2>2. QED
    BY <1>1, <2>1, OrderOfAreas
<1>3. size \in Nat /\ size >= ObjLength[a] + Align + MinObj
  BY <1>2, RoomAssumption DEF Areas
<1> HIDE DEF a, size
<1> DEFINE M == [L EXCEPT ![a] = FreshList(a, NewSub(g, size))]
<1>4. M \in [Areas -> Seq(Nat \ {0})] /\ Good(WithSubarea(g, a, size), NoneUsed, M)
  BY <1>1, <1>2, <1>3, Extended
<1>5. ASSUME NEW i \in n + 1 .. Len(AreaOrder) PROVE M[AreaOrder[i]] = <<>>
  <2>1. i \in (n - 1) + 1 .. Len(AreaOrder) /\ i \in 1 .. Len(AreaOrder) /\ i # n
    BY OrderOfAreas
  <2>2. AreaOrder[i] # a /\ AreaOrder[i] \in Areas
    BY <2>1, OrderOfAreas DEF a
  <2>3. QED
    BY <1>1, <2>1, <2>2
<1> HIDE DEF M
<1>6. QED
  BY <1>4, <1>5 DEF Begun, NextArea, a, size

LEMMA FirstSubareasBegun ==
  Begun(FirstSubareas[Len(AreaOrder)], Len(AreaOrder))
<1> DEFINE m == Len(AreaOrder)
           f == FirstSubareas
           Wrong == {k \in 0 .. m : ~ Begun(f[k], k)}
<1>1. m \in Nat
  BY OrderOfAreas
<1>2. MadeTo(m, f)
  <2>1. \E e : MadeTo(m, e)
    BY <1>1, MadeExists
  <2>2. f = CHOOSE e : MadeTo(m, e)
    BY DEF FirstSubareas, MadeTo, NextArea
  <2>3. QED
    BY <2>1, <2>2
<1>3. f = [n \in 0 .. m |-> IF n = 0 THEN NoArea ELSE NextArea(f[n - 1], n)]
  BY <1>2 DEF MadeTo
<1> HIDE DEF m, f
<1>4. SUFFICES ASSUME Wrong # {} PROVE FALSE
  BY <1>1 DEF m, f
<1>5. PICK k \in Wrong : \A j \in Wrong : k <= j
  <2>1. Wrong \subseteq Nat
    BY <1>1
  <2> HIDE DEF Wrong
  <2>2. QED
    BY <1>4, <2>1, LeastOf
<1>6. CASE k = 0
  BY <1>1, <1>3, <1>6, NoAreaBegun
<1>7. CASE k # 0
  <2>1. k \in 1 .. m /\ k - 1 \in 0 .. m /\ k - 1 < k
    BY <1>1, <1>7
  <2>2. Begun(f[k - 1], k - 1)
    BY <1>1, <1>5, <2>1
  <2>3. f[k] = NextArea(f[k - 1], k)
    BY <1>3, <1>7, <2>1
  <2>4. QED
    BY <2>1, <2>2, <2>3, NextBegun DEF m
<1>8. QED
  BY <1>6, <1>7

LEMMA FixlenStart == FixlenInit => FixlenInv
<1> SUFFICES ASSUME FixlenInit PROVE FixlenInv
  OBVIOUS
<1> DEFINE g == FirstSubareas[Len(AreaOrder)]
           h == StrhashArea(g)
<1>1. PICK L \in [Areas -> Seq(Nat \ {0})] : Good(g, NoneUsed, L)
  BY FirstSubareasBegun DEF Begun
<1>2. Good(h, NoneUsed, L)
  BY <1>1, Pushed, RoomAssumption DEF StrhashArea
<1>3. Now = h
  <2>1. segfree = h.segfree /\ subs = h.subs /\ freelist = h.freelist /\ link = h.link
    BY DEF FixlenInit
  <2>2. h = Seg(h.segfree, h.subs, h.freelist, h.link)
    BY DEF StrhashArea, Seg
  <2> HIDE DEF h
  <2>3. QED
    BY <2>1, <2>2 DEF Now
<1>4. inuse = NoneUsed /\ inuse \in [Areas -> SUBSET Nat]
  BY DEF FixlenInit, NoneUsed
<1> HIDE DEF h
<1>5. QED
  BY <1>2, <1>3, <1>4 DEF FixlenInv

-----------------------------------------------------------------------------
(* The steps                                                               *)

LEMMA ExtendedIsGood ==
  ASSUME NEW g, NEW used, NEW L \in [Areas -> Seq(Nat \ {0})], Good(g, used, L),
         NEW a \in Areas, g.freelist[a] = 0
  PROVE  \E M \in [Areas -> Seq(Nat \ {0})] : Good(ExtendFixedlenArea(g, a), used, M)
<1> DEFINE fit == FixlenFitting(g, a)
<1>1. CASE Len(g.subs[a]) < SubareaArray /\ fit # {}
  <2>1. fit \in SUBSET (MinimalSubarea .. SegmentSize)
    BY DEF FixlenFitting
  <2>2. MinimalSubarea \in Nat /\ SegmentSize \in Nat /\ Align \in Nat /\ ObjLength[a] \in Nat
        /\ MinimalSubarea >= ObjLength[a] + Align + MinObj
    BY RoomAssumption DEF Areas
  <2> HIDE DEF fit
  <2>3. Max(fit) \in MinimalSubarea .. SegmentSize
    <3>1. MinimalSubarea \in Int /\ SegmentSize \in Int
      BY <2>2
    <3>2. Max(fit) \in fit
      BY <1>1, <2>1, <3>1, MaxIsOne
    <3>3. QED
      BY <2>1, <3>2
  <2>4. Max(fit) \in Nat /\ Max(fit) >= ObjLength[a] + Align + MinObj
    BY <2>2, <2>3 DEF MinObj
  <2>5. L[a] = <<>>
    <3>1. ListIs(g, a, L[a])
      BY DEF Good, Chained
    <3>2. L[a] # <<>> => L[a][1] \in Nat \ {0}
      OBVIOUS
    <3>3. QED
      BY <3>1, <3>2 DEF ListIs
  <2>6. ExtendFixedlenArea(g, a) = WithSubarea(g, a, Max(fit))
    BY <1>1 DEF ExtendFixedlenArea, fit
  <2> DEFINE M == [L EXCEPT ![a] = FreshList(a, NewSub(g, Max(fit)))]
  <2>7. M \in [Areas -> Seq(Nat \ {0})] /\ Good(WithSubarea(g, a, Max(fit)), used, M)
    BY <2>4, <2>5, Extended
  <2> HIDE DEF M
  <2>8. QED
    BY <2>6, <2>7
<1>2. CASE ~ (Len(g.subs[a]) < SubareaArray /\ fit # {})
  BY <1>2 DEF ExtendFixedlenArea
<1>3. QED
  BY <1>1, <1>2

LEMMA AllocStep ==
  ASSUME FixlenInv, NEW a \in Areas, AllocFixlen(a)
  PROVE  FixlenInv'
<1> DEFINE g == IF freelist[a] = 0 THEN ExtendFixedlenArea(Now, a) ELSE Now
           cell == g.freelist[a]
           h == Seg(g.segfree, g.subs, [g.freelist EXCEPT ![a] = g.link[cell]],
                    Restrict(g.link, DOMAIN g.link \ {cell}))
           given == [inuse EXCEPT ![a] = @ \cup {cell}]
<1>1. cell # 0 /\ Now' = h /\ inuse' = given
  BY DEF AllocFixlen, Now
<1>2. inuse \in [Areas -> SUBSET Nat]
  BY DEF FixlenInv
<1>3. PICK M \in [Areas -> Seq(Nat \ {0})] : Good(g, inuse, M)
  <2>1. PICK L \in [Areas -> Seq(Nat \ {0})] : Good(Now, inuse, L)
    BY DEF FixlenInv
  <2>2. Now.freelist = freelist
    BY DEF Now, Seg
  <2>3. QED
    BY <2>1, <2>2, ExtendedIsGood
<1> HIDE DEF g, cell
<1>4. /\ [M EXCEPT ![a] = Tail(@)] \in [Areas -> Seq(Nat \ {0})]
      /\ Good(h, given, [M EXCEPT ![a] = Tail(@)])
      /\ cell \in CellsOf(g, a)
  <2>1. cell = g.freelist[a]
    BY DEF cell
  <2> HIDE DEF h, given
  <2>2. QED
    BY <1>1, <1>2, <1>3, <2>1, Popped DEF h, given
<1>5. cell \in Nat
  BY <1>3, <1>4, CellOfArea DEF Good
<1>6. given \in [Areas -> SUBSET Nat]
  BY <1>2, <1>5
<1> HIDE DEF h, given
<1>7. QED
  BY <1>1, <1>4, <1>6 DEF FixlenInv

LEMMA FreeStep ==
  ASSUME FixlenInv, NEW a \in Areas, NEW cell \in inuse[a], FreeFixlen(a, cell)
  PROVE  FixlenInv'
<1> DEFINE h == Seg(Now.segfree, Now.subs, [Now.freelist EXCEPT ![a] = cell],
                    Stored([c \in {cell} |-> Now.freelist[a]], Now.link))
           kept == [inuse EXCEPT ![a] = @ \ {cell}]
<1>1. Now' = h /\ inuse' = kept
  BY DEF FreeFixlen, Now, Seg
<1>2. PICK L \in [Areas -> Seq(Nat \ {0})] : Good(Now, inuse, L)
  BY DEF FixlenInv
<1>3. inuse \in [Areas -> SUBSET Nat] /\ kept \in [Areas -> SUBSET Nat]
  BY DEF FixlenInv
<1>4. /\ [L EXCEPT ![a] = <<cell>> \o @] \in [Areas -> Seq(Nat \ {0})]
      /\ Good(h, kept, [L EXCEPT ![a] = <<cell>> \o @])
  BY <1>2, <1>3, Freed
<1> HIDE DEF h, kept
<1>5. QED
  BY <1>1, <1>3, <1>4 DEF FixlenInv

LEMMA GrowStep ==
  ASSUME FixlenInv, OthersGrow
  PROVE  FixlenInv'
<1>1. PICK size \in {MinimalSubarea, HashArea} : segfree' = NextFree(Now, size)
  BY DEF OthersGrow
<1>2. size \in Nat
  BY <1>1, RoomAssumption
<1>3. PICK L \in [Areas -> Seq(Nat \ {0})] : Good(Now, inuse, L)
  BY DEF FixlenInv
<1> DEFINE h == Seg(NextFree(Now, size), Now.subs, Now.freelist, Now.link)
<1>4. Good(h, inuse, L)
  BY <1>2, <1>3, Pushed
<1>5. Now' = h /\ inuse' = inuse
  BY <1>1 DEF OthersGrow, Now, Seg
<1> HIDE DEF h
<1>6. QED
  BY <1>4, <1>5 DEF FixlenInv

LEMMA FixlenInvariant == FixlenSpec => []FixlenInv
<1>1. FixlenInit => FixlenInv
  BY FixlenStart
<1>2. FixlenInv /\ [FixlenNext]_fixlenVars => FixlenInv'
  <2> SUFFICES ASSUME FixlenInv, [FixlenNext]_fixlenVars PROVE FixlenInv'
    OBVIOUS
  <2>1. ASSUME NEW a \in Areas, AllocFixlen(a) PROVE FixlenInv'
    BY <2>1, AllocStep
  <2>2. ASSUME NEW a \in Areas, NEW cell \in inuse[a], FreeFixlen(a, cell) PROVE FixlenInv'
    BY <2>2, FreeStep
  <2>3. CASE OthersGrow
    BY <2>3, GrowStep
  <2>4. CASE UNCHANGED fixlenVars
    BY <2>4 DEF fixlenVars, FixlenInv, Now
  <2>5. QED
    BY <2>1, <2>2, <2>3, <2>4 DEF FixlenNext
<1>3. QED
  BY <1>1, <1>2, PTL DEF FixlenSpec

-----------------------------------------------------------------------------
(* What the invariant says of the free lists as they are read              *)

\* A walk along the links visits the list and ends.
LEMMA WalkIs ==
  ASSUME NEW a \in Areas, NEW l, ListIs(Now, a, l), Range(l) \subseteq DOMAIN link,
         0 \notin DOMAIN link, IsFiniteSet(DOMAIN link)
  PROVE  CellAt(a)[Cardinality(DOMAIN link)] = 0 /\ FreeCells(a) = Range(l)
<1> DEFINE N == Cardinality(DOMAIN link)
           h == [n \in 0 .. N |-> IF n < Len(l) THEN l[n + 1] ELSE 0]
           Walks(f) == f = [n \in 0 .. N |-> IF n = 0 THEN freelist[a] ELSE After(f[n - 1])]
<1>1. /\ l \in Seq(Nat \ {0}) /\ freelist[a] = IF l = <<>> THEN 0 ELSE l[1]
      /\ \A i \in 1 .. Len(l) : link[l[i]] = IF i = Len(l) THEN 0 ELSE l[i + 1]
      /\ \A i, j \in 1 .. Len(l) : l[i] = l[j] => i = j
  BY DEF ListIs, Now, Seg
<1>2. Len(l) \in Nat /\ DOMAIN l = 1 .. Len(l) /\ (l = <<>> <=> Len(l) = 0)
  BY <1>1
<1>3. N \in Nat /\ Len(l) <= N
  <2>1. l \in Injection(1 .. Len(l), DOMAIN link)
    <3>1. l \in [1 .. Len(l) -> DOMAIN link]
      <4>1. \A i \in 1 .. Len(l) : l[i] \in DOMAIN link
        BY <1>2 DEF Range
      <4>2. l = [i \in 1 .. Len(l) |-> l[i]]
        BY <1>1
      <4>3. QED
        BY <4>1, <4>2
    <3>2. QED
      BY <1>1, <1>2, <3>1 DEF Injection, IsInjective
  <2>2. Cardinality(1 .. Len(l)) <= Cardinality(DOMAIN link)
    BY <2>1, FS_Injection
  <2>3. Cardinality(1 .. Len(l)) = Len(l)
    <3>1. \A m \in Nat : Cardinality(1 .. m) = m
      BY FS_Interval
    <3>2. QED
      BY <1>2, <3>1
  <2>4. Cardinality(DOMAIN link) \in Nat
    BY FS_CardinalityType
  <2>5. QED
    BY <2>2, <2>3, <2>4
<1> HIDE DEF N
<1>4. ASSUME NEW n \in 1 .. N PROVE h[n] = After(h[n - 1])
  <2>1. n - 1 \in 0 .. N /\ n \in 0 .. N /\ (n - 1) + 1 = n
    BY <1>3
  <2>2. h[n - 1] = (IF n - 1 < Len(l) THEN l[n] ELSE 0) /\ h[n] = IF n < Len(l) THEN l[n + 1] ELSE 0
    BY <2>1
  <2> HIDE DEF h
  <2>3. CASE n - 1 < Len(l)
    <3>1. n \in 1 .. Len(l)
      BY <1>2, <1>3, <2>3
    <3>2. l[n] \in DOMAIN link
      BY <1>2, <3>1 DEF Range
    <3>3. After(h[n - 1]) = IF n = Len(l) THEN 0 ELSE l[n + 1]
      BY <1>1, <2>2, <2>3, <3>1, <3>2 DEF After
    <3>4. n = Len(l) <=> ~ (n < Len(l))
      <4>1. n \in Int /\ Len(l) \in Int /\ n <= Len(l)
        BY <1>2, <3>1
      <4>2. QED
        BY <4>1
    <3>5. QED
      BY <2>2, <3>3, <3>4
  <2>4. CASE ~ (n - 1 < Len(l))
    <3>1. ~ (n < Len(l))
      BY <1>2, <1>3, <2>4
    <3>2. QED
      BY <2>2, <2>4, <3>1 DEF After
  <2>5. QED
    BY <2>3, <2>4
<1>5. h[0] = freelist[a]
  <2>1. 0 \in 0 .. N /\ h[0] = IF 0 < Len(l) THEN l[1] ELSE 0
    BY <1>3
  <2>2. 0 < Len(l) <=> l # <<>>
    BY <1>2
  <2> HIDE DEF h
  <2>3. QED
    BY <1>1, <2>1, <2>2
<1>6. \E f : Walks(f)
  <2>1. \A n \in 0 .. N : h[n] = IF n = 0 THEN freelist[a] ELSE After(h[n - 1])
    <3> HIDE DEF h
    <3>1. \A n \in 0 .. N : n = 0 \/ n \in 1 .. N
      BY <1>3
    <3>2. QED
      BY <1>4, <1>5, <3>1
  <2>2. h = [n \in 0 .. N |-> h[n]]
    OBVIOUS
  <2> HIDE DEF h
  <2>3. Walks(h)
    BY <2>1, <2>2
  <2>4. QED
    BY <2>3
<1> DEFINE f == CellAt(a)
<1>7. Walks(f)
  <2>1. f = CHOOSE e : Walks(e)
    BY DEF CellAt, N
  <2> HIDE DEF Walks, f
  <2>2. QED
    BY <1>6, <2>1
<1>8. f = [n \in 0 .. N |-> IF n = 0 THEN freelist[a] ELSE After(f[n - 1])]
  BY <1>7
<1> HIDE DEF f, Walks
<1>9. \A n \in 0 .. N : f[n] = h[n]
  <2> DEFINE Wrong == {n \in 0 .. N : f[n] # h[n]}
  <2> SUFFICES ASSUME Wrong # {} PROVE FALSE
    OBVIOUS
  <2>1. PICK k \in Wrong : \A j \in Wrong : k <= j
    <3>1. Wrong \subseteq Nat
      BY <1>3
    <3> HIDE DEF Wrong
    <3>2. QED
      BY <3>1, LeastOf
  <2> HIDE DEF h
  <2>2. k # 0
    <3>1. 0 \in 0 .. N
      BY <1>3
    <3>2. f[0] = h[0]
      BY <1>5, <1>8, <3>1
    <3>3. QED
      BY <3>2
  <2>3. k \in 1 .. N /\ k - 1 \in 0 .. N /\ ~ (k <= k - 1)
    BY <1>3, <2>2
  <2>4. f[k - 1] = h[k - 1]
    BY <2>1, <2>3
  <2>5. f[k] = After(f[k - 1])
    BY <1>8, <2>2, <2>3
  <2>6. QED
    BY <1>4, <2>3, <2>4, <2>5
<1>10. f[N] = 0
  <2>1. N \in 0 .. N /\ ~ (N < Len(l))
    BY <1>2, <1>3
  <2>2. QED
    BY <1>9, <2>1
<1>11. Range(f) \ {0} = Range(l)
  <2>1. DOMAIN f = 0 .. N
    BY <1>8
  <2>2. ASSUME NEW c \in Range(l) PROVE c \in Range(f) \ {0}
    <3>1. PICK i \in 1 .. Len(l) : c = l[i]
      BY <1>2 DEF Range
    <3>2. i - 1 \in 0 .. N /\ i - 1 < Len(l) /\ (i - 1) + 1 = i
      BY <1>2, <1>3
    <3>3. f[i - 1] = c
      BY <1>9, <3>1, <3>2
    <3>4. c # 0
      BY <1>1, <3>1
    <3>5. QED
      BY <2>1, <3>2, <3>3, <3>4 DEF Range
  <2>3. ASSUME NEW c \in Range(f) \ {0} PROVE c \in Range(l)
    <3>1. PICK n \in 0 .. N : c = f[n]
      BY <2>1 DEF Range
    <3>2. c = IF n < Len(l) THEN l[n + 1] ELSE 0
      BY <1>9, <3>1
    <3>3. n < Len(l) => n + 1 \in 1 .. Len(l)
      BY <1>2, <1>3
    <3>4. QED
      BY <1>2, <3>2, <3>3 DEF Range
  <2>4. QED
    BY <2>2, <2>3
<1>12. QED
  BY <1>10, <1>11 DEF f, N, FreeCells

LEMMA CellsCounted ==
  ASSUME NEW a \in Areas, NEW s \in Sub,
         s.offset % Align = 0, s.size >= ObjLength[a] + Align + MinObj
  PROVE  Cardinality(Cells(a, s)) = Room(a, s)
<1> DEFINE l == FreshList(a, s)
           room == Room(a, s)
<1>1. room \in Nat \ {0}
  BY RoomOf
<1>2. /\ l \in Seq(Nat \ {0}) /\ Range(l) = Cells(a, s)
      /\ \A i, j \in 1 .. Len(l) : l[i] = l[j] => i = j
  BY FreshListIs
<1>3. DOMAIN l = 1 .. room /\ Len(l) = room /\ l = [i \in 1 .. room |-> l[i]]
  <2>1. DOMAIN l = 1 .. room /\ l = [i \in 1 .. room |-> l[i]]
    BY DEF FreshList
  <2> HIDE DEF l, room
  <2>2. QED
    BY <1>1, <1>2, <2>1
<1> HIDE DEF l, room
<1>4. l \in Bijection(1 .. room, Cells(a, s))
  <2>1. l \in [1 .. room -> Cells(a, s)]
    <3>1. \A i \in 1 .. room : l[i] \in Cells(a, s)
      BY <1>2, <1>3 DEF Range
    <3>2. QED
      BY <1>3, <3>1
  <2>2. \A c \in Cells(a, s) : \E i \in 1 .. room : l[i] = c
    BY <1>2, <1>3 DEF Range
  <2>3. QED
    BY <1>2, <1>3, <2>1, <2>2 DEF Bijection, Injection, Surjection, IsInjective
<1>5. IsFiniteSet(1 .. room) /\ Cardinality(1 .. room) = room
  BY <1>1, FS_Interval
<1>6. Cardinality(Cells(a, s)) = Cardinality(1 .. room)
  BY <1>4, <1>5, FS_Bijection DEF ExistsBijection
<1>7. QED
  BY <1>5, <1>6 DEF room

\* The cells of an area within one of its subareas are that subarea's.
LEMMA CellsWithin ==
  ASSUME NEW g \in State, Layout(g), NEW a \in Areas, NEW s \in Range(g.subs[a])
  PROVE  {c \in CellsOf(g, a) : c \in s.offset .. s.offset + s.size - 1} = Cells(a, s)
<1>1. \A t \in Range(g.subs[a]) :
        t \in Sub /\ t.offset % Align = 0 /\ t.size >= ObjLength[a] + Align + MinObj
  <2>1. \A t \in Range(g.subs[a]) : t \in Sub
    BY DEF State, Range
  <2>2. QED
    BY <2>1 DEF Layout
<1>2. ObjLength[a] \in Nat \ {0} /\ s.offset \in Nat /\ s.size \in Nat
  BY <1>1, RoomAssumption DEF Areas, Sub
<1>3. ASSUME NEW c \in Cells(a, s)
      PROVE  c \in CellsOf(g, a) /\ c \in s.offset .. s.offset + s.size - 1
  <2>1. c \in Nat \ {0} /\ s.offset <= c /\ c + ObjLength[a] <= s.offset + s.size
    BY <1>1, CellsInside
  <2> DEFINE len == ObjLength[a]
             from == s.offset
             size == s.size
  <2> HIDE DEF len, from, size
  <2>2. c \in from .. from + size - 1
    <3>1. len \in Nat \ {0} /\ from \in Nat /\ size \in Nat /\ c \in Nat
          /\ from <= c /\ c + len <= from + size
      BY <1>2, <2>1 DEF len, from, size
    <3>2. QED
      BY <3>1
  <2>3. QED
    BY <2>2 DEF CellsOf, from, size
<1>4. ASSUME NEW c \in CellsOf(g, a), c \in s.offset .. s.offset + s.size - 1
      PROVE  c \in Cells(a, s)
  <2>1. PICK t \in Range(g.subs[a]) : c \in Cells(a, t)
    BY DEF CellsOf
  <2>2. c \in Nat \ {0} /\ t.offset <= c /\ c + ObjLength[a] <= t.offset + t.size
    BY <1>1, <2>1, CellsInside
  <2>3. t.offset \in Nat /\ t.size \in Nat
    BY <1>1 DEF Sub
  <2>4. ~ Apart(s.offset, s.size, t.offset, t.size)
    BY <1>2, <1>4, <2>2, <2>3 DEF Apart
  <2>5. s = t
    BY <2>4 DEF Layout
  <2>6. QED
    BY <2>1, <2>5
<1>5. QED
  BY <1>3, <1>4

LEMMA FixlenExact == FixlenInv => FixlenCellsExact
<1> SUFFICES ASSUME FixlenInv PROVE FixlenCellsExact
  OBVIOUS
<1>1. PICK L \in [Areas -> Seq(Nat \ {0})] : Good(Now, inuse, L)
  BY DEF FixlenInv
<1>2. Now \in State /\ Layout(Now) /\ Now.link = link /\ Now.subs = subs /\ Now.segfree = segfree
  BY <1>1 DEF Good, Now, Seg
<1>3. DOMAIN link = UNION {Range(L[a]) : a \in Areas}
  BY <1>1, <1>2 DEF Good, Chained
<1>4. \A c \in DOMAIN link : c \in Nat \ {0} /\ c < segfree
  BY <1>1, <1>2, <1>3, FreeIsOfArea
<1>5. IsFiniteSet(DOMAIN link)
  <2>1. segfree \in Nat
    BY <1>2 DEF State
  <2>2. DOMAIN link \in SUBSET Nat /\ \A c \in DOMAIN link : c <= segfree
    BY <1>4, <2>1
  <2>3. QED
    BY <2>1, <2>2, FS_BoundedSetOfNaturals
<1>6. ASSUME NEW a \in Areas
      PROVE  CellAt(a)[Cardinality(DOMAIN link)] = 0 /\ FreeCells(a) = Range(L[a])
  <2>1. ListIs(Now, a, L[a]) /\ Range(L[a]) \subseteq DOMAIN link
    BY <1>1, <1>3 DEF Good, Chained
  <2>2. QED
    BY <1>4, <1>5, <2>1, WalkIs
<1>7. DOMAIN link = UNION {FreeCells(a) : a \in Areas}
  BY <1>3, <1>6
<1>8. ASSUME NEW a \in Areas
      PROVE  FreeCells(a) \cap inuse[a] = {} /\ FreeCells(a) \cup inuse[a] = CellsOf(Now, a)
  BY <1>1, <1>6 DEF Good, Owned
<1>9. ASSUME NEW a \in Areas, NEW s \in Range(subs[a])
      PROVE  Cardinality({c \in FreeCells(a) \cup inuse[a] : c \in s.offset .. s.offset + s.size - 1})
               = Room(a, s)
  <2>1. s \in Range(Now.subs[a])
    BY <1>2
  <2>2. s \in Sub /\ s.offset % Align = 0 /\ s.size >= ObjLength[a] + Align + MinObj
    <3>1. s \in Sub
      BY <1>2, <2>1 DEF State, Range
    <3>2. QED
      BY <1>2, <2>1, <3>1 DEF Layout
  <2>3. {c \in CellsOf(Now, a) : c \in s.offset .. s.offset + s.size - 1} = Cells(a, s)
    BY <1>2, <2>1, CellsWithin
  <2>4. Cardinality(Cells(a, s)) = Room(a, s)
    BY <2>2, CellsCounted
  <2>5. QED
    BY <1>8, <2>3, <2>4
<1>10. QED
  BY <1>6, <1>7, <1>8, <1>9 DEF FixlenCellsExact

\* Whatever the areas allocate, free and extend, and whatever else is taken
\* from the segment, their free lists end and every cell that fits in a subarea
\* is on its area's list or given out, and not both (wg_alloc_fixlen_object,
\* extend_fixedlen_area, make_subarea_freelist and the functions that free).
THEOREM NoCellIsLost == FixlenSpec => []FixlenCellsExact
<1>1. FixlenInv => FixlenCellsExact
  BY FixlenExact
<1>2. QED
  BY <1>1, FixlenInvariant, PTL

-----------------------------------------------------------------------------
(* The areas implement the heap of objects                                 *)

\* An object is as long as its area says, whichever area that is found to be.
LEMMA LengthInUse ==
  ASSUME NEW g, NEW used \in [Areas -> SUBSET Nat], NEW L, Good(g, used, L),
         NEW a \in Areas, NEW c \in used[a]
  PROVE  (CHOOSE b \in Areas : c \in used[b]) = a
<1>1. \A b \in Areas : c \in used[b] => b = a
  BY FreeIsOfArea, AreasApart DEF Good
<1>2. QED
  BY <1>1

UsedOf(used) ==
  [c \in UNION {used[a] : a \in Areas} |-> ObjLength[CHOOSE a \in Areas : c \in used[a]]]

LEMMA UsedIs ==
  ASSUME NEW g, NEW used \in [Areas -> SUBSET Nat], NEW L, Good(g, used, L)
  PROVE  /\ DOMAIN UsedOf(used) = UNION {used[a] : a \in Areas}
         /\ \A a \in Areas : \A c \in used[a] : UsedOf(used)[c] = ObjLength[a]
  BY LengthInUse DEF UsedOf

LEMMA AllocAllocates ==
  ASSUME FixlenInv, FixlenInv', NEW a \in Areas, AllocFixlen(a)
  PROVE  CellHeap!Next
<1> DEFINE g == IF freelist[a] = 0 THEN ExtendFixedlenArea(Now, a) ELSE Now
           cell == g.freelist[a]
           now == UsedOf(inuse)
           next == UsedOf(inuse')
<1>1. cell # 0 /\ inuse' = [inuse EXCEPT ![a] = @ \cup {cell}]
  BY DEF AllocFixlen
<1>2. inuse \in [Areas -> SUBSET Nat] /\ inuse' \in [Areas -> SUBSET Nat]
  BY DEF FixlenInv
<1>3. PICK L : Good(Now, inuse, L)
  BY DEF FixlenInv
<1>4. PICK M : Good(Now', inuse', M)
  BY DEF FixlenInv
<1>5. PICK K \in [Areas -> Seq(Nat \ {0})] : Good(g, inuse, K)
  <2>1. PICK J \in [Areas -> Seq(Nat \ {0})] : Good(Now, inuse, J)
    BY DEF FixlenInv
  <2>2. Now.freelist = freelist
    BY DEF Now, Seg
  <2>3. QED
    BY <2>1, <2>2, ExtendedIsGood
<1> HIDE DEF g
<1>6. cell \in CellsOf(g, a) /\ cell \notin inuse[a]
  BY <1>1, <1>2, <1>5, Popped
<1> HIDE DEF cell, now, next
<1>7. InUse = now /\ InUse' = next
  BY DEF InUse, UsedOf, now, next
<1>8. /\ DOMAIN now = UNION {inuse[b] : b \in Areas}
      /\ \A b \in Areas : \A c \in inuse[b] : now[c] = ObjLength[b]
  BY <1>2, <1>3, UsedIs DEF now
<1>9. /\ DOMAIN next = UNION {inuse'[b] : b \in Areas}
      /\ \A b \in Areas : \A c \in inuse'[b] : next[c] = ObjLength[b]
  BY <1>2, <1>4, UsedIs DEF next
<1>10. inuse'[a] = inuse[a] \cup {cell} /\ \A b \in Areas \ {a} : inuse'[b] = inuse[b]
  BY <1>1, <1>2
<1>11. \A b \in Areas : \A c \in inuse[b] :
         c \in Nat /\ c # cell /\ Apart(cell, ObjLength[a], c, ObjLength[b])
  <2>1. \A b \in Areas : \A c \in inuse[b] : c \in CellsOf(g, b)
    BY <1>5, FreeIsOfArea
  <2>2. g \in State /\ Layout(g)
    BY <1>5 DEF Good
  <2>3. QED
    BY <1>2, <1>6, <2>1, <2>2, AreasApart
<1>12. cell \in Nat
  <2>1. g \in State /\ Layout(g)
    BY <1>5 DEF Good
  <2>2. QED
    BY <1>6, <2>1, CellOfArea
<1>13. cell \notin DOMAIN now /\ cell \in DOMAIN next /\ next[cell] = ObjLength[a]
       /\ DOMAIN next = DOMAIN now \cup {cell}
  <2>1. \A b \in Areas : cell \notin inuse[b]
    BY <1>11
  <2>2. \A c : (\E b \in Areas : c \in inuse'[b]) <=> c = cell \/ \E b \in Areas : c \in inuse[b]
    BY <1>10
  <2>3. \A c : c \in DOMAIN next <=> c = cell \/ c \in DOMAIN now
    <3>1. \A c : c \in DOMAIN next <=> \E b \in Areas : c \in inuse'[b]
      BY <1>9
    <3>2. \A c : c \in DOMAIN now <=> \E b \in Areas : c \in inuse[b]
      BY <1>8
    <3>3. QED
      BY <2>2, <3>1, <3>2
  <2>4. DOMAIN next = DOMAIN now \cup {cell}
    BY <2>3
  <2>5. cell \notin DOMAIN now
    BY <1>8, <2>1
  <2>6. next[cell] = ObjLength[a]
    BY <1>9, <1>10
  <2>7. QED
    BY <2>4, <2>5, <2>6
<1>14. \A c \in DOMAIN now : next[c] = now[c]
  BY <1>8, <1>9, <1>10
<1>15. \A b \in Areas : ObjLength[b] \in Nat \ {0}
  BY RoomAssumption DEF Areas
<1>16. \A c \in DOMAIN now :
         CellHeap!Extent(cell, ObjLength[a]) \cap CellHeap!Extent(c, now[c]) = {}
  <2> SUFFICES ASSUME NEW c \in DOMAIN now
               PROVE  CellHeap!Extent(cell, ObjLength[a]) \cap CellHeap!Extent(c, now[c]) = {}
    OBVIOUS
  <2>1. PICK b \in Areas : c \in inuse[b]
    BY <1>8
  <2>2. now[c] = ObjLength[b] /\ c \in Nat /\ Apart(cell, ObjLength[a], c, ObjLength[b])
    BY <1>8, <1>11, <2>1
  <2>3. QED
    BY <1>12, <1>15, <2>2 DEF CellHeap!Extent, Apart
<1>17. next = [c \in DOMAIN now \cup {cell} |-> IF c = cell THEN ObjLength[a] ELSE now[c]]
  <2>1. next = [c \in DOMAIN next |-> next[c]]
    BY DEF next, UsedOf
  <2>2. QED
    BY <1>13, <1>14, <2>1
<1>18. CellHeap!Allocate(ObjLength[a], cell)
  BY <1>7, <1>13, <1>16, <1>17 DEF CellHeap!Allocate
<1>19. cell \in DOMAIN InUse' \ DOMAIN InUse /\ InUse'[cell] = ObjLength[a]
       /\ ObjLength[a] \in {ObjLength[b] : b \in Areas}
  BY <1>7, <1>13
<1>20. QED
  BY <1>18, <1>19 DEF CellHeap!Next

LEMMA FreeReleases ==
  ASSUME FixlenInv, FixlenInv', NEW a \in Areas, NEW cell \in inuse[a], FreeFixlen(a, cell)
  PROVE  CellHeap!Next
<1> DEFINE now == UsedOf(inuse)
           next == UsedOf(inuse')
<1>1. inuse' = [inuse EXCEPT ![a] = @ \ {cell}]
  BY DEF FreeFixlen
<1>2. inuse \in [Areas -> SUBSET Nat] /\ inuse' \in [Areas -> SUBSET Nat]
  BY DEF FixlenInv
<1>3. PICK L : Good(Now, inuse, L)
  BY DEF FixlenInv
<1>4. PICK M : Good(Now', inuse', M)
  BY DEF FixlenInv
<1>5. InUse = now /\ InUse' = next
  BY DEF InUse, UsedOf
<1> HIDE DEF now, next
<1>6. /\ DOMAIN now = UNION {inuse[b] : b \in Areas}
      /\ \A b \in Areas : \A c \in inuse[b] : now[c] = ObjLength[b]
  BY <1>2, <1>3, UsedIs DEF now
<1>7. /\ DOMAIN next = UNION {inuse'[b] : b \in Areas}
      /\ \A b \in Areas : \A c \in inuse'[b] : next[c] = ObjLength[b]
  BY <1>2, <1>4, UsedIs DEF next
<1>8. inuse'[a] = inuse[a] \ {cell} /\ \A b \in Areas \ {a} : inuse'[b] = inuse[b]
  BY <1>1, <1>2
<1>9. \A b \in Areas \ {a} : cell \notin inuse[b]
  BY <1>3, FreeIsOfArea, AreasApart DEF Good
<1>10. DOMAIN next = DOMAIN now \ {cell} /\ cell \in DOMAIN now
  BY <1>6, <1>7, <1>8, <1>9
<1>11. \A c \in DOMAIN next : next[c] = now[c]
  BY <1>6, <1>7, <1>8
<1>12. next = [c \in DOMAIN now \ {cell} |-> now[c]]
  <2>1. next = [c \in DOMAIN next |-> next[c]]
    BY DEF next, UsedOf
  <2>2. QED
    BY <1>10, <1>11, <2>1
<1>13. CellHeap!Release(cell)
  BY <1>5, <1>10, <1>12 DEF CellHeap!Release, CellHeap!Restrict
<1>14. QED
  BY <1>5, <1>10, <1>13 DEF CellHeap!Next

\* Every cell that is given out is an object of its area's length, apart from
\* the objects of all areas, and stays where it is until it is freed.
THEOREM CellsAreObjects == FixlenSpec => FixlenImplementsObjectHeap
<1>1. FixlenInit => CellHeap!Init
  <2> SUFFICES ASSUME FixlenInit PROVE InUse = <<>>
    BY DEF CellHeap!Init
  <2>1. UNION {inuse[a] : a \in Areas} = {}
    BY DEF FixlenInit
  <2>2. QED
    BY <2>1 DEF InUse
<1>2. FixlenInv /\ FixlenInv' /\ [FixlenNext]_fixlenVars => [CellHeap!Next]_InUse
  <2> SUFFICES ASSUME FixlenInv, FixlenInv', [FixlenNext]_fixlenVars
               PROVE  [CellHeap!Next]_InUse
    OBVIOUS
  <2>1. ASSUME NEW a \in Areas, AllocFixlen(a) PROVE CellHeap!Next
    BY <2>1, AllocAllocates
  <2>2. ASSUME NEW a \in Areas, NEW cell \in inuse[a], FreeFixlen(a, cell) PROVE CellHeap!Next
    BY <2>2, FreeReleases
  <2>3. ASSUME inuse' = inuse PROVE InUse' = InUse
    BY <2>3 DEF InUse
  <2>4. CASE OthersGrow \/ UNCHANGED fixlenVars
    BY <2>3, <2>4 DEF OthersGrow, fixlenVars
  <2>5. QED
    BY <2>1, <2>2, <2>4 DEF FixlenNext
<1>3. QED
  BY <1>1, <1>2, FixlenInvariant, PTL DEF FixlenSpec, FixlenImplementsObjectHeap, CellHeap!Spec
=============================================================================
