-------------------------------- MODULE TTree --------------------------------
(***************************************************************************)
(* A T-tree index of WhiteDB (dbindex.c) and the range queries that read it*)
(* (dbquery.c): a balanced binary tree whose nodes hold sorted arrays of   *)
(* rows and are chained in key order.  The code writes every algorithm     *)
(* twice, mirrored; here it is written once for a side.  Node 0 is the null*)
(* offset.  Calls run one at a time, under the lock of the database.       *)
(* A definition named X_slip is X with a plausible slip, used by no        *)
(* specification; it serves to test the properties.                        *)
(***************************************************************************)
EXTENDS Integers, Sequences, SequencesExt, FiniteSetsExt

CONSTANTS Rows,       \* the records, in the order in which a scan meets them
          Key(_),     \* the value a record has in the indexed column
          NodeSize,   \* WG_TNODE_ARRAY_SIZE
          Underflow,  \* an internal node with fewer elements borrows one
          MaxNodes    \* T-nodes the segment has room for

ASSUME TreeAssumption ==
  /\ Rows \subseteq Nat /\ \A r \in Rows : Key(r) \in Nat
  /\ NodeSize \in Nat \ {0, 1} /\ Underflow \in 1 .. NodeSize
  /\ MaxNodes \in Nat \ {0}

VARIABLES table,    \* the records of the database
          t,        \* the index: its nodes, root, and the ends of the chain
          missing   \* records that a failed insertion left out of the index

treeVars == <<table, t, missing>>

Null == 0
Sides == {"left", "right"}
Opp(s) == IF s = "left" THEN "right" ELSE "left"
Illegal == -1   \* WG_ILLEGAL, the bounds of an empty root: below every value
NodeIds == 1 .. MaxNodes
None == [s \in Sides |-> Null]

\* struct wg_tnode: bound is current_min and current_max, link the
\* predecessor and successor, vals the rows in use of array_of_values.
FreeNode == [parent |-> Null, child |-> None, height |-> None,
             bound |-> [s \in Sides |-> Illegal], vals |-> <<>>, link |-> None]
NoIndex == [node |-> [x \in NodeIds |-> FreeNode], used |-> {}, root |-> Null, end |-> None]

EndSlot(s, vals) == IF s = "left" THEN vals[1] ELSE vals[Len(vals)]
SideOf(n, p, x) == IF n[p].child["left"] = x THEN "left" ELSE "right"
Depth(n, x) == 1 + Max(Range(n[x].height))
IsLeaf(n, x) == n[x].child = None
IsHalfLeaf(n, x) == \E s \in Sides : n[x].child[s] = Null /\ n[x].child[Opp(s)] # Null

\* Puts row at the side s of the slots.
AtSide(s, row, vals) == IF s = "left" THEN <<row>> \o vals ELSE vals \o <<row>>
\* The slots of a to the side s of those of b.
Join(s, a, b) == IF s = "left" THEN a \o b ELSE b \o a

-----------------------------------------------------------------------------
(* Rotations *)

\* The s-child of p becomes c, of height h.
SetChild(n, p, s, c, h) ==
  LET m == [n EXCEPT ![p].child[s] = c, ![p].height[s] = h]
  IN IF c = Null THEN m ELSE [m EXCEPT ![c].parent = p]

\* LL_CASE for the side left, RR_CASE for the side right.
SingleRotation(n, a, s) ==
  LET b == n[a].child[s]
      m == SetChild(n, a, s, n[b].child[Opp(s)], n[b].height[Opp(s)])
  IN SetChild(m, b, Opp(s), a, Depth(m, a))

\* The "special" rotation: a leaf with one element that is to become an
\* internal node takes over all but one of the elements of a full node b.
\* "special" tells whether it applies, on the nodes before the rotation.
FillFrom_slip(n, e, b, s) ==
  LET rest == IF s = "left" THEN Tail(n[b].vals) ELSE Front(n[b].vals)
      vals == Join(s, rest, n[e].vals)
  IN [n EXCEPT ![e].vals = vals, ![b].vals = <<EndSlot(s, n[b].vals)>>,
               ![b].bound[Opp(s)] = n[b].bound[s]]
FillFrom(n, e, b, s) ==
  LET rest == IF s = "left" THEN Tail(n[b].vals) ELSE Front(n[b].vals)
      vals == Join(s, rest, n[e].vals)
  IN [n EXCEPT ![e].vals = vals, ![e].bound[s] = Key(EndSlot(s, vals)),
               ![b].vals = <<EndSlot(s, n[b].vals)>>, ![b].bound[Opp(s)] = n[b].bound[s]]

\* LR_CASE for the side left, RL_CASE for the side right.
DoubleRotation(n, a, s) ==
  LET b == n[a].child[s]
      e == n[b].child[Opp(s)]
      special == Len(n[e].vals) = 1 /\ IsLeaf(n, e) /\ Len(n[b].vals) = NodeSize
      n1 == SetChild(n, a, s, n[e].child[Opp(s)], n[e].height[Opp(s)])
      n2 == SetChild(n1, b, Opp(s), n[e].child[s], n[e].height[s])
      n3 == IF special THEN FillFrom(n2, e, b, s) ELSE n2
      n4 == SetChild(n3, e, s, b, Depth(n3, b))
  IN SetChild(n4, e, Opp(s), a, Depth(n4, a))

\* db_which_branch_causes_overweight, db_rotate_ttree
Rotate(tr, a) ==
  LET n == tr.node
      s == IF n[a].height["left"] > n[a].height["right"] THEN "left" ELSE "right"
      b == n[a].child[s]
      single == n[b].height[s] >= n[b].height[Opp(s)]
      r == IF single THEN b ELSE n[b].child[Opp(s)]
      m == IF single THEN SingleRotation(n, a, s) ELSE DoubleRotation(n, a, s)
      g == n[a].parent
  IN IF g = Null THEN [tr EXCEPT !.node = [m EXCEPT ![r].parent = Null], !.root = r]
     ELSE [tr EXCEPT !.node = SetChild(m, g, SideOf(n, g, a), r, Depth(m, r))]

Unbalanced(n, x) == n[x].height["left"] - n[x].height["right"] \notin -1 .. 1

-----------------------------------------------------------------------------
(* Search *)

\* The key k is past the bound b in the direction of the side s.
Past(s, k, b) == IF s = "left" THEN k < b ELSE k > b

\* wg_search_ttree_leftmost and wg_search_ttree_rightmost: the node where the
\* search for the s-most occurrence of k ends, with "in" if it bounds k, else
\* with the side of the dead end.  One bound is compared in each node; cand is
\* the node whose other bound is still to be examined.
RECURSIVE Search(_, _, _, _, _)
Search(n, x, k, s, cand) ==
  LET o == Opp(s) IN
  CASE Past(o, k, n[x].bound[o]) /\ n[x].child[o] # Null -> Search(n, n[x].child[o], k, s, cand)
    [] ~Past(o, k, n[x].bound[o]) /\ n[x].child[s] # Null -> Search(n, n[x].child[s], k, s, x)
    [] Past(o, k, n[x].bound[o]) /\ n[x].child[o] = Null ->
         IF cand # Null /\ ~Past(s, k, n[cand].bound[s]) THEN <<cand, "in">> ELSE <<x, o>>
    [] OTHER -> IF Past(s, k, n[x].bound[s]) THEN <<x, s>> ELSE <<x, "in">>

Find(tr, k, s) == Search(tr.node, tr.root, k, s, Null)

-----------------------------------------------------------------------------
(* The chain of nodes in key order *)

\* Makes y the s-neighbour of x; at the end of the chain, y is the end node.
ChainTo(tr, x, s, y) ==
  [tr EXCEPT !.node = [z \in NodeIds |->
                         CASE z = x -> [@[x] EXCEPT !.link[s] = y]
                           [] z = y -> [@[y] EXCEPT !.link[Opp(s)] = x]
                           [] OTHER -> @[z]],
             !.end[Opp(s)] = IF x = Null THEN y ELSE @,
             !.end[s] = IF y = Null THEN x ELSE @]

\* Takes x out of the chain.
Unchain(tr, x) == ChainTo(tr, tr.node[x].link["left"], "right", tr.node[x].link["right"])

\* Frees the T-node (wg_free_tnode).
FreeTnode(tr, x) == [tr EXCEPT !.node[x] = FreeNode, !.used = @ \ {x}]

NodeLeft(tr) == tr.used # NodeIds

\* A new leaf with one row as the s-child of p, chained next to p.
AddLeaf_slip(tr, p, s, row) ==
  LET x == Min(NodeIds \ tr.used)
      leaf == [FreeNode EXCEPT !.vals = <<row>>, !.bound = [z \in Sides |-> Key(row)]]
      tr1 == [tr EXCEPT !.node = SetChild([@ EXCEPT ![x] = leaf], p, s, x, @[p].height[s]),
                        !.used = @ \cup {x}]
  IN ChainTo(tr1, p, s, x)
AddLeaf(tr, p, s, row) ==
  LET x == Min(NodeIds \ tr.used)
      leaf == [FreeNode EXCEPT !.vals = <<row>>, !.bound = [z \in Sides |-> Key(row)]]
      tr1 == [tr EXCEPT !.node = SetChild([@ EXCEPT ![x] = leaf], p, s, x, @[p].height[s]),
                        !.used = @ \cup {x}]
      tr2 == ChainTo(tr1, x, s, tr.node[p].link[s])
  IN ChainTo(tr2, p, s, x)

\* The loop of ttree_add_row: heights grow from the new leaf c towards the
\* root until a node gets even, or is rotated.
RECURSIVE GrowHeights(_, _)
GrowHeights(tr, c) ==
  LET p == tr.node[c].parent IN
  IF p = Null THEN tr
  ELSE LET tr1 == [tr EXCEPT !.node[p].height[SideOf(tr.node, p, c)] = @ + 1]
           h == tr1.node[p].height
       IN CASE h["left"] = h["right"] -> tr1
            [] Unbalanced(tr1.node, p) -> Rotate(tr1, p)
            [] OTHER -> GrowHeights(tr1, p)

\* The loop of ttree_remove_row: every node from p to the root is rebalanced
\* and its parent told of its height.
RECURSIVE FixHeights(_, _)
FixHeights(tr, p) ==
  LET g == tr.node[p].parent
      tr1 == CASE Unbalanced(tr.node, p) -> Rotate(tr, p)
               [] g # Null /\ ~Unbalanced(tr.node, p) ->
                    [tr EXCEPT !.node[g].height[SideOf(tr.node, g, p)] = Depth(tr.node, p)]
               [] OTHER -> tr
      up == tr1.node[p].parent
  IN IF up = Null THEN tr1 ELSE FixHeights(tr1, up)

-----------------------------------------------------------------------------
(* ttree_add_row: a result [tree, lost], lost the rows it leaves out *)

\* The slot of a new row: before the elements that are not smaller in a node
\* with room, behind those that are not greater in a full one.
PlaceFirst(vals, row) ==
  LET i == 1 + Cardinality({j \in DOMAIN vals : Key(vals[j]) < Key(row)})
  IN InsertAt(vals, i, row)
PlaceLast(vals, row) ==
  LET i == 1 + Cardinality({j \in DOMAIN vals : Key(vals[j]) <= Key(row)})
  IN InsertAt(vals, i, row)

\* Node x gets the slots vals, after the row was put into one of them: the
\* bound of a side where the row is now the end slot is the row's.
Fill(tr, x, vals, row) ==
  [tr EXCEPT !.node[x].vals = vals,
             !.node[x].bound = [s \in Sides |-> IF EndSlot(s, vals) = row THEN Key(row) ELSE @[s]]]

\* A new leaf for the row, if a T-node can be allocated.
GrowLeaf(tr, p, s, row) ==
  IF NodeLeft(tr)
  THEN [tree |-> LET x == Min(NodeIds \ tr.used) IN GrowHeights(AddLeaf(tr, p, s, row), x),
        lost |-> {}]
  ELSE [tree |-> tr, lost |-> {row}]

\* The minimum of a full bounding node x makes place for the row; it moves to
\* the greatest lower bound node, or to a new leaf.
ReplaceMin(tr, x, row) ==
  LET least == Head(tr.node[x].vals)
      slots == PlaceLast(Tail(tr.node[x].vals), row)
      tr1 == [Fill(tr, x, slots, row) EXCEPT !.node[x].bound["left"] = Key(Head(slots))]
      glb == IF tr.node[x].child["left"] = Null THEN x ELSE tr.node[x].link["left"]
  IN IF Len(tr1.node[glb].vals) < NodeSize
     THEN [tree |-> [tr1 EXCEPT !.node[glb].vals = Append(@, least),
                                !.node[glb].bound["right"] = Key(least)],
           lost |-> {}]
     ELSE GrowLeaf(tr1, glb, IF glb = x THEN "left" ELSE "right", least)

AddRow(tr, row) ==
  LET f == Find(tr, Key(row), "right")
      x == f[1]
      vals == tr.node[x].vals
  IN CASE f[2] = "in" /\ Len(vals) < NodeSize ->
            [tree |-> Fill(tr, x, PlaceFirst(vals, row), row), lost |-> {}]
       [] f[2] = "in" /\ Len(vals) >= NodeSize -> ReplaceMin(tr, x, row)
       [] f[2] # "in" /\ Len(vals) < NodeSize ->
            [tree |-> Fill(tr, x, AtSide(f[2], row, vals), row), lost |-> {}]
       [] OTHER -> GrowLeaf(tr, x, f[2], row)

-----------------------------------------------------------------------------
(* ttree_remove_row *)

\* The node with the row: the search starts in the leftmost node that bounds
\* its key and follows the chain while the key is not below the next node.
Locate_slip(n, x, row) == IF row \in Range(n[x].vals) THEN x ELSE Null
RECURSIVE Locate(_, _, _)
Locate(n, x, row) ==
  IF row \in Range(n[x].vals) THEN x
  ELSE LET y == n[x].link["right"] IN
       IF y = Null \/ n[y].bound["left"] > Key(row) THEN Null ELSE Locate(n, y, row)

\* Node x loses the element at index i.
LoseSlot(n, x, i) ==
  LET vals == RemoveAt(n[x].vals, i)
      b == n[x].bound
      bound == CASE vals = <<>> -> b
                 [] vals # <<>> /\ i > Len(vals) -> [b EXCEPT !["right"] = Key(Last(vals))]
                 [] vals # <<>> /\ i = 1 -> [b EXCEPT !["left"] = Key(Head(vals))]
                 [] OTHER -> b
  IN [n EXCEPT ![x].vals = vals, ![x].bound = bound]

\* Internal node x borrows its greatest lower bound from the node y.
Borrow(n, x, y) ==
  LET row == Last(n[y].vals)
      m == [n EXCEPT ![x].vals = <<row>> \o @, ![x].bound["left"] = n[y].bound["right"],
                     ![x].bound["right"] = IF n[x].vals = <<>> THEN n[y].bound["right"] ELSE @]
  IN LoseSlot(m, y, Len(n[y].vals))

\* Deletes the empty leaf x; an empty root stays.
DropLeaf_slip(tr, x) ==
  LET p == tr.node[x].parent
      tr1 == Unchain(tr, x)
  IN FreeTnode(IF p = Null THEN tr1
               ELSE [tr1 EXCEPT !.node = SetChild(@, p, SideOf(@, p, x), Null, 0)], x)
DropLeaf(tr, x) ==
  LET p == tr.node[x].parent
      tr1 == Unchain(tr, x)
  IN IF p = Null
     THEN [tr1 EXCEPT !.node[x].bound = FreeNode.bound, !.end = [s \in Sides |-> x]]
     ELSE FreeTnode([tr1 EXCEPT !.node = SetChild(@, p, SideOf(@, p, x), Null, 0)], x)

\* Half-leaf x takes the elements of its only child, a leaf, if they fit.
MergeChild(tr, x) ==
  LET n == tr.node
      s == IF n[x].child["left"] # Null THEN "left" ELSE "right"
      c == n[x].child[s]
      p == n[x].parent
      m == [n EXCEPT ![x].vals = Join(s, n[c].vals, @), ![x].child[s] = Null, ![x].height[s] = 0,
                     ![x].bound = [z \in Sides |->
                       IF z = s \/ n[x].vals = <<>> THEN n[c].bound[z] ELSE @[z]]]
      m1 == IF p = Null THEN m ELSE [m EXCEPT ![p].height[SideOf(n, p, x)] = 1]
  IN FreeTnode(Unchain([tr EXCEPT !.node = m1], c), c)
\* A child that is no leaf is an error (-4), which leaves the heights as they
\* are; in a balanced tree the child of a half-leaf is a leaf.
Mergeable(n, x) ==
  /\ IsHalfLeaf(n, x)
  /\ \E s \in Sides : LET c == n[x].child[s] IN
       c # Null /\ IsLeaf(n, c) /\ Len(n[x].vals) + Len(n[c].vals) <= NodeSize

\* The tree without the row, which is in node x; y is the node that really
\* loses an element.
RemoveRow_slip(tr, x, row) ==
  LET i == CHOOSE j \in DOMAIN tr.node[x].vals : tr.node[x].vals[j] = row
      n1 == LoseSlot(tr.node, x, i)
      borrows == Len(n1[x].vals) < Underflow /\ \A s \in Sides : n1[x].child[s] # Null
      y == IF borrows THEN n1[x].link["left"] ELSE x
      n == IF borrows THEN Borrow(n1, x, y) ELSE n1
      tr1 == [tr EXCEPT !.node = n]
      tr2 == CASE n[y].vals = <<>> /\ IsLeaf(n, y) -> DropLeaf(tr1, y)
               [] Mergeable(n, y) -> MergeChild(tr1, y)
               [] OTHER -> tr1
  IN tr2
RemoveRow(tr, x, row) ==
  LET i == CHOOSE j \in DOMAIN tr.node[x].vals : tr.node[x].vals[j] = row
      n1 == LoseSlot(tr.node, x, i)
      borrows == Len(n1[x].vals) < Underflow /\ \A s \in Sides : n1[x].child[s] # Null
      y == IF borrows THEN n1[x].link["left"] ELSE x
      n == IF borrows THEN Borrow(n1, x, y) ELSE n1
      tr1 == [tr EXCEPT !.node = n]
      p == n[y].parent
      tr2 == CASE n[y].vals = <<>> /\ IsLeaf(n, y) -> DropLeaf(tr1, y)
               [] Mergeable(n, y) -> MergeChild(tr1, y)
               [] OTHER -> tr1
  IN IF p # Null /\ tr2 # tr1 THEN FixHeights(tr2, p) ELSE tr2

-----------------------------------------------------------------------------
(* Calls *)

\* create_ttree_index: an empty root, and then every record of the database.
EmptyTree ==
  [NoIndex EXCEPT !.used = {1}, !.root = 1, !.end = [s \in Sides |-> 1]]
AddAll(rows) ==
  FoldLeft(LAMBDA r, row : LET a == AddRow(r.tree, row)
                           IN [tree |-> a.tree, lost |-> r.lost \cup a.lost],
           [tree |-> EmptyTree, lost |-> {}], SetToSortSeq(rows, <))

\* An empty table, without an index or with one.
TreeInit == table = {} /\ t \in {NoIndex, EmptyTree} /\ missing = {}

\* A new record (wg_index_add_rec): it stays in the database even if the
\* index could not take every row.
Add(row) ==
  /\ row \notin table
  /\ table' = table \cup {row}
  /\ IF t.root = Null THEN UNCHANGED <<t, missing>>
     ELSE LET a == AddRow(t, row) IN t' = a.tree /\ missing' = missing \cup a.lost

\* A deleted record (wg_delete_record, wg_index_del_rec).  A record whose key
\* has no bounding node passes; one that is not in its node is an error, and
\* the record stays.
DropRow(row) ==
  /\ row \in table
  /\ IF t.root = Null \/ Find(t, Key(row), "left")[2] # "in"
     THEN table' = table \ {row} /\ missing' = missing \ {row} /\ UNCHANGED t
     ELSE LET x == Locate(t.node, Find(t, Key(row), "left")[1], row) IN
          IF x = Null THEN UNCHANGED treeVars
          ELSE table' = table \ {row} /\ t' = RemoveRow(t, x, row) /\ UNCHANGED missing

CreateIndex ==
  /\ t.root = Null
  /\ LET r == AddAll(table) IN t' = r.tree /\ missing' = r.lost
  /\ UNCHANGED table

\* drop_ttree_index frees the nodes along the chain.
RECURSIVE FreeChain(_, _)
FreeChain(tr, x) ==
  IF x = Null THEN tr ELSE FreeChain(FreeTnode(tr, x), tr.node[x].link["right"])

DropIndex ==
  /\ t.root # Null
  /\ t' = [FreeChain(t, t.end["left"]) EXCEPT !.root = Null, !.end = None]
  /\ missing' = {}
  /\ UNCHANGED table

TreeNext ==
  \/ \E row \in Rows : Add(row) \/ DropRow(row)
  \/ CreateIndex
  \/ DropIndex

TreeSpec == TreeInit /\ [][TreeNext]_treeVars

-----------------------------------------------------------------------------
(* Range queries (find_ttree_bounds, wg_fetch).  A bound is a record        *)
(* [key, incl], or NoBound for an open end.                                 *)

NoBound == [key |-> Illegal, incl |-> TRUE]

\* The cursor [node, slot] one step from slot i of node x in the direction s.
Step(n, x, i, s) ==
  LET y == n[x].link[s]
      j == IF s = "left" THEN i - 1 ELSE i + 1
  IN IF j \in DOMAIN n[x].vals THEN [node |-> x, slot |-> j]
     ELSE [node |-> y, slot |-> IF s = "left" /\ y # Null THEN Len(n[y].vals) ELSE 1]

\* wg_search_tnode_first for the side left, wg_search_tnode_last for right:
\* the s-most slot of node x whose key is not past the key k towards s.
SlotOf(n, x, k, s) ==
  LET inside == {i \in DOMAIN n[x].vals : ~Past(s, Key(n[x].vals[i]), k)}
  IN IF s = "left" THEN Min(inside) ELSE Max(inside)

\* One end of a range: its s-most cursor.  An inclusive bound takes the s-most
\* occurrence of its key, an exclusive one steps over all of them.
RangeEnd_slip(tr, bound, s) ==
  LET n == tr.node
      side == IF bound.incl THEN s ELSE Opp(s)
      f == Find(tr, bound.key, side)
      x == f[1]
      EndOf(y) == [node |-> y, slot |-> IF s = "left" \/ y = Null THEN 1 ELSE Len(n[y].vals)]
  IN CASE bound = NoBound -> EndOf(tr.end[s])
       [] bound # NoBound /\ f[2] = "in" /\ bound.incl ->
            [node |-> x, slot |-> SlotOf(n, x, bound.key, s)]
       [] bound # NoBound /\ f[2] = "in" /\ ~bound.incl ->
            Step(n, x, SlotOf(n, x, bound.key, Opp(s)), Opp(s))
       [] OTHER -> EndOf(x)
RangeEnd(tr, bound, s) ==
  LET n == tr.node
      side == IF bound.incl THEN s ELSE Opp(s)
      f == Find(tr, bound.key, side)
      x == f[1]
      EndOf(y) == [node |-> y, slot |-> IF s = "left" \/ y = Null THEN 1 ELSE Len(n[y].vals)]
  IN CASE bound = NoBound -> EndOf(tr.end[s])
       [] bound # NoBound /\ f[2] = "in" /\ bound.incl ->
            [node |-> x, slot |-> SlotOf(n, x, bound.key, s)]
       [] bound # NoBound /\ f[2] = "in" /\ ~bound.incl ->
            Step(n, x, SlotOf(n, x, bound.key, Opp(s)), Opp(s))
       [] f[2] = s -> EndOf(x)
       [] OTHER -> EndOf(n[x].link[Opp(s)])

\* An empty range is told by its end lying just before its start.
NoRows(tr, from, to) ==
  \/ from.node = Null \/ to.node = Null
  \/ from.node = to.node /\ to.slot < from.slot
  \/ to.node = tr.node[from.node].link["left"]

\* wg_fetch until the query is exhausted.
RECURSIVE Fetch(_, _, _)
Fetch(n, from, to) ==
  IF from.node = Null THEN <<>>
  ELSE <<n[from.node].vals[from.slot]>> \o
       (IF from = to THEN <<>> ELSE Fetch(n, Step(n, from.node, from.slot, "right"), to))

\* The rows a query with these bounds of the column returns, in order.
RangeQuery(tr, lo, hi) ==
  LET from == RangeEnd(tr, lo, "left")
      to == RangeEnd(tr, hi, "right")
  IN IF (lo # NoBound /\ hi # NoBound /\ lo.key > hi.key) \/ NoRows(tr, from, to) THEN <<>>
     ELSE Fetch(tr.node, from, to)
-----------------------------------------------------------------------------
(* What makes an index correct (dbindex.c, dbquery.c)                      *)

\* The nodes of the subtree x, in key order.
RECURSIVE InOrder(_)
InOrder(x) ==
  IF x = Null THEN <<>>
  ELSE InOrder(t.node[x].child["left"]) \o <<x>> \o InOrder(t.node[x].child["right"])

RowsInOrder ==
  FoldLeft(LAMBDA rows, x : rows \o t.node[x].vals, <<>>, InOrder(t.root))

Ascending(rows) == \A i \in 1 .. Len(rows) - 1 : Key(rows[i]) <= Key(rows[i + 1])

\* The rows ascend through the tree, no node but an empty root is empty, and
\* the cached bounds of a node are "in sync with the leftmost/rightmost slots",
\* which the single-compare search relies on.
Ordered ==
  /\ Ascending(RowsInOrder)
  /\ \A x \in t.used :
       \/ t.node[x].vals = <<>> /\ t.used = {t.root} /\ t.node[x].bound = FreeNode.bound
       \/ /\ Len(t.node[x].vals) \in 1 .. NodeSize
          /\ \A s \in Sides : t.node[x].bound[s] = Key(EndSlot(s, t.node[x].vals))

RECURSIVE TrueDepth(_)
TrueDepth(x) ==
  IF x = Null THEN 0 ELSE 1 + Max({TrueDepth(t.node[x].child[s]) : s \in Sides})

\* After every insertion and deletion the stored heights are the real ones,
\* and the subtrees of a node differ by one level at most.
Balanced ==
  \A x \in t.used : LET n == t.node[x] IN
    /\ n.height["left"] - n.height["right"] \in -1 .. 1
    /\ \A s \in Sides :
         /\ n.height[s] = TrueDepth(n.child[s])
         /\ n.child[s] # Null => t.node[n.child[s]].parent = x

\* The chain leads through exactly the nodes of the tree, in order, both ways
\* and from the ends in the index header; no other node is allocated.
Chained ==
  LET order == InOrder(t.root) IN
  /\ Range(order) = t.used
  /\ t.root # Null => t.end = [s \in Sides |-> EndSlot(s, order)]
  /\ \A i \in DOMAIN order :
       t.node[order[i]].link = [left  |-> IF i = 1 THEN Null ELSE order[i - 1],
                                right |-> IF i = Len(order) THEN Null ELSE order[i + 1]]

\* The index has every record of the table exactly once, but for those that
\* a failed insertion left out, and a deletion finds each of them by its key.
Indexed == IF t.root = Null THEN {} ELSE table \ missing
IndexExact ==
  /\ Range(RowsInOrder) = Indexed /\ Len(RowsInOrder) = Cardinality(Indexed)
  /\ \A row \in Indexed :
       LET f == Find(t, Key(row), "left")
       IN f[2] = "in" /\ Locate(t.node, f[1], row) # Null

\* After every insertion and deletion the tree is a T-tree, and it has the
\* records of the table.
TreeExact == Ordered /\ Balanced /\ Chained /\ IndexExact

Bounds == {NoBound} \cup [key : {Key(r) : r \in Rows}, incl : BOOLEAN]
InRange(row, lo, hi) ==
  /\ Key(row) > lo.key \/ (lo.incl /\ Key(row) >= lo.key)
  /\ hi = NoBound \/ Key(row) < hi.key \/ (hi.incl /\ Key(row) <= hi.key)
Exact(lo, hi) ==
  LET rows == RangeQuery(t, lo, hi) IN
  /\ Range(rows) = {row \in Indexed : InRange(row, lo, hi)}
  /\ Len(rows) = Cardinality(Range(rows))
  /\ Ascending(rows)
\* Pairs of bounds, without those that the code finds to be in the wrong order.
Ranges == {b \in Bounds \X Bounds : b[1].key <= b[2].key \/ b[2] = NoBound}
Contradictory(lo, hi) == lo.key = hi.key /\ ~lo.incl /\ ~hi.incl

\* A range query returns exactly the rows in its range, in key order, each
\* once, wherever its bounds fall among nodes and duplicate keys.
RangeQueriesExact ==
  t.root # Null => \A b \in Ranges : ~Contradictory(b[1], b[2]) => Exact(b[1], b[2])

\* "Now detect the cases where the above bound search has produced a result
\* with an empty range": val > k & val < k returns no row.
EmptyRangesEmpty ==
  t.root # Null =>
    \A b \in Ranges : Contradictory(b[1], b[2]) => RangeQuery(t, b[1], b[2]) = <<>>
=============================================================================
