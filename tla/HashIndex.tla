------------------------------ MODULE HashIndex ------------------------------
(***************************************************************************)
(* A hash index of WhiteDB (hash_recurse in dbindex.c, wg_idxhash_store,   *)
(* wg_idxhash_remove and wg_idxhash_find in dbhash.c): chains of buckets,  *)
(* one for each value that some row has, each with a list of these rows.   *)
(* An index for documents enters a row under every element of an array.    *)
(* Address 0 is the null offset.                                           *)
(* A definition named X_slip is X with a plausible slip, used by no        *)
(* specification; it serves to test the properties.                        *)
(***************************************************************************)
EXTENDS Walks, SequencesExt

CONSTANTS HashRows,
          RowValues,    \* what a row may have in the indexed columns: the
                        \* sequence of the values it is entered under
          BucketOf(_),  \* the chain of a value (hash_bytes)
          IdxHashSize,
          MaxBuckets    \* buckets the area has room for

VARIABLES value,    \* the indexed columns of the rows that are there
          entered,  \* rows that were entered under all of their values
          cell,     \* the buckets, by address
          head      \* the heads of the chains

hashVars == <<value, entered, cell, head>>
Values == UNION {Range(v) : v \in RowValues}
Alive == DOMAIN value

ASSUME RowsAssumption ==
  /\ \A v \in RowValues : v \in Seq(Values)
  /\ \A v \in Values : BucketOf(v) \in 0 .. IdxHashSize - 1
  /\ MaxBuckets \in Nat

HashNow == [cell |-> cell, head |-> head, ok |-> TRUE]
BucketRoom(d) == (1 .. MaxBuckets) \ DOMAIN d.cell

BucketChain(d, h) == Follow(d.head[h], [a \in DOMAIN d.cell |-> d.cell[a].next])

\* find_idxhash_bucket: the bucket of a value, or 0.
Bucket(d, v) ==
  LET chain == BucketChain(d, BucketOf(v))
      same == {n \in DOMAIN chain : d.cell[chain[n]].value = v}
  IN IF same = {} THEN 0 ELSE chain[Min(same)]

-----------------------------------------------------------------------------
(* wg_idxhash_store *)

AddBucket(d, v) ==
  LET a == CHOOSE x \in BucketRoom(d) : TRUE
  IN [d EXCEPT !.cell = [x \in {a} \cup DOMAIN @ |->
                           IF x = a THEN [value |-> v, rows |-> <<>>, next |-> d.head[BucketOf(v)]]
                           ELSE @[x]],
               !.head[BucketOf(v)] = a]

\* The area of the list cells is taken never to run out.
Store(d, v, row) ==
  IF Bucket(d, v) = 0 /\ BucketRoom(d) = {} THEN [d EXCEPT !.ok = FALSE]
  ELSE LET e == IF Bucket(d, v) = 0 THEN AddBucket(d, v) ELSE d
       IN [e EXCEPT !.cell[Bucket(e, v)].rows = <<row>> \o @]

-----------------------------------------------------------------------------
(* wg_idxhash_remove *)

DropBucket_slip(d, a) ==
  [d EXCEPT !.cell = Restrict(@, DOMAIN @ \ {a}), !.head[BucketOf(d.cell[a].value)] = d.cell[a].next]
DropBucket(d, a) ==
  LET h == BucketOf(d.cell[a].value)
      e == IF d.head[h] = a THEN [d EXCEPT !.head[h] = d.cell[a].next]
           ELSE [d EXCEPT !.cell = [x \in DOMAIN @ |->
                  IF @[x].next = a THEN [@[x] EXCEPT !.next = d.cell[a].next] ELSE @[x]]]
  IN [e EXCEPT !.cell = Restrict(@, DOMAIN @ \ {a})]

Unstore(d, v, row) ==
  LET a == Bucket(d, v) IN
  IF a = 0 \/ row \notin Range(d.cell[a].rows) THEN [d EXCEPT !.ok = FALSE]
  ELSE LET e == [d EXCEPT !.cell[a].rows = RemoveFirst(@, row)]
       IN IF e.cell[a].rows = <<>> THEN DropBucket(e, a) ELSE e

-----------------------------------------------------------------------------
(* hash_recurse: the values of a row one by one, until one fails. *)

StoreAll(d, row, values) ==
  LET done[n \in 0 .. Len(values)] ==
        IF n = 0 THEN d
        ELSE LET e == done[n - 1] IN IF e.ok THEN Store(e, values[n], row) ELSE e
  IN done[Len(values)]
UnstoreAll(d, row, values) ==
  LET done[n \in 0 .. Len(values)] ==
        IF n = 0 THEN d
        ELSE LET e == done[n - 1] IN IF e.ok THEN Unstore(e, values[n], row) ELSE e
  IN done[Len(values)]

HashResult(d) == cell' = d.cell /\ head' = d.head

HashInit ==
  /\ value = <<>> /\ entered = {}
  /\ cell = <<>> /\ head = [h \in 0 .. IdxHashSize - 1 |-> 0]

\* A row that could not be entered stays in the database.
EnterRow(row, values) ==
  /\ row \notin Alive
  /\ LET d == StoreAll(HashNow, row, values) IN
     /\ HashResult(d)
     /\ entered' = IF d.ok THEN entered \cup {row} ELSE entered
  /\ value' = [r \in Alive \cup {row} |-> IF r = row THEN values ELSE value[r]]

\* What hash_remove_row returns is never below -2, so that no failure counts.
LeaveRow(row) ==
  /\ row \in Alive
  /\ HashResult(UnstoreAll(HashNow, row, value[row]))
  /\ value' = Restrict(value, Alive \ {row})
  /\ entered' = entered \ {row}

\* wg_set_field: the row leaves the index under its old values and enters it
\* under the new ones.
ChangeRow_slip(row, values) ==
  /\ row \in Alive /\ value[row] # values
  /\ LET d == StoreAll(HashNow, row, values) IN
     /\ HashResult(d)
     /\ entered' = IF d.ok THEN entered \cup {row} ELSE entered \ {row}
  /\ value' = [value EXCEPT ![row] = values]
ChangeRow(row, values) ==
  /\ row \in Alive /\ value[row] # values
  /\ LET d == StoreAll([UnstoreAll(HashNow, row, value[row]) EXCEPT !.ok = TRUE], row, values) IN
     /\ HashResult(d)
     /\ entered' = IF d.ok THEN entered \cup {row} ELSE entered \ {row}
  /\ value' = [value EXCEPT ![row] = values]

HashNext ==
  \E row \in HashRows :
    \/ LeaveRow(row)
    \/ \E values \in RowValues : EnterRow(row, values) \/ ChangeRow(row, values)

HashSpec == HashInit /\ [][HashNext]_hashVars

-----------------------------------------------------------------------------
(* Properties *)

\* wg_search_hash: the rows that have a value.
Hits(v) == IF Bucket(HashNow, v) = 0 THEN <<>> ELSE cell[Bucket(HashNow, v)].rows

Times(x, s) == Cardinality({i \in DOMAIN s : s[i] = x})

\* A search finds a row once for every time it has the value, and no row that
\* is gone or has changed, even if buckets ran out while a row was entered;
\* and a value that no row has takes no space.
HashIndexExact ==
  /\ \A v \in Values : \A row \in HashRows :
       /\ row \in entered => Times(row, Hits(v)) = Times(v, value[row])
       /\ row \in Alive \ entered => Times(row, Hits(v)) <= Times(v, value[row])
       /\ row \notin Alive => row \notin Range(Hits(v))
  /\ \A a \in DOMAIN cell : cell[a].rows # <<>> /\ a = Bucket(HashNow, cell[a].value)
=============================================================================
