------------------------------- MODULE Records -------------------------------
(***************************************************************************)
(* Records of WhiteDB (dbdata.c): fields that hold values, long strings    *)
(* with a reference count, or references to other records, the backlinks   *)
(* from a record to those that refer to it, and the upkeep of the column   *)
(* indexes.  Records compare by their contents, so that a change of one    *)
(* moves its ancestors in the indexes too.  An index is the bag of its     *)
(* rows, each with the key it had when it was entered; TTree says what the *)
(* index does with them.  Calls run one at a time, under the database lock.*)
(* A definition named X_slip is X with a plausible slip, used by no        *)
(* specification; it serves to test the properties.                        *)
(***************************************************************************)
EXTENDS Integers, Sequences, SequencesExt, BagsExt

CONSTANTS Recs, Strings,
          Null,       \* NULL, for every value that is kept in its field
          Fields,     \* the field numbers of a record
          Indexed,    \* the columns with an index, some of the fields
          RecDepth    \* WG_COMPARE_REC_DEPTH

VARIABLES field,   \* field[r][f]: the value in field f of the record r
          back,    \* back[r]: the records in the backlink chain of r
          count,   \* count[s]: the reference count of a long string, 0 if it is free
          index,   \* index[c]: the bag of the rows in the index on column c
          blank,   \* <<r, f>>: fields of raw records that were not written yet
          outcome, \* of the last call: "ok", "refused" or "failed"
          twice    \* history: whether a call may have entered the same row twice

vars == <<field, back, count, index, blank, outcome, twice>>
Alive == DOMAIN field
Data == Strings \cup Recs \cup {Null}

\* The state a call works on.
Now == [field |-> field, back |-> back, count |-> count, index |-> index, err |-> FALSE]

\* wg_compare: what a value is compared by.  At depth 0 a record counts by
\* its address.
RECURSIVE KeyOf(_, _, _)
KeyOf(d, v, depth) ==
  IF v \in Recs /\ depth > 0 THEN [f \in Fields |-> KeyOf(d, d.field[v][f], depth - 1)] ELSE v
Row(d, r, c) == [rec |-> r, key |-> KeyOf(d, d.field[r][c], RecDepth)]

-----------------------------------------------------------------------------
(* Indexes *)

AddField(d, r, c) ==
  IF c \in Indexed THEN [d EXCEPT !.index[c] = BagAdd(@, Row(d, r, c))] ELSE d

\* A row that is not there is an error if a node of the index bounds its key,
\* and goes unnoticed if none does; bounded tells which.
DelField(d, r, c, bounded) ==
  CASE c \notin Indexed -> d
    [] c \in Indexed /\ BagIn(Row(d, r, c), d.index[c]) ->
         [d EXCEPT !.index[c] = BagRemove(@, Row(d, r, c))]
    [] OTHER -> [d EXCEPT !.err = bounded /\ DOMAIN d.index[c] # {}]

\* The columns, in the order in which they are scanned.
InOrder(cols) == SetToSortSeq(cols, <)
AddFields(d, r, cols) == FoldLeft(LAMBDA e, c : AddField(e, r, c), d, InOrder(cols))
DelFields(d, r, cols, bounded) ==
  FoldLeft(LAMBDA e, c : IF e.err THEN e ELSE DelField(e, r, c, bounded), d, InOrder(cols))

\* The fields of r that refer to child.
Links(d, r, child) == {f \in Fields : d.field[r][f] = child}

\* remove_backlink_index_entries: the rows of r in which it counts by the
\* child, and then the rows of its parents, depth levels up.
RECURSIVE RemoveUp(_, _, _, _, _)
RemoveUp(d, r, child, depth, bounded) ==
  LET e == DelFields(d, r, Links(d, r, child), bounded)
  IN IF depth = 0 THEN e
     ELSE FoldLeft(LAMBDA a, p : IF a.err THEN a ELSE RemoveUp(a, p, r, depth - 1, bounded),
                   e, d.back[r])

\* restore_backlink_index_entries
RestoreUp_slip(d, r, child, depth) == AddFields(d, r, Links(d, r, child))
RECURSIVE RestoreUp(_, _, _, _)
RestoreUp(d, r, child, depth) ==
  LET e == AddFields(d, r, Links(d, r, child))
  IN IF depth = 0 THEN e
     ELSE FoldLeft(LAMBDA a, p : RestoreUp(a, p, r, depth - 1), e, d.back[r])

-----------------------------------------------------------------------------
(* References *)

\* Takes the backlink of r out of the chain of the record it refers to.
Unlink(d, r, old) ==
  CASE old \notin Recs -> d
    [] old \in Recs /\ r \in Range(d.back[old]) -> [d EXCEPT !.back[old] = RemoveFirst(@, r)]
    [] OTHER -> [d EXCEPT !.err = TRUE]
LinkNew_slip(d, r, new) == d
LinkNew(d, r, new) == IF new \in Recs THEN [d EXCEPT !.back[new] = Append(@, r)] ELSE d

Retain(d, v) == IF v \in Strings THEN [d EXCEPT !.count[v] = @ + 1] ELSE d
\* free_field_encoffset
Release(d, v) == IF v \in Strings THEN [d EXCEPT !.count[v] = @ - 1] ELSE d

\* Runs a step of a call unless an earlier one failed.
Then(d, e) == IF d.err THEN d ELSE e

\* wg_set_field
SetResult(r, f, v, bounded) ==
  LET old == field[r][f]
      parents == back[r]
      d1 == DelField(Now, r, f, bounded)
      d2 == FoldLeft(LAMBDA e, p : Then(e, RemoveUp(e, p, r, RecDepth - 1, bounded)), d1, parents)
      d3 == Then(d2, Unlink(d2, r, old))
      d4 == Release(Retain(d3, v), old)
      d5 == LinkNew(AddField([d4 EXCEPT !.field[r][f] = v], r, f), r, v)
      d6 == FoldLeft(LAMBDA e, p : RestoreUp(e, p, r, RecDepth - 1), d5, parents)
  IN IF d3.err THEN d3 ELSE d6

-----------------------------------------------------------------------------
(* Calls *)

Result(d) ==
  /\ field' = d.field /\ back' = d.back /\ count' = d.count /\ index' = d.index
  /\ outcome' = IF d.err THEN "failed" ELSE "ok"

Init ==
  /\ field = <<>> /\ back = <<>> /\ blank = {} /\ outcome = "ok" /\ twice = FALSE
  /\ count = [s \in Strings |-> 0]
  /\ index = [c \in Indexed |-> EmptyBag]

\* A new record with every field null, and no backlinks.
Fresh(r) ==
  [Now EXCEPT !.field = [q \in Alive \cup {r} |-> IF q = r THEN [f \in Fields |-> Null] ELSE @[q]],
              !.back = [q \in Alive \cup {r} |-> IF q = r THEN <<>> ELSE @[q]]]

CreateRecord(r) ==
  /\ r \notin Alive
  /\ Result(AddFields(Fresh(r), r, Fields))
  /\ UNCHANGED <<blank, twice>>

CreateRawRecord(r) ==
  /\ r \notin Alive
  /\ Result(Fresh(r))
  /\ blank' = blank \cup ({r} \X Fields)
  /\ UNCHANGED twice

RECURSIVE Reach(_, _)
Reach(fields, r) ==
  LET children == {fields[r][f] : f \in Fields} \cap Recs
  IN children \cup UNION {Reach(fields, q) : q \in children}

\* r is reached from a record above it on two ways.
Shared(r) ==
  \E q \in Alive : \E f, g \in Fields :
    LET Part(h) == {field[q][h]} \cup (IF field[q][h] \in Recs THEN Reach(field, field[q][h]) ELSE {})
    IN f # g /\ r \in Part(f) \cap Part(g)

\* What the model lets a caller store: a record that is there, never so that
\* a record contains itself.
MayStore(r, v) ==
  /\ v \in Data
  /\ v \in Recs => v \in Alive /\ r # v /\ r \notin Reach(field, v)

\* wg_set_field on a field that was written before
SetField(r, f, v) ==
  /\ r \in Alive /\ <<r, f>> \notin blank /\ MayStore(r, v)
  /\ IF field[r][f] = v THEN outcome' = "ok" /\ UNCHANGED <<field, back, count, index, twice>>
     ELSE /\ \E bounded \in BOOLEAN : Result(SetResult(r, f, v, bounded))
          /\ twice' = (twice \/ Shared(r))
  /\ UNCHANGED blank

\* wg_set_new_field, once for each field of a raw record: its parents are
\* entered in the indexes, although their rows were not taken out.
SetNewField(r, f, v) ==
  /\ r \in Alive /\ <<r, f>> \in blank /\ MayStore(r, v)
  /\ LET d == LinkNew(AddField(Retain([Now EXCEPT !.field[r][f] = v], v), r, f), r, v)
     IN Result(FoldLeft(LAMBDA e, p : RestoreUp(e, p, r, RecDepth - 1), d, back[r]))
  /\ blank' = blank \ {<<r, f>>}
  /\ twice' = (twice \/ back[r] # <<>>)

\* wg_delete_record: refused while others refer to the record.
Unlinked_slip(d, r) == d
Unlinked(d, r) ==
  FoldLeft(LAMBDA e, f : Then(e, Release(Unlink(e, r, field[r][f]), field[r][f])), d, InOrder(Fields))
DeleteRecord(r) ==
  /\ r \in Alive /\ \A f \in Fields : <<r, f>> \notin blank
  /\ IF back[r] # <<>> THEN outcome' = "refused" /\ UNCHANGED <<field, back, count, index>>
     ELSE \E bounded \in BOOLEAN :
            LET d1 == DelFields(Now, r, Fields, bounded)
                d2 == Then(d1, Unlinked(d1, r))
            IN Result(IF d2.err THEN d2
                      ELSE [d2 EXCEPT !.field = Restrict(@, Alive \ {r}),
                                      !.back = Restrict(@, Alive \ {r})])
  /\ UNCHANGED <<blank, twice>>

\* The bound ~twice: no call follows one that may have entered a row twice, of
\* which the properties promise nothing.
Next ==
  /\ ~twice
  /\ \E r \in Recs :
       \/ CreateRecord(r) \/ CreateRawRecord(r) \/ DeleteRecord(r)
       \/ \E f \in Fields, v \in Data : SetField(r, f, v) \/ SetNewField(r, f, v)

Spec == Init /\ [][Next]_vars

-----------------------------------------------------------------------------
(* Properties *)

\* Every index has each record whose field was written exactly once, under
\* the key it has now: after a change anywhere below a record, within the
\* depth of comparison, its rows are where a search for it will look.
IndexExact ==
  \A c \in Indexed :
    index[c] = [row \in {Row(Now, r, c) : r \in {q \in Alive : <<q, c>> \notin blank}} |-> 1]

\* The chain of a record has one cell for every field that refers to it, so
\* that it can be deleted as soon as nothing does, and never before; a long
\* string lives exactly as long as a field holds it.
ReferencesExact ==
  /\ \A r \in Alive :
       /\ \A p \in Alive :
            Cardinality({i \in DOMAIN back[r] : back[r][i] = p}) = Cardinality(Links(Now, p, r))
       /\ \A f \in Fields : field[r][f] \in Recs => field[r][f] \in Alive
  /\ \A s \in Strings : count[s] = Cardinality({x \in Alive \X Fields : field[x[1]][x[2]] = s})

\* No call fails half way: each finds in the indexes and in the backlink
\* chains what earlier calls have left there.  Only a deletion is refused.
NeverFails == outcome # "failed"

\* A call keeps the indexes exact and does not fail half way, unless it writes
\* a record that one above it reaches on two ways, or a raw one that others
\* refer to already; and in every case the references stay exact.
RecordsExact ==
  /\ twice \/ (IndexExact /\ NeverFails)
  /\ ReferencesExact \/ outcome = "failed"
=============================================================================
