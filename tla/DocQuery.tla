------------------------------ MODULE DocQuery ------------------------------
(***************************************************************************)
(* How a document query of WhiteDB merges the results of its clauses       *)
(* (wg_make_json_query and the result sets of dbquery.c, the hash table    *)
(* with double hashing of dbhash.c).  A result set is a list of pages, the *)
(* last one filled up with zeros, with a cursor that reads and one that    *)
(* writes.  Small sets are joined with nested loops, others with the table.*)
(* Which documents a clause finds is left open.                            *)
(* A definition named X_slip is X with a plausible slip, used by no        *)
(* specification; it serves to test the properties.                        *)
(***************************************************************************)
EXTENDS Walks, SequencesExt

CONSTANTS Docs,         \* the offsets of the documents, none of them 0
          PageSize,     \* QUERY_RESULTSET_PAGESIZE
          HashJoinFrom, \* the product of the sizes from which a join hashes
          HashUniqueFrom,
          Sizes,        \* the sizes of a hash table, primes, ascending
          Scramble(_),  \* rehash_gint
          MaxRows       \* bound: the rows that a clause finds

VARIABLES currres,  \* the working result set, NoResult before the first clause,
                    \* or NoQuery
          clauses   \* the sets of documents that the clauses found

docVars == <<currres, clauses>>

ASSUME DocAssumption ==
  /\ 0 \notin Docs /\ \A doc \in Docs : Scramble(doc) \in Nat
  /\ PageSize \in Nat \ {0} /\ MaxRows \in Nat
  /\ Sizes \in Seq(Nat)
  /\ \A n \in DOMAIN Sizes :
       Sizes[n] >= 2 /\ \A i, s \in 1 .. Sizes[n] - 1 : (i * s) % Sizes[n] # 0
  /\ \E n \in DOMAIN Sizes : Sizes[n] > 2 * MaxRows

-----------------------------------------------------------------------------
(* Result sets *)

\* A cursor is on a page, 0 for none, and a row of it.
EmptySet == [pages |-> <<>>, read |-> [page |-> 0, row |-> 1], row |-> PageSize + 1, count |-> 0]
NoResult == [EmptySet EXCEPT !.count = -1]
\* The query that failed: the caller gets NULL.
NoQuery == [EmptySet EXCEPT !.count = -2]

Rewind(set) == [set EXCEPT !.read = [page |-> IF set.pages = <<>> THEN 0 ELSE 1, row |-> 1]]

AppendRow(set, doc) ==
  LET full == set.row > PageSize
      pages == IF full THEN Append(set.pages, [i \in 1 .. PageSize |-> 0]) ELSE set.pages
      row == IF full THEN 1 ELSE set.row
  IN [set EXCEPT !.pages = [pages EXCEPT ![Len(pages)][row] = doc], !.row = row + 1, !.count = @ + 1,
                 !.read = IF set.pages = <<>> THEN [page |-> 1, row |-> @.row] ELSE @]

\* A set that the documents were appended to one by one.
SetOf(docs) ==
  LET set[n \in 0 .. Len(docs)] == IF n = 0 THEN EmptySet ELSE AppendRow(set[n - 1], docs[n])
  IN set[Len(docs)]

\* The set after a row was fetched; got is the row, 0 at the end.
FetchRow_slip(set) ==
  IF set.read.page = 0 THEN [got |-> 0, set |-> set]
  ELSE LET doc == set.pages[set.read.page][set.read.row]
           next == IF doc = 0 THEN [page |-> 0, row |-> 1]
                   ELSE IF set.read.row < PageSize THEN [set.read EXCEPT !.row = @ + 1]
                   ELSE [page |-> 0, row |-> 1]
       IN [got |-> doc, set |-> [set EXCEPT !.read = next]]
FetchRow(set) ==
  IF set.read.page = 0 THEN [got |-> 0, set |-> set]
  ELSE LET doc == set.pages[set.read.page][set.read.row]
           next == IF doc = 0 THEN [page |-> 0, row |-> 1]
                   ELSE IF set.read.row < PageSize THEN [set.read EXCEPT !.row = @ + 1]
                   ELSE [page |-> IF set.read.page = Len(set.pages) THEN 0 ELSE set.read.page + 1, row |-> 1]
       IN [got |-> doc, set |-> [set EXCEPT !.read = next]]

\* Rows until there is none; there are no more than the pages have room for.
FetchAll(set) ==
  LET fetch[n \in 0 .. Len(set.pages) * PageSize] ==
        FetchRow(IF n = 0 THEN set ELSE fetch[n - 1].set)
  IN [i \in 1 .. Cardinality({n \in DOMAIN fetch : fetch[n].got # 0}) |-> fetch[i - 1].got]
Listed(set) == FetchAll(Rewind(set))

-----------------------------------------------------------------------------
(* The hash table *)

\* dhash_size: it is at most half full.
TableSize(entries) ==
  LET larger == {n \in DOMAIN Sizes : Sizes[n] > 2 * entries}
  IN Sizes[IF larger = {} THEN Len(Sizes) ELSE Min(larger)]
EmptyTable(entries) == [slot \in 0 .. TableSize(entries) - 1 |-> 0]

\* dhash_lookup: the first slot on the way of a key that has it or is free.
Slot_slip(keys, key) ==
  LET size == Cardinality(DOMAIN keys)
      Probe(i) == ((Scramble(key) % size) + i * (Scramble(key) % (size - 1))) % size
      hits == {i \in 0 .. size - 1 : keys[Probe(i)] \in {key, 0}}
  IN Probe(IF hits = {} THEN size - 1 ELSE Min(hits))
Slot(keys, key) ==
  LET size == Cardinality(DOMAIN keys)
      Probe(i) == ((Scramble(key) % size) + i * (1 + (Scramble(key) % (size - 1)))) % size
      hits == {i \in 0 .. size - 1 : keys[Probe(i)] \in {key, 0}}
  IN Probe(IF hits = {} THEN size - 1 ELSE Min(hits))

HasKey(keys, key) == keys[Slot(keys, key)] = key
\* A key that finds no free slot is an error, for which the query fails.
DhashAddKey(keys, key) == IF keys[Slot(keys, key)] = 0 THEN [keys EXCEPT ![Slot(keys, key)] = key] ELSE keys

-----------------------------------------------------------------------------
(* unique_resultset, intersect_resultset *)

\* A document goes into the new set if test says so.
AppendIf(set, doc, test) == IF test THEN AppendRow(set, doc) ELSE set

Unique(set) ==
  LET docs == Listed(set)
      hashed[n \in 0 .. Len(docs)] ==
        IF n = 0 THEN [keys |-> EmptyTable(set.count), set |-> EmptySet]
        ELSE LET u == hashed[n - 1] IN
             [keys |-> DhashAddKey(u.keys, docs[n]),
              set |-> AppendIf(u.set, docs[n], ~HasKey(u.keys, docs[n]))]
      nested[n \in 0 .. Len(docs)] ==
        IF n = 0 THEN EmptySet
        ELSE AppendIf(nested[n - 1], docs[n], docs[n] \notin Range(Listed(nested[n - 1])))
  IN IF set.count < HashUniqueFrom THEN nested[Len(docs)] ELSE hashed[Len(docs)].set

\* The table of the keys of a list of documents.
KeysOf(entries, docs) ==
  LET keys[n \in 0 .. Len(docs)] ==
        IF n = 0 THEN EmptyTable(entries) ELSE DhashAddKey(keys[n - 1], docs[n])
  IN keys[Len(docs)]

Intersect(a, b) ==
  LET small == IF a.count > b.count THEN b ELSE a
      large == IF a.count > b.count THEN a ELSE b
      keys == KeysOf(small.count, Listed(small))
  IN IF a.count * b.count < HashJoinFrom THEN SetOf(Keep(Listed(a), Range(Listed(b))))
     ELSE SetOf(Keep(Listed(large), {doc \in Range(Listed(large)) : HasKey(keys, doc)}))

-----------------------------------------------------------------------------
(* wg_make_json_query *)

DocInit == currres = NoResult /\ clauses = <<>>

\* A clause that is looked up in an index, or the first one, by a scan of the
\* database: a document counts once for every row of it that matches.
LookUp(docs) ==
  /\ LET next == Unique(SetOf(docs))
     IN currres' = IF currres = NoResult THEN next ELSE Intersect(currres, next)
  /\ clauses' = Append(clauses, Range(docs))

\* A clause that is checked on the documents found so far.
ScanResult(matching) ==
  /\ currres # NoResult
  /\ currres' = Unique(SetOf(Keep(Listed(currres), matching)))
  /\ clauses' = Append(clauses, matching)

\* A clause fails, for a row whose document is not found, or for a document of
\* records deeper than a scan goes into: nothing is returned.
GiveUp == currres' = NoQuery /\ UNCHANGED clauses

DocNext ==
  /\ Len(clauses) < 3 /\ currres # NoQuery
  /\ \/ \E docs \in SeqOf(Docs, MaxRows) : LookUp(docs)
     \/ \E matching \in SUBSET Docs : ScanResult(matching)
     \/ GiveUp

DocSpec == DocInit /\ [][DocNext]_docVars

-----------------------------------------------------------------------------
(* Properties *)

\* Unless the query failed, wg_fetch returns the documents that every clause
\* found, each once, and res_count is their number, however the sets were
\* stored and joined.
MergedExactly ==
  clauses # <<>> /\ currres # NoQuery =>
    LET rows == Listed(currres) IN
    /\ IsInjective(rows)
    /\ Range(rows) = {doc \in Docs : \A i \in DOMAIN clauses : doc \in clauses[i]}
    /\ currres.count = Len(rows)
=============================================================================
