------------------------------- MODULE Queries -------------------------------
(***************************************************************************)
(* Queries of WhiteDB (internal_build_query, wg_fetch and wg_find_record in*)
(* dbquery.c): a list of conditions on two columns, the first of which may *)
(* have a T-tree index.  The conditions on the indexed column are folded   *)
(* into one range, the others are checked on every row of the range.  The  *)
(* index is the rows in the order of their keys; TTree says how a range of *)
(* it is found, and when a range with the same bound excluded at both ends *)
(* is not.                                                                 *)
(* A definition named X_slip is X with a plausible slip, used by no        *)
(* specification; it serves to test the properties.                        *)
(***************************************************************************)
EXTENDS Walks, SequencesExt

CONSTANTS Table,      \* the rows in the order of a scan, sequences of one value
                      \* or two; the first has the index
          ByKey,      \* the rows in the order of the index
          QueryValues,  \* what they are compared with
          Limits,     \* row limits; 0 is none
          MaxArgs     \* bound: the conditions of a query

ASSUME TableAssumption ==
  /\ Table \in Seq(Seq(Int) \ {<<>>})
  /\ QueryValues \subseteq Int /\ Limits \subseteq Nat
\* The index has every row, in the order of the keys.
ASSUME IndexAssumption ==
  \E p \in Bijection(DOMAIN Table, DOMAIN Table) :
    /\ ByKey = [i \in DOMAIN Table |-> Table[p[i]]]
    /\ \A i, j \in DOMAIN Table : i < j => ByKey[i][1] <= ByKey[j][1]

VARIABLES indexed,  \* whether there is an index
          args,     \* the conditions folded so far
          range,    \* the range they leave
          result,   \* the rows of the finished query
          rescount,  \* its res_count; -1 as long as it is being built
          limit

queryVars == <<indexed, args, range, result, rescount, limit>>

Conds == {"=", "<", ">", "<=", ">=", "/="}
Args == [column : {1, 2}, cond : Conds, value : QueryValues]

Holds(cond, a, b) ==
  CASE cond = "="  -> a = b
    [] cond = "<"  -> a < b
    [] cond = ">"  -> a > b
    [] cond = "<=" -> a <= b
    [] cond = ">=" -> a >= b
    [] cond = "/=" -> a # b

\* check_arglist: a row that is too short fails.
Check(row, list) ==
  \A i \in DOMAIN list :
    list[i].column <= Len(row) /\ Holds(list[i].cond, row[list[i].column], list[i].value)

-----------------------------------------------------------------------------
(* The range *)

Open == [bounded |-> FALSE, value |-> 0, incl |-> FALSE]
At(value, incl) == [bounded |-> TRUE, value |-> value, incl |-> incl]
Whole == [start |-> Open, end |-> Open]

\* A bound gives way to a tighter one; an inclusive bound does not take the
\* place of an equal one, an exclusive one does.
Start_slip(r, v, incl) ==
  IF ~r.start.bounded \/ r.start.value < v THEN [r EXCEPT !.start = At(v, incl)] ELSE r
Start(r, v, incl) ==
  IF ~r.start.bounded \/ r.start.value < v \/ (~incl /\ r.start.value = v)
  THEN [r EXCEPT !.start = At(v, incl)] ELSE r
End(r, v, incl) ==
  IF ~r.end.bounded \/ r.end.value > v \/ (~incl /\ r.end.value = v)
  THEN [r EXCEPT !.end = At(v, incl)] ELSE r

Narrow(r, arg) ==
  CASE arg.column # 1 \/ arg.cond = "/=" -> r
    [] arg.column = 1 /\ arg.cond = "="  -> End(Start(r, arg.value, TRUE), arg.value, TRUE)
    [] arg.column = 1 /\ arg.cond = "<"  -> End(r, arg.value, FALSE)
    [] arg.column = 1 /\ arg.cond = ">"  -> Start(r, arg.value, FALSE)
    [] arg.column = 1 /\ arg.cond = "<=" -> End(r, arg.value, TRUE)
    [] arg.column = 1 /\ arg.cond = ">=" -> Start(r, arg.value, TRUE)

Crossed(r) == r.start.bounded /\ r.end.bounded /\ r.start.value > r.end.value
Excluding(r) ==
  r.start.bounded /\ r.end.bounded /\ r.start.value = r.end.value /\ ~r.start.incl /\ ~r.end.incl

\* find_ttree_bounds and the walk between the two ends: of a range with the same
\* bound excluded at both, nothing or, if the nodes fall so, all rows above.
Inside(row, r) ==
  /\ r.start.bounded => row[1] > r.start.value \/ (r.start.incl /\ row[1] = r.start.value)
  /\ r.end.bounded => row[1] < r.end.value \/ (r.end.incl /\ row[1] = r.end.value)
IndexRows(r) == Keep(ByKey, {row \in Range(Table) : Inside(row, r)})
FoundRows(r) == {IndexRows(r)} \cup (IF Excluding(r) THEN {IndexRows([r EXCEPT !.end = Open])} ELSE {})

-----------------------------------------------------------------------------
(* internal_build_query *)

\* most_restricting_column: a condition other than /= scores for the index;
\* without one, the column of the first condition is taken.
UsesIndex(list) ==
  /\ indexed /\ list # <<>>
  /\ list[1].column = 1 \/ \E i \in DOMAIN list : list[i].column = 1 /\ list[i].cond # "/="

\* The conditions left to check on each row: those that the range does not
\* imply, or all of them if one on the indexed column is no range.
Remaining_slip(list) ==
  IF UsesIndex(list) THEN Keep(list, {arg \in Range(list) : arg.column # 1}) ELSE list
Remaining(list) ==
  IF UsesIndex(list) /\ ~\E i \in DOMAIN list : list[i].column = 1 /\ list[i].cond = "/="
  THEN Keep(list, {arg \in Range(list) : arg.column # 1}) ELSE list

Cut(rows, n) == IF n = 0 \/ Len(rows) <= n THEN rows ELSE SubSeq(rows, 1, n)
Candidates == IF UsesIndex(args) THEN FoundRows(range) ELSE {Table}

Passing(list) == {row \in Range(Table) : Check(row, list)}

Unfinished == rescount = -1

QueryInit ==
  /\ indexed \in BOOLEAN /\ args = <<>> /\ range = Whole
  /\ result = <<>> /\ rescount = -1 /\ limit = 0

\* The loop over the conditions.
FoldArg(arg) ==
  /\ Unfinished /\ Len(args) < MaxArgs
  /\ args' = Append(args, arg) /\ range' = Narrow(range, arg)
  /\ UNCHANGED <<indexed, result, rescount, limit>>

\* A range with crossed ends needs no search.  Nothing is written to the
\* res_count of the query then.
FinishEmpty ==
  /\ Unfinished /\ UsesIndex(args) /\ Crossed(range)
  /\ result' = <<>> /\ rescount' \in 0 .. 1
  /\ UNCHANGED <<indexed, args, range, limit>>

\* The rows are fetched until the limit is reached.
Finish(n) ==
  /\ Unfinished /\ ~(UsesIndex(args) /\ Crossed(range))
  /\ limit' = n
  /\ \E rows \in Candidates : result' = Cut(Keep(rows, Passing(Remaining(args))), n)
  /\ rescount' = Len(result')
  /\ UNCHANGED <<indexed, args, range>>

\* wg_find_record, called again with each record it returned: the index is
\* searched for the condition, or the rows are scanned one by one.
FindRecords(arg) ==
  /\ Unfinished /\ args = <<>>
  /\ LET found == IF indexed /\ arg.column = 1 /\ arg.cond # "/="
                  THEN IndexRows(Narrow(Whole, arg))
                  ELSE Keep(Table, Passing(<<arg>>))
     IN result' = found /\ rescount' = Len(found)
  /\ args' = <<arg>>
  /\ UNCHANGED <<indexed, range, limit>>

QueryNext ==
  \/ \E arg \in Args : FoldArg(arg) \/ FindRecords(arg)
  \/ FinishEmpty
  \/ \E n \in Limits : Finish(n)

QuerySpec == QueryInit /\ [][QueryNext]_queryVars

-----------------------------------------------------------------------------
(* Properties *)

Matching == Keep(Table, Passing(args))
Copies(row, rows) == Cardinality({i \in DOMAIN rows : rows[i] = row})

\* A query returns the rows that meet all of its conditions, each once, or
\* as many of them as the limit allows, the same with the index and without,
\* in whatever order conditions that overlap, repeat or contradict are given;
\* and its res_count is the "number of rows in results" (dbapi.h:119).  Not so
\* with the index: the rows, if the conditions leave a range with the same bound
\* excluded at both ends, and the count, if they leave one with crossed ends.
QueryExact ==
  ~Unfinished =>
    /\ ~(UsesIndex(args) /\ Excluding(range)) =>
         /\ \A row \in Range(result) : Copies(row, result) <= Copies(row, Matching)
         /\ Len(result) = Len(Cut(Matching, limit))
    /\ ~(UsesIndex(args) /\ Crossed(range)) => rescount = Len(result)
=============================================================================
