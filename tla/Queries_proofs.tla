---------------------------- MODULE Queries_proofs ----------------------------
(***************************************************************************)
(* Proofs about the queries of WhiteDB: that a query on columns copies the *)
(* rows that meet its conditions (Queries); that a document query returns  *)
(* what all of its clauses found, each document once, with result sets on  *)
(* pages and a hash table that is probed by double hashing (DocQuery).     *)
(***************************************************************************)
EXTENDS DbIndexes_proofs

-----------------------------------------------------------------------------
(* Queries on columns                                                      *)

Bounds == [bounded : BOOLEAN, value : Int, incl : BOOLEAN]
Ranges == [start : Bounds, end : Bounds]

\* Whether a value is on the right side of a bound.
Above(k, s) == s.bounded => k > s.value \/ (s.incl /\ k = s.value)
Below(k, e) == e.bounded => k < e.value \/ (e.incl /\ k = e.value)

LEMMA StartIs ==
  ASSUME NEW r \in Ranges, NEW v \in Int, NEW k \in Int
  PROVE  /\ Start(r, v, TRUE) \in Ranges /\ Start(r, v, FALSE) \in Ranges
         /\ Start(r, v, TRUE).end = r.end /\ Start(r, v, FALSE).end = r.end
         /\ Above(k, Start(r, v, TRUE).start) <=> Above(k, r.start) /\ k >= v
         /\ Above(k, Start(r, v, FALSE).start) <=> Above(k, r.start) /\ k > v
<1>1. r.start \in Bounds /\ r.end \in Bounds /\ r = [start |-> r.start, end |-> r.end]
  BY DEF Ranges
<1>2. At(v, TRUE) \in Bounds /\ At(v, FALSE) \in Bounds
  BY DEF At, Bounds
<1>3. /\ \A b \in Bounds : /\ [r EXCEPT !.start = b] \in Ranges
                            /\ [r EXCEPT !.start = b].start = b /\ [r EXCEPT !.start = b].end = r.end
  BY <1>1 DEF Ranges
<1>4. r.start.value \in Int
  BY <1>1 DEF Bounds
<1>5. Above(k, At(v, TRUE)) <=> k >= v
  BY DEF Above, At
<1>6. Above(k, At(v, FALSE)) <=> k > v
  BY DEF Above, At
<1>7. ASSUME r.start.bounded, r.start.value < v
      PROVE  k >= v => Above(k, r.start)
  BY <1>4, <1>7 DEF Above
<1>8. ASSUME r.start.bounded, r.start.value >= v
      PROVE  Above(k, r.start) => k >= v
  BY <1>4, <1>8 DEF Above
<1>9. ASSUME r.start.bounded, r.start.value > v
      PROVE  Above(k, r.start) => k > v
  BY <1>4, <1>9 DEF Above
<1>10. ASSUME r.start.bounded, r.start.value = v
       PROVE  k > v => Above(k, r.start)
  BY <1>4, <1>10 DEF Above
<1>11. Start(r, v, TRUE) \in Ranges /\ Start(r, v, TRUE).end = r.end
  BY <1>2, <1>3 DEF Start
<1>12. Start(r, v, FALSE) \in Ranges /\ Start(r, v, FALSE).end = r.end
  BY <1>2, <1>3 DEF Start
<1>13. ~ r.start.bounded => Above(k, r.start)
  BY DEF Above
<1>14. Above(k, Start(r, v, TRUE).start) <=> Above(k, r.start) /\ k >= v
  <2>1. CASE ~ r.start.bounded \/ r.start.value < v
    <3>1. Start(r, v, TRUE).start = At(v, TRUE)
      BY <1>2, <1>3, <2>1 DEF Start
    <3>2. QED
      BY <1>5, <1>7, <1>13, <2>1, <3>1
  <2>2. CASE r.start.bounded /\ ~ (r.start.value < v)
    <3>1. Start(r, v, TRUE) = r
      BY <2>2 DEF Start
    <3>2. r.start.value >= v
      BY <1>4, <2>2
    <3>3. QED
      BY <1>8, <2>2, <3>1, <3>2
  <2>3. QED
    BY <2>1, <2>2
<1>15. Above(k, Start(r, v, FALSE).start) <=> Above(k, r.start) /\ k > v
  <2>1. CASE ~ r.start.bounded \/ r.start.value < v \/ r.start.value = v
    <3>1. Start(r, v, FALSE).start = At(v, FALSE)
      BY <1>2, <1>3, <2>1 DEF Start
    <3>2. k > v => k >= v
      OBVIOUS
    <3>3. k > v => Above(k, r.start)
      BY <1>7, <1>10, <1>13, <2>1, <3>2
    <3>4. QED
      BY <1>6, <3>1, <3>3
  <2>2. CASE r.start.bounded /\ ~ (r.start.value < v) /\ r.start.value # v
    <3>1. Start(r, v, FALSE) = r
      BY <2>2 DEF Start
    <3>2. r.start.value > v
      BY <1>4, <2>2
    <3>3. QED
      BY <1>9, <2>2, <3>1, <3>2
  <2>3. QED
    BY <2>1, <2>2
<1>16. QED
  BY <1>11, <1>12, <1>14, <1>15

LEMMA EndIs ==
  ASSUME NEW r \in Ranges, NEW v \in Int, NEW k \in Int
  PROVE  /\ End(r, v, TRUE) \in Ranges /\ End(r, v, FALSE) \in Ranges
         /\ End(r, v, TRUE).start = r.start /\ End(r, v, FALSE).start = r.start
         /\ Below(k, End(r, v, TRUE).end) <=> Below(k, r.end) /\ k <= v
         /\ Below(k, End(r, v, FALSE).end) <=> Below(k, r.end) /\ k < v
<1>1. r.start \in Bounds /\ r.end \in Bounds /\ r = [start |-> r.start, end |-> r.end]
  BY DEF Ranges
<1>2. At(v, TRUE) \in Bounds /\ At(v, FALSE) \in Bounds
  BY DEF At, Bounds
<1>3. /\ \A b \in Bounds : /\ [r EXCEPT !.end = b] \in Ranges
                            /\ [r EXCEPT !.end = b].end = b /\ [r EXCEPT !.end = b].start = r.start
  BY <1>1 DEF Ranges
<1>4. r.end.value \in Int
  BY <1>1 DEF Bounds
<1>5. Below(k, At(v, TRUE)) <=> k <= v
  BY DEF Below, At
<1>6. Below(k, At(v, FALSE)) <=> k < v
  BY DEF Below, At
<1>7. ASSUME r.end.bounded, r.end.value > v
      PROVE  k <= v => Below(k, r.end)
  BY <1>4, <1>7 DEF Below
<1>8. ASSUME r.end.bounded, r.end.value <= v
      PROVE  Below(k, r.end) => k <= v
  BY <1>4, <1>8 DEF Below
<1>9. ASSUME r.end.bounded, r.end.value < v
      PROVE  Below(k, r.end) => k < v
  BY <1>4, <1>9 DEF Below
<1>10. ASSUME r.end.bounded, r.end.value = v
       PROVE  k < v => Below(k, r.end)
  BY <1>4, <1>10 DEF Below
<1>11. End(r, v, TRUE) \in Ranges /\ End(r, v, TRUE).start = r.start
  BY <1>2, <1>3 DEF End
<1>12. End(r, v, FALSE) \in Ranges /\ End(r, v, FALSE).start = r.start
  BY <1>2, <1>3 DEF End
<1>13. ~ r.end.bounded => Below(k, r.end)
  BY DEF Below
<1>14. Below(k, End(r, v, TRUE).end) <=> Below(k, r.end) /\ k <= v
  <2>1. CASE ~ r.end.bounded \/ r.end.value > v
    <3>1. End(r, v, TRUE).end = At(v, TRUE)
      BY <1>2, <1>3, <2>1 DEF End
    <3>2. QED
      BY <1>5, <1>7, <1>13, <2>1, <3>1
  <2>2. CASE r.end.bounded /\ ~ (r.end.value > v)
    <3>1. End(r, v, TRUE) = r
      BY <2>2 DEF End
    <3>2. r.end.value <= v
      BY <1>4, <2>2
    <3>3. QED
      BY <1>8, <2>2, <3>1, <3>2
  <2>3. QED
    BY <2>1, <2>2
<1>15. Below(k, End(r, v, FALSE).end) <=> Below(k, r.end) /\ k < v
  <2>1. CASE ~ r.end.bounded \/ r.end.value > v \/ r.end.value = v
    <3>1. End(r, v, FALSE).end = At(v, FALSE)
      BY <1>2, <1>3, <2>1 DEF End
    <3>2. k < v => k <= v
      OBVIOUS
    <3>3. k < v => Below(k, r.end)
      BY <1>7, <1>10, <1>13, <2>1, <3>2
    <3>4. QED
      BY <1>6, <3>1, <3>3
  <2>2. CASE r.end.bounded /\ ~ (r.end.value > v) /\ r.end.value # v
    <3>1. End(r, v, FALSE) = r
      BY <2>2 DEF End
    <3>2. r.end.value < v
      BY <1>4, <2>2
    <3>3. QED
      BY <1>9, <2>2, <3>1, <3>2
  <2>3. QED
    BY <2>1, <2>2
<1>16. QED
  BY <1>11, <1>12, <1>14, <1>15

\* The conditions that narrow the range.
Ranging(arg) == arg.column = 1 /\ arg.cond # "/="

LEMMA NarrowIs ==
  ASSUME NEW r \in Ranges, NEW arg \in Args, NEW row, row[1] \in Int
  PROVE  /\ Narrow(r, arg) \in Ranges
         /\ Inside(row, Narrow(r, arg)) <=>
              Inside(row, r) /\ (Ranging(arg) => Holds(arg.cond, row[1], arg.value))
<1> DEFINE k == row[1]
           v == arg.value
<1>1. k \in Int /\ v \in Int /\ arg.cond \in Conds
  BY TableAssumption DEF Args
<1>2. \A s : Inside(row, s) <=> Above(k, s.start) /\ Below(k, s.end)
  BY DEF Inside, Above, Below
<1>3. CASE ~ Ranging(arg)
  <2>1. Narrow(r, arg) = r
    BY <1>3 DEF Narrow, Ranging
  <2>2. QED
    BY <1>3, <2>1
<1>4. CASE Ranging(arg) /\ arg.cond = "="
  <2> DEFINE s == Start(r, v, TRUE)
  <2>1. Narrow(r, arg) = End(s, v, TRUE)
    BY <1>4 DEF Narrow, Ranging
  <2>2. s \in Ranges /\ s.end = r.end /\ (Above(k, s.start) <=> Above(k, r.start) /\ k >= v)
    BY <1>1, StartIs
  <2> HIDE DEF s
  <2>3. /\ End(s, v, TRUE) \in Ranges /\ End(s, v, TRUE).start = s.start
        /\ Below(k, End(s, v, TRUE).end) <=> Below(k, s.end) /\ k <= v
    BY <1>1, <2>2, EndIs
  <2>4. Holds(arg.cond, k, v) <=> k >= v /\ k <= v
    <3>1. Holds(arg.cond, k, v) <=> k = v
      BY <1>4 DEF Holds
    <3> HIDE DEF k, v
    <3>2. k = v <=> k >= v /\ k <= v
      BY <1>1
    <3>3. QED
      BY <3>1, <3>2
  <2>5. QED
    BY <1>2, <1>4, <2>1, <2>2, <2>3, <2>4
<1>5. CASE Ranging(arg) /\ arg.cond = "<"
  <2>1. Narrow(r, arg) = End(r, v, FALSE)
    BY <1>5 DEF Narrow, Ranging
  <2>2. /\ End(r, v, FALSE) \in Ranges /\ End(r, v, FALSE).start = r.start
        /\ Below(k, End(r, v, FALSE).end) <=> Below(k, r.end) /\ k < v
    BY <1>1, EndIs
  <2>3. Holds(arg.cond, k, v) <=> k < v
    BY <1>5 DEF Holds
  <2>4. QED
    BY <1>2, <1>5, <2>1, <2>2, <2>3
<1>6. CASE Ranging(arg) /\ arg.cond = "<="
  <2>1. Narrow(r, arg) = End(r, v, TRUE)
    BY <1>6 DEF Narrow, Ranging
  <2>2. /\ End(r, v, TRUE) \in Ranges /\ End(r, v, TRUE).start = r.start
        /\ Below(k, End(r, v, TRUE).end) <=> Below(k, r.end) /\ k <= v
    BY <1>1, EndIs
  <2>3. Holds(arg.cond, k, v) <=> k <= v
    BY <1>6 DEF Holds
  <2>4. QED
    BY <1>2, <1>6, <2>1, <2>2, <2>3
<1>7. CASE Ranging(arg) /\ arg.cond = ">"
  <2>1. Narrow(r, arg) = Start(r, v, FALSE)
    BY <1>7 DEF Narrow, Ranging
  <2>2. /\ Start(r, v, FALSE) \in Ranges /\ Start(r, v, FALSE).end = r.end
        /\ Above(k, Start(r, v, FALSE).start) <=> Above(k, r.start) /\ k > v
    BY <1>1, StartIs
  <2>3. Holds(arg.cond, k, v) <=> k > v
    BY <1>7 DEF Holds
  <2>4. QED
    BY <1>2, <1>7, <2>1, <2>2, <2>3
<1>8. CASE Ranging(arg) /\ arg.cond = ">="
  <2>1. Narrow(r, arg) = Start(r, v, TRUE)
    BY <1>8 DEF Narrow, Ranging
  <2>2. /\ Start(r, v, TRUE) \in Ranges /\ Start(r, v, TRUE).end = r.end
        /\ Above(k, Start(r, v, TRUE).start) <=> Above(k, r.start) /\ k >= v
    BY <1>1, StartIs
  <2>3. Holds(arg.cond, k, v) <=> k >= v
    BY <1>8 DEF Holds
  <2>4. QED
    BY <1>2, <1>8, <2>1, <2>2, <2>3
<1>9. QED
  BY <1>1, <1>3, <1>4, <1>5, <1>6, <1>7, <1>8 DEF Conds, Ranging

\* The range lets the rows through that meet the conditions folded into it.
RangeMeans(r, list) ==
  \A row \in Range(Table) :
    Inside(row, r) <=>
      \A arg \in Range(list) : Ranging(arg) => Holds(arg.cond, row[1], arg.value)

Meets(row, arg) == arg.column <= Len(row) /\ Holds(arg.cond, row[arg.column], arg.value)

LEMMA RowsAre ==
  ASSUME NEW row \in Range(Table)
  PROVE  row \in Seq(Int) /\ row[1] \in Int /\ Len(row) \in Nat /\ 1 <= Len(row)
<1>1. row \in Seq(Int) /\ row # <<>>
  BY TableAssumption DEF Range
<1>2. QED
  BY <1>1

LEMMA CheckIs ==
  ASSUME NEW row, NEW list \in Seq(Args)
  PROVE  Check(row, list) <=> \A arg \in Range(list) : Meets(row, arg)
BY DEF Check, Meets, Range

LEMMA WholeMeans == Whole \in Ranges /\ RangeMeans(Whole, <<>>)
<1>1. Whole \in Ranges
  BY DEF Whole, Open, Ranges, Bounds
<1>2. \A row : Inside(row, Whole)
  BY DEF Inside, Whole, Open
<1>3. Range(<<>>) = {}
  BY DEF Range
<1>4. QED
  BY <1>1, <1>2, <1>3 DEF RangeMeans

LEMMA NarrowMeans ==
  ASSUME NEW r \in Ranges, NEW list \in Seq(Args), RangeMeans(r, list), NEW arg \in Args
  PROVE  Narrow(r, arg) \in Ranges /\ RangeMeans(Narrow(r, arg), Append(list, arg))
<1>1. Range(Append(list, arg)) = Range(list) \cup {arg}
  BY AppendedRange
<1>2. ASSUME NEW row \in Range(Table)
      PROVE  Inside(row, Narrow(r, arg)) <=>
               \A x \in Range(Append(list, arg)) : Ranging(x) => Holds(x.cond, row[1], x.value)
  <2>1. row[1] \in Int
    BY RowsAre
  <2>2. Inside(row, Narrow(r, arg)) <=>
          Inside(row, r) /\ (Ranging(arg) => Holds(arg.cond, row[1], arg.value))
    BY <2>1, NarrowIs
  <2>3. Inside(row, r) <=> \A x \in Range(list) : Ranging(x) => Holds(x.cond, row[1], x.value)
    BY DEF RangeMeans
  <2>4. QED
    BY <1>1, <2>2, <2>3
<1>3. Narrow(r, arg) \in Ranges
  <2>1. <<0>>[1] \in Int
    OBVIOUS
  <2>2. QED
    BY <2>1, NarrowIs
<1>4. QED
  BY <1>2, <1>3 DEF RangeMeans

LEMMA ArgsAre ==
  ASSUME NEW arg \in Args
  PROVE  arg.column \in {1, 2} /\ arg.cond \in Conds /\ arg.value \in Int
BY TableAssumption DEF Args

\* The rows that the range lets through and that meet the remaining
\* conditions are those that meet all.
LEMMA RemainingMeans ==
  ASSUME NEW list \in Seq(Args), NEW r, RangeMeans(r, list), UsesIndex(list), NEW row \in Range(Table)
  PROVE  Check(row, list) <=> Inside(row, r) /\ Check(row, Remaining(list))
<1>1. Check(row, list) <=> \A arg \in Range(list) : Meets(row, arg)
  BY CheckIs
<1>2. Inside(row, r) <=> \A arg \in Range(list) : Ranging(arg) => Holds(arg.cond, row[1], arg.value)
  BY DEF RangeMeans
<1>3. ASSUME NEW arg \in Args, arg.column = 1
      PROVE  Meets(row, arg) <=> Holds(arg.cond, row[1], arg.value)
  BY <1>3, RowsAre DEF Meets
<1>4. \A arg \in Range(list) : arg \in Args
  BY DEF Range
<1>5. CASE \E i \in DOMAIN list : list[i].column = 1 /\ list[i].cond = "/="
  <2>1. Remaining(list) = list
    BY <1>5 DEF Remaining
  <2>2. Check(row, list) => Inside(row, r)
    BY <1>1, <1>2, <1>3, <1>4 DEF Ranging
  <2>3. QED
    BY <2>1, <2>2
<1>6. CASE ~ \E i \in DOMAIN list : list[i].column = 1 /\ list[i].cond = "/="
  <2> DEFINE S == {arg \in Range(list) : arg.column # 1}
             k == Keep(list, S)
  <2>1. Remaining(list) = k
    BY <1>6 DEF Remaining
  <2>2. Range(k) = Range(list) \cap S /\ k \in Seq(Args)
    <3> HIDE DEF S, k
    <3>1. Keep(list, S) \in Seq(Args)
      BY KeepIs
    <3>2. Range(Keep(list, S)) = Range(list) \cap S
      BY KeepRange
    <3>3. QED
      BY <3>1, <3>2 DEF k
  <2>3. Check(row, k) <=> \A arg \in Range(k) : Meets(row, arg)
    <3> HIDE DEF k
    <3>1. QED
      BY <2>2, CheckIs
  <2>4. \A arg \in Range(list) : arg.column = 1 => arg.cond # "/="
    BY <1>6 DEF Range
  <2>5. Check(row, k) <=> \A arg \in Range(list) : arg.column # 1 => Meets(row, arg)
    <3> HIDE DEF k
    <3>1. QED
      BY <2>2, <2>3
  <2>6. Inside(row, r) <=> \A arg \in Range(list) : arg.column = 1 => Meets(row, arg)
    <3>1. \A arg \in Range(list) : Ranging(arg) <=> arg.column = 1
      BY <2>4 DEF Ranging
    <3>2. QED
      BY <1>2, <1>3, <1>4, <3>1
  <2> HIDE DEF k, S
  <2>7. QED
    BY <1>1, <2>1, <2>5, <2>6
<1>7. QED
  BY <1>5, <1>6

\* The rows are the same in the order of the index.
LEMMA AmongByKey ==
  ASSUME NEW T
  PROVE  /\ Table \in Seq(Range(Table)) /\ ByKey \in Seq(Range(Table)) /\ Len(ByKey) = Len(Table)
         /\ Among(ByKey, Len(ByKey), T) = Among(Table, Len(Table), T)
<1> DEFINE n == Len(Table)
<1>1. PICK p \in Bijection(DOMAIN Table, DOMAIN Table) : ByKey = [i \in DOMAIN Table |-> Table[p[i]]]
  BY IndexAssumption
<1>2. Table \in Seq(Seq(Int)) /\ n \in Nat /\ DOMAIN Table = 1 .. n
  <2>1. Table \in Seq(Seq(Int) \ {<<>>})
    BY TableAssumption
  <2>2. \A i \in 1 .. Len(Table) : Table[i] \in Seq(Int)
    BY <2>1
  <2>3. QED
    BY <2>1, <2>2
<1>3. /\ p \in [1 .. n -> 1 .. n] /\ \A i, j \in 1 .. n : p[i] = p[j] => i = j
      /\ \A j \in 1 .. n : \E i \in 1 .. n : p[i] = j
  BY <1>1, <1>2 DEF Bijection, Injection, Surjection, IsInjective
<1>4. \A i \in 1 .. n : Table[i] \in Range(Table)
  BY <1>2 DEF Range
<1>5. Table \in Seq(Range(Table))
  BY <1>2, <1>4
<1> HIDE DEF n
<1>6. ByKey = [i \in 1 .. n |-> Table[p[i]]]
  BY <1>1, <1>2
<1>7. ByKey \in Seq(Range(Table)) /\ Len(ByKey) = n
  <2>1. \A i \in 1 .. n : Table[p[i]] \in Range(Table)
    BY <1>3, <1>4
  <2>2. QED
    BY <1>2, <1>6, <2>1
<1>8. Among(ByKey, n, T) = Among(Table, n, T)
  <2> DEFINE S == Hitting(ByKey, n, T)
             U == Hitting(Table, n, T)
             g == [i \in S |-> p[i]]
  <2>1. IsFiniteSet(S)
    BY <1>2, AmongIs
  <2>2. S = {i \in 1 .. n : Table[p[i]] \in T} /\ U = {i \in 1 .. n : Table[i] \in T}
    <3>1. \A i \in 1 .. n : ByKey[i] = Table[p[i]]
      BY <1>6
    <3>2. QED
      BY <3>1 DEF Hitting
  <2> HIDE DEF S, U
  <2>3. g \in [S -> U]
    BY <1>3, <2>2
  <2>4. \A x, y \in S : g[x] = g[y] => x = y
    BY <1>3, <2>2
  <2>5. \A u \in U : \E x \in S : g[x] = u
    BY <1>3, <2>2
  <2> HIDE DEF g
  <2>6. Cardinality(U) = Cardinality(S)
    BY <2>1, <2>3, <2>4, <2>5, SameSize
  <2>7. QED
    BY <2>6 DEF Among, S, U
<1>9. QED
  BY <1>5, <1>7, <1>8 DEF n

\* The same rows as in the table, as far as they meet the conditions.
SameRows(rows, list) ==
  /\ rows \in Seq(Range(Table))
  /\ \A T : Among(rows, Len(rows), T) = Among(Table, Len(Table), T \cap Passing(list))

LEMMA ScanSame ==
  ASSUME NEW list
  PROVE  SameRows(Keep(Table, Passing(list)), list)
<1>1. Table \in Seq(Range(Table))
  BY AmongByKey
<1>2. Keep(Table, Passing(list)) \in Seq(Range(Table)) /\ Keeps(Keep(Table, Passing(list)), Table, Len(Table), Passing(list))
  BY <1>1, KeepIs
<1>3. QED
  BY <1>2 DEF Keeps, SameRows

LEMMA IndexRowsAre ==
  ASSUME NEW r
  PROVE  /\ IndexRows(r) \in Seq(Range(Table))
         /\ \A T : Among(IndexRows(r), Len(IndexRows(r)), T)
                     = Among(Table, Len(Table), T \cap {row \in Range(Table) : Inside(row, r)})
<1> DEFINE I == {row \in Range(Table) : Inside(row, r)}
<1>1. ByKey \in Seq(Range(Table))
  BY AmongByKey
<1> HIDE DEF I
<1>2. Keep(ByKey, I) \in Seq(Range(Table)) /\ Keeps(Keep(ByKey, I), ByKey, Len(ByKey), I)
  BY <1>1, KeepIs
<1>3. IndexRows(r) = Keep(ByKey, I)
  BY DEF IndexRows, I
<1>4. \A T : Among(Keep(ByKey, I), Len(Keep(ByKey, I)), T) = Among(ByKey, Len(ByKey), T \cap I)
  BY <1>2 DEF Keeps
<1>5. \A T : Among(ByKey, Len(ByKey), T \cap I) = Among(Table, Len(Table), T \cap I)
  BY AmongByKey
<1>6. QED
  BY <1>2, <1>3, <1>4, <1>5 DEF I

LEMMA IndexSame ==
  ASSUME NEW list \in Seq(Args), NEW r, RangeMeans(r, list), UsesIndex(list)
  PROVE  SameRows(Keep(IndexRows(r), Passing(Remaining(list))), list)
<1> DEFINE I == {row \in Range(Table) : Inside(row, r)}
           P == Passing(Remaining(list))
           c == IndexRows(r)
           k == Keep(c, P)
<1>1. c \in Seq(Range(Table)) /\ \A T : Among(c, Len(c), T) = Among(Table, Len(Table), T \cap I)
  BY IndexRowsAre
<1>2. \A row \in Range(Table) : row \in P \cap I <=> row \in Passing(list)
  BY RemainingMeans DEF Passing
<1> HIDE DEF c, P, I
<1>3. k \in Seq(Range(Table)) /\ Keeps(k, c, Len(c), P)
  BY <1>1, KeepIs
<1>4. Len(Table) \in Nat /\ \A i \in 1 .. Len(Table) : Table[i] \in Range(Table)
  <2>1. Table \in Seq(Range(Table))
    BY AmongByKey
  <2>2. QED
    BY <2>1
<1>5. ASSUME NEW T PROVE Among(k, Len(k), T) = Among(Table, Len(Table), T \cap Passing(list))
  <2>1. Among(k, Len(k), T) = Among(c, Len(c), T \cap P)
    BY <1>3 DEF Keeps
  <2>2. Among(c, Len(c), T \cap P) = Among(Table, Len(Table), (T \cap P) \cap I)
    BY <1>1
  <2>3. \A i \in 1 .. Len(Table) : Table[i] \in (T \cap P) \cap I <=> Table[i] \in T \cap Passing(list)
    BY <1>2, <1>4
  <2>4. Among(Table, Len(Table), (T \cap P) \cap I) = Among(Table, Len(Table), T \cap Passing(list))
    BY <1>4, <2>3, AmongSame
  <2>5. QED
    BY <2>1, <2>2, <2>4
<1>6. QED
  BY <1>3, <1>5 DEF SameRows, k, c, P

LEMMA CopiesAre ==
  ASSUME NEW X, NEW rows \in Seq(X), NEW row
  PROVE  Copies(row, rows) = Among(rows, Len(rows), {row})
<1>1. DOMAIN rows = 1 .. Len(rows)
  OBVIOUS
<1>2. {i \in DOMAIN rows : rows[i] = row} = Hitting(rows, Len(rows), {row})
  BY <1>1 DEF Hitting
<1>3. QED
  BY <1>2 DEF Copies, Among

LEMMA AmongFirst ==
  ASSUME NEW s, NEW n \in Nat, NEW m \in Nat, n <= m, NEW T
  PROVE  Among(s, n, T) <= Among(s, m, T)
<1>1. IsFiniteSet(Hitting(s, m, T)) /\ Hitting(s, n, T) \subseteq Hitting(s, m, T)
  <2>1. IsFiniteSet(Hitting(s, m, T))
    BY AmongIs
  <2>2. QED
    BY <2>1 DEF Hitting
<1>2. QED
  BY <1>1, FS_Subset DEF Among

LEMMA CutIs ==
  ASSUME NEW X, NEW rows \in Seq(X), NEW n \in Nat
  PROVE  /\ Cut(rows, n) \in Seq(X)
         /\ Len(Cut(rows, n)) = IF n = 0 \/ Len(rows) <= n THEN Len(rows) ELSE n
         /\ \A T : Among(Cut(rows, n), Len(Cut(rows, n)), T) <= Among(rows, Len(rows), T)
<1>1. Len(rows) \in Nat /\ \A T : Among(rows, Len(rows), T) \in Nat
  <2>1. Len(rows) \in Nat
    OBVIOUS
  <2>2. QED
    BY <2>1, AmongIs
<1>2. CASE n = 0 \/ Len(rows) <= n
  BY <1>1, <1>2 DEF Cut
<1>3. CASE n # 0 /\ ~ (Len(rows) <= n)
  <2> DEFINE c == SubSeq(rows, 1, n)
  <2>1. Cut(rows, n) = c
    BY <1>3 DEF Cut
  <2>2. n <= Len(rows) /\ c \in Seq(X) /\ Len(c) = n /\ \A i \in 1 .. n : c[i] = rows[i]
    BY <1>1, <1>3
  <2> HIDE DEF c
  <2>3. ASSUME NEW T PROVE Among(c, Len(c), T) <= Among(rows, Len(rows), T)
    <3>1. Among(c, n, T) = Among(rows, n, T)
      BY <2>2, AmongSame
    <3>2. Among(rows, n, T) <= Among(rows, Len(rows), T)
      BY <1>1, <2>2, AmongFirst
    <3>3. QED
      BY <2>2, <3>1, <3>2
  <2>4. QED
    BY <1>3, <2>1, <2>2, <2>3
<1>4. QED
  BY <1>2, <1>3

\* What holds of a finished query.
Exact(list, rows, n) ==
  /\ \A row \in Range(rows) : Copies(row, rows) <= Copies(row, Keep(Table, Passing(list)))
  /\ Len(rows) = Len(Cut(Keep(Table, Passing(list)), n))

LEMMA SameExact ==
  ASSUME NEW list, NEW rows, SameRows(rows, list), NEW n \in Nat
  PROVE  Exact(list, Cut(rows, n), n) /\ Len(Cut(rows, n)) \in Nat
<1> DEFINE m == Keep(Table, Passing(list))
           c == Cut(rows, n)
<1>1. SameRows(m, list)
  BY ScanSame
<1> HIDE DEF m
<1>2. rows \in Seq(Range(Table)) /\ m \in Seq(Range(Table))
  BY <1>1 DEF SameRows
<1>3. \A T : Among(rows, Len(rows), T) = Among(m, Len(m), T)
  BY <1>1 DEF SameRows
<1>4. Len(rows) = Len(m) /\ Len(m) \in Nat
  <2>1. Among(rows, Len(rows), Range(Table)) = Len(rows) /\ Among(m, Len(m), Range(Table)) = Len(m)
    BY <1>2, AmongAll
  <2>2. Len(m) \in Nat
    BY <1>2
  <2>3. QED
    BY <1>3, <2>1, <2>2
<1>5. /\ c \in Seq(Range(Table))
      /\ Len(c) = IF n = 0 \/ Len(rows) <= n THEN Len(rows) ELSE n
      /\ \A T : Among(c, Len(c), T) <= Among(rows, Len(rows), T)
  BY <1>2, CutIs
<1> HIDE DEF c
<1>6. Len(Cut(m, n)) = IF n = 0 \/ Len(m) <= n THEN Len(m) ELSE n
  BY <1>2, CutIs
<1>7. ASSUME NEW row PROVE Copies(row, c) <= Copies(row, m)
  <2>1. Copies(row, c) = Among(c, Len(c), {row})
    BY <1>5, CopiesAre
  <2>2. Copies(row, m) = Among(m, Len(m), {row})
    BY <1>2, CopiesAre
  <2>3. Among(c, Len(c), {row}) <= Among(rows, Len(rows), {row})
    BY <1>5
  <2>4. QED
    BY <1>3, <2>1, <2>2, <2>3
<1>8. QED
  BY <1>4, <1>5, <1>6, <1>7 DEF Exact, m, c

LEMMA CutWhole ==
  ASSUME NEW rows
  PROVE  Cut(rows, 0) = rows
BY DEF Cut

\* What the query promises of its rows and of their number.
RowsExact == ~(UsesIndex(args) /\ Excluding(range)) => Exact(args, result, limit)
CountExact == ~(UsesIndex(args) /\ Crossed(range)) => rescount = Len(result)

QueryInv ==
  /\ args \in Seq(Args) /\ range \in Ranges /\ limit \in Nat
  /\ Unfinished => limit = 0 /\ RangeMeans(range, args)
  /\ ~ Unfinished => RowsExact /\ CountExact

LEMMA QueryStart == QueryInit => QueryInv
<1> SUFFICES ASSUME QueryInit PROVE QueryInv
  OBVIOUS
<1>1. args = <<>> /\ range = Whole /\ limit = 0 /\ Unfinished /\ args \in Seq(Args)
  BY DEF QueryInit, Unfinished
<1>2. QED
  BY <1>1, WholeMeans DEF QueryInv

LEMMA FoldStep ==
  ASSUME QueryInv, NEW arg \in Args, FoldArg(arg)
  PROVE  QueryInv'
<1>1. Unfinished /\ Unfinished' /\ limit' = limit /\ args' = Append(args, arg) /\ range' = Narrow(range, arg)
  BY DEF FoldArg, Unfinished
<1>2. args \in Seq(Args) /\ range \in Ranges /\ limit = 0 /\ RangeMeans(range, args)
  BY <1>1 DEF QueryInv
<1>3. Narrow(range, arg) \in Ranges /\ RangeMeans(Narrow(range, arg), Append(args, arg))
  BY <1>2, NarrowMeans
<1>4. Append(args, arg) \in Seq(Args)
  BY <1>2
<1>5. RangeMeans(range', args')
  BY <1>1, <1>3
<1>6. QED
  BY <1>1, <1>2, <1>3, <1>4, <1>5 DEF QueryInv

\* A range with crossed ends lets no row through.
LEMMA CrossedEmpty ==
  ASSUME QueryInv, FinishEmpty
  PROVE  QueryInv'
<1>1. /\ Unfinished /\ UsesIndex(args) /\ Crossed(range)
      /\ result' = <<>> /\ rescount' \in 0 .. 1 /\ args' = args /\ range' = range /\ limit' = limit
  BY DEF FinishEmpty
<1>2. args \in Seq(Args) /\ range \in Ranges /\ limit = 0 /\ RangeMeans(range, args)
  BY <1>1 DEF QueryInv
<1>3. ~ Unfinished'
  BY <1>1 DEF Unfinished
<1>4. ASSUME NEW row \in Range(Table) PROVE ~ Inside(row, range)
  <2>1. row[1] \in Int
    BY RowsAre
  <2>2. /\ range.start.bounded /\ range.end.bounded /\ range.start.value > range.end.value
        /\ range.start.value \in Int /\ range.end.value \in Int
    BY <1>1, <1>2 DEF Crossed, Ranges, Bounds
  <2>3. QED
    BY <2>1, <2>2 DEF Inside
<1>5. \A row \in Range(Table) : row \notin Passing(args)
  BY <1>1, <1>2, <1>4, RemainingMeans DEF Passing
<1>6. SameRows(<<>>, args)
  <2>1. Table \in Seq(Range(Table))
    BY AmongByKey
  <2>2. Len(Table) \in Nat /\ \A i \in 1 .. Len(Table) : Table[i] \in Range(Table)
    BY <2>1
  <2>3. ASSUME NEW T PROVE Among(<<>>, 0, T) = Among(Table, Len(Table), T \cap Passing(args))
    <3>1. \A i \in 1 .. Len(Table) : Table[i] \notin T \cap Passing(args)
      BY <1>5, <2>2
    <3>2. Among(Table, Len(Table), T \cap Passing(args)) = 0
      BY <2>2, <3>1, AmongIs
    <3>3. \A i \in 1 .. 0 : <<>>[i] \notin T
      OBVIOUS
    <3>4. Among(<<>>, 0, T) = 0
      BY <3>3, AmongIs
    <3>5. QED
      BY <3>2, <3>4
  <2>4. <<>> \in Seq(Range(Table)) /\ Len(<<>>) = 0
    OBVIOUS
  <2>5. QED
    BY <2>3, <2>4 DEF SameRows
<1>7. Exact(args, <<>>, 0)
  <2>1. 0 \in Nat /\ Cut(<<>>, 0) = <<>>
    BY CutWhole
  <2>2. Exact(args, Cut(<<>>, 0), 0)
    BY <1>6, <2>1, SameExact
  <2>3. QED
    BY <2>1, <2>2
<1>a. Exact(args', result', limit')
  BY <1>1, <1>2, <1>7
<1>b. (UsesIndex(args) /\ Crossed(range))'
  BY <1>1 DEF UsesIndex, Crossed, FinishEmpty
<1>8. RowsExact' /\ CountExact'
  BY <1>a, <1>b DEF RowsExact, CountExact
<1>9. QED
  BY <1>1, <1>2, <1>3, <1>8 DEF QueryInv

LEMMA FinishStep ==
  ASSUME QueryInv, NEW n \in Limits, Finish(n)
  PROVE  QueryInv'
<1>0. PICK rows \in Candidates : result' = Cut(Keep(rows, Passing(Remaining(args))), n)
  BY DEF Finish
<1> DEFINE k == Keep(rows, Passing(Remaining(args)))
<1>1. /\ Unfinished /\ limit' = n /\ args' = args /\ range' = range /\ indexed' = indexed
      /\ result' = Cut(k, n) /\ rescount' = Len(result')
  BY <1>0 DEF Finish
<1>2. args \in Seq(Args) /\ range \in Ranges /\ RangeMeans(range, args) /\ n \in Nat
  BY <1>1, TableAssumption DEF QueryInv
<1>3. ASSUME ~(UsesIndex(args) /\ Excluding(range)) PROVE SameRows(k, args)
  <2>1. CASE UsesIndex(args)
    <3>1. rows = IndexRows(range)
      BY <1>3, <2>1 DEF Candidates, FoundRows
    <3>2. QED
      BY <1>2, <2>1, <3>1, IndexSame
  <2>2. CASE ~ UsesIndex(args)
    <3>1. rows = Table /\ Remaining(args) = args
      BY <2>2 DEF Candidates, Remaining
    <3>2. QED
      BY <3>1, ScanSame
  <2>3. QED
    BY <2>1, <2>2
<1>4. Len(Cut(k, n)) \in Nat
  <2>1. Table \in Seq(Range(Table)) /\ \A r : IndexRows(r) \in Seq(Range(Table))
    BY AmongByKey, IndexRowsAre
  <2>2. rows \in Seq(Range(Table))
    BY <2>1 DEF Candidates, FoundRows
  <2>3. k \in Seq(Range(Table))
    BY <2>2, KeepIs
  <2> HIDE DEF k
  <2>4. Cut(k, n) \in Seq(Range(Table))
    BY <1>2, <2>3, CutIs
  <2>5. QED
    BY <2>4
<1> HIDE DEF k
<1>5. ~ Unfinished'
  BY <1>1, <1>4 DEF Unfinished
<1>6. RowsExact'
  <2>1. (UsesIndex(args) /\ Excluding(range))' <=> UsesIndex(args) /\ Excluding(range)
    BY <1>1 DEF UsesIndex, Excluding
  <2>2. ASSUME ~(UsesIndex(args) /\ Excluding(range)) PROVE Exact(args, Cut(k, n), n)
    BY <1>2, <1>3, <2>2, SameExact
  <2>3. QED
    BY <1>1, <2>1, <2>2 DEF RowsExact
<1>7. CountExact'
  BY <1>1 DEF CountExact
<1>8. QED
  BY <1>1, <1>2, <1>5, <1>6, <1>7 DEF QueryInv

LEMMA FindStep ==
  ASSUME QueryInv, NEW arg \in Args, FindRecords(arg)
  PROVE  QueryInv'
<1> DEFINE list == <<arg>>
           found == IF indexed /\ arg.column = 1 /\ arg.cond # "/="
                    THEN IndexRows(Narrow(Whole, arg)) ELSE Keep(Table, Passing(list))
<1>1. /\ Unfinished /\ args' = list /\ range' = range /\ limit' = limit
      /\ result' = found /\ rescount' = Len(found)
  BY DEF FindRecords
<1>2. range \in Ranges /\ limit = 0 /\ list \in Seq(Args)
  BY <1>1 DEF QueryInv
<1>3. SameRows(found, list)
  <2>1. CASE indexed /\ arg.column = 1 /\ arg.cond # "/="
    <3> DEFINE r == Narrow(Whole, arg)
               I == {row \in Range(Table) : Inside(row, r)}
    <3>1. found = IndexRows(r)
      BY <2>1
    <3>2. IndexRows(r) \in Seq(Range(Table)) /\
          \A T : Among(IndexRows(r), Len(IndexRows(r)), T) = Among(Table, Len(Table), T \cap I)
      BY IndexRowsAre
    <3>3. RangeMeans(r, Append(<<>>, arg)) /\ Append(<<>>, arg) = list
      <4>1. <<>> \in Seq(Args) /\ Append(<<>>, arg) = list
        OBVIOUS
      <4>2. QED
        BY <4>1, WholeMeans, NarrowMeans
    <3>4. Range(list) = {arg}
      BY DEF Range
    <3> HIDE DEF list, r
    <3>5. ASSUME NEW row \in Range(Table) PROVE Inside(row, r) <=> row \in Passing(list)
      <4>1. Inside(row, r) <=> Holds(arg.cond, row[1], arg.value)
        BY <2>1, <3>3, <3>4 DEF RangeMeans, Ranging
      <4>2. Check(row, list) <=> Meets(row, arg)
        BY <1>2, <3>4, CheckIs
      <4>3. QED
        BY <2>1, <4>1, <4>2, RowsAre DEF Meets, Passing
    <3>6. Len(Table) \in Nat /\ \A i \in 1 .. Len(Table) : Table[i] \in Range(Table)
      <4>1. Table \in Seq(Range(Table))
        BY AmongByKey
      <4>2. QED
        BY <4>1
    <3>7. ASSUME NEW T PROVE Among(Table, Len(Table), T \cap I) = Among(Table, Len(Table), T \cap Passing(list))
      <4>1. \A i \in 1 .. Len(Table) : Table[i] \in T \cap I <=> Table[i] \in T \cap Passing(list)
        BY <3>5, <3>6
      <4>2. QED
        BY <3>6, <4>1, AmongSame
    <3>8. QED
      BY <3>1, <3>2, <3>7 DEF SameRows
  <2>2. CASE ~ (indexed /\ arg.column = 1 /\ arg.cond # "/=")
    <3>1. found = Keep(Table, Passing(list))
      BY <2>2
    <3> HIDE DEF list
    <3>2. QED
      BY <3>1, ScanSame
  <2>3. QED
    BY <2>1, <2>2
<1> HIDE DEF found, list
<1>4. Exact(list, found, 0) /\ Len(found) \in Nat
  <2>1. 0 \in Nat /\ Cut(found, 0) = found
    BY CutWhole
  <2>2. Exact(list, Cut(found, 0), 0) /\ Len(Cut(found, 0)) \in Nat
    BY <1>3, <2>1, SameExact
  <2>3. QED
    BY <2>1, <2>2
<1>5. ~ Unfinished'
  BY <1>1, <1>4 DEF Unfinished
<1>a. Exact(args', result', limit') /\ rescount' = Len(result')
  BY <1>1, <1>2, <1>4
<1>6. RowsExact' /\ CountExact'
  BY <1>a DEF RowsExact, CountExact
<1>7. QED
  BY <1>1, <1>2, <1>5, <1>6 DEF QueryInv

LEMMA QueryInvExact == QueryInv => QueryExact
BY DEF QueryInv, RowsExact, CountExact, QueryExact, Exact, Matching

\* A query returns the rows that meet its conditions, with an index and
\* without, and counts them; except the rows of a search of the index for a
\* range with the same bound excluded at both ends, and the count of one
\* with crossed ends.
THEOREM QueryIsExact == QuerySpec => []QueryExact
<1>1. QueryInv /\ [QueryNext]_queryVars => QueryInv'
  <2> SUFFICES ASSUME QueryInv, [QueryNext]_queryVars PROVE QueryInv'
    OBVIOUS
  <2>1. CASE \E arg \in Args : FoldArg(arg)
    BY <2>1, FoldStep
  <2>2. CASE \E arg \in Args : FindRecords(arg)
    BY <2>2, FindStep
  <2>3. CASE FinishEmpty
    BY <2>3, CrossedEmpty
  <2>4. CASE \E n \in Limits : Finish(n)
    BY <2>4, FinishStep
  <2>5. CASE UNCHANGED queryVars
    BY <2>5 DEF queryVars, QueryInv, Unfinished, RowsExact, CountExact, UsesIndex, Excluding, Crossed
  <2>6. QED
    BY <2>1, <2>2, <2>3, <2>4, <2>5 DEF QueryNext
<1>2. QED
  BY <1>1, QueryStart, QueryInvExact, PTL DEF QuerySpec

(***************************************************************************)
(* DocQuery: result sets                                                   *)
(***************************************************************************)

Offsets == Docs \cup {0}
Pages == [1 .. PageSize -> Offsets]
ResultSets == [pages : Seq(Pages), read : [page : Nat, row : Nat], row : Nat, count : Nat]

\* Which row of the set is at a row of a page.
Spot(page, row) == (page - 1) * PageSize + row

\* The rows of a set are the documents in their order, and zeros after them.
Holding(set, docs) ==
  /\ set \in ResultSets /\ docs \in Seq(Docs) /\ set.count = Len(docs)
  /\ set.row \in 1 .. PageSize + 1
  /\ Len(docs) + PageSize + 1 = Len(set.pages) * PageSize + set.row
  /\ \A page \in 1 .. Len(set.pages) : \A row \in 1 .. PageSize :
       set.pages[page][row] = IF Spot(page, row) <= Len(docs) THEN docs[Spot(page, row)] ELSE 0

LEMMA SpotOnce ==
  ASSUME NEW p \in Nat, NEW q \in Nat, NEW r \in 1 .. PageSize, NEW s \in 1 .. PageSize, Spot(p, r) = Spot(q, s)
  PROVE  p = q /\ r = s
<1>1. PageSize \in Nat \ {0}
  BY DocAssumption
<1>2. (p - q) * PageSize = s - r
  BY <1>1 DEF Spot
<1>3. CASE p > q
  <2>1. p - q >= 1
    BY <1>3
  <2>2. (p - q) * PageSize >= PageSize
    BY <1>1, <2>1
  <2>3. QED
    BY <1>1, <1>2, <2>2
<1>4. CASE q > p
  <2>1. q - p >= 1
    BY <1>4
  <2>2. (q - p) * PageSize >= PageSize
    BY <1>1, <2>1
  <2>3. (q - p) * PageSize = r - s
    BY <1>1 DEF Spot
  <2>4. QED
    BY <1>1, <2>2, <2>3
<1>5. CASE p = q
  BY <1>1, <1>5 DEF Spot
<1>6. QED
  BY <1>3, <1>4, <1>5

LEMMA EmptyHolds == Holding(EmptySet, <<>>)
<1>1. PageSize \in Nat \ {0}
  BY DocAssumption
<1>2. /\ EmptySet.pages = <<>> /\ EmptySet.row = PageSize + 1 /\ EmptySet.count = 0
      /\ EmptySet = [pages |-> <<>>, read |-> [page |-> 0, row |-> 1], row |-> PageSize + 1, count |-> 0]
  BY DEF EmptySet
<1>3. <<>> \in Seq(Pages) /\ <<>> \in Seq(Docs) /\ Len(<<>>) = 0
  OBVIOUS
<1>4. EmptySet \in ResultSets
  BY <1>1, <1>2, <1>3 DEF ResultSets
<1>5. QED
  BY <1>1, <1>2, <1>3, <1>4 DEF Holding

LEMMA AppendRowHolds ==
  ASSUME NEW set, NEW docs, NEW doc \in Docs, Holding(set, docs)
  PROVE  Holding(AppendRow(set, doc), Append(docs, doc))
<1> DEFINE N == Len(docs)
           full == set.row > PageSize
           zero == [i \in 1 .. PageSize |-> 0]
           pages == IF full THEN Append(set.pages, zero) ELSE set.pages
           row == IF full THEN 1 ELSE set.row
           last == Len(pages)
           written == [pages EXCEPT ![last][row] = doc]
           read == IF set.pages = <<>> THEN [page |-> 1, row |-> set.read.row] ELSE set.read
           u == AppendRow(set, doc)
           all == Append(docs, doc)
<1>1. PageSize \in Nat \ {0} /\ N \in Nat
  BY DocAssumption DEF Holding
<1>2. /\ set \in ResultSets /\ docs \in Seq(Docs) /\ set.count = N
      /\ set.row \in 1 .. PageSize + 1 /\ N + PageSize + 1 = Len(set.pages) * PageSize + set.row
      /\ set.pages \in Seq(Pages) /\ Len(set.pages) \in Nat
  BY DEF Holding, ResultSets
<1>3. \A p \in 1 .. Len(set.pages) : \A r \in 1 .. PageSize :
        set.pages[p][r] = IF Spot(p, r) <= N THEN docs[Spot(p, r)] ELSE 0
  BY DEF Holding
<1>4. u = [set EXCEPT !.pages = written, !.row = row + 1, !.count = @ + 1, !.read = read]
  BY DEF AppendRow
<1>5. zero \in Pages /\ \A r \in 1 .. PageSize : zero[r] = 0
  BY DEF Pages, Offsets
<1> HIDE DEF zero
<1>6. /\ pages \in Seq(Pages) /\ last \in Nat \ {0} /\ row \in 1 .. PageSize /\ Spot(last, row) = N + 1
      /\ N + 1 + PageSize + 1 = last * PageSize + (row + 1)
      /\ \A p \in 1 .. last : \A r \in 1 .. PageSize :
           pages[p][r] = IF Spot(p, r) <= N THEN docs[Spot(p, r)] ELSE 0
  <2>1. CASE full
    <3>1. /\ pages \in Seq(Pages) /\ last = Len(set.pages) + 1 /\ pages[last] = zero
          /\ \A p \in 1 .. Len(set.pages) : pages[p] = set.pages[p]
      BY <1>2, <1>5, <2>1
    <3>2. set.row = PageSize + 1 /\ row = 1
      BY <1>1, <1>2, <2>1
    <3>3. N = Len(set.pages) * PageSize
      <4> DEFINE prod == Len(set.pages) * PageSize
      <4>1. prod \in Nat
        BY <1>1, <1>2
      <4>2. N + PageSize + 1 = prod + (PageSize + 1)
        BY <1>2, <3>2
      <4> HIDE DEF prod, N
      <4>3. N = prod
        BY <1>1, <4>1, <4>2
      <4>4. QED
        BY <4>3 DEF prod
    <3>4. last - 1 = Len(set.pages) /\ last \in Nat \ {0}
      BY <1>2, <3>1
    <3> HIDE DEF pages, last, row
    <3>5. \A r \in 1 .. PageSize : Spot(last, r) = N + r
      BY <1>1, <3>3, <3>4 DEF Spot
    <3>6. ASSUME NEW p \in 1 .. last, NEW r \in 1 .. PageSize
          PROVE  pages[p][r] = IF Spot(p, r) <= N THEN docs[Spot(p, r)] ELSE 0
      <4>1. CASE p = last
        <5>1. Spot(p, r) = N + r /\ ~ (N + r <= N)
          BY <1>1, <3>5, <4>1
        <5>2. QED
          BY <1>5, <3>1, <4>1, <5>1
      <4>2. CASE p # last
        <5>1. p \in 1 .. Len(set.pages)
          BY <3>4, <4>2
        <5>2. QED
          BY <1>3, <3>1, <5>1
      <4>3. QED
        BY <4>1, <4>2
    <3>7. 1 \in 1 .. PageSize /\ Spot(last, 1) = N + 1
      BY <1>1, <3>5
    <3>8. last * PageSize = N + PageSize
      <4>1. last * PageSize = (last - 1) * PageSize + PageSize
        BY <1>1, <3>4
      <4>2. QED
        BY <3>3, <3>4, <4>1
    <3>9. N + 1 + PageSize + 1 = last * PageSize + (row + 1)
      <4> DEFINE prod == last * PageSize
      <4> HIDE DEF prod, N
      <4>1. prod = N + PageSize
        BY <3>8 DEF prod
      <4>2. N + 1 + PageSize + 1 = prod + (row + 1)
        BY <1>1, <3>2, <4>1
      <4>3. QED
        BY <4>2 DEF prod
    <3>10. row \in 1 .. PageSize /\ Spot(last, row) = N + 1
      BY <3>2, <3>7
    <3>11. QED
      BY <3>1, <3>4, <3>6, <3>9, <3>10
  <2>2. CASE ~ full
    <3>1. pages = set.pages /\ last = Len(set.pages) /\ row = set.row /\ row \in 1 .. PageSize
      BY <1>1, <1>2, <2>2
    <3> HIDE DEF pages, last, row
    <3>2. last # 0
      <4> SUFFICES ASSUME last = 0 PROVE FALSE
        OBVIOUS
      <4>1. last * PageSize = 0
        BY <1>1
      <4>2. QED
        BY <1>1, <1>2, <3>1, <4>1
    <3>3. Spot(last, row) = N + 1
      <4>1. (last - 1) * PageSize = last * PageSize - PageSize
        BY <1>1, <1>2, <3>1
      <4> DEFINE prod == last * PageSize
      <4>2. prod \in Nat /\ N + PageSize + 1 = prod + row /\ row \in Nat
        BY <1>1, <1>2, <3>1
      <4>3. (last - 1) * PageSize = prod - PageSize
        BY <4>1
      <4> HIDE DEF prod, N
      <4>4. (last - 1) * PageSize + row = N + 1
        BY <1>1, <4>2, <4>3
      <4>5. QED
        BY <4>4 DEF Spot
    <3>4. N + 1 + PageSize + 1 = last * PageSize + (row + 1)
      <4> DEFINE prod == last * PageSize
      <4>1. prod \in Nat /\ N + PageSize + 1 = prod + row /\ row \in Nat
        BY <1>1, <1>2, <3>1
      <4> HIDE DEF prod, N
      <4>2. N + 1 + PageSize + 1 = prod + (row + 1)
        BY <1>1, <4>1
      <4>3. QED
        BY <4>2 DEF prod
    <3>5. QED
      BY <1>2, <1>3, <3>1, <3>2, <3>3, <3>4
  <2>3. QED
    BY <2>1, <2>2
<1> HIDE DEF pages, last, row
<1>7. /\ written \in Seq(Pages) /\ Len(written) = last
      /\ \A p \in 1 .. last : \A r \in 1 .. PageSize :
           written[p][r] = IF p = last /\ r = row THEN doc ELSE pages[p][r]
  <2> DEFINE page == [pages[last] EXCEPT ![row] = doc]
  <2>1. written = [pages EXCEPT ![last] = page]
    OBVIOUS
  <2>2. pages[last] \in Pages /\ last \in 1 .. Len(pages)
    BY <1>6 DEF last
  <2>3. page \in Pages /\ \A r \in 1 .. PageSize : page[r] = IF r = row THEN doc ELSE pages[last][r]
    BY <2>2 DEF Pages, Offsets
  <2> HIDE DEF page, written
  <2>4. /\ written \in Seq(Pages) /\ Len(written) = Len(pages) /\ written[last] = page
        /\ \A p \in 1 .. Len(pages) : p # last => written[p] = pages[p]
    BY <1>6, <2>1, <2>2, <2>3
  <2>5. Len(pages) = last
    BY DEF last
  <2>6. QED
    BY <2>3, <2>4, <2>5
<1> HIDE DEF written
<1>8. read \in [page : Nat, row : Nat]
  BY <1>2 DEF ResultSets
<1> HIDE DEF read
<1>9. u \in ResultSets /\ u.pages = written /\ u.row = row + 1 /\ u.count = N + 1
  <2>1. row + 1 \in Nat /\ set.count + 1 \in Nat
    BY <1>1, <1>2, <1>6
  <2>2. QED
    BY <1>2, <1>4, <1>7, <1>8, <2>1 DEF ResultSets
<1> HIDE DEF u
<1>10. /\ all \in Seq(Docs) /\ Len(all) = N + 1 /\ all[N + 1] = doc
       /\ \A i \in 1 .. N : all[i] = docs[i]
  BY <1>2
<1> HIDE DEF all, N
<1>11. ASSUME NEW p \in 1 .. last, NEW r \in 1 .. PageSize
       PROVE  written[p][r] = IF Spot(p, r) <= N + 1 THEN all[Spot(p, r)] ELSE 0
  <2>1. p \in Nat /\ p - 1 \in Nat /\ Spot(p, r) \in Nat /\ Spot(p, r) >= 1
    <3>1. p \in Nat /\ p - 1 \in Nat
      BY <1>6
    <3>2. (p - 1) * PageSize \in Nat
      BY <1>1, <3>1
    <3>3. QED
      BY <1>1, <3>1, <3>2 DEF Spot
  <2>2. CASE p = last /\ r = row
    <3>1. Spot(p, r) = N + 1
      BY <1>6, <2>2
    <3>2. QED
      BY <1>1, <1>7, <1>10, <2>2, <3>1
  <2>3. CASE ~ (p = last /\ r = row)
    <3>1. Spot(p, r) # N + 1
      <4>1. last \in Nat
        BY <1>6
      <4>2. QED
        BY <1>6, <2>1, <2>3, <4>1, SpotOnce
    <3>2. written[p][r] = IF Spot(p, r) <= N THEN docs[Spot(p, r)] ELSE 0
      BY <1>6, <1>7, <2>3
    <3>3. CASE Spot(p, r) <= N
      <4>1. Spot(p, r) \in 1 .. N /\ Spot(p, r) <= N + 1
        BY <1>1, <2>1, <3>3
      <4>2. QED
        BY <1>10, <3>2, <3>3, <4>1
    <3>4. CASE ~ (Spot(p, r) <= N)
      <4>1. ~ (Spot(p, r) <= N + 1)
        BY <1>1, <2>1, <3>1, <3>4
      <4>2. QED
        BY <3>2, <3>4, <4>1
    <3>5. QED
      BY <3>3, <3>4
  <2>4. QED
    BY <2>2, <2>3
<1>12. row + 1 \in 1 .. PageSize + 1
  BY <1>1, <1>6
<1>13. (N + 1) + PageSize + 1 = Len(written) * PageSize + (row + 1)
  BY <1>1, <1>6, <1>7
<1>14. Holding(u, all)
  BY <1>7, <1>9, <1>10, <1>11, <1>12, <1>13 DEF Holding
<1>15. QED
  BY <1>14 DEF u, all

\* Sets made row by row, and read row by row.
SetWalk(docs, k, f) ==
  f = [n \in 0 .. k |-> IF n = 0 THEN EmptySet ELSE AppendRow(f[n - 1], docs[n])]
FetchWalk(set, k, f) ==
  f = [n \in 0 .. k |-> FetchRow(IF n = 0 THEN set ELSE f[n - 1].set)]

LEMMA SetWalks ==
  ASSUME NEW docs, NEW m \in Nat
  PROVE  \E f : SetWalk(docs, m, f)
<1> DEFINE After(n, x) == IF n = 0 THEN EmptySet ELSE AppendRow(x, docs[n])
           T == {k \in 0 .. m : \E f : SetWalk(docs, k, f)}
<1>1. \A x, y : After(0, x) = After(0, y)
  OBVIOUS
<1>2. \A k, f : SetWalk(docs, k, f) <=> f = [n \in 0 .. k |-> After(n, f[n - 1])]
  BY DEF SetWalk
<1> HIDE DEF After
<1>3. 0 \in T
  <2> DEFINE g == [n \in 0 .. 0 |-> After(0, 0)]
  <2>1. \A n \in 0 .. 0 : g[n] = After(n, g[n - 1])
    BY <1>1
  <2>2. g = [n \in 0 .. 0 |-> After(n, g[n - 1])]
    BY <2>1
  <2> HIDE DEF g
  <2>3. SetWalk(docs, 0, g)
    BY <1>2, <2>2
  <2>4. QED
    BY <2>3
<1>4. ASSUME NEW k \in 1 .. m, k - 1 \in T PROVE k \in T
  <2>1. PICK f : SetWalk(docs, k - 1, f)
    BY <1>4
  <2>2. f = [n \in 0 .. k - 1 |-> After(n, f[n - 1])]
    BY <1>2, <2>1
  <2> DEFINE g == [n \in 0 .. k |-> IF n = k THEN After(k, f[k - 1]) ELSE f[n]]
  <2>3. ASSUME NEW n \in 0 .. k PROVE g[n] = After(n, g[n - 1])
    <3>1. n # 0 => n - 1 \in 0 .. k - 1 /\ n - 1 \in 0 .. k /\ n - 1 # k
      OBVIOUS
    <3>2. n # 0 => g[n - 1] = f[n - 1]
      BY <3>1
    <3>3. After(n, g[n - 1]) = After(n, f[n - 1])
      <4> HIDE DEF g
      <4>1. QED
        BY <1>1, <3>2
    <3>4. g[n] = After(n, f[n - 1])
      <4>1. n # k => n \in 0 .. k - 1
        OBVIOUS
      <4>2. n # k => f[n] = After(n, f[n - 1])
        BY <2>2, <4>1
      <4>3. QED
        BY <4>2
    <3>5. QED
      BY <3>3, <3>4
  <2>4. g = [n \in 0 .. k |-> g[n]]
    OBVIOUS
  <2> HIDE DEF g
  <2>5. SetWalk(docs, k, g)
    BY <1>2, <2>3, <2>4
  <2>6. k \in 0 .. m
    OBVIOUS
  <2>7. QED
    BY <2>5, <2>6
<1> HIDE DEF T
<1>5. 0 .. m \subseteq T
  BY <1>3, <1>4, UpTo
<1>6. QED
  BY <1>5 DEF T

LEMMA FetchWalks ==
  ASSUME NEW set, NEW m \in Nat
  PROVE  \E f : FetchWalk(set, m, f)
<1> DEFINE After(n, x) == FetchRow(IF n = 0 THEN set ELSE x.set)
           T == {k \in 0 .. m : \E f : FetchWalk(set, k, f)}
<1>1. \A x, y : After(0, x) = After(0, y)
  OBVIOUS
<1>2. \A k, f : FetchWalk(set, k, f) <=> f = [n \in 0 .. k |-> After(n, f[n - 1])]
  BY DEF FetchWalk
<1> HIDE DEF After
<1>3. 0 \in T
  <2> DEFINE g == [n \in 0 .. 0 |-> After(0, 0)]
  <2>1. \A n \in 0 .. 0 : g[n] = After(n, g[n - 1])
    BY <1>1
  <2>2. g = [n \in 0 .. 0 |-> After(n, g[n - 1])]
    BY <2>1
  <2> HIDE DEF g
  <2>3. FetchWalk(set, 0, g)
    BY <1>2, <2>2
  <2>4. QED
    BY <2>3
<1>4. ASSUME NEW k \in 1 .. m, k - 1 \in T PROVE k \in T
  <2>1. PICK f : FetchWalk(set, k - 1, f)
    BY <1>4
  <2>2. f = [n \in 0 .. k - 1 |-> After(n, f[n - 1])]
    BY <1>2, <2>1
  <2> DEFINE g == [n \in 0 .. k |-> IF n = k THEN After(k, f[k - 1]) ELSE f[n]]
  <2>3. ASSUME NEW n \in 0 .. k PROVE g[n] = After(n, g[n - 1])
    <3>1. n # 0 => n - 1 \in 0 .. k - 1 /\ n - 1 \in 0 .. k /\ n - 1 # k
      OBVIOUS
    <3>2. n # 0 => g[n - 1] = f[n - 1]
      BY <3>1
    <3>3. After(n, g[n - 1]) = After(n, f[n - 1])
      <4> HIDE DEF g
      <4>1. QED
        BY <1>1, <3>2
    <3>4. g[n] = After(n, f[n - 1])
      <4>1. n # k => n \in 0 .. k - 1
        OBVIOUS
      <4>2. n # k => f[n] = After(n, f[n - 1])
        BY <2>2, <4>1
      <4>3. QED
        BY <4>2
    <3>5. QED
      BY <3>3, <3>4
  <2>4. g = [n \in 0 .. k |-> g[n]]
    OBVIOUS
  <2> HIDE DEF g
  <2>5. FetchWalk(set, k, g)
    BY <1>2, <2>3, <2>4
  <2>6. k \in 0 .. m
    OBVIOUS
  <2>7. QED
    BY <2>5, <2>6
<1> HIDE DEF T
<1>5. 0 .. m \subseteq T
  BY <1>3, <1>4, UpTo
<1>6. QED
  BY <1>5 DEF T

\* The first n members of a sequence.
First(docs, n) == [i \in 1 .. n |-> docs[i]]

LEMMA FirstIs ==
  ASSUME NEW X, NEW docs \in Seq(X)
  PROVE  /\ First(docs, 0) = <<>> /\ First(docs, Len(docs)) = docs
         /\ \A n \in 0 .. Len(docs) : First(docs, n) \in Seq(X) /\ Len(First(docs, n)) = n
         /\ \A n \in 1 .. Len(docs) : First(docs, n) = Append(First(docs, n - 1), docs[n])
<1>1. Len(docs) \in Nat /\ DOMAIN docs = 1 .. Len(docs) /\ \A i \in 1 .. Len(docs) : docs[i] \in X
  OBVIOUS
<1>2. First(docs, Len(docs)) = docs
  <2>1. docs = [i \in 1 .. Len(docs) |-> docs[i]]
    BY <1>1
  <2>2. QED
    BY <2>1 DEF First
<1>3. First(docs, 0) = <<>>
  <2>1. 1 .. 0 = {} /\ DOMAIN First(docs, 0) = 1 .. 0
    BY DEF First
  <2>2. First(docs, 0) \in Seq(X) /\ Len(First(docs, 0)) = 0
    BY DEF First
  <2>3. QED
    BY <2>2
<1>4. ASSUME NEW n \in 0 .. Len(docs) PROVE First(docs, n) \in Seq(X) /\ Len(First(docs, n)) = n
  <2>1. n \in Nat /\ \A i \in 1 .. n : docs[i] \in X
    BY <1>1
  <2>2. QED
    BY <2>1 DEF First
<1>5. ASSUME NEW n \in 1 .. Len(docs) PROVE First(docs, n) = Append(First(docs, n - 1), docs[n])
  <2> DEFINE s == First(docs, n - 1)
             t == Append(s, docs[n])
  <2>1. n - 1 \in 0 .. Len(docs) /\ n \in Nat /\ docs[n] \in X
    BY <1>1
  <2>2. s \in Seq(X) /\ Len(s) = n - 1
    BY <1>4, <2>1
  <2>3. \A i \in 1 .. n - 1 : s[i] = docs[i]
    BY DEF First
  <2> HIDE DEF s
  <2>4. /\ t \in Seq(X) /\ Len(t) = (n - 1) + 1 /\ t[n] = docs[n]
        /\ \A i \in 1 .. n - 1 : t[i] = s[i]
    BY <2>1, <2>2
  <2> HIDE DEF t
  <2>5. DOMAIN t = 1 .. n
    BY <2>1, <2>4
  <2>6. t = [i \in 1 .. n |-> t[i]]
    BY <2>4, <2>5
  <2>7. \A i \in 1 .. n : t[i] = docs[i]
    BY <2>1, <2>3, <2>4
  <2>8. t = [i \in 1 .. n |-> docs[i]]
    BY <2>6, <2>7
  <2>9. QED
    BY <2>8 DEF First, s, t
<1>6. QED
  BY <1>2, <1>3, <1>4, <1>5

LEMMA SetOfHolds ==
  ASSUME NEW docs \in Seq(Docs)
  PROVE  Holding(SetOf(docs), docs)
<1> DEFINE m == Len(docs)
           f == CHOOSE f : SetWalk(docs, m, f)
           T == {n \in 0 .. m : Holding(f[n], First(docs, n))}
<1>1. m \in Nat /\ \A n \in 1 .. m : docs[n] \in Docs
  OBVIOUS
<1>2. SetOf(docs) = f[m]
  BY DEF SetOf, SetWalk
<1> HIDE DEF m
<1>3. SetWalk(docs, m, f)
  BY <1>1, SetWalks
<1> HIDE DEF f
<1>4. f[0] = EmptySet /\ \A n \in 1 .. m : f[n] = AppendRow(f[n - 1], docs[n])
  BY <1>1, <1>3 DEF SetWalk
<1>5. 0 \in T
  <2>1. First(docs, 0) = <<>> /\ 0 \in 0 .. m
    BY <1>1, FirstIs
  <2>2. QED
    BY <1>4, <2>1, EmptyHolds
<1>6. ASSUME NEW n \in 1 .. m, n - 1 \in T PROVE n \in T
  <2>1. n \in 0 .. m /\ docs[n] \in Docs /\ f[n] = AppendRow(f[n - 1], docs[n])
    BY <1>1, <1>4
  <2>2. First(docs, n) = Append(First(docs, n - 1), docs[n])
    BY FirstIs DEF m
  <2>3. Holding(f[n - 1], First(docs, n - 1))
    BY <1>6
  <2>4. Holding(f[n], First(docs, n))
    BY <2>1, <2>2, <2>3, AppendRowHolds
  <2>5. QED
    BY <2>1, <2>4
<1>7. m \in T
  <2> HIDE DEF T
  <2>1. 0 .. m \subseteq T
    BY <1>1, <1>5, <1>6, UpTo
  <2>2. QED
    BY <1>1, <2>1
<1>8. First(docs, m) = docs
  BY FirstIs DEF m
<1>9. QED
  BY <1>2, <1>7, <1>8

-----------------------------------------------------------------------------
(* Reading a set                                                           *)

\* The cursor of s after k rows of the documents were fetched.
Reading(s, docs, k) ==
  \/ /\ k <= Len(docs) /\ s.read.page \in 1 .. Len(s.pages) /\ s.read.row \in 1 .. PageSize
     /\ Spot(s.read.page, s.read.row) = k + 1
  \/ k >= Len(docs) /\ s.read.page = 0

LEMMA RewindReads ==
  ASSUME NEW set, NEW docs, Holding(set, docs)
  PROVE  Holding(Rewind(set), docs) /\ Reading(Rewind(set), docs, 0) /\ Rewind(set).pages = set.pages
<1> DEFINE u == Rewind(set)
           read == [page |-> IF set.pages = <<>> THEN 0 ELSE 1, row |-> 1]
<1>1. PageSize \in Nat \ {0} /\ Len(docs) \in Nat /\ set \in ResultSets
  BY DocAssumption DEF Holding
<1>2. read \in [page : Nat, row : Nat] /\ read.row = 1 /\ read.page = IF set.pages = <<>> THEN 0 ELSE 1
  OBVIOUS
<1>3. u = [set EXCEPT !.read = read]
  BY DEF Rewind
<1> HIDE DEF read, u
<1>4. u \in ResultSets /\ u.pages = set.pages /\ u.row = set.row /\ u.count = set.count /\ u.read = read
  BY <1>1, <1>2, <1>3 DEF ResultSets
<1>5. Holding(u, docs)
  BY <1>4 DEF Holding
<1>6. Reading(u, docs, 0)
  <2>1. set.pages \in Seq(Pages)
    BY <1>1 DEF ResultSets
  <2>2. CASE set.pages = <<>>
    <3>1. Len(set.pages) = 0
      BY <2>2
    <3>2. Len(set.pages) * PageSize = 0
      BY <1>1, <3>1
    <3>3. Len(docs) + PageSize + 1 = Len(set.pages) * PageSize + set.row /\ set.row \in 1 .. PageSize + 1
      BY DEF Holding
    <3>4. 0 >= Len(docs)
      BY <1>1, <3>2, <3>3
    <3>5. QED
      BY <1>2, <1>4, <2>2, <3>4 DEF Reading
  <2>3. CASE set.pages # <<>>
    <3>1. 1 \in 1 .. Len(u.pages)
      BY <1>4, <2>1, <2>3
    <3>2. 1 \in 1 .. PageSize /\ Spot(1, 1) = 0 + 1 /\ 0 <= Len(docs)
      BY <1>1 DEF Spot
    <3>3. QED
      BY <1>2, <1>4, <2>3, <3>1, <3>2 DEF Reading
  <2>4. QED
    BY <2>2, <2>3
<1>7. QED
  BY <1>4, <1>5, <1>6 DEF u

LEMMA FetchRowReads ==
  ASSUME NEW s, NEW docs, NEW k \in Nat, Holding(s, docs), Reading(s, docs, k)
  PROVE  LET r == FetchRow(s) IN
         /\ r.got = IF k + 1 <= Len(docs) THEN docs[k + 1] ELSE 0
         /\ Holding(r.set, docs) /\ Reading(r.set, docs, k + 1) /\ r.set.pages = s.pages
<1> DEFINE N == Len(docs)
           np == Len(s.pages)
           page == s.read.page
           row == s.read.row
           doc == s.pages[page][row]
           next == IF doc = 0 THEN [page |-> 0, row |-> 1]
                   ELSE IF row < PageSize THEN [s.read EXCEPT !.row = @ + 1]
                   ELSE [page |-> IF page = np THEN 0 ELSE page + 1, row |-> 1]
           u == [s EXCEPT !.read = next]
           r == FetchRow(s)
<1>1. PageSize \in Nat \ {0} /\ N \in Nat /\ s \in ResultSets /\ docs \in Seq(Docs) /\ 0 \notin Docs
  BY DocAssumption DEF Holding
<1>2. s.pages \in Seq(Pages) /\ np \in Nat /\ s.read \in [page : Nat, row : Nat] /\ page \in Nat /\ row \in Nat
  BY <1>1 DEF ResultSets
<1>3. CASE page = 0
  <2>1. r = [got |-> 0, set |-> s]
    BY <1>3 DEF FetchRow
  <2>2. r.got = 0 /\ r.set = s
    BY <2>1
  <2> HIDE DEF r, page, np, N
  <2>3. k >= N
    BY <1>3 DEF Reading, page, N
  <2>4. ~ (k + 1 <= N) /\ k + 1 >= N
    BY <1>1, <2>3
  <2>5. Reading(s, docs, k + 1)
    BY <1>3, <2>4 DEF Reading, page, N
  <2>6. QED
    BY <2>2, <2>4, <2>5 DEF r, N
<1>4. CASE page # 0
  <2>1. r = [got |-> doc, set |-> u]
    BY <1>4 DEF FetchRow
  <2>2. k <= N /\ page \in 1 .. np /\ row \in 1 .. PageSize /\ Spot(page, row) = k + 1
    BY <1>4 DEF Reading
  <2>3. doc = IF k + 1 <= N THEN docs[k + 1] ELSE 0
    BY <2>2 DEF Holding
  <2>4. doc = 0 <=> ~ (k + 1 <= N)
    <3>1. k + 1 <= N => docs[k + 1] \in Docs
      BY <1>1
    <3> HIDE DEF doc
    <3>2. QED
      BY <1>1, <2>3, <3>1
  <2> HIDE DEF doc
  <2>5. next \in [page : Nat, row : Nat]
    BY <1>2
  <2>6. /\ doc = 0 => next.page = 0
        /\ doc # 0 /\ row < PageSize => next.page = page /\ next.row = row + 1
        /\ doc # 0 /\ ~ (row < PageSize) => next.page = (IF page = np THEN 0 ELSE page + 1) /\ next.row = 1
    BY <1>2
  <2> HIDE DEF next
  <2>7. u \in ResultSets /\ u.pages = s.pages /\ u.row = s.row /\ u.count = s.count /\ u.read = next
    BY <1>1, <2>5 DEF ResultSets
  <2> HIDE DEF u
  <2>8. r.got = doc /\ r.set = u
    BY <2>1
  <2>9. Holding(u, docs)
    BY <2>7 DEF Holding
  <2>10. Reading(u, docs, k + 1)
    <3>1. CASE doc = 0
      <4>1. k + 1 >= N
        BY <1>1, <2>4, <3>1
      <4>2. QED
        BY <2>6, <2>7, <3>1, <4>1 DEF Reading
    <3>2. CASE doc # 0 /\ row < PageSize
      <4>1. k + 1 <= N /\ row + 1 \in 1 .. PageSize
        BY <1>1, <1>2, <2>4, <3>2
      <4>2. Spot(page, row + 1) = (k + 1) + 1
        <5>1. (page - 1) * PageSize \in Int
          BY <1>1, <1>2
        <5>2. (page - 1) * PageSize + row = k + 1
          BY <2>2 DEF Spot
        <5>3. (page - 1) * PageSize + (row + 1) = (k + 1) + 1
          BY <1>2, <5>1, <5>2
        <5>4. QED
          BY <5>3 DEF Spot
      <4>3. QED
        BY <2>2, <2>6, <2>7, <3>2, <4>1, <4>2 DEF Reading
    <3>3. CASE doc # 0 /\ ~ (row < PageSize)
      <4>1. k + 1 <= N /\ row = PageSize
        BY <1>1, <1>2, <2>2, <2>4, <3>3
      <4>2. page * PageSize = k + 1
        <5>1. (page - 1) * PageSize + PageSize = k + 1
          BY <2>2, <4>1 DEF Spot
        <5>2. (page - 1) * PageSize + PageSize = page * PageSize
          BY <1>1, <1>2
        <5>3. QED
          BY <5>1, <5>2
      <4>3. CASE page = np
        <5>1. N + PageSize + 1 = np * PageSize + s.row /\ s.row \in 1 .. PageSize + 1
          BY DEF Holding
        <5>2. np * PageSize = k + 1
          BY <4>2, <4>3
        <5>3. k + 1 >= N
          BY <1>1, <5>1, <5>2
        <5>4. QED
          BY <2>6, <2>7, <3>3, <4>3, <5>3 DEF Reading
      <4>4. CASE page # np
        <5>1. page + 1 \in 1 .. np
          BY <1>2, <2>2, <4>4
        <5>2. (page + 1) - 1 = page
          BY <1>2
        <5>3. Spot(page + 1, 1) = (k + 1) + 1 /\ 1 \in 1 .. PageSize
          BY <1>1, <4>2, <5>2 DEF Spot
        <5>4. QED
          BY <2>6, <2>7, <3>3, <4>1, <4>4, <5>1, <5>3 DEF Reading
      <4>5. QED
        BY <4>3, <4>4
    <3>4. QED
      BY <3>1, <3>2, <3>3
  <2>11. QED
    BY <2>3, <2>7, <2>8, <2>9, <2>10
<1>5. QED
  BY <1>3, <1>4

\* Reading a set gives its documents in their order.
LEMMA ListedIs ==
  ASSUME NEW set, NEW docs, Holding(set, docs)
  PROVE  Listed(set) = docs
<1> DEFINE N == Len(docs)
           start == Rewind(set)
           m == Len(start.pages) * PageSize
           f == CHOOSE f : FetchWalk(start, m, f)
           Read(n) == /\ f[n].got = IF n + 1 <= N THEN docs[n + 1] ELSE 0
                      /\ Holding(f[n].set, docs) /\ Reading(f[n].set, docs, n + 1)
           T == {n \in 0 .. m : Read(n)}
<1>1. PageSize \in Nat \ {0} /\ N \in Nat /\ docs \in Seq(Docs) /\ 0 \notin Docs
  BY DocAssumption DEF Holding
<1>2. Holding(start, docs) /\ Reading(start, docs, 0)
  BY RewindReads
<1>3. m \in Nat /\ N <= m
  <2>1. /\ start \in ResultSets /\ N + PageSize + 1 = Len(start.pages) * PageSize + start.row
        /\ start.row \in 1 .. PageSize + 1
    BY <1>2 DEF Holding
  <2>2. Len(start.pages) \in Nat
    BY <2>1 DEF ResultSets
  <2>3. m \in Nat /\ N + PageSize + 1 = m + start.row
    BY <1>1, <2>1, <2>2
  <2>4. QED
    BY <1>1, <2>1, <2>3
<1>4. Listed(set) = [i \in 1 .. Cardinality({n \in DOMAIN f : f[n].got # 0}) |-> f[i - 1].got]
  BY DEF Listed, FetchAll, FetchWalk
<1> HIDE DEF m, start, N
<1>5. FetchWalk(start, m, f)
  BY <1>3, FetchWalks
<1> HIDE DEF f
<1>6. /\ DOMAIN f = 0 .. m /\ f[0] = FetchRow(start)
      /\ \A n \in 1 .. m : f[n] = FetchRow(f[n - 1].set)
  BY <1>3, <1>5 DEF FetchWalk
<1>7. 0 \in T
  <2>1. Read(0)
    <3>1. 0 + 1 = 1
      OBVIOUS
    <3>2. QED
      BY <1>2, <1>6, FetchRowReads DEF N
  <2> HIDE DEF Read
  <2>2. QED
    BY <1>3, <2>1
<1>8. ASSUME NEW n \in 1 .. m, n - 1 \in T PROVE n \in T
  <2>1. n \in 0 .. m /\ (n - 1) + 1 = n /\ n \in Nat /\ f[n] = FetchRow(f[n - 1].set)
    BY <1>3, <1>6
  <2>2. Holding(f[n - 1].set, docs) /\ Reading(f[n - 1].set, docs, n)
    BY <1>8, <2>1
  <2>3. Read(n)
    BY <2>1, <2>2, FetchRowReads DEF N
  <2> HIDE DEF Read
  <2>4. QED
    BY <2>1, <2>3
<1>9. \A n \in 0 .. m : f[n].got = IF n + 1 <= N THEN docs[n + 1] ELSE 0
  <2> HIDE DEF T
  <2>1. 0 .. m \subseteq T
    BY <1>3, <1>7, <1>8, UpTo
  <2>2. QED
    BY <2>1 DEF T
<1>10. \A i \in 1 .. N : docs[i] \in Docs /\ docs[i] # 0
  BY <1>1 DEF N
<1>11. {n \in DOMAIN f : f[n].got # 0} = 0 .. N - 1
  <2>1. ASSUME NEW n \in 0 .. m PROVE f[n].got # 0 <=> n \in 0 .. N - 1
    <3>1. CASE n + 1 <= N
      <4>1. n + 1 \in 1 .. N /\ n \in 0 .. N - 1
        BY <1>1, <1>3, <3>1
      <4>2. QED
        BY <1>9, <1>10, <3>1, <4>1
    <3>2. CASE ~ (n + 1 <= N)
      <4>1. n \notin 0 .. N - 1
        BY <1>1, <1>3, <3>2
      <4>2. QED
        BY <1>9, <3>2, <4>1
    <3>3. QED
      BY <3>1, <3>2
  <2>2. 0 .. N - 1 \subseteq 0 .. m
    BY <1>1, <1>3
  <2>3. QED
    BY <1>6, <2>1, <2>2
<1>12. Cardinality(0 .. N - 1) = N
  <2>1. N - 1 \in Int /\ 0 \in Int
    BY <1>1
  <2>2. Cardinality(0 .. N - 1) = IF 0 > N - 1 THEN 0 ELSE (N - 1) - 0 + 1
    BY <2>1, FS_Interval
  <2>3. QED
    BY <1>1, <2>2
<1>13. \A i \in 1 .. N : f[i - 1].got = docs[i]
  <2> TAKE i \in 1 .. N
  <2>1. i - 1 \in 0 .. m /\ (i - 1) + 1 = i /\ i <= N
    BY <1>1, <1>3
  <2>2. QED
    BY <1>9, <2>1
<1>14. Listed(set) = [i \in 1 .. N |-> f[i - 1].got]
  BY <1>4, <1>11, <1>12
<1>15. Listed(set) = [i \in 1 .. N |-> docs[i]]
  BY <1>13, <1>14
<1>16. docs = [i \in 1 .. N |-> docs[i]]
  BY <1>1 DEF N
<1>17. QED
  BY <1>15, <1>16

(***************************************************************************)
(* DocQuery: the hash table                                                *)
(***************************************************************************)

\* What double hashing needs of the size of a table.
IsPrime(z) == z \in Nat /\ z >= 2 /\ \A i, s \in 1 .. z - 1 : (i * s) % z # 0

\* The slots on the way of a key.
Probing(z, key, i) == ((Scramble(key) % z) + i * (1 + (Scramble(key) % (z - 1)))) % z

LEMMA ProbeOnce ==
  ASSUME NEW z, IsPrime(z), NEW h \in Nat, NEW s \in 1 .. z - 1, NEW i \in 0 .. z - 1, NEW j \in 0 .. z - 1, i > j
  PROVE  (h + i * s) % z # (h + j * s) % z
<1> SUFFICES ASSUME (h + i * s) % z = (h + j * s) % z PROVE FALSE
  OBVIOUS
<1>1. z \in Nat \ {0} /\ i \in Nat /\ j \in Nat /\ s \in Nat /\ i - j \in 1 .. z - 1
  BY DEF IsPrime
<1>2. i * s \in Nat /\ j * s \in Nat
  BY <1>1
<1>3. h + i * s \in Int /\ h + j * s \in Int
  BY <1>2
<1>4. PICK d \in Int : \E r \in 0 .. z - 1 : d = (h + i * s) \div z /\ r = (h + i * s) % z /\ h + i * s = z * d + r
  BY <1>1, <1>3, Divided
<1>5. PICK r \in 0 .. z - 1 : r = (h + i * s) % z /\ h + i * s = z * d + r
  BY <1>4
<1>6. PICK e \in Int : \E q \in 0 .. z - 1 : e = (h + j * s) \div z /\ q = (h + j * s) % z /\ h + j * s = z * e + q
  BY <1>1, <1>3, Divided
<1>7. PICK q \in 0 .. z - 1 : q = (h + j * s) % z /\ h + j * s = z * e + q
  BY <1>6
<1>8. q = r
  BY <1>5, <1>7
<1>9. i * s - j * s = z * d - z * e
  <2>1. z * d \in Int /\ z * e \in Int
    BY <1>1
  <2>2. QED
    BY <1>1, <1>2, <1>5, <1>7, <1>8, <2>1
<1>10. (i - j) * s = z * (d - e) + 0
  <2>1. (i - j) * s = i * s - j * s
    BY <1>1
  <2>2. z * (d - e) = z * d - z * e
    BY <1>1
  <2>3. QED
    BY <1>1, <1>9, <2>1, <2>2
<1>11. (i - j) * s \in Int /\ d - e \in Int /\ 0 \in 0 .. z - 1
  BY <1>1
<1>12. ((i - j) * s) % z = 0
  BY <1>1, <1>10, <1>11, RemainderIs
<1>13. QED
  BY <1>1, <1>12 DEF IsPrime

\* A key meets every slot on its way.
LEMMA ProbeMeets ==
  ASSUME NEW z, IsPrime(z), NEW key \in Docs
  PROVE  /\ \A i \in 0 .. z - 1 : Probing(z, key, i) \in 0 .. z - 1
         /\ \A slot \in 0 .. z - 1 : \E i \in 0 .. z - 1 : Probing(z, key, i) = slot
<1> DEFINE h == Scramble(key) % z
           s == 1 + (Scramble(key) % (z - 1))
           S == 0 .. z - 1
           g == [i \in S |-> (h + i * s) % z]
<1>1. z \in Nat /\ z >= 2 /\ Scramble(key) \in Nat
  BY DocAssumption DEF IsPrime
<1>2. h \in Nat /\ s \in 1 .. z - 1
  <2>1. Scramble(key) % z \in 0 .. z - 1
    BY <1>1
  <2>2. z - 1 \in Nat \ {0}
    BY <1>1
  <2>3. Scramble(key) % (z - 1) \in 0 .. (z - 1) - 1
    BY <1>1, <2>2
  <2>4. QED
    BY <1>1, <2>1, <2>3
<1>3. \A i \in S : Probing(z, key, i) = (h + i * s) % z
  BY DEF Probing
<1> HIDE DEF h, s
<1>4. \A i \in S : (h + i * s) % z \in S
  <2> TAKE i \in S
  <2>1. h + i * s \in Int
    BY <1>1, <1>2
  <2>2. QED
    BY <1>1, <2>1
<1>5. g \in [S -> S] /\ \A i \in S : g[i] = (h + i * s) % z
  BY <1>4
<1> HIDE DEF g
<1>6. ASSUME NEW i \in S, NEW j \in S, g[i] = g[j] PROVE i = j
  <2>1. i > j => g[i] # g[j]
    BY <1>2, <1>5, ProbeOnce
  <2>2. j > i => g[j] # g[i]
    BY <1>2, <1>5, ProbeOnce
  <2>3. QED
    BY <1>1, <1>6, <2>1, <2>2
<1>7. g \in Injection(S, S)
  BY <1>5, <1>6 DEF Injection, IsInjective
<1>8. IsFiniteSet(S)
  BY <1>1, FS_Interval
<1> HIDE DEF S
<1>9. g \in Surjection(S, S)
  BY <1>7, <1>8, FS_Injection
<1>10. \A slot \in S : \E i \in S : g[i] = slot
  BY <1>9 DEF Surjection
<1>11. QED
  BY <1>3, <1>4, <1>5, <1>10 DEF S

HitsOn(keys, z, key) == {i \in 0 .. z - 1 : keys[Probing(z, key, i)] \in {key, 0}}

\* The slot at the place i of the way is the first one that has the key or is free.
Reached(keys, z, key, i) ==
  /\ i \in 0 .. z - 1 /\ keys[Probing(z, key, i)] \in {key, 0}
  /\ \A j \in 0 .. i - 1 : keys[Probing(z, key, j)] \notin {key, 0}

LEMMA SlotIs ==
  ASSUME NEW z, IsPrime(z), NEW keys \in [0 .. z - 1 -> Offsets], NEW key \in Docs
  PROVE  /\ Slot(keys, key) \in 0 .. z - 1
         /\ HitsOn(keys, z, key) # {} => \E i : Reached(keys, z, key, i)
         /\ \A i : Reached(keys, z, key, i) => Slot(keys, key) = Probing(z, key, i)
<1> DEFINE hits == HitsOn(keys, z, key)
           n == IF hits = {} THEN z - 1 ELSE Min(hits)
<1>1. z \in Nat /\ z >= 2
  BY DEF IsPrime
<1>2. Cardinality(DOMAIN keys) = z
  <2>1. DOMAIN keys = 0 .. z - 1
    OBVIOUS
  <2>2. Cardinality(0 .. z - 1) = IF 0 > z - 1 THEN 0 ELSE (z - 1) - 0 + 1
    BY <1>1, FS_Interval
  <2>3. QED
    BY <1>1, <2>1, <2>2
<1>3. Slot(keys, key) = Probing(z, key, n)
  BY <1>2 DEF Slot, Probing, HitsOn
<1>4. hits \subseteq 0 .. z - 1 /\ hits \subseteq Nat
  BY <1>1 DEF HitsOn
<1>5. hits # {} => Min(hits) \in hits /\ \A j \in hits : Min(hits) <= j
  BY <1>4, MinIsLeast
<1>6. n \in 0 .. z - 1
  BY <1>1, <1>4, <1>5
<1>7. Slot(keys, key) \in 0 .. z - 1
  BY <1>3, <1>6, ProbeMeets
<1>8. ASSUME hits # {} PROVE Reached(keys, z, key, Min(hits))
  <2> DEFINE least == Min(hits)
  <2>1. least \in hits /\ \A j \in hits : least <= j
    BY <1>5, <1>8
  <2> HIDE DEF least
  <2>2. least \in 0 .. z - 1 /\ keys[Probing(z, key, least)] \in {key, 0}
    BY <2>1 DEF HitsOn
  <2>3. ASSUME NEW j \in 0 .. least - 1 PROVE keys[Probing(z, key, j)] \notin {key, 0}
    <3>1. j \in 0 .. z - 1 /\ ~ (least <= j)
      BY <1>1, <2>2
    <3>2. QED
      BY <2>1, <3>1 DEF HitsOn
  <2>4. Reached(keys, z, key, least)
    BY <2>2, <2>3 DEF Reached
  <2>5. QED
    BY <2>4 DEF least
<1>9. ASSUME NEW i, Reached(keys, z, key, i) PROVE Slot(keys, key) = Probing(z, key, i)
  <2>1. i \in hits
    BY <1>9 DEF Reached, HitsOn
  <2>2. Min(hits) \in hits /\ Min(hits) <= i
    BY <1>5, <2>1
  <2>3. Min(hits) \in Nat /\ i \in Nat
    BY <1>4, <2>1, <2>2
  <2>4. ~ (Min(hits) < i)
    <3> DEFINE least == Min(hits)
    <3>1. least < i => least \in 0 .. i - 1
      BY <2>3
    <3>2. keys[Probing(z, key, least)] \in {key, 0}
      BY <2>2 DEF HitsOn
    <3> HIDE DEF least
    <3>3. ~ (least < i)
      BY <1>9, <3>1, <3>2 DEF Reached
    <3>4. QED
      BY <3>3 DEF least
  <2>5. Min(hits) = i
    BY <2>2, <2>3, <2>4
  <2>6. n = i
    BY <2>1, <2>5
  <2> HIDE DEF n
  <2>7. QED
    BY <1>3, <2>6
<1>10. QED
  BY <1>7, <1>8, <1>9

\* A table that has the keys K, each on its way.
KeysHold(keys, z, K) ==
  /\ keys \in [0 .. z - 1 -> Offsets] /\ K \subseteq Docs
  /\ \A slot \in 0 .. z - 1 : keys[slot] # 0 => keys[slot] \in K
  /\ \A x \in K : \E i : Reached(keys, z, x, i) /\ keys[Probing(z, x, i)] = x

Taken(keys, z) == {slot \in 0 .. z - 1 : keys[slot] # 0}

LEMMA HasKeyIs ==
  ASSUME NEW z, IsPrime(z), NEW keys, NEW K, KeysHold(keys, z, K), NEW key \in Docs
  PROVE  HasKey(keys, key) <=> key \in K
<1>1. keys \in [0 .. z - 1 -> Offsets] /\ key # 0
  BY DocAssumption DEF KeysHold
<1>2. Slot(keys, key) \in 0 .. z - 1
  BY <1>1, SlotIs
<1>3. HasKey(keys, key) => key \in K
  BY <1>1, <1>2 DEF KeysHold, HasKey
<1>4. ASSUME key \in K PROVE HasKey(keys, key)
  <2>1. PICK i : Reached(keys, z, key, i) /\ keys[Probing(z, key, i)] = key
    BY <1>4 DEF KeysHold
  <2>2. Slot(keys, key) = Probing(z, key, i)
    BY <1>1, <2>1, SlotIs
  <2>3. QED
    BY <2>1, <2>2 DEF HasKey
<1>5. QED
  BY <1>3, <1>4

LEMMA AddKeyHolds ==
  ASSUME NEW z, IsPrime(z), NEW keys, NEW K, NEW key \in Docs, NEW n \in Nat,
         KeysHold(keys, z, K), Cardinality(Taken(keys, z)) <= n, n < z
  PROVE  /\ KeysHold(DhashAddKey(keys, key), z, K \cup {key})
         /\ Cardinality(Taken(DhashAddKey(keys, key), z)) <= n + 1
<1> DEFINE p == Slot(keys, key)
           more == DhashAddKey(keys, key)
           A == Taken(keys, z)
<1>1. keys \in [0 .. z - 1 -> Offsets] /\ K \subseteq Docs /\ 0 \notin Docs /\ key # 0
  BY DocAssumption DEF KeysHold
<1>2. z \in Nat /\ z >= 2 /\ p \in 0 .. z - 1
  BY <1>1, SlotIs DEF IsPrime
<1>3. IsFiniteSet(A) /\ Cardinality(A) \in Nat
  <2>1. IsFiniteSet(0 .. z - 1) /\ A \subseteq 0 .. z - 1
    BY <1>2, FS_Interval DEF Taken
  <2>2. QED
    BY <2>1, FS_Subset, FS_CardinalityType
<1>4. CASE key \in K
  <2>1. keys[p] = key
    BY <1>4, HasKeyIs DEF HasKey
  <2>2. more = keys
    BY <1>1, <2>1 DEF DhashAddKey
  <2>3. K \cup {key} = K
    BY <1>4
  <2> HIDE DEF more, A
  <2>4. Cardinality(Taken(more, z)) <= n + 1
    BY <1>3, <2>2 DEF A
  <2>5. KeysHold(more, z, K \cup {key})
    BY <2>2, <2>3
  <2>6. QED
    BY <2>4, <2>5 DEF more
<1>5. CASE key \notin K
  <2>1. PICK free \in 0 .. z - 1 : keys[free] = 0
    <3> SUFFICES ASSUME \A slot \in 0 .. z - 1 : keys[slot] # 0 PROVE FALSE
      OBVIOUS
    <3>1. A = 0 .. z - 1
      BY DEF Taken
    <3>2. Cardinality(0 .. z - 1) = IF 0 > z - 1 THEN 0 ELSE (z - 1) - 0 + 1
      BY <1>2, FS_Interval
    <3>3. Cardinality(A) = z
      BY <1>2, <3>1, <3>2
    <3>4. QED
      BY <1>2, <3>3
  <2>2. PICK f \in 0 .. z - 1 : Probing(z, key, f) = free
    BY ProbeMeets
  <2>3. f \in HitsOn(keys, z, key)
    BY <2>1, <2>2 DEF HitsOn
  <2>4. PICK i : Reached(keys, z, key, i)
    BY <1>1, <2>3, SlotIs
  <2>5. p = Probing(z, key, i)
    BY <1>1, <2>4, SlotIs
  <2>6. keys[p] = 0
    <3>1. keys[p] \in {key, 0}
      BY <2>4, <2>5 DEF Reached
    <3>2. keys[p] # 0 => keys[p] \in K
      BY <1>2 DEF KeysHold
    <3>3. QED
      BY <1>5, <3>1, <3>2
  <2>7. more = [keys EXCEPT ![p] = key]
    BY <2>6 DEF DhashAddKey
  <2> HIDE DEF p, more
  <2>8. /\ more \in [0 .. z - 1 -> Offsets] /\ more[p] = key
        /\ \A slot \in 0 .. z - 1 : slot # p => more[slot] = keys[slot]
    BY <1>1, <1>2, <2>7 DEF Offsets
  <2>9. \A slot \in 0 .. z - 1 : more[slot] # 0 => more[slot] \in K \cup {key}
    BY <2>8 DEF KeysHold
  <2>10. ASSUME NEW x \in K PROVE \E d : Reached(more, z, x, d) /\ more[Probing(z, x, d)] = x
    <3>1. PICK d : Reached(keys, z, x, d) /\ keys[Probing(z, x, d)] = x
      BY DEF KeysHold
    <3>2. d \in 0 .. z - 1 /\ x \in Docs /\ x # 0 /\ x # key
      BY <1>1, <1>5, <3>1 DEF Reached
    <3>3. \A j \in 0 .. d : Probing(z, x, j) \in 0 .. z - 1
      <4>1. \A j \in 0 .. d : j \in 0 .. z - 1
        BY <1>2, <3>2
      <4>2. QED
        BY <3>2, <4>1, ProbeMeets
    <3>4. Probing(z, x, d) # p /\ d \in 0 .. d
      BY <1>2, <2>6, <3>1, <3>2
    <3>5. more[Probing(z, x, d)] = x
      BY <2>8, <3>1, <3>3, <3>4
    <3>6. ASSUME NEW j \in 0 .. d - 1 PROVE more[Probing(z, x, j)] \notin {x, 0}
      <4>1. keys[Probing(z, x, j)] \notin {x, 0} /\ j \in 0 .. d
        BY <1>2, <3>1, <3>2 DEF Reached
      <4>2. Probing(z, x, j) # p
        BY <2>6, <4>1
      <4>3. QED
        BY <2>8, <3>3, <4>1, <4>2
    <3>7. Reached(more, z, x, d)
      BY <3>2, <3>5, <3>6 DEF Reached
    <3>8. QED
      BY <3>5, <3>7
  <2>11. Reached(more, z, key, i) /\ more[Probing(z, key, i)] = key
    <3>1. i \in 0 .. z - 1
      BY <2>4 DEF Reached
    <3>2. ASSUME NEW j \in 0 .. i - 1 PROVE more[Probing(z, key, j)] \notin {key, 0}
      <4>1. keys[Probing(z, key, j)] \notin {key, 0} /\ j \in 0 .. z - 1
        BY <1>2, <2>4, <3>1 DEF Reached
      <4>2. Probing(z, key, j) # p /\ Probing(z, key, j) \in 0 .. z - 1
        BY <2>6, <4>1, ProbeMeets
      <4>3. QED
        BY <2>8, <4>1, <4>2
    <3>3. more[Probing(z, key, i)] = key
      BY <2>5, <2>8
    <3>4. QED
      BY <3>1, <3>2, <3>3 DEF Reached
  <2>12. KeysHold(more, z, K \cup {key})
    BY <1>1, <2>8, <2>9, <2>10, <2>11 DEF KeysHold
  <2>13. Cardinality(Taken(more, z)) <= n + 1
    <3>1. Taken(more, z) = A \cup {p} /\ p \notin A
      BY <1>1, <1>2, <2>6, <2>8 DEF Taken
    <3> HIDE DEF A
    <3>2. Cardinality(A \cup {p}) = Cardinality(A) + 1
      BY <1>3, <3>1, FS_AddElement
    <3>3. Cardinality(A) <= n
      BY DEF A
    <3>4. QED
      BY <1>3, <3>1, <3>2, <3>3
  <2>14. QED
    BY <2>12, <2>13 DEF more
<1>6. QED
  BY <1>4, <1>5

LEMMA EmptyTableHolds ==
  ASSUME NEW entries \in 0 .. MaxRows
  PROVE  LET z == TableSize(entries) IN
         /\ IsPrime(z) /\ z > entries
         /\ KeysHold(EmptyTable(entries), z, {}) /\ Cardinality(Taken(EmptyTable(entries), z)) <= 0
<1> DEFINE z == TableSize(entries)
           larger == {n \in DOMAIN Sizes : Sizes[n] > 2 * entries}
<1>1. /\ Sizes \in Seq(Nat) /\ MaxRows \in Nat
      /\ \A n \in DOMAIN Sizes : Sizes[n] >= 2 /\ \A i, s \in 1 .. Sizes[n] - 1 : (i * s) % Sizes[n] # 0
  BY DocAssumption
<1>2. DOMAIN Sizes = 1 .. Len(Sizes)
  BY <1>1
<1>3. Len(Sizes) \in Nat /\ \A n \in 1 .. Len(Sizes) : Sizes[n] \in Nat
  BY <1>1
<1>4. PICK m \in DOMAIN Sizes : Sizes[m] > 2 * MaxRows
  BY DocAssumption
<1>5. m \in larger /\ larger \subseteq Nat
  <2>1. Sizes[m] \in Nat
    BY <1>2, <1>3
  <2>2. Sizes[m] > 2 * entries
    BY <1>1, <1>4, <2>1
  <2>3. QED
    BY <1>2, <1>3, <1>4, <2>2
<1>6. Min(larger) \in larger
  <2> HIDE DEF larger
  <2>1. QED
    BY <1>5, MinIsLeast
<1>7. z = Sizes[Min(larger)]
  BY <1>5 DEF TableSize
<1>8. z \in Nat /\ z > 2 * entries /\ IsPrime(z)
  <2>1. Min(larger) \in DOMAIN Sizes /\ Sizes[Min(larger)] > 2 * entries
    BY <1>6
  <2> HIDE DEF larger, z
  <2>2. QED
    BY <1>1, <1>2, <1>3, <1>7, <2>1 DEF IsPrime
<1> HIDE DEF z
<1>9. z > entries
  BY <1>1, <1>8
<1>10. EmptyTable(entries) = [slot \in 0 .. z - 1 |-> 0]
  BY DEF EmptyTable, z
<1>11. KeysHold(EmptyTable(entries), z, {})
  BY <1>10 DEF KeysHold, Offsets
<1>12. Taken(EmptyTable(entries), z) = {}
  BY <1>10 DEF Taken
<1>13. Cardinality(Taken(EmptyTable(entries), z)) <= 0
  <2>1. Cardinality({}) = 0
    BY FS_EmptySet
  <2>2. QED
    BY <1>12, <2>1
<1>14. QED
  BY <1>8, <1>9, <1>11, <1>13 DEF z

(***************************************************************************)
(* DocQuery: the removal of duplicates                                     *)
(***************************************************************************)

NestedWalk(docs, k, f) ==
  f = [n \in 0 .. k |-> IF n = 0 THEN EmptySet
                        ELSE AppendIf(f[n - 1], docs[n], docs[n] \notin Range(Listed(f[n - 1])))]
HashedWalk(entries, docs, k, f) ==
  f = [n \in 0 .. k |-> IF n = 0 THEN [keys |-> EmptyTable(entries), set |-> EmptySet]
                        ELSE [keys |-> DhashAddKey(f[n - 1].keys, docs[n]),
                              set |-> AppendIf(f[n - 1].set, docs[n], ~HasKey(f[n - 1].keys, docs[n]))]]
KeysWalk(entries, docs, k, f) ==
  f = [n \in 0 .. k |-> IF n = 0 THEN EmptyTable(entries) ELSE DhashAddKey(f[n - 1], docs[n])]

LEMMA NestedWalks ==
  ASSUME NEW docs, NEW m \in Nat
  PROVE  \E f : NestedWalk(docs, m, f)
<1> DEFINE After(n, x) == IF n = 0 THEN EmptySet ELSE AppendIf(x, docs[n], docs[n] \notin Range(Listed(x)))
           T == {k \in 0 .. m : \E f : NestedWalk(docs, k, f)}
<1>1. \A x, y : After(0, x) = After(0, y)
  OBVIOUS
<1>2. \A k, f : NestedWalk(docs, k, f) <=> f = [n \in 0 .. k |-> After(n, f[n - 1])]
  BY DEF NestedWalk
<1> HIDE DEF After
<1>3. 0 \in T
  <2> DEFINE g == [n \in 0 .. 0 |-> After(0, 0)]
  <2>1. \A n \in 0 .. 0 : g[n] = After(n, g[n - 1])
    BY <1>1
  <2>2. g = [n \in 0 .. 0 |-> After(n, g[n - 1])]
    BY <2>1
  <2> HIDE DEF g
  <2>3. NestedWalk(docs, 0, g)
    BY <1>2, <2>2
  <2>4. QED
    BY <2>3
<1>4. ASSUME NEW k \in 1 .. m, k - 1 \in T PROVE k \in T
  <2>1. PICK f : NestedWalk(docs, k - 1, f)
    BY <1>4
  <2>2. f = [n \in 0 .. k - 1 |-> After(n, f[n - 1])]
    BY <1>2, <2>1
  <2> DEFINE g == [n \in 0 .. k |-> IF n = k THEN After(k, f[k - 1]) ELSE f[n]]
  <2>3. ASSUME NEW n \in 0 .. k PROVE g[n] = After(n, g[n - 1])
    <3>1. n # 0 => n - 1 \in 0 .. k - 1 /\ n - 1 \in 0 .. k /\ n - 1 # k
      OBVIOUS
    <3>2. n # 0 => g[n - 1] = f[n - 1]
      BY <3>1
    <3>3. After(n, g[n - 1]) = After(n, f[n - 1])
      <4> HIDE DEF g
      <4>1. QED
        BY <1>1, <3>2
    <3>4. g[n] = After(n, f[n - 1])
      <4>1. n # k => n \in 0 .. k - 1
        OBVIOUS
      <4>2. n # k => f[n] = After(n, f[n - 1])
        BY <2>2, <4>1
      <4>3. QED
        BY <4>2
    <3>5. QED
      BY <3>3, <3>4
  <2>4. g = [n \in 0 .. k |-> g[n]]
    OBVIOUS
  <2> HIDE DEF g
  <2>5. NestedWalk(docs, k, g)
    BY <1>2, <2>3, <2>4
  <2>6. k \in 0 .. m
    OBVIOUS
  <2>7. QED
    BY <2>5, <2>6
<1> HIDE DEF T
<1>5. 0 .. m \subseteq T
  BY <1>3, <1>4, UpTo
<1>6. QED
  BY <1>5 DEF T

LEMMA HashedWalks ==
  ASSUME NEW entries, NEW docs, NEW m \in Nat
  PROVE  \E f : HashedWalk(entries, docs, m, f)
<1> DEFINE After(n, x) == IF n = 0 THEN [keys |-> EmptyTable(entries), set |-> EmptySet]
                          ELSE [keys |-> DhashAddKey(x.keys, docs[n]),
                                set |-> AppendIf(x.set, docs[n], ~HasKey(x.keys, docs[n]))]
           T == {k \in 0 .. m : \E f : HashedWalk(entries, docs, k, f)}
<1>1. \A x, y : After(0, x) = After(0, y)
  OBVIOUS
<1>2. \A k, f : HashedWalk(entries, docs, k, f) <=> f = [n \in 0 .. k |-> After(n, f[n - 1])]
  BY DEF HashedWalk
<1> HIDE DEF After
<1>3. 0 \in T
  <2> DEFINE g == [n \in 0 .. 0 |-> After(0, 0)]
  <2>1. \A n \in 0 .. 0 : g[n] = After(n, g[n - 1])
    BY <1>1
  <2>2. g = [n \in 0 .. 0 |-> After(n, g[n - 1])]
    BY <2>1
  <2> HIDE DEF g
  <2>3. HashedWalk(entries, docs, 0, g)
    BY <1>2, <2>2
  <2>4. QED
    BY <2>3
<1>4. ASSUME NEW k \in 1 .. m, k - 1 \in T PROVE k \in T
  <2>1. PICK f : HashedWalk(entries, docs, k - 1, f)
    BY <1>4
  <2>2. f = [n \in 0 .. k - 1 |-> After(n, f[n - 1])]
    BY <1>2, <2>1
  <2> DEFINE g == [n \in 0 .. k |-> IF n = k THEN After(k, f[k - 1]) ELSE f[n]]
  <2>3. ASSUME NEW n \in 0 .. k PROVE g[n] = After(n, g[n - 1])
    <3>1. n # 0 => n - 1 \in 0 .. k - 1 /\ n - 1 \in 0 .. k /\ n - 1 # k
      OBVIOUS
    <3>2. n # 0 => g[n - 1] = f[n - 1]
      BY <3>1
    <3>3. After(n, g[n - 1]) = After(n, f[n - 1])
      <4> HIDE DEF g
      <4>1. QED
        BY <1>1, <3>2
    <3>4. g[n] = After(n, f[n - 1])
      <4>1. n # k => n \in 0 .. k - 1
        OBVIOUS
      <4>2. n # k => f[n] = After(n, f[n - 1])
        BY <2>2, <4>1
      <4>3. QED
        BY <4>2
    <3>5. QED
      BY <3>3, <3>4
  <2>4. g = [n \in 0 .. k |-> g[n]]
    OBVIOUS
  <2> HIDE DEF g
  <2>5. HashedWalk(entries, docs, k, g)
    BY <1>2, <2>3, <2>4
  <2>6. k \in 0 .. m
    OBVIOUS
  <2>7. QED
    BY <2>5, <2>6
<1> HIDE DEF T
<1>5. 0 .. m \subseteq T
  BY <1>3, <1>4, UpTo
<1>6. QED
  BY <1>5 DEF T

LEMMA KeysWalks ==
  ASSUME NEW entries, NEW docs, NEW m \in Nat
  PROVE  \E f : KeysWalk(entries, docs, m, f)
<1> DEFINE After(n, x) == IF n = 0 THEN EmptyTable(entries) ELSE DhashAddKey(x, docs[n])
           T == {k \in 0 .. m : \E f : KeysWalk(entries, docs, k, f)}
<1>1. \A x, y : After(0, x) = After(0, y)
  OBVIOUS
<1>2. \A k, f : KeysWalk(entries, docs, k, f) <=> f = [n \in 0 .. k |-> After(n, f[n - 1])]
  BY DEF KeysWalk
<1> HIDE DEF After
<1>3. 0 \in T
  <2> DEFINE g == [n \in 0 .. 0 |-> After(0, 0)]
  <2>1. \A n \in 0 .. 0 : g[n] = After(n, g[n - 1])
    BY <1>1
  <2>2. g = [n \in 0 .. 0 |-> After(n, g[n - 1])]
    BY <2>1
  <2> HIDE DEF g
  <2>3. KeysWalk(entries, docs, 0, g)
    BY <1>2, <2>2
  <2>4. QED
    BY <2>3
<1>4. ASSUME NEW k \in 1 .. m, k - 1 \in T PROVE k \in T
  <2>1. PICK f : KeysWalk(entries, docs, k - 1, f)
    BY <1>4
  <2>2. f = [n \in 0 .. k - 1 |-> After(n, f[n - 1])]
    BY <1>2, <2>1
  <2> DEFINE g == [n \in 0 .. k |-> IF n = k THEN After(k, f[k - 1]) ELSE f[n]]
  <2>3. ASSUME NEW n \in 0 .. k PROVE g[n] = After(n, g[n - 1])
    <3>1. n # 0 => n - 1 \in 0 .. k - 1 /\ n - 1 \in 0 .. k /\ n - 1 # k
      OBVIOUS
    <3>2. n # 0 => g[n - 1] = f[n - 1]
      BY <3>1
    <3>3. After(n, g[n - 1]) = After(n, f[n - 1])
      <4> HIDE DEF g
      <4>1. QED
        BY <1>1, <3>2
    <3>4. g[n] = After(n, f[n - 1])
      <4>1. n # k => n \in 0 .. k - 1
        OBVIOUS
      <4>2. n # k => f[n] = After(n, f[n - 1])
        BY <2>2, <4>1
      <4>3. QED
        BY <4>2
    <3>5. QED
      BY <3>3, <3>4
  <2>4. g = [n \in 0 .. k |-> g[n]]
    OBVIOUS
  <2> HIDE DEF g
  <2>5. KeysWalk(entries, docs, k, g)
    BY <1>2, <2>3, <2>4
  <2>6. k \in 0 .. m
    OBVIOUS
  <2>7. QED
    BY <2>5, <2>6
<1> HIDE DEF T
<1>5. 0 .. m \subseteq T
  BY <1>3, <1>4, UpTo
<1>6. QED
  BY <1>5 DEF T

\* A list in which nothing is twice, and what it has if it is made from the
\* first n documents.
Once(s) == \A x : Among(s, Len(s), {x}) <= 1
Seen(docs, n) == {docs[i] : i \in 1 .. n}
DistinctList(l, docs, n) == l \in Seq(Docs) /\ Once(l) /\ Range(l) = Seen(docs, n) /\ Len(l) <= n
Distinct(s, docs, n) == \E l : Holding(s, l) /\ DistinctList(l, docs, n)

LEMMA SeenIs ==
  ASSUME NEW docs \in Seq(Docs)
  PROVE  /\ Seen(docs, 0) = {} /\ Seen(docs, Len(docs)) = Range(docs)
         /\ \A n \in 1 .. Len(docs) : Seen(docs, n) = Seen(docs, n - 1) \cup {docs[n]}
<1>1. Len(docs) \in Nat /\ DOMAIN docs = 1 .. Len(docs)
  OBVIOUS
<1>2. Seen(docs, 0) = {}
  BY DEF Seen
<1>3. Seen(docs, Len(docs)) = Range(docs)
  BY <1>1 DEF Seen, Range
<1>4. ASSUME NEW n \in 1 .. Len(docs) PROVE Seen(docs, n) = Seen(docs, n - 1) \cup {docs[n]}
  <2>1. 1 .. n = (1 .. n - 1) \cup {n}
    BY <1>1
  <2>2. QED
    BY <2>1 DEF Seen
<1>5. QED
  BY <1>2, <1>3, <1>4

\* A document goes into the set the first time it is seen.
LEMMA AppendDistinct ==
  ASSUME NEW docs \in Seq(Docs), NEW n \in 1 .. Len(docs), NEW s, NEW l,
         Holding(s, l), DistinctList(l, docs, n - 1)
  PROVE  /\ docs[n] \in Seen(docs, n - 1) => Distinct(s, docs, n)
         /\ docs[n] \notin Seen(docs, n - 1) => Distinct(AppendRow(s, docs[n]), docs, n)
<1> DEFINE d == docs[n]
           m == Append(l, d)
<1>1. /\ l \in Seq(Docs) /\ Once(l) /\ Range(l) = Seen(docs, n - 1) /\ Len(l) <= n - 1
      /\ Len(l) \in Nat /\ n \in Nat
  BY DEF DistinctList
<1>2. Seen(docs, n) = Seen(docs, n - 1) \cup {d}
  BY SeenIs
<1>3. d \in Docs
  OBVIOUS
<1> HIDE DEF d
<1>4. ASSUME d \in Seen(docs, n - 1) PROVE Distinct(s, docs, n)
  <2>1. Range(l) = Seen(docs, n) /\ Len(l) <= n
    BY <1>1, <1>2, <1>4
  <2>2. DistinctList(l, docs, n)
    BY <1>1, <2>1 DEF DistinctList
  <2>3. QED
    BY <2>2 DEF Distinct
<1>5. ASSUME d \notin Seen(docs, n - 1) PROVE Distinct(AppendRow(s, d), docs, n)
  <2>1. m \in Seq(Docs) /\ Range(m) = Range(l) \cup {d}
    BY <1>1, <1>3, AppendedRange
  <2>2. Len(m) = Len(l) + 1
    BY <1>1, <1>3
  <2>3. ASSUME NEW x PROVE Among(m, Len(m), {x}) <= 1
    <3>1. Among(m, Len(m), {x}) = Among(l, Len(l), {x}) + IF d \in {x} THEN 1 ELSE 0
      BY <1>1, <1>3, AmongAppended
    <3>2. Among(l, Len(l), {x}) \in Nat /\ Among(l, Len(l), {x}) <= 1
      BY <1>1, AmongIs DEF Once
    <3>3. CASE d = x
      <4>1. \A i \in 1 .. Len(l) : l[i] \notin {x}
        <5>1. \A i \in 1 .. Len(l) : l[i] \in Range(l)
          BY <1>1 DEF Range
        <5>2. QED
          BY <1>1, <1>5, <3>3, <5>1
      <4>2. Among(l, Len(l), {x}) = 0
        BY <1>1, <4>1, AmongIs
      <4>3. QED
        BY <3>1, <3>3, <4>2
    <3>4. CASE d # x
      BY <3>1, <3>2, <3>4
    <3>5. QED
      BY <3>3, <3>4
  <2> HIDE DEF m
  <2>4. DistinctList(m, docs, n)
    <3>1. Once(m)
      BY <2>3 DEF Once
    <3>2. Len(m) <= n
      BY <1>1, <2>2
    <3>3. Range(m) = Seen(docs, n)
      BY <1>1, <1>2, <2>1
    <3>4. QED
      BY <2>1, <3>1, <3>2, <3>3 DEF DistinctList
  <2>5. Holding(AppendRow(s, d), m)
    BY <1>3, AppendRowHolds DEF m
  <2>6. QED
    BY <2>4, <2>5 DEF Distinct
<1>6. QED
  BY <1>4, <1>5 DEF d

LEMMA NothingDistinct ==
  ASSUME NEW docs \in Seq(Docs)
  PROVE  Distinct(EmptySet, docs, 0)
<1>1. <<>> \in Seq(Docs) /\ Len(<<>>) = 0 /\ Range(<<>>) = {}
  BY DEF Range
<1>2. Once(<<>>)
  <2>1. \A x : Among(<<>>, 0, {x}) = 0
    <3>1. \A x : \A i \in 1 .. 0 : FALSE
      OBVIOUS
    <3>2. QED
      BY AmongIs
  <2>2. QED
    BY <1>1, <2>1 DEF Once
<1>3. DistinctList(<<>>, docs, 0)
  <2>1. Seen(docs, 0) = {}
    BY SeenIs
  <2>2. Len(<<>>) <= 0
    BY <1>1
  <2>3. QED
    BY <1>1, <1>2, <2>1, <2>2 DEF DistinctList
<1>4. QED
  BY <1>3, EmptyHolds DEF Distinct

LEMMA NestedIs ==
  ASSUME NEW docs \in Seq(Docs), NEW f, NestedWalk(docs, Len(docs), f)
  PROVE  Distinct(f[Len(docs)], docs, Len(docs))
<1> DEFINE m == Len(docs)
           T == {n \in 0 .. m : Distinct(f[n], docs, n)}
<1>1. m \in Nat
  OBVIOUS
<1>2. /\ f[0] = EmptySet
      /\ \A n \in 1 .. m : f[n] = AppendIf(f[n - 1], docs[n], docs[n] \notin Range(Listed(f[n - 1])))
  BY <1>1 DEF NestedWalk
<1>3. 0 \in T
  BY <1>1, <1>2, NothingDistinct
<1>4. ASSUME NEW n \in 1 .. m, n - 1 \in T PROVE n \in T
  <2>1. PICK l : Holding(f[n - 1], l) /\ DistinctList(l, docs, n - 1)
    BY <1>4 DEF Distinct
  <2>2. Listed(f[n - 1]) = l /\ Range(l) = Seen(docs, n - 1)
    BY <2>1, ListedIs DEF DistinctList
  <2>3. f[n] = IF docs[n] \notin Seen(docs, n - 1) THEN AppendRow(f[n - 1], docs[n]) ELSE f[n - 1]
    BY <1>2, <2>2 DEF AppendIf
  <2>4. Distinct(f[n], docs, n)
    BY <2>1, <2>3, AppendDistinct
  <2>5. n \in 0 .. m
    BY <1>1
  <2>6. QED
    BY <2>4, <2>5
<1> HIDE DEF T
<1>5. 0 .. m \subseteq T
  BY <1>1, <1>3, <1>4, UpTo
<1>6. m \in T
  BY <1>1, <1>5
<1>7. QED
  BY <1>6 DEF T

LEMMA HashedIs ==
  ASSUME NEW docs \in Seq(Docs), Len(docs) <= MaxRows, NEW f, HashedWalk(Len(docs), docs, Len(docs), f)
  PROVE  Distinct(f[Len(docs)].set, docs, Len(docs))
<1> DEFINE m == Len(docs)
           z == TableSize(m)
           Right(n) == /\ Distinct(f[n].set, docs, n)
                       /\ KeysHold(f[n].keys, z, Seen(docs, n)) /\ Cardinality(Taken(f[n].keys, z)) <= n
           T == {n \in 0 .. m : Right(n)}
<1>1. m \in Nat /\ m \in 0 .. MaxRows
  BY DocAssumption
<1>2. IsPrime(z) /\ z > m /\ KeysHold(EmptyTable(m), z, {}) /\ Cardinality(Taken(EmptyTable(m), z)) <= 0
  BY <1>1, EmptyTableHolds
<1> HIDE DEF z
<1>3. /\ f[0] = [keys |-> EmptyTable(m), set |-> EmptySet]
      /\ \A n \in 1 .. m :
           f[n] = [keys |-> DhashAddKey(f[n - 1].keys, docs[n]),
                   set |-> AppendIf(f[n - 1].set, docs[n], ~HasKey(f[n - 1].keys, docs[n]))]
  BY <1>1 DEF HashedWalk
<1>4. 0 \in T
  <2>1. f[0].keys = EmptyTable(m) /\ f[0].set = EmptySet
    BY <1>3
  <2>2. Right(0)
    BY <1>2, <2>1, NothingDistinct, SeenIs
  <2> HIDE DEF Right
  <2>3. QED
    BY <1>1, <2>2
<1>5. ASSUME NEW n \in 1 .. m, n - 1 \in T PROVE n \in T
  <2> DEFINE keys == f[n - 1].keys
             s == f[n - 1].set
  <2>1. /\ Distinct(s, docs, n - 1) /\ KeysHold(keys, z, Seen(docs, n - 1))
        /\ Cardinality(Taken(keys, z)) <= n - 1
    BY <1>5
  <2>2. n - 1 \in Nat /\ n - 1 < z /\ (n - 1) + 1 = n /\ docs[n] \in Docs /\ n \in 0 .. m
    BY <1>1, <1>2 DEF IsPrime
  <2>3. /\ f[n].keys = DhashAddKey(keys, docs[n])
        /\ f[n].set = AppendIf(s, docs[n], ~HasKey(keys, docs[n]))
    <3> DEFINE more == DhashAddKey(keys, docs[n])
               t == AppendIf(s, docs[n], ~HasKey(keys, docs[n]))
    <3>1. f[n] = [keys |-> more, set |-> t]
      BY <1>3
    <3> HIDE DEF more, t
    <3>2. f[n].keys = more /\ f[n].set = t
      BY <3>1
    <3>3. QED
      BY <3>2 DEF more, t
  <2> HIDE DEF keys, s
  <2>4. HasKey(keys, docs[n]) <=> docs[n] \in Seen(docs, n - 1)
    BY <1>2, <2>1, <2>2, HasKeyIs
  <2>5. Distinct(f[n].set, docs, n)
    <3>1. PICK l : Holding(s, l) /\ DistinctList(l, docs, n - 1)
      BY <2>1 DEF Distinct
    <3>2. f[n].set = IF docs[n] \notin Seen(docs, n - 1) THEN AppendRow(s, docs[n]) ELSE s
      BY <2>3, <2>4 DEF AppendIf
    <3>3. QED
      BY <3>1, <3>2, AppendDistinct
  <2>6. /\ KeysHold(f[n].keys, z, Seen(docs, n - 1) \cup {docs[n]})
        /\ Cardinality(Taken(f[n].keys, z)) <= (n - 1) + 1
    BY <1>2, <2>1, <2>2, <2>3, AddKeyHolds
  <2>7. Seen(docs, n) = Seen(docs, n - 1) \cup {docs[n]}
    BY SeenIs
  <2>8. Right(n)
    BY <2>2, <2>5, <2>6, <2>7
  <2> HIDE DEF Right
  <2>9. QED
    BY <2>2, <2>8
<1> HIDE DEF T
<1>6. 0 .. m \subseteq T
  BY <1>1, <1>4, <1>5, UpTo
<1>7. m \in T
  BY <1>1, <1>6
<1>8. QED
  BY <1>7 DEF T

\* Each document once, with nested loops or with the table.
LEMMA UniqueIs ==
  ASSUME NEW set, NEW docs, Holding(set, docs), Len(docs) <= MaxRows
  PROVE  Distinct(Unique(set), docs, Len(docs))
<1>1. docs \in Seq(Docs) /\ set.count = Len(docs) /\ Listed(set) = docs /\ Len(docs) \in Nat
  <2>1. docs \in Seq(Docs) /\ set.count = Len(docs)
    BY DEF Holding
  <2>2. Listed(set) = docs
    BY ListedIs
  <2>3. QED
    BY <2>1, <2>2
<1> DEFINE m == Len(docs)
           nested == CHOOSE f : NestedWalk(docs, m, f)
           hashed == CHOOSE f : HashedWalk(m, docs, m, f)
<1>2. Unique(set) = IF set.count < HashUniqueFrom THEN nested[m] ELSE hashed[m].set
  BY <1>1 DEF Unique, NestedWalk, HashedWalk
<1>3. NestedWalk(docs, m, nested)
  BY <1>1, NestedWalks
<1>4. HashedWalk(m, docs, m, hashed)
  BY <1>1, HashedWalks
<1> HIDE DEF nested, hashed
<1>5. Distinct(nested[m], docs, m)
  BY <1>1, <1>3, NestedIs
<1>6. Distinct(hashed[m].set, docs, m)
  BY <1>1, <1>4, HashedIs
<1>7. QED
  BY <1>2, <1>5, <1>6

(***************************************************************************)
(* DocQuery: joins and clauses                                             *)
(***************************************************************************)

LEMMA KeepOnce ==
  ASSUME NEW X, NEW s \in Seq(X), Once(s), NEW S
  PROVE  Once(Keep(s, S))
<1> DEFINE k == Keep(s, S)
<1>1. Keeps(k, s, Len(s), S) /\ Len(s) \in Nat
  BY KeepIs
<1> HIDE DEF k
<1>2. ASSUME NEW x PROVE Among(k, Len(k), {x}) <= 1
  <2>1. Among(k, Len(k), {x}) = Among(s, Len(s), {x} \cap S)
    BY <1>1 DEF Keeps
  <2>2. CASE x \in S
    <3>1. {x} \cap S = {x}
      BY <2>2
    <3>2. QED
      BY <2>1, <3>1 DEF Once
  <2>3. CASE x \notin S
    <3>1. {x} \cap S = {}
      BY <2>3
    <3>2. \A i \in 1 .. Len(s) : s[i] \notin {}
      OBVIOUS
    <3>3. Among(s, Len(s), {}) = 0
      BY <1>1, <3>2, AmongIs
    <3>4. Among(k, Len(k), {x}) = Among(s, Len(s), {})
      BY <2>1, <3>1
    <3>5. QED
      BY <3>3, <3>4
  <2>4. QED
    BY <2>2, <2>3
<1>3. QED
  BY <1>2 DEF Once, k

LEMMA OnceInjective ==
  ASSUME NEW X, NEW l \in Seq(X), Once(l)
  PROVE  IsInjective(l)
<1> DEFINE n == Len(l)
<1>1. n \in Nat /\ DOMAIN l = 1 .. n
  OBVIOUS
<1>2. ASSUME NEW a \in 1 .. n, NEW b \in 1 .. n, l[a] = l[b], a # b PROVE FALSE
  <2> DEFINE H == Hitting(l, n, {l[a]})
  <2>1. {a} \cup {b} \subseteq H
    BY <1>2 DEF Hitting
  <2>2. IsFiniteSet(H) /\ Cardinality(H) <= 1 /\ Cardinality(H) \in Nat
    <3>1. IsFiniteSet(H)
      BY <1>1, AmongIs
    <3>2. Among(l, n, {l[a]}) <= 1
      BY DEF Once
    <3>3. QED
      BY <3>1, <3>2, FS_CardinalityType DEF Among
  <2> HIDE DEF H
  <2>3. Cardinality({a}) = 1 /\ IsFiniteSet({a})
    BY FS_Singleton
  <2>4. Cardinality({a} \cup {b}) = Cardinality({a}) + 1
    BY <1>2, <2>3, FS_AddElement
  <2>5. Cardinality({a} \cup {b}) <= Cardinality(H)
    BY <2>1, <2>2, FS_Subset
  <2> DEFINE c == Cardinality(H)
             d == Cardinality({a} \cup {b})
             e == Cardinality({a})
  <2>6. e = 1 /\ d = e + 1
    BY <2>3, <2>4, Zenon
  <2>7. c \in Nat /\ c <= 1 /\ d <= c
    BY <2>2, <2>5
  <2> HIDE DEF c, d, e
  <2>8. QED
    BY <2>6, <2>7
<1>3. QED
  BY <1>1, <1>2 DEF IsInjective

LEMMA KeysOfHold ==
  ASSUME NEW docs \in Seq(Docs), Len(docs) <= MaxRows
  PROVE  /\ IsPrime(TableSize(Len(docs)))
         /\ KeysHold(KeysOf(Len(docs), docs), TableSize(Len(docs)), Range(docs))
<1> DEFINE m == Len(docs)
           z == TableSize(m)
           f == CHOOSE f : KeysWalk(m, docs, m, f)
           Right(n) == KeysHold(f[n], z, Seen(docs, n)) /\ Cardinality(Taken(f[n], z)) <= n
           T == {n \in 0 .. m : Right(n)}
<1>1. m \in Nat /\ m \in 0 .. MaxRows
  BY DocAssumption
<1>2. IsPrime(z) /\ z > m /\ KeysHold(EmptyTable(m), z, {}) /\ Cardinality(Taken(EmptyTable(m), z)) <= 0
  BY <1>1, EmptyTableHolds
<1>3. KeysOf(m, docs) = f[m]
  BY DEF KeysOf, KeysWalk
<1>4. KeysWalk(m, docs, m, f)
  BY <1>1, KeysWalks
<1> HIDE DEF z, f
<1>5. f[0] = EmptyTable(m) /\ \A n \in 1 .. m : f[n] = DhashAddKey(f[n - 1], docs[n])
  BY <1>1, <1>4 DEF KeysWalk
<1>6. 0 \in T
  <2>1. Right(0)
    BY <1>2, <1>5, SeenIs
  <2> HIDE DEF Right
  <2>2. QED
    BY <1>1, <2>1
<1>7. ASSUME NEW n \in 1 .. m, n - 1 \in T PROVE n \in T
  <2>1. KeysHold(f[n - 1], z, Seen(docs, n - 1)) /\ Cardinality(Taken(f[n - 1], z)) <= n - 1
    BY <1>7
  <2>2. n - 1 \in Nat /\ n - 1 < z /\ (n - 1) + 1 = n /\ docs[n] \in Docs /\ n \in 0 .. m
    BY <1>1, <1>2 DEF IsPrime
  <2>3. /\ KeysHold(f[n], z, Seen(docs, n - 1) \cup {docs[n]})
        /\ Cardinality(Taken(f[n], z)) <= (n - 1) + 1
    <3> DEFINE keys == f[n - 1]
               K == Seen(docs, n - 1)
    <3>1. KeysHold(keys, z, K) /\ Cardinality(Taken(keys, z)) <= n - 1 /\ f[n] = DhashAddKey(keys, docs[n])
      BY <1>5, <2>1
    <3> HIDE DEF keys, K
    <3> DEFINE d == docs[n]
               i == n - 1
    <3>2. d \in Docs /\ i \in Nat /\ i < z
      BY <2>2
    <3> HIDE DEF d, i
    <3>3. /\ KeysHold(DhashAddKey(keys, d), z, K \cup {d})
          /\ Cardinality(Taken(DhashAddKey(keys, d), z)) <= i + 1
      BY <1>2, <3>1, <3>2, AddKeyHolds DEF i
    <3>4. QED
      BY <3>1, <3>3 DEF K, d, i
  <2>4. Seen(docs, n) = Seen(docs, n - 1) \cup {docs[n]}
    BY SeenIs
  <2>5. Right(n)
    BY <2>2, <2>3, <2>4
  <2> HIDE DEF Right
  <2>6. QED
    BY <2>2, <2>5
<1> HIDE DEF T
<1>8. 0 .. m \subseteq T
  BY <1>1, <1>6, <1>7, UpTo
<1>9. m \in T
  BY <1>1, <1>8
<1>10. KeysHold(f[m], z, Seen(docs, m))
  BY <1>9 DEF T
<1>11. Seen(docs, m) = Range(docs)
  BY SeenIs
<1>12. QED
  BY <1>2, <1>3, <1>10, <1>11 DEF z

\* A set that holds the documents D, each once.
ResultList(s, D, l) == Holding(s, l) /\ Once(l) /\ Range(l) = D /\ Len(l) <= MaxRows
Result(s, D) == \E l : ResultList(s, D, l)

LEMMA ResultIs ==
  ASSUME NEW s, NEW D, NEW l, ResultList(s, D, l)
  PROVE  /\ l \in Seq(Docs) /\ Len(l) \in Nat /\ Len(l) <= MaxRows /\ D \subseteq Docs
         /\ Listed(s) = l /\ s.count = Len(l) /\ Range(l) = D /\ Once(l)
<1>1. Holding(s, l) /\ Once(l) /\ Range(l) = D /\ Len(l) <= MaxRows
  BY DEF ResultList
<1>2. l \in Seq(Docs) /\ s.count = Len(l)
  BY <1>1 DEF Holding
<1>3. Listed(s) = l
  BY <1>1, ListedIs
<1>4. Range(l) \subseteq Docs /\ Len(l) \in Nat
  BY <1>2 DEF Range
<1>5. QED
  BY <1>1, <1>2, <1>3, <1>4

\* What is kept of a list is a result.
LEMMA KeptIs ==
  ASSUME NEW l \in Seq(Docs), Once(l), Len(l) <= MaxRows, NEW S
  PROVE  Result(SetOf(Keep(l, S)), Range(l) \cap S)
<1> DEFINE k == Keep(l, S)
<1>1. k \in Seq(Docs) /\ Range(k) = Range(l) \cap S /\ Len(k) <= Len(l) /\ Once(k)
  BY KeepIs, KeepRange, KeepOnce
<1>2. Len(l) \in Nat /\ Len(k) \in Nat /\ MaxRows \in Nat
  BY <1>1, DocAssumption
<1>3. Holding(SetOf(k), k)
  BY <1>1, SetOfHolds
<1>4. ResultList(SetOf(k), Range(l) \cap S, k)
  BY <1>1, <1>2, <1>3 DEF ResultList
<1>5. QED
  BY <1>4 DEF Result

LEMMA UniqueResult ==
  ASSUME NEW docs \in Seq(Docs), Len(docs) <= MaxRows
  PROVE  Result(Unique(SetOf(docs)), Range(docs))
<1>1. PICK l : Holding(Unique(SetOf(docs)), l) /\ DistinctList(l, docs, Len(docs))
  BY SetOfHolds, UniqueIs DEF Distinct
<1>2. Len(docs) \in Nat /\ MaxRows \in Nat
  BY DocAssumption
<1>3. l \in Seq(Docs) /\ Once(l) /\ Range(l) = Range(docs) /\ Len(l) <= Len(docs)
  BY <1>1, SeenIs DEF DistinctList
<1>4. Len(l) \in Nat
  BY <1>3
<1>5. ResultList(Unique(SetOf(docs)), Range(docs), l)
  BY <1>1, <1>2, <1>3, <1>4 DEF ResultList
<1>6. QED
  BY <1>5 DEF Result

\* A join has what both sets have, with nested loops or with the table.
LEMMA IntersectIs ==
  ASSUME NEW a, NEW A, Result(a, A), NEW b, NEW B, Result(b, B)
  PROVE  Result(Intersect(a, b), A \cap B)
<1>1. PICK k : ResultList(a, A, k)
  BY DEF Result
<1>2. PICK l : ResultList(b, B, l)
  BY DEF Result
<1>3. /\ k \in Seq(Docs) /\ Len(k) \in Nat /\ Len(k) <= MaxRows /\ A \subseteq Docs
      /\ Listed(a) = k /\ a.count = Len(k) /\ Range(k) = A /\ Once(k)
  BY <1>1, ResultIs
<1>4. /\ l \in Seq(Docs) /\ Len(l) \in Nat /\ Len(l) <= MaxRows /\ B \subseteq Docs
      /\ Listed(b) = l /\ b.count = Len(l) /\ Range(l) = B /\ Once(l)
  BY <1>2, ResultIs
<1>5. CASE a.count * b.count < HashJoinFrom
  <2>1. Intersect(a, b) = SetOf(Keep(k, B))
    BY <1>3, <1>4, <1>5 DEF Intersect
  <2>2. QED
    BY <1>3, <2>1, KeptIs
<1>6. CASE ~ (a.count * b.count < HashJoinFrom)
  <2> DEFINE few == IF a.count > b.count THEN l ELSE k
             many == IF a.count > b.count THEN k ELSE l
             keys == KeysOf(Len(few), few)
             hit == {doc \in Range(many) : HasKey(keys, doc)}
  <2>1. Intersect(a, b) = SetOf(Keep(many, hit))
    BY <1>3, <1>4, <1>6 DEF Intersect
  <2>2. /\ few \in Seq(Docs) /\ Len(few) <= MaxRows /\ many \in Seq(Docs) /\ Len(many) <= MaxRows /\ Once(many)
        /\ Range(many) \subseteq Docs /\ Range(many) \cap Range(few) = A \cap B
    BY <1>3, <1>4
  <2> HIDE DEF few, many
  <2>3. IsPrime(TableSize(Len(few))) /\ KeysHold(keys, TableSize(Len(few)), Range(few))
    BY <2>2, KeysOfHold
  <2> HIDE DEF keys
  <2>4. \A doc \in Docs : HasKey(keys, doc) <=> doc \in Range(few)
    BY <2>3, HasKeyIs
  <2>5. Range(many) \cap hit = A \cap B
    BY <2>2, <2>4
  <2> HIDE DEF hit
  <2>6. Result(SetOf(Keep(many, hit)), Range(many) \cap hit)
    BY <2>2, KeptIs
  <2>7. QED
    BY <2>1, <2>5, <2>6
<1>7. QED
  BY <1>5, <1>6

-----------------------------------------------------------------------------
(* Queries                                                                 *)

\* The documents that all clauses found.
Common(cs) == {doc \in Docs : \A i \in DOMAIN cs : doc \in cs[i]}

LEMMA CommonNext ==
  ASSUME NEW cs \in Seq(SUBSET Docs), NEW C \in SUBSET Docs
  PROVE  /\ Append(cs, C) \in Seq(SUBSET Docs) /\ Append(cs, C) # <<>>
         /\ Common(Append(cs, C)) = Common(cs) \cap C
<1> DEFINE m == Append(cs, C)
<1>1. /\ m \in Seq(SUBSET Docs) /\ Len(cs) \in Nat /\ Len(m) = Len(cs) + 1 /\ m[Len(cs) + 1] = C
      /\ \A i \in 1 .. Len(cs) : m[i] = cs[i]
  OBVIOUS
<1> HIDE DEF m
<1>2. DOMAIN cs = 1 .. Len(cs)
  OBVIOUS
<1>3. DOMAIN m = 1 .. Len(m)
  BY <1>1
<1>4. DOMAIN m = DOMAIN cs \cup {Len(cs) + 1}
  BY <1>1, <1>2, <1>3
<1>5. \A doc : (\A i \in DOMAIN m : doc \in m[i]) <=> (\A i \in DOMAIN cs : doc \in cs[i]) /\ doc \in C
  BY <1>1, <1>2, <1>4
<1>6. Common(m) = Common(cs) \cap C
  BY <1>5 DEF Common
<1>7. m # <<>>
  <2>1. Len(m) # 0 /\ Len(<<>>) = 0
    BY <1>1
  <2>2. QED
    BY <2>1
<1>8. QED
  BY <1>1, <1>6, <1>7 DEF m

\* What a document query keeps true unless it fails.
Merging ==
  \/ currres = NoQuery
  \/ /\ clauses \in Seq(SUBSET Docs)
     /\ clauses = <<>> => currres = NoResult
     /\ clauses # <<>> => Result(currres, Common(clauses))

LEMMA MergingExact ==
  ASSUME Merging
  PROVE  MergedExactly
<1> SUFFICES ASSUME clauses # <<>>, currres # NoQuery
             PROVE  /\ IsInjective(Listed(currres)) /\ Range(Listed(currres)) = Common(clauses)
                    /\ currres.count = Len(Listed(currres))
  BY DEF MergedExactly, Common
<1>1. PICK l : ResultList(currres, Common(clauses), l)
  BY DEF Merging, Result
<1>2. /\ l \in Seq(Docs) /\ Listed(currres) = l /\ currres.count = Len(l)
      /\ Range(l) = Common(clauses) /\ Once(l)
  BY <1>1, ResultIs
<1>3. QED
  BY <1>2, OnceInjective

LEMMA ResultNotNone ==
  ASSUME NEW s, NEW D, Result(s, D)
  PROVE  s # NoResult
<1>1. PICK l : ResultList(s, D, l)
  BY DEF Result
<1>2. s.count \in Nat
  BY <1>1, ResultIs
<1>3. NoResult.count = -1
  BY DEF NoResult, EmptySet
<1>4. QED
  BY <1>2, <1>3

LEMMA LookUpMerges ==
  ASSUME Merging, currres # NoQuery, NEW docs \in SeqOf(Docs, MaxRows), LookUp(docs)
  PROVE  Merging'
<1>1. docs \in Seq(Docs) /\ Len(docs) <= MaxRows
  <2>1. PICK m \in 0 .. MaxRows : docs \in [1 .. m -> Docs]
    BY DEF SeqOf
  <2>2. m \in Nat /\ m <= MaxRows
    BY DocAssumption
  <2>3. QED
    BY <2>1, <2>2
<1> DEFINE next == Unique(SetOf(docs))
           C == Range(docs)
<1>2. Result(next, C)
  BY <1>1, UniqueResult
<1>3. C \in SUBSET Docs
  BY <1>1 DEF Range
<1>4. /\ currres' = (IF currres = NoResult THEN next ELSE Intersect(currres, next))
      /\ clauses' = Append(clauses, C)
  BY DEF LookUp
<1> HIDE DEF next, C
<1>5. /\ clauses' \in Seq(SUBSET Docs) /\ clauses' # <<>> /\ Common(clauses') = Common(clauses) \cap C
  BY <1>3, <1>4, CommonNext DEF Merging
<1>6. Result(currres', Common(clauses'))
  <2>1. CASE clauses = <<>>
    <3>1. currres' = next
      BY <1>4, <2>1 DEF Merging
    <3>2. Common(clauses) = Docs
      BY <2>1 DEF Common
    <3>3. Common(clauses') = C
      BY <1>3, <1>5, <3>2
    <3>4. QED
      BY <1>2, <3>1, <3>3
  <2>2. CASE clauses # <<>>
    <3>1. Result(currres, Common(clauses)) /\ currres # NoResult
      BY <2>2, ResultNotNone DEF Merging
    <3>2. QED
      BY <1>2, <1>4, <1>5, <3>1, IntersectIs
  <2>3. QED
    BY <2>1, <2>2
<1>7. Result(currres, Common(clauses))' 
  BY <1>6 DEF Result, ResultList, Holding, Common
<1>8. QED
  BY <1>5, <1>7 DEF Merging

LEMMA ScanMerges ==
  ASSUME Merging, currres # NoQuery, NEW matching \in SUBSET Docs, ScanResult(matching)
  PROVE  Merging'
<1>1. /\ currres # NoResult /\ currres' = Unique(SetOf(Keep(Listed(currres), matching)))
      /\ clauses' = Append(clauses, matching)
  BY DEF ScanResult
<1>2. Result(currres, Common(clauses))
  BY <1>1 DEF Merging
<1>3. PICK l : ResultList(currres, Common(clauses), l)
  BY <1>2 DEF Result
<1>4. /\ l \in Seq(Docs) /\ Len(l) \in Nat /\ Len(l) <= MaxRows /\ Listed(currres) = l
      /\ Range(l) = Common(clauses)
  BY <1>3, ResultIs
<1>5. /\ Keep(l, matching) \in Seq(Docs) /\ Len(Keep(l, matching)) <= Len(l)
      /\ Range(Keep(l, matching)) = Common(clauses) \cap matching
  BY <1>4, KeepIs, KeepRange
<1>6. Len(Keep(l, matching)) \in Nat /\ MaxRows \in Nat
  BY <1>5, DocAssumption
<1>7. Result(currres', Common(clauses) \cap matching)
  <2> DEFINE kept == Keep(l, matching)
  <2>1. kept \in Seq(Docs) /\ Len(kept) <= MaxRows /\ Range(kept) = Common(clauses) \cap matching
    BY <1>4, <1>5, <1>6
  <2>2. currres' = Unique(SetOf(kept))
    BY <1>1, <1>4
  <2> HIDE DEF kept
  <2>3. Result(Unique(SetOf(kept)), Range(kept))
    BY <2>1, UniqueResult
  <2>4. QED
    BY <2>1, <2>2, <2>3
<1>8. clauses' \in Seq(SUBSET Docs) /\ clauses' # <<>> /\ Common(clauses') = Common(clauses) \cap matching
  BY <1>1, CommonNext DEF Merging
<1>9. Result(currres', Common(clauses'))
  BY <1>7, <1>8
<1>10. QED
  BY <1>8, <1>9 DEF Merging, Result, ResultList, Holding, Common

\* A document query that does not fail returns what all of its clauses found,
\* each document once, however its result sets are stored and joined.
THEOREM DocQueryIsExact == DocSpec => []MergedExactly
<1>1. DocInit => Merging
  <2> SUFFICES ASSUME DocInit PROVE Merging
    OBVIOUS
  <2>1. clauses = <<>> /\ currres = NoResult
    BY DEF DocInit
  <2>2. <<>> \in Seq(SUBSET Docs)
    OBVIOUS
  <2>3. QED
    BY <2>1, <2>2 DEF Merging
<1>2. Merging /\ [DocNext]_docVars => Merging'
  <2> SUFFICES ASSUME Merging, [DocNext]_docVars PROVE Merging'
    OBVIOUS
  <2>1. CASE DocNext
    <3>1. CASE \E docs \in SeqOf(Docs, MaxRows) : LookUp(docs)
      BY <2>1, <3>1, LookUpMerges DEF DocNext
    <3>2. CASE \E matching \in SUBSET Docs : ScanResult(matching)
      BY <2>1, <3>2, ScanMerges DEF DocNext
    <3>3. CASE GiveUp
      BY <3>3 DEF GiveUp, Merging
    <3>4. QED
      BY <2>1, <3>1, <3>2, <3>3 DEF DocNext
  <2>2. CASE UNCHANGED docVars
    BY <2>2 DEF docVars, NoQuery, EmptySet, Merging, Result, ResultList, Holding, Common
  <2>3. QED
    BY <2>1, <2>2
<1>3. Merging => MergedExactly
  BY MergingExact
<1>4. QED
  BY <1>1, <1>2, <1>3, PTL DEF DocSpec

\* A query on columns and a query for documents return what meets all of their
\* conditions, and nothing twice; except that the index finds other rows for a
\* range with the same bound excluded at both ends, and the count is not set for
\* one with crossed ends.
THEOREM QueriesAreExact == QuerySpec /\ DocSpec => []QueriesExact
<1>1. QuerySpec => []QueryExact
  BY QueryIsExact
<1>2. DocSpec => []MergedExactly
  BY DocQueryIsExact
<1>3. QueryExact /\ MergedExactly => QueriesExact
  BY DEF QueriesExact
<1>4. QED
  BY <1>1, <1>2, <1>3, PTL
=============================================================================
