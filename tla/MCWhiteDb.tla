------------------------------ MODULE MCWhiteDb ------------------------------
(***************************************************************************)
(* The parts of WhiteDB that manage memory, that store records and that    *)
(* find them again, one at a time: each initial state is that of one part, *)
(* the others stay as they are.                                            *)
(***************************************************************************)
EXTENDS VarlenAreaProps, FixlenArea, Mpool, SharedMem, DbDump, TTree, DbIndexes

CONSTANTS Parts,  \* the parts of the system that are checked
          r1, r2, r3, r4, text, nothing

\* Two areas whose objects do not fill their subareas; the segment has room
\* for one more of them.
MCAreaOrder == <<"listcell", "tnode">>
MCObjLength == [listcell |-> 6, tnode |-> 7]
MCInitialSize == [listcell |-> 16, tnode |-> 16]

\* Six records, two of them with the same key, in an order of numbers that
\* mixes the keys.
MCRows == 1 .. 6
MCKey(r) == (r * 3) % 5

VARIABLES part, field, back, count, index, blank, outcome, twice
recordVars == <<field, back, count, index, blank, outcome, twice>>
storageVars == <<h, fixlenVars, mpoolVars, memVars, dumpingVars>>
indexVars == <<treeVars, recordVars, strVars, hashVars, gintVars, docVars, queryVars>>

\* Trees of three records of two fields, and chains of four records, one more
\* than a comparison looks into.
R == INSTANCE Records WITH
       Recs <- {r1, r2, r3}, Strings <- {}, Null <- nothing,
       Fields <- {1, 2}, Indexed <- {1, 2}, RecDepth <- 2
L == INSTANCE Records WITH
       Recs <- {r1, r2, r3, r4}, Strings <- {text}, Null <- nothing,
       Fields <- {1}, Indexed <- {1}, RecDepth <- 2

\* Strings with an extra string are on another chain than plain ones, or all
\* are on the same chain.
PlainHash(c) == IF c.extra \in {"a", "b"} THEN 1 ELSE 0
SameHash(c) == 0

\* Rows with one value, and arrays with a value twice and with none; more
\* values than the area has room for buckets.
MCHashRows == {r1, r2, r3}
MCRowValues == {<<1>>, <<2>>, <<3>>, <<1, 2>>, <<2, 3, 2>>, <<>>}
Parity(v) == v % 2

\* Four keys, two of which agree in the lowest two bits of their hash, and more
\* entries than the directory may have buckets for.
MCScrambled(k) == (k * 5) % 8

\* Pages of two rows, sets on both sides of the sizes from which a join and
\* the removal of duplicates use the hash table.
Triple(k) == k * 3
MCSizes == <<5, 7, 11>>

\* Rows that are equal, rows with equal keys, and one without the other column.
MCTable == <<<<2, 1>>, <<1, 2>>, <<2>>, <<3, 2>>, <<2, 2>>, <<2, 1>>>>
MCByKey == <<<<1, 2>>, <<2, 1>>, <<2>>, <<2, 2>>, <<2, 1>>, <<3, 2>>>>

WhiteDbInit ==
  /\ part \in Parts
  /\ Init /\ FixlenInit /\ MpoolInit /\ MemInit /\ DumpInit
  /\ TreeInit /\ (IF part = "chains" THEN L!Init ELSE R!Init)
  /\ StrInit /\ HashInit /\ GintInit /\ DocInit /\ QueryInit
  /\ part # "ttree" => t = NoIndex
  /\ part # "queries" => indexed

VarlenStep ==
  /\ part = "varlen" /\ Next
  /\ UNCHANGED <<part, indexVars, fixlenVars, mpoolVars, memVars, dumpingVars>>
FixlenStep ==
  /\ part = "fixlen" /\ FixlenNext
  /\ UNCHANGED <<part, indexVars, h, mpoolVars, memVars, dumpingVars>>
MpoolStep ==
  /\ part = "mpool" /\ MpoolNext
  /\ UNCHANGED <<part, indexVars, h, fixlenVars, memVars, dumpingVars>>
MemStep ==
  /\ part = "mem" /\ MemNext
  /\ UNCHANGED <<part, indexVars, h, fixlenVars, mpoolVars, dumpingVars>>
DumpStep ==
  /\ part = "dump" /\ DumpNext
  /\ UNCHANGED <<part, indexVars, h, fixlenVars, mpoolVars, memVars>>

TTreeStep ==
  /\ part = "ttree" /\ TreeNext
  /\ UNCHANGED <<part, storageVars, recordVars, strVars, hashVars, gintVars, docVars, queryVars>>
RecordsStep ==
  /\ (part = "trees" /\ R!Next) \/ (part = "chains" /\ L!Next)
  /\ UNCHANGED <<part, storageVars, treeVars, strVars, hashVars, gintVars, docVars, queryVars>>
StrHashStep ==
  /\ part = "strings" /\ StrNext
  /\ UNCHANGED <<part, storageVars, treeVars, recordVars, hashVars, gintVars, docVars, queryVars>>
HashIndexStep ==
  /\ part = "hash" /\ HashNext
  /\ UNCHANGED <<part, storageVars, treeVars, recordVars, strVars, gintVars, docVars, queryVars>>
GintHashStep ==
  /\ part = "ginthash" /\ GintNext
  /\ UNCHANGED <<part, storageVars, treeVars, recordVars, strVars, hashVars, docVars, queryVars>>
DocQueryStep ==
  /\ part = "documents" /\ DocNext
  /\ UNCHANGED <<part, storageVars, treeVars, recordVars, strVars, hashVars, gintVars, queryVars>>
QueriesStep ==
  /\ part = "queries" /\ QueryNext
  /\ UNCHANGED <<part, storageVars, treeVars, recordVars, strVars, hashVars, gintVars, docVars>>

WhiteDbNext ==
  \/ VarlenStep \/ FixlenStep \/ MpoolStep \/ MemStep \/ DumpStep
  \/ TTreeStep \/ RecordsStep \/ StrHashStep \/ HashIndexStep
  \/ GintHashStep \/ DocQueryStep \/ QueriesStep
WhiteDbSpec == WhiteDbInit /\ [][WhiteDbNext]_<<part, storageVars, indexVars>>

\* A raw record may be written while others refer to it: their rows in the
\* indexes move with it (dbdata.c:912).
BacklinksProvidedFor == part = "chains" => L!IndexExact

RecordsExact == /\ part = "trees" => R!RecordsExact
                /\ part = "chains" => L!RecordsExact
=============================================================================
