# Formal models of WABench

WABench is a suite of C and C++ programs with which standalone WebAssembly
runtimes are compared: a harness of shell scripts builds every program natively
and to WebAssembly and runs it on each runtime.  Most of the repository is
third-party programs; the parts whose behaviour depends on long histories,
concurrency or partial failure are modelled here in TLA+ and model-checked with
TLC; what matters most about the locks, the memory management, the dump, the
bzip2 program and the harness is proved with TLAPS for every value of the constants.

Source paths are relative to the repository.  `W` stands for
`Whole_Applications/whitedb/src`.

## 1. Inventory

| Part | State | Operations | What is hard | What makes it correct |
| --- | --- | --- | --- | --- |
| **Harness** (`run.sh`, `common.sh`, `Makefile.in`) | working directory, shell variables that survive from one entry to the next, files left by make and by the AOT compilers | for each entry: cd, make, source `common.sh` (compile, run on each engine), make clean, cd back | partial failure, stale variables and files | every measurement is taken in the entry's directory, on its workload and on code of this run |
| **WhiteDB task-fair lock** (`W/dblock.c`, LOCK_PROTO 3, the one that is built) | queue of lock cells with `waiting` words, free list, mutex | `wg_start_read/write`, `wg_end_read/write` | interleaving outside the mutex, futex wake-ups, timeouts racing grants, limited cells | exclusion, order of arrival, no lost wake-up, every request served |
| **WhiteDB spinlocks** (same file, LOCK_PROTO 1 and 2) | one word of flag and reader count; a count of writers | the same four | interleaved atomic operations, counters restored on timeout | words equal their users, exclusion, the preferred class is served |
| **WhiteDB variable-length areas** (`W/dballoc.c`) | subareas tiled by tagged blocks, bucketed free lists, designated victim | `wg_alloc_gints`, `wg_free_object`, extension of the area | long histories; padding at sizes that are not aligned; segment limit | objects never overlap or move, blocks tile the subareas, lists hold exactly the free blocks |
| **WhiteDB fixed-length areas** (same file) | free list and subareas per kind of cell, in one segment | allocate, free, extend | subareas that are no multiple of the cell, growth refused | each cell handed out once, no cell crosses a subarea |
| **WhiteDB memory pools** (`W/dbmpool.c`) | list of growing blocks, a pointer into the last | create, allocate, free | aligned pointers near the end of a block, requests larger than the next block | given space is aligned, disjoint and inside its block |
| **WhiteDB T-tree index, range queries** (`W/dbindex.c`, `W/dbquery.c`) | balanced tree of sorted arrays, cached bounds, chain of nodes | create, drop, add row, remove row, search, query | rotations and merges in long histories, equal keys, failed allocation of a node | sorted, balanced, chained, holds every record once; queries are exact |
| **WhiteDB hash index** (`W/dbhash.c`, `W/dbindex.c`) | chains of buckets, each with a list of rows | add, remove a row (under every value of an array) | values twice in an array, no room for a bucket in the middle | every row under each of its values, no empty bucket |
| **WhiteDB extendible hash** (`W/dbhash.c`) | directory, buckets with a level | add, find | splits that redirect part of the directory, doubling | what was added is found, under its latest value |
| **WhiteDB strings** (`W/dbdata.c`, `W/dbhash.c`) | chains of long strings with reference counts and extra strings | store in a field, overwrite, delete | recursion between two reads of a chain's head | equal strings are stored once, counts exact, nothing lost |
| **WhiteDB records** (`W/dbdata.c`) | fields, backlink chains, string counts, rows in indexes | create, create raw, set field, set new field, delete | a change moves all ancestors in the indexes; order of removal and re-entry | indexes up to date at every level, backlinks and counts exact |
| **WhiteDB queries** (`W/dbquery.c`) | the folded range, conditions left to check, result sets in pages | build, fetch, find; merge and join the results of document queries | bounds that repeat, exclude or imply each other; pages that end exactly | each matching row once, nothing else |
| **WhiteDB dump and import** (`W/dbdump.c`) | a file, the image in memory, checksum | dump, check, import | writers between the reading of the size and the lock, disk that fails, killed dump | what is imported is what a transaction left |
| **WhiteDB attachment** (`W/dbmem.c`) | table of keys and malloc blocks in place of shared memory | attach, detach, delete | names used again, malloc or initialisation failing | one block per name, nothing leaked or freed in use |
| **WhiteDB encoding, atomic updates** (rest of `W/dbdata.c`) | - | - | formats | not modelled |
| **WhiteDB journal** (`W/dblog.c`) | - | - | compiled out (`USE_DBLOG` is undefined) | - |
| **bzip2 program** (`Whole_Applications/bzip2/src/bzip2.c`) | the files, the two streams, flags for the signal and failure paths | compress, uncompress, test a list of files | failing calls on every path, other programs, being killed | the data of a file is always somewhere, files of others are kept, the exit code tells |
| **bzip2 library** (`bzlibc.c`, `compress.c`, `decompress.c` beside it) | mode and state of a stream, run and block, bits to write; the decoder's point of resumption | `BZ2_bzCompress` with run, flush, finish; `BZ2_bzRead`, both decoders | buffers of any size on both sides, damaged input | what was written is read back, blocks fit, calls in order are accepted, flushing delivers, reading ends |
| **gnuchess** (`Whole_Applications/gnuchess/src`) | pieces as sets of squares, copies and counts of them, two hash keys, the moves made, killers | make and take back a move or a pass, generate moves, check kept ones, count repetitions, weigh exchanges | everything is kept up to date move by move; six ways to generate moves; killers from other positions | what is taken back is restored; the moves are those of the rules of chess |
| **espeak** (`Whole_Applications/espeak/src`) | ring of synthesis commands, clause text | generate, wavegen | tables and samples | not modelled |
| **hash set of JetStream2** | open addressing with tombstones | add, remove, find, rehash | the file is a replay of recorded operations | not modelled |
| JPEG, snappy, tsf, facedetection, mnist, MiBench kernels, PolyBench | mostly one pass over an input | - | numeric or vendored | not modelled |

How the parts of WhiteDB meet: a program attaches a segment (`dbmem.c`), which
is cut into areas (`dballoc.c`).  Records live in the variable-length area, list
cells, T-nodes and short strings in fixed-length ones; a field is written
through `dbdata.c`, which takes rows out of the indexes (`dbindex.c`,
`dbhash.c`) and puts them back, interns long strings, and links and unlinks
list cells.  Queries (`dbquery.c`) fold their conditions into a range, walk the
chain of T-nodes, and keep their results in pages of a memory pool.  All of
these calls are made between `wg_start_write` (or `wg_start_read`) and its end,
so that their models are sequential and that of `dblock.c` is where concurrency
is; `wg_dump` takes the lock itself, which is why its model has processes.

The harness runs every program as a process of its own; the programs share
nothing but the working directory and the files in it.

## 2. Modules

| Module | Models | State and actions |
| --- | --- | --- |
| `RwLock` | what a database lock promises | who holds it, in which mode |
| `TfQueueLock` | LOCK_PROTO 3 | shared words and cells; one action per critical section, per test outside the mutex, per half of the futex call |
| `TfQueueLockProps`, `MCTfQueueLock` | its properties, the inductive invariant, the refinement of `RwLock`; symmetry and a second initial state with a cell too few, for TLC | |
| `TfQueueLock_proofs` | proofs about it, and that it implements `RwLock` | |
| `RpSpinLock`, `WpSpinLock` | LOCK_PROTO 1 and 2 | one action per atomic operation |
| `DbLocks` | the lock behind `wg_start_write` etc.: one of the three protocols, chosen in the initial state and kept; fairness | |
| `MCDbLocks` | `DbLocks` for TLC: three processes in the queue keep to a class of request each | |
| `DbLocks_proofs` | proofs about the spinlocks; the protocols implement `RwLock` | |
| `Segment` | the constants and rounding both allocators share | |
| `VarlenArea` | the allocator of records and long strings | the heap as heads, footers, links, buckets, victim, subareas; `Alloc`, `Free` and growth of another area |
| `FixlenArea` | the areas of cells of one size, in one segment | subareas, free lists by links, extension; `Alloc`, `Free` |
| `FixlenArea_proofs` | proofs about it | |
| `ObjectHeap`, `VarlenAreaProps` | the abstract heap, which both allocators implement; properties | |
| `VarlenArea_proofs` | proofs about the allocator of records, and that it implements `ObjectHeap` | |
| `Mpool` | pools | blocks of malloc and the pointer; create, allocate, free |
| `SharedMem` | the key table of the WebAssembly port | `Attach` (use, create at one of two sizes, fail), `Detach`, `Delete`, also of what others have open |
| `DbDump` | dump, check and import | processes with the shared lock, the file as chunks, every system call of the dump a step; `Die` |
| `DbMemory_proofs` | proofs about `Mpool` and `SharedMem`, and that an import restores a committed state | |
| `TTree` | T-tree index and range queries, with their properties | nodes, root and chain; `Add`, `DropRow`, `CreateIndex`, `DropIndex` |
| `Records` | records, references and their upkeep of the indexes | fields, backlinks, string counts, each index as the bag of its rows |
| `Walks` | walks along lists and sequences, as recursive functions that the prover can reason about | |
| `StrHash` | interned strings with extra strings | chains and counts; store, overwrite and free |
| `HashIndex` | hash index over plain and array columns | chains of buckets and their row lists |
| `GintHash` | extendible hash | directory and buckets; add |
| `Queries`, `DocQuery` | queries on columns; result sets and joins of document queries | the list of conditions, the range, rows fetched; pages and the join table |
| `DbIndexes` | strings, hash tables and queries together, with the properties they share | |
| `DbIndexes_proofs` | proofs about `StrHash`, `HashIndex` and `GintHash` | |
| `Queries_proofs` | proofs about `Queries` and `DocQuery` | |
| `MCWhiteDb` | memory, records and indexes: `VarlenArea`, `FixlenArea`, `Mpool`, `SharedMem`, `DbDump`, `TTree`, `Records` and `DbIndexes`, one part of them chosen by `part` | |
| `BzCompress` | the parameters, and `BZ2_bzCompress` with its caller | mode, state, run, block, buffered bits; one action per copy loop or return |
| `BzStream` | compression composed with a file, which is then read back, damaged or not, by either decoder | the file, the decoder's state, both buffers |
| `Bzip2Files`, `Bzip2FilesProps`, `MCBzip2Files` | the program: what it does to the files | directory, streams with their error flags, the flag of the failure path; one action per system call |
| `Harness` | the driver, the sourced script and make | `Enter`, `Build`, `Skip`, `Source`, `Compile`, `RunTest`, `Leave` |
| `Programs_proofs` | proofs about the library and the program of bzip2 and the harness | |
| `ChessMoves` | tables, attacks, generators, `IsLegalMove`, `PhasePick`, `SwapOff` of gnuchess | operators on a board |
| `ChessRules` | the abstract specification: the rules of chess, square by square | position and the ones before; `Play`, `Pass`, `TakeBack` |
| `ChessBoard`, `ChessProps`, `MCChess` | the board under a search; the refinement of `ChessRules`; starts | the globals as one record, killers; `Make`, `Unmake`, `Null`, `UnmakeNull` |
| `MCPrograms` | harness, bzip2 program and library, board of gnuchess, one of them chosen by `tool` | |

The composite modules `MCWhiteDb` and `MCPrograms` only choose which part runs,
so that related questions share a run: each state of theirs is a state of one
part beside an initial state of the others.  They
extend their parts, so that the properties the runs check are the very
definitions the theorems are about; only `Records` is instantiated.

A definition whose name ends in `_slip` (or `_slip_x`) is a variant of the one
it is named after with a plausible programming slip.  No specification uses it;
each property has been checked to fail when its variant is put in place.

### What the models abstract from

* `TfQueueLock`: everything but the `waiting` words is touched only under
  `queue_lock`, so a critical section with the unlock that ends it is one step.
  Time is not modelled: a timeout may strike any sleeper at any moment.
  The processes handle no signals (EINTR is discussed in section 7).
  Memory is sequentially consistent: the code uses full-barrier builtins for
  the mutex and the futex calls order the rest.
* `VarlenArea`, `FixlenArea`: addresses count gints; contents of objects are left
  out, and so are the words the code leaves behind in used blocks.
* `Mpool`: a location is a block and an offset in it; blocks of malloc are aligned.
* `DbDump`: the segment is a number of chunks with a version each; the checksum
  is the contents it was taken over.
* `TTree`: one index on one column; keys are numbers with the order of
  `wg_compare`.  The code writes each algorithm twice, mirrored; the model
  writes it once for a side.  A query runs to its end in one step.
* `Records`: an index is the bag of its rows, each with the key it had when it
  was entered: removing a row looks for it under its present key, which is
  exactly what fails if a key changed meanwhile.  `TTree` says how an index
  does this.  A record never contains itself.  A caller may write a raw record
  that others refer to, or one that is reached from another on two ways; the
  code may then enter a row twice, which is recorded (`twice`), and no call
  follows.  `RecordsExact` still asks for exact references then; that the
  indexes are not exact is shown by `records_sharing`.
* `StrHash`, `HashIndex`, `GintHash`: the hash function is a parameter, chosen
  so that chains and buckets are shared.
* `Queries`: the index is the rows in the order of their keys; `TTree` says how
  a range of it is found.  For a range with the same bound excluded at both ends
  the rows are nothing or all above it, as they fall in the nodes (`FoundRows`).
* `DocQuery`: which documents a clause finds is any list of them; a clause may
  fail, for a document nested too deep or not found, and the query is `NoQuery`.
* `SharedMem`: sizes are small numbers.  A database may be deleted while others
  have it open: their handles are `cut` off, and nothing is asked of them.  After
  a slot without a block the code tests an error code that was never set, and may
  return without trying; that is no step.
* `BzCompress`: block sorting and Huffman coding are one step that turns a block
  into two units of output, with which the bits of one block can be split
  between calls; checksums are the bytes they were taken over.
* `Bzip2Files`: the contents of a file is a sequence of stream headers, blocks,
  stream ends and raw or damaged pieces; a system call, `stat` and `remove`
  among them, fails where the run allows it to.
* `Harness`: whether make builds both programs, only the native one or nothing
  is decided once per directory; an AOT compiler may fail each time.
* `ChessMoves`, `ChessBoard`: a bitboard is a set of squares and a hash key the
  set of the random numbers in it, as if no two sets had one key; the rotated
  copies of the occupied squares are one set, because they are changed together.
  What the search decides (when to pass, which killer to keep, when to cut off)
  is any choice its guards allow; that it passes only with more than a bishop and
  never twice in a row is kept.  White and black are one definition for a side.
  The killers are empty at the start of a game.  A move of the hash table is one
  of the position it is found in.

## 3. Runs

| Run | Question | Bounds |
| --- | --- | --- |
| `tfq_safety` | Is the queued lock an exclusive, task-fair lock whose queue, free list and futex handshake stay intact when timeouts race grants? Does it implement `RwLock`? | 3 processes; 3 cells, or 2 so that one may find none; timeouts |
| `tfq_lost_grant` | (violated) With timeouts, is the head of the queue always admitted? | 3 processes, 3 cells |
| `tfq_late_wake` | (violated) Exclusion if a wake-up may come late | 3 processes, 3 cells |
| `db_locks` | Does each of the three protocols implement `RwLock`, do the spinlocks' counters survive timeouts, does each serve the class it prefers, and the queue everybody? | 3 processes, 3 cells, timeouts |
| `whitedb` | Are both allocators heaps of objects with consistent tags and lists, do pools give out disjoint space, does a name stand for one usable block, does an import restore what a transaction left? Are the T-tree, the indexes of records, interned strings, hash indexes and the extendible hash exact after every call, and queries too? | see below |
| `varlen_lengths` | (violated) Do objects keep the length that was asked for? | segment of 85, lengths 5 and 8 |
| `dump_race` | (violated) Can a dump that succeeded be imported? | a segment of up to 3 chunks, one writer |
| `ttree_empty_range` | (violated) Does `val > k and val < k` return nothing? | those of `whitedb` |
| `strhash_lost` | (violated) Are equal strings stored once when strings and extra strings share a chain? | one chain, 4 strings |
| `records_sharing` | (violated) Are the rows of records that refer to a raw record moved when it is written? | chains of up to 4 records |
| `programs` | Is data never lost by bzip2, are files of others kept, does the exit code tell? Is everything that was compressed read back, whatever the buffers? Is everything measured where, on what and with the code it is reported for? Does gnuchess restore its board, and does it play chess, with all legal moves? | see below |
| `bzip2_late_close` | (violated) Is the input kept when the last write fails behind trailing garbage? | one failing `fclose` |

Deadlock is not checked where parts of a composition stop because a bound is
reached (`whitedb` and the violated runs of its parts, `dump_race`); the other runs check it.

Why the bounds are enough to meet the interesting cases:

* Three processes are the least with which a request is queued behind one that
  waits behind a holder, which is what chained admission, leaving from the
  middle and timeouts need; with two cells one of three finds none.  In
  `db_locks`, the part about the queue fixes which process reads and which
  writes: one or two writers and the others readers, all with a cell, who wait
  to the end, and one of each who may give up.
* In the segment of 69 gints, with objects of 3 and 9, all branches of `wg_alloc_gints` and
  `wg_free_object` are taken: exact fits, the victim used up, split and
  replaced, merging before and behind, extension with the area's last subarea
  adjacent or not, and refusal.
* The two fixed-length areas have cells of 6 and 7 gints in subareas of 16: the
  rest of a subarea is too small for a cell, and the segment of 69 has room for
  one more subarea only, so that one area takes it from the other.
* A pool of two requests meets the alignment at the end of a block and a request
  larger than twice the block before.
* Two names, three handles and a table of four slots let a name be deleted while
  it is open, created again, fail at the first size and at the second, and be
  hidden by a slot without a block, next to another name.
* One writer, one reader, two versions and a failing disk let the dump be cut off,
  killed, and read while the lock words in it change.
* With six rows in nodes of two, the T-tree gets three levels: single, double and
  "special" rotations occur on insertion and deletion, equal keys fill a node,
  internal nodes borrow, half-leaves merge, and the fourth node can be missing.
  The real nodes hold eight; two is the least with which a node has a first
  and a last slot.
* Records are trees of three with two fields, both indexed, and chains of four
  with one, compared two levels deep: there is a record just within the depth
  of comparison and one just beyond it.  (The code compares seven levels deep;
  the recursion is the same.)
* Hash index: arrays with a value twice and with none, room for two buckets.
  Extendible hash: buckets of two entries and four keys of which two agree in
  their lowest two bits, so that a split may leave one side empty and must be
  repeated.  Document queries: pages of two and sets on both sides of the sizes
  from which the hash table is used.  Queries: up to three conditions on two
  columns over six rows, two of them equal and one without the second column.
* Harness: four entries, one without arguments of its own and two that share a
  directory, every outcome of make and of the compilers, AOT or not, dry or not.
* bzip2 program: two arguments, so that flags left by the first meet the second;
  every kind of sound and broken file; one failing call, one act of another
  program or a kill anywhere.
* bzip2 library: blocks of 4 and runs of at most 6 symbols instead of 899981 and
  255, inputs of runs at the limits of both, input buffers of 1 and 9, output
  buffers of 1 and 2, one flush anywhere, whole files and damaged ones, both
  decoders.  The proofs (section 5) are for every size.
* gnuchess: ten starts.  From each, all moves (or, where a start names them, only
  those) to a depth of one to six plies are made and taken back in all orders.
  The starts put next to each other what is rare in a game: castling both ways
  by both sides with rooks that take each other, promotions that take such a
  rook, taking in passing that opens a rank to the king, that ends a check, and
  that a pin forbids, checks by one and two pieces that are taken or stepped in
  front of, also by a promotion; rooks and queens behind each other; passes and
  repetitions; kept killers met in other positions.  `MovesExact` and `SwapExact`
  are compared with a second definition, square by square, in every one of them.

## 4. Fairness

* `db_locks` assumes weak fairness of each process's steps within a call and a
  transaction, and strong fairness of winning `queue_lock`; nothing of making a
  call or giving one up.  A process in a call has no reason to stop, and
  `lock_queue` sleeps for growing times between its rounds of spinning, so that
  a contender meets the mutex free again and again and wins it at last.  For the
  spinlocks only the class that is preferred is claimed to be served: under
  reader preference a writer may spin until it times out, and under writer
  preference a reader.  The queue promises to serve every request as long as
  nobody gives one up; a timeout may stop it (`tfq_lost_grant`).
* `programs` assumes that a caller of the bzip2 library goes on: it handles what
  a call returned and calls again until a flush or the file is finished, starts
  to finish at last, and reads to the end.  That is what `compressStream` and
  `uncompressStream` do.
* The other runs state no fairness and check no liveness.

## 5. Proofs

Eight modules hold theorems; everything they rest on is proved to the last step
by `tlapm`.  A theorem holds for every value of the constants that fulfils its
hypotheses, which are named below with the reason why the code fulfils them.
`tlapm` needs less than a minute for the smaller modules, about five minutes for
`Queries_proofs`, and about ten for `VarlenArea_proofs` and `DbIndexes_proofs`.

| Module | Theorem | Property | Says |
| --- | --- | --- | --- |
| `TfQueueLock_proofs` | `Exclusion` | `MutualExclusion` | a writer that holds the queued lock is alone |
| | `ArrivalOrderKept` | `NoOvertaking` | nobody is admitted past an earlier request that waits |
| | `WakeupsKept` | `NoLostWakeup` | a sleeper whose word was cleared will be woken |
| | `QueueKept`, `CellsKept`, `TypeCorrect` | `QueueLinked`, `CellsConserved`, `TypeOK` | the links are one list in order of arrival, no cell is lost |
| | `AdmissionInvariant` | (inductive invariant) | those admitted are a prefix of the queue |
| | `Implementation` | `ImplementsRwLock` | the queued lock implements `RwLock`; all of these theorems unless a wake-up comes late |
| `DbLocks_proofs` | `WordsKept` | `WordsCount` | the words of both spinlocks count their users |
| | `ReadersPreferred` | (in no run) | no writer is let in past a reader, under LOCK_PROTO 1 |
| | `EveryProtocolImplements` | `ImplementsRwLock` | each protocol implements `RwLock`, the queued one unless a wake-up comes late |
| `FixlenArea_proofs` | `NoCellIsLost` | `FixlenCellsExact` | each cell of each subarea is free or given out, once |
| | `CellsAreObjects` | `FixlenImplementsObjectHeap` | cells given out neither overlap nor move |
| `VarlenArea_proofs` | `BlocksAreExact` | `BlocksExact` | blocks tile the subareas, idle neighbours are merged, tags, footers and free lists agree with them |
| | `AreaImplementsObjectHeap` | `ImplementsObjectHeap` | objects neither overlap nor move, and take the space they were asked for |
| `DbMemory_proofs` | `PoolsSound` | `PoolSound` | what a pool gives out is aligned, apart and in a block of its own |
| | `NamesKept`, `NamePersists` | `NamesExact`, `PersistsUntilDeleted` | one block for those who opened a name, unless it was deleted since or is hidden; the same one until it is deleted |
| | `ImportsAreCommitted` | `ImportRestores` | an import restores a state between two transactions |
| `Programs_proofs` | `NothingIsLost` | `NothingLost` | what a file held is in it, or completely in its output |
| | `OutputsAreWhole` | `FilesKept` | files of others are left alone; a partial output is empty or told of, with a status that is not 0 |
| | `ExitStatusTells` | `ExitTells` | status 0: every argument was dealt with |
| | `BlockMargin`, `CallsAccepted` | `BlockFits`, `CallsSucceed` | blocks fit, calls in order succeed |
| | `MeasurementsSound` | `Measured` | each measurement is in its directory, with the arguments the entry lists if any, on code of this entry |
| `DbIndexes_proofs` | `StringsAreShared` | `StringsShared` | equal strings are stored once, on their chains, with exact counts |
| | `HashIndexIsExact` | part of `HashesExact` | the index of values counts a row as often as it has the value |
| | `GintIsExact` | part of `HashesExact` | the extendible hash finds what was added and nothing else |
| | `HashesAreExact` | `HashesExact` | both |
| `Queries_proofs` | `QueryIsExact` | part of `QueriesExact` | a query on columns returns what meets its conditions, but for two cases |
| | `DocQueryIsExact` | part of `QueriesExact` | a document query that does not fail returns what all of its clauses found, once |
| | `QueriesAreExact` | `QueriesExact` | both |

### The queued lock

Hypotheses: `MaxNodes` is a positive number, the two flags are Booleans, and
`~LateWakes`: a freed cell is not allocated again before a wake-up meant for
its former owner has been sent.  The code does not enforce the latter, so these
are theorems about the executions in which no wake-up is that late; run
`tfq_late_wake` shows that exclusion fails in others, and with it the order of
arrival, the list and the refinement.

Exclusion is not inductive: that a writer may enter depends on what `waiting`
meant when it was cleared, which depends on the queue.  `AdmissionInv` therefore
says that the queued cells are in a total order of arrival (`ahead`, a history
variable), that `prev`, `next` and `tail` are that order, that cells are owned
by one process, and that the admitted requests are a prefix of the order in
which a writer comes first and alone and only readers follow each other
(`AdmittedPrefix`).  A process gets past its wait only if its cell was cleared,
and only cleared cells are the target of a pending wake-up
(`PassedOnlyIfCleared`).  The proof has one lemma for actions that leave the
queue alone (`QueueUntouched`), one for appending a cell, and one for removing
a cell anywhere (`Removes`), which serves both releases and the timeout.
Exclusion follows: of two holders one arrived first, and an admitted writer has
nobody ahead of it and is followed by no admitted request.

For the refinement, every step that moves a process into or out of `Holding` is
one step of `RwLock`.  `FUTEX_WAKE` moves the waker and a sleeper in one step;
that not both take the lock by it needs one more invariant,
`ChainWakesReader`: a chained wake-up is for a reader, who does not hold the
lock yet because it has to chain in turn.  `NoLostWakeup` needs that a process
between clearing a word and its `FUTEX_WAKE` remembers whose word it was
(`WakersKnown`).

### The spinlocks, and the lock behind `wg_start_write`

Hypotheses: finitely many processes, which is what a word can count.  The words
are changed by adding and subtracting, so the invariant equates each with a
number of processes at certain control points (`RpInv`, `WpInv`), and one lemma
(`Counting`) says how that number changes when a single process moves.  That a
timeout takes back its own contribution only is this invariant at the steps of
the timeout.  `EveryProtocolImplements` splits on the protocol; for the queued
lock it uses the theorems above through the instance, and has their condition
(`WakesInTime`).

### Fixed-length areas

Hypotheses: the areas are distinct, and the least subarea has room for one cell
wherever it is aligned (`AreasAssumption`, `RoomAssumption`; 8192 bytes against
cells of a few words).  The inductive invariant `FixlenInv` names the free lists:
there are sequences `L` of cells such that the links follow them (`Chained`), the
subareas lie apart and inside the segment (`Layout`), and each cell of a subarea
is on its list or given out (`Owned`).  What it says is a relation between the record
of the segment, the cells given out and `L`, so that taking a cell, giving one
back and growing an area are lemmas about records.  The hard one is growth: the
links that `make_subarea_freelist` writes, on the assumption that the area has no
free cell, are one list of all cells of the new subarea (`FreshListIs`), and the
cells are those of the new subarea only.  The walk of the property along the
links is a recursive function, found equal to `L` by considering the least place
at which they differ; so is the one that gives out the initial subareas.

### Variable-length areas

Hypotheses: the sizes are numbers, a subarea has room for its two markers and an
object wherever it is aligned, the segment has room for the first subarea
(`SizesAssumption`; 8192 bytes against 100, and a segment that is larger than what
is taken from it first), and there is a bucket for every size that the segment can
hold or a caller can ask for (`BucketsAssumption`; 32 exponential buckets).

The invariant `Good` is a relation on the record of the heap alone.  Its half
about heads, `Tidy`, says that each block ends where the next one of its subarea
begins, from marker to marker (`Laid`, `Tiled`), that an object is marked
`prevfree` exactly behind a free block and no two idle blocks touch (`Tagged`), and
that the victim is a block of the size it has on record (`VictimIs`).  Its other
half, `Lists`, gives every free block a rank below a bound: links lead to lower
ranks in the same bucket and back again, and the footers are those of the free
blocks, one each.

During an allocation or a release the heads are not tidy: a block has lost its
head, or is merged but neither listed nor the victim yet.  The lemmas therefore
speak of the heads the heap would have with that block in it (`Beside`, `Pending`),
where it has the mark of a marker and is *quiet*: neither neighbour is idle
(`PrevQuiet`, `NextQuiet`).  A handful of changes to tidy heads (`SplitTidy`,
`JoinTidy`, `AreaTidy`, `Remarked`) is all the code makes.  `Quieted`,
`NextAbsorbed`, `PrevAbsorbed`, `BecomesFree` and `BecomesVictim` are built from
them, and each branch of `wg_alloc_gints` and `wg_free_object` is a sequence of
those.  That a new victim and the old one do not touch when they are exchanged
(`VictimListed`) and that the marks written on the way cancel (`FreeMerged`) are the
steps a test would hardly find wrong.  `VictimRetired` shows that rewriting the
length behind an old victim (`varlen_lengths`) does no harm to the blocks, because
the padded length takes the same space.

That every block lies between the markers of a subarea (`BlockWithin`) is shown by
considering the least block that does not, which would follow one that does; that
a list ends, by ranks that decrease and as many places as free blocks (`ListEnds`);
that it has every block of its size, by considering the highest rank that is
missing (`AllListed`).  The retries of an allocation (`TriedIs`) and the walk along
a list (`BlockAtIs`) are recursive functions, shown to exist for every length.

### Pools, names, dumps

`PoolsSound`: the sizes are numbers, and some doubling of a size reaches any
request (`Sound`; a request is an `int`).  The free pointer is beyond everything
given out of the last block, and a new block has room for the aligned request.

`NamesKept`, `NamePersists`: no name is -1, the key of a cleared slot.  Every
block that was ever taken is in exactly one slot, whose key is cleared when the
block is freed (`SlotPerBlock`).  A handle that is not cut off is on the block of
a slot of its name (`SlotPerHandle`), and a name is in one slot at most unless it
is hidden (`SlotPerName`).  Two limits are in the statement, because the code has them: a
handle is cut off when its name is deleted while it is open, or when an
initialisation fails under a name that is hidden; and while a name is hidden,
each attach creates a block of its own.

`ImportsAreCommitted`: the dumping process is neither writer nor reader.  The
data is committed unless a writer holds the lock (`DataInv`); the file and the
buffer are always `Restorable`: if they are as long as their header says, they
are of one such state.  The size that is read before the lock is why length has
to be part of it; `dump_race` shows the other outcome, a dump nobody can import.

### The bzip2 program

Hypotheses (`Filesystem`): the arguments name places of the directory, files hold
tokens, an output has another name than its input, standard input is no
directory, and closing a file does not fail.  The last is what
`bzip2_late_close` shows to be needed.

`FilesInv` says how much of the input has been written, by position and kind of
stream, through the buffer (`Progress`); that what a named file held is there
(`Safe`), in the file, in its output, or, during its turn, still in the file
because nothing removes it before the output is complete; that outputs nobody is
writing are whole, empty with an error, told of by a WARNING when their deletion
failed or their input was gone, or as they were (`Settled`); and that
other files are untouched (`Untouched`).  The last three see of a step only what
it does to the directory: `Kinds` puts every step into one of eight kinds.  Two
arguments may interfere, so `Safe` also says what another argument with the same
output may not do (`Elsewhere`).  The plain data of a prefix (`Data`) is a
recursive function whose values are found by considering the least index that
goes wrong.

`ExitTells` needs to know what was done while the status is still 0 (`ExitInv`):
each earlier argument has a whole output that nobody else writes (`FilesDone`),
was read as whole streams (`TestsDone`), or is a piece of what has gone to
stdout, in order (`Told`, which shares its account of the current argument,
`Work`, with `Progress`).

### The compressor

Hypotheses: a block takes at least one symbol, runs are at least four long,
output buffers hold at least a byte (`SizesAssumption`) and inputs are sequences
of bytes (`BytesAssumption`).

A pair is added only while the block is below its limit, and
adds at most five symbols; what makes the margin hold is that a block that is
full is never left with a long pending run, because the run is closed at the
same time as the block is found full (`BlockInv`: with a full block the pending
run is a single byte, which adds one symbol more when the block is ended).  A
call is refused if it makes no progress, so `CallInv` says that something is
pending whenever it has to: output that was not taken, a block in progress or
a run, in each mode; the loop of `handle_compress` returns only after it moved a
byte or changed the state.  There is one lemma per way through the loop.

### The harness

Hypotheses: a program belongs to one directory, the root is none of them, and
make builds both programs, the native one or nothing.  The invariant says where
the driver is during an entry (`Places`), whose values the shell variables hold
(`Variables`), whose code is in the `.cwasm` file (`Compiled`), and which engines
of the entry were measured or are still to come (`Complete`).

### The hash tables

These tables are chains of cells in an area, and the code walks them with loops.
`Walks` writes such a loop as a recursive function on the number of rounds, which
is equal to its definition only if such a function exists.  Nothing in the
library gives that without an operator as a parameter, so each walk has a lemma
that builds the function round by round (`Steps`, `UpTo`).  The
induction over the number of rounds is a lemma of its own on sets of numbers
(`UpTo`, from the well-foundedness of `<`).  `Follow` cuts a list off after as
many places as there are cells, so that a chain with a cycle would be a chain
with repetitions.  The lemmas on lists say that a chain is a sequence of places without
repetition, that a walk finds it, and what putting a cell in front of it and
taking one out of it does (`ChainsGrow`, `ChainsShrink`); strings and
buckets share them.

*Strings* (`StringsAssumption`: the empty text is not long, a hash is one of
those of the table, there are finitely many fields).  The invariant says that the
strings are on the chains of their hashes, no two are equal, and that each counts
the fields and the strings that refer to it.  Storing a string pins it between
its creation and the writing of the field, so that the counts are off by one
for one string (`Held`), also while the old one is freed.
The theorem assumes that no string is on the chain of its own extra string
(`ExtrasElsewhere`): without that the code loses strings, which is what run
`strhash_lost` shows.

*The index of values* (`RowsAssumption`: hashes are those of the table).  A row
is in a bucket as often as it has the value (`TableHolds`), buckets are on the
chains of their hashes, one for a value, and none is empty.  Entering a row is
a loop over its values that may fail in the middle; its invariant counts the
values passed so far (`Entered`).  Removal takes them out one by one and drops
buckets that become empty.  A row that could be entered only in part is counted
at most as often as it has the value.

*The extendible hash* (`GintAssumption`: hashes are numbers, a bucket holds an
entry, the directory has at least two levels at its largest; the code's has
more).  `TableSound` says that a directory entry leads to a bucket that agrees
with it in the bits of the bucket's level (`Leads`), that every entry is in the
bucket of its hash and buckets are not over-full (`Fits`), and that a call
failed only if more entries than a bucket holds agree in all the bits of the
largest directory (`Stuck`).  An insertion is a loop of splits, each of which
raises the level of the bucket that is over-full and doubles the directory when
that is needed (`Divide`, `Parted`); it takes at most as many rounds as there
are levels.

### Queries

*On columns* (`TableAssumption`: the rows are not empty, the values numbers;
`IndexAssumption`: the index has every row once, in the order of the keys, which
is what `TreeExact` says of the T-tree).  Folding a condition keeps what the
range and the remaining conditions mean together (`RangeMeans`); the
rows of the index inside the range are those whose key is in it, because the
keys are sorted; and filtering and cutting off copies no row more often than the
table has it (`Among`).  The statement leaves out two cases of a search in the
index: the rows, if the conditions leave a range with the same bound excluded
at both ends (there the code may return rows that meet no condition, run
`ttree_empty_range`), and `res_count`, if they leave a range with crossed ends,
which nothing sets (section 7).

*For documents* (`DocAssumption`: documents are not 0, which ends a page; a
product of two numbers below a size of the hash table is no multiple of the
size, which holds because the code's sizes are primes; one of the sizes is
more than twice the largest result set, which the code's are for sets of up to
100663305 documents, see section 7).  A result set on pages stands for a
sequence (`Holding`), through appending, rewinding and fetching at the ends of
pages.  Adding a key to the hash table finds a free slot because double hashing
with a prime size meets every slot and the table is at most half full, and
`KeysHold` says that what was added is found again and nothing else is.  A join
by nested loops or by the table then keeps the documents both sides have, each
once (`Merging`).  A query that failed returns nothing and is left out.

## 6. Only model-checked

* Liveness (`EveryRequestServed`, `PreferredServed`, `FlushComplete`,
  `EveryFileRead`), which is out of the prover's reach.
* What is about recursively defined values for every input, which would be an
  induction over data: `RoundTrip` (decoding is the inverse of encoding),
  `MovesExact`, `SwapExact`, `RepeatsCounted`, `BoardExact`, `PlaysChess`.
* The modules with recursive operators, about which the prover cannot reason:
  `TTree` with `TreeExact` and `RangeQueriesExact` (bounds and rebalancing along
  a path) and `Records` with `RecordsExact` (comparison and backlinks to a
  depth).

## 7. Where the code does not do what it says

Shown by runs:

* `tfq_lost_grant`: a timeout that strikes just after its cell was cleared drops
  the grant, and the next request sleeps behind a lock that is free
  (`W/dblock.c:1031`, `:1148`).
* `tfq_late_wake`: `futex_wake` is called with an address in a cell that may
  belong to another request by then, which takes it for its own grant because
  `waiting` is not tested again after the wait (`W/dblock.c:1081`).
* `varlen_lengths`: extending an area rewrites the head of the object behind the
  old victim with its padded size, so that a record may get one field longer
  (`W/dballoc.c`, `init_subarea_freespace`).
* `ttree_empty_range`: a query for `val > k` and `val < k` returns every row
  above `k` when the rows with key `k` fill their nodes (`W/dbquery.c`,
  `find_ttree_bounds`).
* `dump_race`: `wg_dump` reads the size of the segment before it takes the lock; a
  writer that extends it in between leaves a dump that was reported as good and
  is refused on import (`W/dbdump.c:88`).
* `strhash_lost`: the head of a hash chain is read before an extra string is
  encoded, which may put itself in front of the same chain; it is dropped from
  the chain and stored again later (`W/dbdata.c:2606`).
* `records_sharing`: writing a field of a raw record enters the records that
  refer to it in the indexes, but does not take out their old rows
  (`W/dbdata.c:916`).
* `bzip2_late_close`: behind trailing garbage the result of closing the output is
  not read, and the input is deleted although the last write failed
  (`bzip2.c:533`).

Met while modelling, outside what the runs state:

* `IsLegalMove` accepts kept killers that no generator makes: a pawn that goes to
  the last rank and stays a pawn, when the killer was a move of another piece
  between the same squares (`gnuchess/src/move.c:780`), and a king that goes from e1 to
  g1 without its rook, when it was the rook's (`:798`).  `sort.c:224` relies on it:
  "If the board ever gets corrupted during the search, then there is a bug in
  IsLegalMove() which has to be fixed."  `MovesExact` and `PlaysChess` hold
  with these two exceptions, which `ChessProps` names (`Unruly`), and the starts
  reach both.
* `SwapOff` does not count the piece a promotion takes (`swap.c:66`), and a king that
  takes uncovers nothing (`:31`).  A capture in passing has no CAPTURE bit and may
  be kept as a killer against the comment at `search.c:620`.
* `Search` does not look at whether its first GETNEXTMOVE found a move
  (`search.c:404`): with no move at all and no check, `p` has no value at `:432`.
* A signal ends a wait of the queued lock with EINTR, which is taken for a
  grant (`W/dblock.c:1416`).  `INIT_QLOCK_TIMEOUT` stores left-over milliseconds
  as nanoseconds (`:147`).  Outside Linux, and so in the WebAssembly build, the
  wait is compiled out (`:1042`).
* A record that refers to a changed one from two fields, or on two ways, is
  taken out of the indexes once for each and put back as often (`W/dbdata.c:668`,
  `:793`): the second removal fails or goes unnoticed, and the row is there twice.
  A record stored in one of its own fields and then overwritten frees a list cell
  that is still walked (`:719`).
* List cells are allocated without a test: at offset 0 the header of the
  database is written over (`W/dbdata.c:771`, `W/dbhash.c:487`).
* An allocation that leaves the victim too small a remainder extends the area
  twice (`W/dballoc.c:996`).
* `wg_attach_memsegment` tests an error code that an inner declaration shadows
  (`W/dbmem.c`).  A malloc that fails leaves a slot without a block, which hides
  what is created later under its name until the name is deleted.  The limit on
  slots is tested after the slot was written (`:826`).
* A query whose bounds cross leaves `res_count` as it was, against
  `W/dbapi.h:119`; a query in progress keeps a node and a slot that an insertion
  may move (`W/dbquery.c:1027`).
* `dhash_size` looks at 20 of its 25 primes (`W/dbhash.c:855`), so that the load
  is below one half, as its comment says, only up to 100663305 entries, and
  not up to the 2147483645 it accepts; a table with more entries than its
  201326611 slots is full.
* The atomic updates (`W/dbdata.c:1026`) change fields without the upkeep of the
  indexes, as their comment says.
* When the output of a failed run of bzip2 cannot be removed, or its input is
  gone, a WARNING says so and the partial output stays (`bzip2.c:709`, `:715`).
* After "Cannot build WebAssembly binary..." the driver does not return to
  `$BenchRoot`, so that every later entry is skipped (`run.sh:115`).  An entry
  without arguments is run by the engines with those of an earlier one
  (`common.sh:89`).  The entries from `run.sh:69` on name directories that do not
  exist.  With CheckResult and RunAOT both set, outputs are compared that were
  not produced (`common.sh:171`).

## 8. Not modelled, and why

The journal is compiled out.  JSON parsing, schemas and printing are input and
output, or calls of what is modelled; so is the parsing of options of bzip2 and
the harness.  The encoding of values in `dbdata.c` is a matter of formats.  Of
indexes, those over several columns and with templates are left out; of the
bzip2 library, calls in a wrong order and the randomised blocks of its old
versions, which no compressor writes any more.  The drivers (`main.c`) are
straight-line calls.  Snappy, tsf, facedetection, mnist, the MiBench kernels and
PolyBench transform an input in one pass by arithmetic or tables: there is no
state a sequence of steps could lead astray, and they are better compared with
reference outputs.  The JPEG codecs are a vendored library.

Of gnuchess, the evaluation, the decisions of the search, the transposition
table, time, the opening book and the reading and writing of moves are left
out: what they choose among is modelled, and how well is not a matter of being
correct.

## 9. Plan

Done: the lock in its three forms, both allocators, pools, dumps and
attachment, T-tree, hash indexes, strings, records and queries, the harness, the
program and library of bzip2, the board and moves of gnuchess, and the proofs of
section 5.

Next, in this order:

1. The atomic updates of `dbdata.c` next to `wg_set_field`.
2. Proofs about the T-tree and the records, with their recursion written as
   functions.
3. A run that shows the two kinds of moves `IsLegalMove` lets through.
4. The command ring of espeak and the hash set of JetStream2 with its
   tombstones.

To keep the number of runs small, related questions share a run; a claim that
the code does not fulfil has its own.
