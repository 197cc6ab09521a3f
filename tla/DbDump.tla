------------------------------- MODULE DbDump -------------------------------
(***************************************************************************)
(* Dumping a WhiteDB database to a file while other processes use it, and  *)
(* checking and importing the file elsewhere (dbdump.c).  The dump is a    *)
(* copy of the segment up to its first unused byte: the header with that   *)
(* offset, the words of the lock, and the data, here a sequence of chunks. *)
(* A checksum is what it was computed from.  The lock is the one that      *)
(* DbLocks checks the three protocols of dblock.c to implement.            *)
(* A definition named X_slip is X with a plausible slip, used by no        *)
(* specification; it serves to test the properties.                        *)
(***************************************************************************)
EXTENDS Integers, Sequences

CONSTANTS Writers, Readers,  \* the processes that use the database
          DiskFails,         \* writes to the file may fail
          MaxChunks,         \* bound: the chunks of the segment
          MaxVersion,        \* bound: the transactions
          CopyChunks         \* what the segment imported to has room for

VARIABLES
  holds,                     \* the mode in which each process holds the lock
  data, version, committed,  \* the chunks; every content between transactions
  dpc, dbsize, crc, buf, err,  \* wg_dump: its locals, the file's buffer
  dumpresult,                \* what it returned, or "none"
  file,                      \* the file on the disk
  ipc, copy                  \* the importing process and its database

Dumper == "dumper"
dbVars == <<data, version, committed>>
dumpVars == <<dpc, dbsize, crc, buf, err, dumpresult, file>>
importVars == <<ipc, copy>>
dumpingVars == <<holds, dbVars, dumpVars, importVars>>

Lock == INSTANCE RwLock WITH Procs <- Writers \cup Readers \cup {Dumper}

Image(size) == [locks |-> holds, free |-> Len(data), data |-> SubSeq(data, 1, size)]
NoSum == <<>>    \* a checksum is a sequence of at most what it was computed from
Empty == [locks |-> Lock!Free, free |-> 0, data |-> <<>>, sum |-> NoSum]
WithSum(image, sum) ==
  [locks |-> image.locks, free |-> image.free, data |-> image.data, sum |-> sum]

\* What may have reached the disk of what is in the buffer.
Reached == {Empty} \cup {[buf EXCEPT !.data = SubSeq(@, 1, n), !.sum = NoSum] : n \in 0 .. Len(buf.data)}

DumpInit ==
  /\ Lock!Init
  /\ data = <<0>> /\ version = 0 /\ committed = {data}
  /\ dpc = "idle" /\ dbsize = 0 /\ crc = NoSum /\ buf = Empty /\ err = TRUE
  /\ dumpresult = "none" /\ file = Empty
  /\ ipc = "idle" /\ copy = [sound |-> FALSE, data |-> <<>>, locks |-> Lock!Free]

-----------------------------------------------------------------------------
(* The processes that use the database *)

Begin(w) ==
  /\ version < MaxVersion
  /\ Lock!AcquireWrite(w)
  /\ version' = version + 1
  /\ UNCHANGED <<data, committed, dumpVars, importVars>>
StoreData(w) ==
  /\ holds[w] = "write"
  /\ \E i \in DOMAIN data : data[i] < version /\ data' = [data EXCEPT ![i] = version]
  /\ UNCHANGED <<holds, version, committed, dumpVars, importVars>>
GrowDb(w) ==
  /\ holds[w] = "write" /\ Len(data) < MaxChunks
  /\ data' = Append(data, version)
  /\ UNCHANGED <<holds, version, committed, dumpVars, importVars>>
Commit(w) ==
  /\ holds[w] = "write"
  /\ Lock!Release(w)
  /\ committed' = committed \cup {data}
  /\ UNCHANGED <<data, version, dumpVars, importVars>>
ReadLock(r) ==
  /\ Lock!AcquireRead(r) \/ (holds[r] = "read" /\ Lock!Release(r))
  /\ UNCHANGED <<dbVars, dumpVars, importVars>>

-----------------------------------------------------------------------------
(* wg_dump *)

DumperAt(from, to) == dpc = from /\ dpc' = to

\* The size is read before the lock is taken.
StartDump ==
  /\ DumperAt("idle", "open")
  /\ dbsize' = Len(data) /\ err' = TRUE /\ dumpresult' = "none"
  /\ UNCHANGED <<holds, dbVars, crc, buf, file, importVars>>
OpenFile ==
  /\ DumperAt("open", "lock")
  /\ file' = Empty /\ buf' = Empty
  /\ UNCHANGED <<holds, dbVars, dbsize, crc, err, dumpresult, importVars>>
LockForDump_slip ==
  /\ DumperAt("lock", "sum")
  /\ UNCHANGED <<holds, dbVars, dbsize, crc, buf, err, dumpresult, file, importVars>>
LockForDump ==
  /\ DumperAt("lock", "sum")
  /\ Lock!AcquireRead(Dumper)
  /\ UNCHANGED <<dbVars, dbsize, crc, buf, err, dumpresult, file, importVars>>
\* The lock was not to be had in time: the file stays open, and empty.
LockTimesOut ==
  /\ DumperAt("lock", "idle")
  /\ dumpresult' = "error"
  /\ UNCHANGED <<holds, dbVars, dbsize, crc, buf, err, file, importVars>>
ComputeSum ==
  /\ DumperAt("sum", "write")
  /\ crc' = <<Image(dbsize)>>
  /\ UNCHANGED <<holds, dbVars, dbsize, buf, err, dumpresult, file, importVars>>
WriteImage ==
  /\ DumperAt("write", "unlock")
  /\ \/ buf' = WithSum(Image(dbsize), crc) /\ err' = FALSE
     \/ /\ DiskFails /\ err' = TRUE
        /\ \E n \in 0 .. dbsize : buf' = WithSum(Image(n), NoSum)
  /\ UNCHANGED <<holds, dbVars, dbsize, crc, dumpresult, file, importVars>>
UnlockAfterDump ==
  /\ DumperAt("unlock", "close")
  /\ IF holds[Dumper] = "read" THEN Lock!Release(Dumper) ELSE UNCHANGED holds
  /\ UNCHANGED <<dbVars, dbsize, crc, buf, err, dumpresult, file, importVars>>
\* Nobody looks at what fflush and fclose return.
CloseFile ==
  /\ DumperAt("close", "idle")
  /\ file' = buf \/ (DiskFails /\ file' \in Reached)
  /\ dumpresult' = IF err THEN "error" ELSE "ok"
  /\ UNCHANGED <<holds, dbVars, dbsize, crc, buf, err, importVars>>
\* The dumping process dies; the lock stays as it is.
Die ==
  /\ dpc \notin {"idle", "dead"} /\ dpc' = "dead"
  /\ file' \in Reached \cup {file, buf}
  /\ UNCHANGED <<holds, dbVars, dbsize, crc, buf, err, dumpresult, importVars>>

Dump ==
  \/ StartDump \/ OpenFile \/ LockForDump \/ LockTimesOut \/ ComputeSum
  \/ WriteImage \/ UnlockAfterDump \/ CloseFile \/ Die

-----------------------------------------------------------------------------
(* wg_check_dump and wg_import_dump, in another process *)

SizeMatches(f) == Len(f.data) = f.free
SumMatches(f) == f.sum = <<[locks |-> f.locks, free |-> f.free, data |-> f.data]>>
Accepted(f) == f.free > 0 /\ SizeMatches(f) /\ SumMatches(f)

CheckDump ==
  /\ ipc = "idle" /\ Accepted(file)
  /\ ipc' = "import"
  /\ UNCHANGED <<holds, dbVars, dumpVars, copy>>

\* The locks in the image are those of the dumped database, held by the
\* dumping process at least; they are initialised again.
InitLocks_slip(locks) == locks
InitLocks(locks) == Lock!Free

\* The file may have changed since it was checked.  An image that is cut off
\* leaves the database in an undetermined state.
ImportDump ==
  /\ ipc = "import" /\ ipc' = "idle"
  /\ IF file.free = 0 \/ CopyChunks < file.free THEN UNCHANGED copy
     ELSE IF Len(file.data) < file.free THEN copy' = [copy EXCEPT !.sound = FALSE]
     ELSE copy' = [sound |-> TRUE, data |-> file.data, locks |-> InitLocks(file.locks)]
  /\ UNCHANGED <<holds, dbVars, dumpVars>>

DumpNext ==
  \/ \E w \in Writers : Begin(w) \/ StoreData(w) \/ GrowDb(w) \/ Commit(w)
  \/ \E r \in Readers : ReadLock(r)
  \/ Dump \/ CheckDump \/ ImportDump

DumpSpec == DumpInit /\ [][DumpNext]_dumpingVars

-----------------------------------------------------------------------------
(* Properties *)

\* An import that succeeds restores the database as it was between two
\* transactions, with nobody holding its lock, whatever happened to the
\* dumping process, to its disk and to the file in between.
ImportRestores == copy.sound => copy.data \in committed /\ copy.locks = Lock!Free

\* "This function is parallel-safe (may run during normal db usage)": what a
\* dump that returned success left behind can be imported.
DumpUsable == dumpresult = "ok" /\ dpc = "idle" => Accepted(file)
=============================================================================
