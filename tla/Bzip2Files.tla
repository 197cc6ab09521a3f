----------------------------- MODULE Bzip2Files -----------------------------
(***************************************************************************)
(* The bzip2 program: what it does to the files named on its command line. *)
(* One invocation compresses, decompresses or tests every argument in      *)
(* turn, into a file beside it, to stdout, or from stdin to stdout, while  *)
(* reads, writes and system calls may fail, other programs create and      *)
(* remove files, and the process may be killed (the WebAssembly build      *)
(* installs no signal handler).                                            *)
(*                                                                         *)
(* Contents are sequences of tokens: <<"raw", d>> is a buffer of plain     *)
(* bytes; a stream is <<"hdr">>, its blocks <<"blk", d>> and <<"end">>,    *)
(* and <<"bad">> a block whose checksum is wrong.                          *)
(***************************************************************************)
EXTENDS Naturals, Sequences, SequencesExt

CONSTANTS Commands,   \* the invocations: records op, srcMode, force, keep, tty, args
          Directories(_),  \* the files a command may find
          Linked,     \* paths that are symbolic links or have other names
          Faults,     \* the faults the system may inject
          MaxFaults,  \* bound: how many of them in one run
          MaxEnv      \* bound: how many files other programs create or remove

Absent == << <<"absent">> >>
Dir == << <<"dir">> >>
Foreign == << <<"raw", "foreign">> >>
Stdin == <<"stdin", "">>

VARIABLES
  cmd,       \* the flags and arguments, fixed after parsing
  orig,      \* the directory the program found
  files,     \* the directory: path -> content
  stdout,    \* what stdout has received
  n,         \* the argument being processed
  pc,
  in,        \* the content of the open input and the position in it
  rd,
  rerr,      \* ferror of the input
  pend,      \* the output's stdio buffer and its ferror
  werr,
  streamNo, inStream,       \* uncompressStream, testStream
  deleteOutputOnInterrupt,
  exitValue, ec,            \* ec: the argument of cleanUpAndFail
  unzFailsExist, testFailsExist,
  faults, env, foreign,
  kept,      \* inputs that others removed while their output was there to stay
  warned     \* outputs that a WARNING said were not deleted

conf == <<cmd, orig>>
stream == <<in, rd, rerr, streamNo, inStream>>
disk == <<files, stdout, pend, werr>>
status == <<exitValue, ec, unzFailsExist, testFailsExist>>
outside == <<env, foreign, kept, warned>>
bzip2Vars == <<conf, stream, disk, status, outside, n, pc, deleteOutputOnInterrupt, faults>>

-----------------------------------------------------------------------------
unzSuffix == [s \in {".bz2", ".bz", ".tbz2", ".tbz"} |->
                IF s \in {".bz2", ".bz"} THEN "" ELSE ".tar"]

OutNameOf(c, p) ==
  IF c.op = "compress" THEN <<p[1], p[2] \o ".bz2">>
  ELSE <<p[1], IF p[2] \in DOMAIN unzSuffix THEN unzSuffix[p[2]] ELSE p[2] \o ".out">>

OutName(p) == OutNameOf(cmd, p)
In == cmd.args[n]
Out == OutName(In)
ToFile == cmd.srcMode = "F2F" /\ cmd.op # "test"
Fault(f) == f \in Faults /\ faults < MaxFaults /\ faults' = faults + 1
NoFault == UNCHANGED faults
setExit(v) == exitValue' = IF v > exitValue THEN v ELSE exitValue

\* cleanUpAndFail, or exit, is called with a status.
FailWith(v) == pc' = "fail" /\ ec' = v
Proceed(where) == pc' = where /\ UNCHANGED ec

Deliver(toks) ==
  IF ToFile THEN files' = [files EXCEPT ![Out] = @ \o toks] /\ UNCHANGED stdout
            ELSE stdout' = stdout \o toks /\ UNCHANGED files

\* fwrite: into the buffer, which stdio may have to write out.
fwrite(toks) ==
  \/ pend' = pend \o toks /\ NoFault /\ UNCHANGED <<files, stdout, werr>>
  \/ Deliver(pend \o toks) /\ pend' = <<>> /\ NoFault /\ UNCHANGED werr
  \/ Fault("write") /\ pend' = <<>> /\ werr' = TRUE /\ UNCHANGED <<files, stdout>>

\* fflush, or the flush inside fclose, of toks more.
fflush(toks) ==
  \/ Deliver(pend \o toks) /\ pend' = <<>> /\ NoFault /\ UNCHANGED werr
  \/ Fault("write") /\ pend' = <<>> /\ werr' = TRUE /\ UNCHANGED <<files, stdout>>

-----------------------------------------------------------------------------
Bzip2Init ==
  /\ cmd \in Commands
  /\ orig \in Directories(cmd)
  /\ files = orig /\ stdout = <<>>
  /\ n = 1 /\ pc = "next"
  /\ in = <<>> /\ rd = 1 /\ rerr = FALSE
  /\ pend = <<>> /\ werr = FALSE
  /\ streamNo = 0 /\ inStream = FALSE
  /\ deleteOutputOnInterrupt = FALSE
  /\ exitValue = 0 /\ ec = 0
  /\ unzFailsExist = FALSE /\ testFailsExist = FALSE
  /\ faults = 0 /\ env = 0 /\ foreign = {} /\ kept = {} /\ warned = {}

\* The next argument, or return from main.
NextArgument(v) == pc' = "next" /\ n' = n + 1 /\ setExit(v) /\ UNCHANGED ec

-----------------------------------------------------------------------------
(* compress, uncompress and testf up to the opening of the files           *)

\* Compressed data are neither written to a terminal nor read from one.
Terminal == cmd.tty /\ cmd.srcMode = (IF cmd.op = "compress" THEN "F2O" ELSE "I2O")

Refused ==
  \/ Terminal
  \/ /\ cmd.srcMode # "I2O"
     /\ \/ files[In] \in {Absent, Dir}
        \/ cmd.op = "compress" /\ In[2] \in DOMAIN unzSuffix
        \/ ToFile /\ ~cmd.force /\ (In \in Linked \/ files[Out] # Absent)

CheckRefused ==
  /\ pc = "next" /\ n <= Len(cmd.args)
  /\ Refused
  /\ NextArgument(1)
  /\ deleteOutputOnInterrupt' = FALSE
  /\ UNCHANGED <<conf, stream, disk, outside, unzFailsExist, testFailsExist, faults>>

\* With -f an output in the way is removed; nobody looks whether it was.
CheckAccepted ==
  /\ pc = "next" /\ n <= Len(cmd.args)
  /\ ~Refused
  /\ pc' = "open"
  /\ \/ /\ files' = IF ToFile THEN [files EXCEPT ![Out] = Absent] ELSE files
        /\ NoFault
     \/ ToFile /\ files[Out] # Absent /\ Fault("remove") /\ UNCHANGED files
  /\ deleteOutputOnInterrupt' = FALSE
  /\ UNCHANGED <<conf, stream, status, outside, stdout, pend, werr, n>>

\* saveInputFileMetaInfo fails, before there is an output that cleanUpAndFail
\* could delete or exit could flush.
MetaInfoFails ==
  /\ pc = "open" /\ ToFile
  /\ (files[In] = Absent /\ NoFault) \/ Fault("stat")
  /\ pc' = "exit" /\ setExit(1)
  /\ UNCHANGED <<conf, stream, disk, outside, n, ec, unzFailsExist, testFailsExist,
                 deleteOutputOnInterrupt>>

\* fopen_output_safely: O_CREAT with O_EXCL.
Creatable_slip == TRUE
Creatable == files[Out] = Absent

OpenFiles ==
  /\ pc = "open"
  /\ files[In] # Absent
  /\ ToFile => Creatable
  /\ files' = IF ToFile THEN [files EXCEPT ![Out] = <<>>] ELSE files
  /\ werr' = (~ToFile /\ werr)
  /\ in' = files[In] /\ rd' = 1 /\ rerr' = FALSE
  /\ streamNo' = 0 /\ inStream' = FALSE
  /\ pc' = "stream" /\ deleteOutputOnInterrupt' = (cmd.op # "test")
  /\ UNCHANGED <<conf, status, outside, stdout, pend, n, faults>>

\* The output cannot be created, or it was and the input cannot be opened.
OpenFails ==
  /\ pc = "open"
  /\ \/ ToFile /\ ((~Creatable /\ NoFault) \/ Fault("create")) /\ UNCHANGED files
     \/ /\ \/ files[In] = Absent /\ NoFault
           \/ cmd.srcMode # "I2O" /\ Fault("open")
        /\ ToFile => Creatable
        /\ files' = IF ToFile THEN [files EXCEPT ![Out] = <<>>] ELSE files
  /\ NextArgument(1)
  /\ UNCHANGED <<conf, stream, outside, stdout, pend, werr, unzFailsExist,
                 testFailsExist, deleteOutputOnInterrupt>>

-----------------------------------------------------------------------------
(* compressStream                                                          *)

\* A read that fails looks like the end of the file to myfeof.
ReadFails ==
  /\ pc \in {"stream", "cat"} /\ ~rerr
  /\ Fault("read") /\ rerr' = TRUE
  /\ UNCHANGED <<conf, in, rd, streamNo, inStream, disk, status, outside, n, pc,
                 deleteOutputOnInterrupt>>

AtEof == rerr \/ rd > Len(in)
Header == IF rd = 1 THEN << <<"hdr">> >> ELSE <<>>

CompressChunk ==
  /\ pc = "stream" /\ cmd.op = "compress" /\ ~AtEof
  /\ fwrite(Header \o << <<"blk", in[rd][2]>> >>)
  /\ rd' = rd + 1
  /\ IF werr' THEN FailWith(1) ELSE Proceed("stream")
  /\ UNCHANGED <<conf, in, rerr, streamNo, inStream, outside, n, exitValue,
                 unzFailsExist, testFailsExist, deleteOutputOnInterrupt>>

\* BZ2_bzWriteClose64 writes the rest of the stream and flushes.
CompressFinish ==
  /\ pc = "stream" /\ cmd.op = "compress" /\ AtEof
  /\ fflush(Header \o << <<"end">> >>)
  /\ IF werr' THEN FailWith(1) ELSE Proceed("close")
  /\ UNCHANGED <<conf, stream, outside, n, exitValue, unzFailsExist, testFailsExist,
                 deleteOutputOnInterrupt>>

-----------------------------------------------------------------------------
(* uncompressStream and testStream                                         *)

testFail == testFailsExist' = TRUE /\ pc' = "next" /\ n' = n + 1 /\ UNCHANGED ec

\* The end of the file, or a corrupt block, inside a stream.
BrokenStream(v) ==
  IF cmd.op = "test" /\ v # 1 THEN testFail
  ELSE FailWith(v) /\ UNCHANGED <<n, testFailsExist>>

StreamEnds ==
  /\ pc = "stream" /\ cmd.op # "compress" /\ AtEof
  /\ streamNo' = IF inStream THEN streamNo ELSE streamNo + 1
  /\ \/ BrokenStream(2)
     \/ rerr /\ BrokenStream(1)
  /\ UNCHANGED <<conf, in, rd, rerr, inStream, disk, outside, exitValue, unzFailsExist,
                 deleteOutputOnInterrupt, faults>>

StreamCorrupt ==
  /\ pc = "stream" /\ cmd.op # "compress" /\ ~AtEof /\ inStream
  /\ in[rd][1] \notin {"blk", "end"}
  /\ BrokenStream(2)
  /\ UNCHANGED <<conf, stream, disk, outside, exitValue, unzFailsExist,
                 deleteOutputOnInterrupt, faults>>

StreamHeader ==
  /\ pc = "stream" /\ cmd.op # "compress" /\ ~AtEof /\ ~inStream
  /\ in[rd] = <<"hdr">>
  /\ streamNo' = streamNo + 1 /\ inStream' = TRUE /\ rd' = rd + 1
  /\ UNCHANGED <<conf, in, rerr, disk, status, outside, n, pc,
                 deleteOutputOnInterrupt, faults>>

\* BZ_DATA_ERROR_MAGIC: the bytes after a stream, or the file, are no stream.
StreamMagic ==
  /\ pc = "stream" /\ cmd.op # "compress" /\ ~AtEof /\ ~inStream
  /\ in[rd] # <<"hdr">>
  /\ streamNo' = streamNo + 1
  /\ IF cmd.force /\ cmd.op = "uncompress"
     THEN rd' = 1 /\ pc' = "cat" ELSE pc' = "magic" /\ UNCHANGED rd
  /\ UNCHANGED <<conf, in, rerr, inStream, disk, status, outside, n,
                 deleteOutputOnInterrupt, faults>>

StreamBlock ==
  /\ pc = "stream" /\ cmd.op # "compress" /\ ~AtEof /\ inStream
  /\ in[rd][1] = "blk"
  /\ rd' = rd + 1
  /\ IF cmd.op = "test" THEN UNCHANGED <<disk, faults>> /\ Proceed("stream")
     ELSE /\ fwrite(<< <<"raw", in[rd][2]>> >>)
          /\ IF werr' THEN FailWith(1) ELSE Proceed("stream")
  /\ UNCHANGED <<conf, in, rerr, streamNo, inStream, outside, n, exitValue,
                 unzFailsExist, testFailsExist, deleteOutputOnInterrupt>>

StreamTrailer ==
  /\ pc = "stream" /\ cmd.op # "compress" /\ ~AtEof /\ inStream
  /\ in[rd] = <<"end">>
  /\ rd' = rd + 1 /\ inStream' = FALSE
  /\ pc' = IF rd = Len(in) THEN "close" ELSE "stream"
  /\ UNCHANGED <<conf, in, rerr, streamNo, disk, status, outside, n,
                 deleteOutputOnInterrupt, faults>>

\* trycat: with -f the whole input is copied.
CatChunk ==
  /\ pc = "cat" /\ ~AtEof
  /\ fwrite(<<in[rd]>>)
  /\ rd' = rd + 1
  /\ IF werr' THEN FailWith(1) ELSE Proceed("cat")
  /\ UNCHANGED <<conf, in, rerr, streamNo, inStream, outside, n, exitValue,
                 unzFailsExist, testFailsExist, deleteOutputOnInterrupt>>

CatEnds ==
  /\ pc = "cat" /\ AtEof /\ pc' = "close"
  /\ UNCHANGED <<conf, stream, disk, status, outside, n, deleteOutputOnInterrupt, faults>>

-----------------------------------------------------------------------------
(* The end of the three stream functions                                   *)

ferror_slip == FALSE
ferror == rerr

\* The input's error indicator is what tells a failed read from the end.
CloseFiles ==
  /\ pc = "close"
  /\ IF cmd.op = "test" THEN UNCHANGED <<disk, faults>> ELSE fflush(<<>>)
  /\ IF ferror \/ werr' THEN FailWith(1) /\ UNCHANGED n
     ELSE IF cmd.op = "test" THEN pc' = "next" /\ n' = n + 1 /\ UNCHANGED ec
     ELSE Proceed("stamp") /\ UNCHANGED n
  /\ UNCHANGED <<conf, stream, outside, exitValue, unzFailsExist, testFailsExist,
                 deleteOutputOnInterrupt>>

\* errhandler, BZ_DATA_ERROR_MAGIC: both files are closed, the output without
\* a look at the result; stdout stays open, and unflushed.
BadMagic ==
  /\ pc = "magic"
  /\ \/ ~ToFile /\ UNCHANGED <<disk, faults>>
     \/ ToFile /\ Deliver(pend) /\ pend' = <<>> /\ UNCHANGED <<werr, faults>>
     \/ ToFile /\ Fault("fclose") /\ pend' = <<>> /\ UNCHANGED <<files, stdout, werr>>
  /\ IF cmd.op = "test"
     THEN IF streamNo = 1 THEN testFail
          ELSE pc' = "next" /\ n' = n + 1 /\ UNCHANGED <<ec, testFailsExist>>
     ELSE Proceed(IF streamNo = 1 THEN "notbzip2" ELSE "stamp") /\ UNCHANGED <<n, testFailsExist>>
  /\ UNCHANGED <<conf, stream, outside, exitValue, unzFailsExist, deleteOutputOnInterrupt>>

-----------------------------------------------------------------------------
(* compress and uncompress after the stream                                *)

NotBzip2Value_slip == 0
NotBzip2Value == 2

NotBzip2 ==
  /\ pc = "notbzip2"
  /\ unzFailsExist' = (NotBzip2Value > 0)
  /\ deleteOutputOnInterrupt' = FALSE
  /\ \/ /\ files' = IF ToFile THEN [files EXCEPT ![Out] = Absent] ELSE files
        /\ NoFault /\ NextArgument(NotBzip2Value)
     \/ ToFile /\ Fault("remove") /\ FailWith(1) /\ UNCHANGED <<files, n, exitValue>>
  /\ UNCHANGED <<conf, stream, outside, stdout, pend, werr, testFailsExist>>

\* applySavedTimeInfoToOutputFile, while the output may still be deleted.
StampOutput ==
  /\ pc = "stamp"
  /\ IF ~ToFile THEN NoFault /\ NextArgument(0) /\ deleteOutputOnInterrupt' = FALSE
     ELSE \/ /\ NoFault /\ deleteOutputOnInterrupt' = FALSE
             /\ IF cmd.keep THEN NextArgument(0)
                ELSE Proceed("remove") /\ UNCHANGED <<n, exitValue>>
          \/ /\ Fault("utime") /\ FailWith(1)
             /\ UNCHANGED <<n, exitValue, deleteOutputOnInterrupt>>
  /\ UNCHANGED <<conf, stream, disk, outside, unzFailsExist, testFailsExist>>

RemoveInput ==
  /\ pc = "remove"
  /\ \/ /\ files[In] # Absent /\ NoFault
        /\ files' = [files EXCEPT ![In] = Absent]
        /\ NextArgument(0)
     \/ /\ (files[In] = Absent /\ NoFault) \/ Fault("remove")
        /\ FailWith(1) /\ UNCHANGED <<files, n, exitValue>>
  /\ UNCHANGED <<conf, stream, outside, stdout, pend, werr, unzFailsExist,
                 testFailsExist, deleteOutputOnInterrupt>>

-----------------------------------------------------------------------------
(* cleanUpAndFail, and the end of main                                     *)

\* What exit does to the open output.
FlushAtExit ==
  \/ Deliver(pend) /\ NoFault
  \/ Fault("fclose") /\ pend # <<>> /\ UNCHANGED <<files, stdout>>

MayDelete_slip == FALSE
MayDelete == ToFile /\ deleteOutputOnInterrupt

\* The input is looked for before the output is deleted.
CleanUpAndFail ==
  /\ pc = "fail"
  /\ setExit(ec)
  /\ IF MayDelete /\ files[In] # Absent
     THEN pc' = "unlink" /\ UNCHANGED <<files, stdout, pend, faults, warned>>
     ELSE /\ pc' = "exit" /\ FlushAtExit /\ pend' = <<>>
          /\ warned' = IF MayDelete THEN warned \cup {Out} ELSE warned
  /\ UNCHANGED <<conf, stream, env, foreign, kept, werr, n, ec, unzFailsExist, testFailsExist,
                 deleteOutputOnInterrupt>>

\* A deletion that fails is told of, and what stdio held still gets out.
DeleteOutput ==
  /\ pc = "unlink" /\ pc' = "exit" /\ pend' = <<>>
  /\ \/ /\ files' = [files EXCEPT ![Out] = Absent]
        /\ NoFault /\ UNCHANGED <<stdout, warned>>
     \/ /\ Fault("remove") /\ Deliver(pend)
        /\ warned' = warned \cup {Out}
  /\ UNCHANGED <<conf, stream, status, env, foreign, kept, werr, n,
                 deleteOutputOnInterrupt>>

Exit ==
  /\ pc = "next" /\ n > Len(cmd.args) /\ pc' = "exit"
  /\ IF unzFailsExist \/ testFailsExist THEN setExit(2) ELSE UNCHANGED exitValue
  /\ \/ stdout' = stdout \o pend /\ NoFault
     \/ Fault("fclose") /\ pend # <<>> /\ UNCHANGED stdout
  /\ pend' = <<>>
  /\ UNCHANGED <<conf, stream, outside, files, werr, n, ec, unzFailsExist,
                 testFailsExist, deleteOutputOnInterrupt>>

-----------------------------------------------------------------------------
(* The rest of the system                                                  *)

Kill ==
  /\ pc \notin {"exit", "killed"} /\ "kill" \in Faults
  /\ pc' = "killed" /\ pend' = <<>>
  /\ UNCHANGED <<conf, stream, status, outside, files, stdout, werr, n,
                 deleteOutputOnInterrupt, faults>>

Running == pc \notin {"exit", "killed"} /\ n <= Len(cmd.args)

OtherCreates ==
  /\ Running /\ ToFile /\ env < MaxEnv /\ files[Out] = Absent
  /\ files' = [files EXCEPT ![Out] = Foreign]
  /\ env' = env + 1 /\ foreign' = foreign \cup {Out}
  /\ UNCHANGED <<conf, stream, status, stdout, pend, werr, n, pc, kept, warned,
                 deleteOutputOnInterrupt, faults>>

OtherRemoves ==
  /\ Running /\ cmd.srcMode # "I2O" /\ env < MaxEnv /\ files[In] \notin {Absent, Dir}
  /\ files' = [files EXCEPT ![In] = Absent]
  /\ env' = env + 1 /\ foreign' = foreign \cup {In}
  /\ kept' = IF ToFile /\ pc \in {"stamp", "remove", "fail"} /\ files[Out] # Absent
             THEN kept \cup {In} ELSE kept
  /\ UNCHANGED <<conf, stream, status, stdout, pend, werr, n, pc, warned,
                 deleteOutputOnInterrupt, faults>>

Bzip2Done == pc \in {"exit", "killed"} /\ UNCHANGED bzip2Vars

Program ==
  \/ CheckRefused \/ CheckAccepted \/ MetaInfoFails \/ OpenFiles \/ OpenFails
  \/ CompressChunk \/ CompressFinish
  \/ StreamHeader \/ StreamBlock \/ StreamTrailer
  \/ StreamEnds \/ StreamCorrupt \/ StreamMagic
  \/ CatChunk \/ CatEnds \/ CloseFiles \/ BadMagic
  \/ NotBzip2 \/ StampOutput \/ RemoveInput
  \/ CleanUpAndFail \/ DeleteOutput \/ Exit

Bzip2Next == Program \/ ReadFails \/ Kill \/ OtherCreates \/ OtherRemoves \/ Bzip2Done

Bzip2Spec == Bzip2Init /\ [][Bzip2Next]_bzip2Vars /\ WF_bzip2Vars(Program)
=============================================================================
