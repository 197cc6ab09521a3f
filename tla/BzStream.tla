------------------------------ MODULE BzStream ------------------------------
(***************************************************************************)
(* What BZ2_bzCompress wrote is read back by BZ2_bzDecompress behind       *)
(* BZ2_bzRead (bzlibc.c, decompress.c): the coroutine that takes the       *)
(* stream apart whatever the size of its buffers, and the loop that undoes *)
(* the run-length coding into an output that may fill up at any byte.      *)
(***************************************************************************)
EXTENDS BzCompress, SequencesExt

CONSTANT OtherFiles  \* files that are not streams, or whose blocks are damaged

VARIABLES
  file, cut,    \* what is read, and how much of it reached the reader
  smallDecompress,
  rpos, davail_in, davail_out,       \* position, and the reader's bz_stream
  dstate, tt, save_nblock,           \* BZ_X_..., the block, its length
  nblock_used, state_out_len, state_out_ch,
  storedCRC, calculatedCRC, calculatedCombined,
  reading,      \* inside BZ2_bzRead
  decoded, dret

drun == <<nblock_used, state_out_len, state_out_ch>>
dcrc == <<storedCRC, calculatedCRC, calculatedCombined>>
dvars == <<file, cut, smallDecompress, rpos, davail_in, davail_out, dstate, tt, save_nblock,
           drun, dcrc, reading, decoded, dret>>
vars == <<cvars, dvars>>

Init ==
  /\ CInit
  /\ file = <<>> /\ cut = 0 /\ smallDecompress \in BOOLEAN
  /\ rpos = 0 /\ davail_in = 0 /\ davail_out = 0
  /\ dstate = "unopened" /\ tt = <<>> /\ save_nblock = 0
  /\ nblock_used = 0 /\ state_out_len = 0 /\ state_out_ch = None
  /\ storedCRC = <<>> /\ calculatedCRC = <<>> /\ calculatedCombined = <<>>
  /\ reading = FALSE /\ decoded = <<>> /\ dret = "OK"

\* The file is read after it was written, in whole or cut off somewhere; or
\* another file is read.
BZ2_bzReadOpen ==
  /\ mode = "IDLE" /\ dstate = "unopened"
  /\ file' \in {wire} \cup OtherFiles
  /\ cut' \in (IF file' = wire THEN 0..Len(wire) ELSE {Len(file')})
  /\ dstate' = "MAGIC"
  /\ UNCHANGED <<cvars, smallDecompress, rpos, davail_in, davail_out, tt, save_nblock,
                 drun, dcrc, reading, decoded, dret>>

eof_slip == rpos + davail_in > cut
eof == rpos + davail_in = cut

BZ2_bzRead ==
  /\ dstate # "unopened" /\ dret = "OK" /\ ~reading
  /\ reading' = TRUE /\ davail_out' \in OutSizes
  /\ UNCHANGED <<cvars, file, cut, smallDecompress, rpos, davail_in, dstate, tt, save_nblock,
                 drun, dcrc, decoded, dret>>

\* fread in BZ2_bzRead: when the input buffer is empty and the file is not.
Refill ==
  /\ reading /\ davail_in = 0 /\ ~eof
  /\ davail_in' \in {Smaller(k, cut - rpos) : k \in InSizes}
  /\ UNCHANGED <<cvars, file, cut, smallDecompress, rpos, davail_out, dstate, tt, save_nblock,
                 drun, dcrc, reading, decoded, dret>>

Decoding == reading /\ (davail_in > 0 \/ eof)

\* The end of a call of BZ2_bzDecompress with BZ_OK, and what BZ2_bzRead does.
ReturnOK ==
  IF eof /\ davail_in = 0 /\ davail_out > 0
  THEN dret' = "UNEXPECTED_EOF" /\ reading' = FALSE
  ELSE dret' = "OK" /\ reading' = (davail_out > 0)

\* GET_BITS of BZ2_decompress: the next unit of the stream.
Take == rpos' = rpos + 1 /\ davail_in' = davail_in - 1
Unit == file[rpos + 1]

Starved ==
  /\ Decoding /\ dstate \in {"MAGIC", "BLKHDR", "MTF"} /\ davail_in = 0
  /\ ReturnOK
  /\ UNCHANGED <<cvars, file, cut, smallDecompress, rpos, davail_in, davail_out, dstate, tt,
                 save_nblock, drun, dcrc, decoded>>

Magic ==
  /\ Decoding /\ dstate = "MAGIC" /\ davail_in > 0
  /\ Take
  /\ IF Unit = <<"hdr">> THEN dstate' = "BLKHDR" /\ UNCHANGED <<dret, reading>>
     ELSE dret' = "DATA_ERROR_MAGIC" /\ reading' = FALSE /\ UNCHANGED dstate
  /\ UNCHANGED <<cvars, file, cut, smallDecompress, davail_out, tt, save_nblock, drun, dcrc, decoded>>

BlockHeader ==
  /\ Decoding /\ dstate = "BLKHDR" /\ davail_in > 0
  /\ Take
  /\ CASE Unit[1] = "blk1" ->
            dstate' = "MTF" /\ storedCRC' = Unit[2] /\ UNCHANGED <<dret, reading>>
       [] Unit[1] = "end" ->
            /\ dstate' = "IDLE" /\ reading' = FALSE /\ UNCHANGED storedCRC
            /\ dret' = IF Unit[2] = calculatedCombined THEN "STREAM_END" ELSE "DATA_ERROR"
       [] OTHER -> dret' = "DATA_ERROR" /\ reading' = FALSE /\ UNCHANGED <<dstate, storedCRC>>
  /\ UNCHANGED <<cvars, file, cut, smallDecompress, davail_out, tt, save_nblock, drun,
                 calculatedCRC, calculatedCombined, decoded>>

\* The block is complete; its first symbol is fetched.
BlockData ==
  /\ Decoding /\ dstate = "MTF" /\ davail_in > 0
  /\ Take
  /\ tt' = Unit[2] /\ save_nblock' = Len(Unit[2])
  /\ nblock_used' = 1 /\ state_out_len' = 0 /\ state_out_ch' = 0
  /\ calculatedCRC' = <<>> /\ dstate' = "OUTPUT"
  /\ UNCHANGED <<cvars, file, cut, smallDecompress, davail_out, storedCRC, calculatedCombined,
                 reading, decoded, dret>>

-----------------------------------------------------------------------------
(* unRLE_obuf_to_output_FAST and _SMALL.  k0 is the symbol at nblock_used.   *)

Sym(i) == IF i \in 1..save_nblock THEN tt[i] ELSE 0
s_save_nblockPP == save_nblock + 1

EmitByte ==
  /\ Decoding /\ dstate = "OUTPUT" /\ state_out_len > 0 /\ davail_out > 0
  /\ decoded' = Append(decoded, state_out_ch)
  /\ calculatedCRC' = Append(calculatedCRC, state_out_ch)
  /\ state_out_len' = state_out_len - 1 /\ davail_out' = davail_out - 1
  /\ UNCHANGED <<cvars, file, cut, smallDecompress, rpos, davail_in, dstate, tt, save_nblock,
                 nblock_used, state_out_ch, storedCRC, calculatedCombined, reading, dret>>

\* How many of the (at most four) next symbols are equal: a fourth one is
\* followed by the count of the rest.
EqualSymbols ==
  CHOOSE m \in 1..4 :
    /\ \A i \in 1..m - 1 : nblock_used + i <= save_nblock /\ Sym(nblock_used + i) = Sym(nblock_used)
    /\ m = 4 \/ nblock_used + m > save_nblock \/ Sym(nblock_used + m) # Sym(nblock_used)

RunLength_slip(m) == IF m = 4 THEN Sym(nblock_used + 4) + 3 ELSE m
RunLength(m) == IF m = 4 THEN Sym(nblock_used + 4) + 4 ELSE m

\* SMALL looks at the output space first, FAST starts the run without it.
StartRun ==
  /\ Decoding /\ dstate = "OUTPUT" /\ state_out_len = 0
  /\ smallDecompress => davail_out > 0
  /\ nblock_used < s_save_nblockPP
  /\ state_out_ch' = Sym(nblock_used)
  /\ state_out_len' = RunLength(EqualSymbols)
  /\ nblock_used' = nblock_used + (IF EqualSymbols = 4 THEN 5 ELSE EqualSymbols)
  /\ UNCHANGED <<cvars, file, cut, smallDecompress, rpos, davail_in, davail_out, dstate, tt,
                 save_nblock, dcrc, reading, decoded, dret>>

BlockDone == nblock_used = s_save_nblockPP /\ state_out_len = 0

\* BZ2_bzDecompress between two blocks.
FinishBlock ==
  /\ Decoding /\ dstate = "OUTPUT" /\ BlockDone
  /\ IF calculatedCRC = storedCRC
     THEN /\ calculatedCombined' = Append(calculatedCombined, calculatedCRC)
          /\ dstate' = "BLKHDR" /\ UNCHANGED <<dret, reading>>
     ELSE dret' = "DATA_ERROR" /\ reading' = FALSE /\ UNCHANGED <<dstate, calculatedCombined>>
  /\ UNCHANGED <<cvars, file, cut, smallDecompress, rpos, davail_in, davail_out, tt, save_nblock,
                 drun, storedCRC, calculatedCRC, decoded>>

OutputBlocked ==
  /\ Decoding /\ dstate = "OUTPUT" /\ ~BlockDone
  /\ davail_out = 0 /\ (state_out_len > 0 \/ smallDecompress)
  /\ ReturnOK
  /\ UNCHANGED <<cvars, file, cut, smallDecompress, rpos, davail_in, davail_out, dstate, tt,
                 save_nblock, drun, dcrc, decoded>>

\* Only caused by corrupt data.
RunPastBlock ==
  /\ Decoding /\ dstate = "OUTPUT" /\ state_out_len = 0
  /\ nblock_used > s_save_nblockPP
  /\ dret' = "DATA_ERROR" /\ reading' = FALSE
  /\ UNCHANGED <<cvars, file, cut, smallDecompress, rpos, davail_in, davail_out, dstate, tt,
                 save_nblock, drun, dcrc, decoded>>

Decode ==
  \/ Refill \/ Starved \/ Magic \/ BlockHeader \/ BlockData
  \/ EmitByte \/ StartRun \/ FinishBlock \/ OutputBlocked \/ RunPastBlock

Done == dret # "OK" /\ UNCHANGED vars

Next ==
  \/ CNext /\ UNCHANGED dvars
  \/ BZ2_bzReadOpen \/ BZ2_bzRead \/ Decode \/ Done

\* The writer closes the file some time, whoever calls goes on until the end.
Spec ==
  /\ Init /\ [][Next]_vars
  /\ WF_vars(Handle /\ UNCHANGED dvars) /\ WF_vars(Continue /\ UNCHANGED dvars)
  /\ SF_vars((Run \/ BeginFinish) /\ UNCHANGED dvars)
  /\ WF_vars(BZ2_bzReadOpen \/ BZ2_bzRead \/ Decode)

-----------------------------------------------------------------------------
\* What comes out is what went in, byte by byte; the stream ends where it was
\* ended, a stream cut off or damaged is never taken for a whole one, and the
\* checksums of an intact stream agree.
RoundTrip ==
  IF file \in OtherFiles THEN dret # "STREAM_END"
  ELSE /\ IsPrefix(decoded, data)
       /\ dret = "STREAM_END" => decoded = data
       /\ dret \notin {"DATA_ERROR", "DATA_ERROR_MAGIC"}
       /\ dret = "UNEXPECTED_EOF" => cut < Len(wire)

\* When a flush is over, all that the caller passed before has been compressed
\* and has left the compressor, but for the bits that wait for the next block.
FlushComplete ==
  [][mode = "FLUSHING" /\ mode' = "RUNNING" =>
       /\ FlattenSeq(combinedCRC') = SubSeq(data, 1, Len(data) - Len(todo))
       /\ Len(SelectSeq(wire' \o bsBuff', LAMBDA u : u[1] = "blk2")) = Len(combinedCRC')]_vars

\* Whatever the buffers, the stream is finished and read to its end.
ReaderEnds == <>(dret # "OK")
=============================================================================
