----------------------------- MODULE BzCompress -----------------------------
(***************************************************************************)
(* BZ2_bzCompress (bzlibc.c): the state machine that takes input and gives *)
(* output in buffers of any size, over the run-length coder that fills     *)
(* blocks and BZ2_compressBlock (compress.c).  A compressed block stands   *)
(* for its two ends on the wire: <<"blk1", b>> its header, <<"blk2", b>>   *)
(* the coded symbols; sorting and entropy coding are left out.  A checksum *)
(* is the sequence of bytes that it was computed from.                     *)
(***************************************************************************)
EXTENDS Integers, Sequences

CONSTANTS Bytes,      \* the bytes of the input; counts are bytes too
          nblockMAX,  \* 100000 * blockSize100k - 19
          MaxRun,     \* 255
          Inputs,     \* the inputs to compress
          InSizes, OutSizes,  \* buffer sizes the caller uses
          MaxFlush    \* bound: how often the caller flushes

ASSUME SizesAssumption ==
  /\ nblockMAX \in Nat \ {0} /\ MaxRun \in Nat /\ MaxRun >= 4
  /\ InSizes \subseteq Nat /\ OutSizes \subseteq Nat \ {0}
ASSUME BytesAssumption == Bytes \subseteq 0..255 /\ Inputs \subseteq Seq(Bytes)

VARIABLES
  todo,                        \* what the caller has not passed yet
  next_in, avail_out, wire,    \* the bz_stream: input, output space, output
  mode, state, block, blockNo,
  state_in_ch, state_in_len,   \* the pending run
  blockCRC, combinedCRC,
  zbits, state_out_pos, bsBuff,
  avail_in_expect,
  call, progress, ret,         \* the call being executed, its last result
  data, flushes                \* what the caller compresses; its flushes

rl == <<state_in_ch, state_in_len>>
crc == <<blockCRC, combinedCRC>>
bits == <<zbits, state_out_pos, bsBuff>>
caller == <<todo, data, flushes>>
cvars == <<caller, next_in, avail_out, wire, mode, state, block, blockNo, rl, crc, bits,
           avail_in_expect, call, progress, ret>>

None == 256
avail_in == Len(next_in)
numZ == Len(zbits)
nblock == Len(block)
Smaller(a, b) == IF a < b THEN a ELSE b

-----------------------------------------------------------------------------
CInit ==
  /\ data \in Inputs /\ todo = data /\ flushes = 0
  /\ next_in = <<>> /\ avail_out = 0 /\ wire = <<>>
  /\ mode = "RUNNING" /\ state = "INPUT"
  /\ block = <<>> /\ blockNo = 1
  /\ state_in_ch = None /\ state_in_len = 0
  /\ blockCRC = <<>> /\ combinedCRC = <<>>
  /\ zbits = <<>> /\ state_out_pos = 0 /\ bsBuff = <<>>
  /\ avail_in_expect = 0
  /\ call = "none" /\ progress = FALSE /\ ret = "OK"

isempty_RL_slip == TRUE
isempty_RL == ~(state_in_ch < None /\ state_in_len > 0)

Repeat(ch, k) == [i \in 1..k |-> ch]

\* add_pair_to_block: up to four copies of the byte, then how many more.
PairBytes(ch, len) ==
  Repeat(ch, Smaller(len, 4)) \o (IF len >= 4 THEN <<len - 4>> ELSE <<>>)

PairAdded == IF state_in_ch < None THEN PairBytes(state_in_ch, state_in_len) ELSE <<>>
PairCRC == IF state_in_ch < None THEN Repeat(state_in_ch, state_in_len) ELSE <<>>

-----------------------------------------------------------------------------
(* The caller: fresh output space in every call; more input in a RUN, or   *)
(* with the first FLUSH or FINISH.                                         *)

BZ2_bzCompress(action, nin, nout) ==
  /\ call = "none"
  /\ nin = 0 \/ next_in = <<>>
  /\ next_in' = next_in \o SubSeq(todo, 1, nin)
  /\ todo' = SubSeq(todo, nin + 1, Len(todo))
  /\ avail_out' = nout
  /\ call' = action /\ progress' = FALSE
  /\ UNCHANGED <<data, wire, state, block, blockNo, rl, crc, bits, ret>>

Run ==
  /\ mode = "RUNNING"
  /\ \E nin \in {Smaller(k, Len(todo)) : k \in InSizes \cup {0}}, nout \in OutSizes :
       avail_in + nin > 0 /\ BZ2_bzCompress("RUN", nin, nout)
  /\ UNCHANGED <<mode, avail_in_expect, flushes>>

\* The first call of a flush, or of the end, says how much input belongs to it.
Begin(action, newmode) ==
  /\ mode = "RUNNING"
  /\ \E nin \in {Smaller(k, Len(todo)) : k \in InSizes \cup {0}}, nout \in OutSizes :
       /\ BZ2_bzCompress(action, nin, nout)
       /\ avail_in_expect' = avail_in + nin
  /\ mode' = newmode

BeginFlush == flushes < MaxFlush /\ Begin("FLUSH", "FLUSHING") /\ flushes' = flushes + 1
BeginFinish == Begin("FINISH", "FINISHING") /\ todo' = <<>> /\ UNCHANGED flushes

Continue ==
  /\ \/ mode = "FLUSHING" /\ \E nout \in OutSizes : BZ2_bzCompress("FLUSH", 0, nout)
     \/ mode = "FINISHING" /\ \E nout \in OutSizes : BZ2_bzCompress("FINISH", 0, nout)
  /\ UNCHANGED <<mode, avail_in_expect, flushes>>

-----------------------------------------------------------------------------
(* handle_compress                                                         *)

\* copy_output_until_stop
CopyOutput ==
  /\ call # "none" /\ state = "OUTPUT"
  /\ avail_out > 0 /\ state_out_pos < numZ
  /\ wire' = Append(wire, zbits[state_out_pos + 1])
  /\ state_out_pos' = state_out_pos + 1 /\ avail_out' = avail_out - 1
  /\ progress' = TRUE
  /\ UNCHANGED <<caller, next_in, mode, state, block, blockNo, rl, crc, zbits, bsBuff,
                 avail_in_expect, call, ret>>

\* The result of the call, from the state that it leaves.  A flush or an end
\* must find as much input as was announced, which is tested before
\* handle_compress takes from both.
Result ==
  CASE mode = "RUNNING" -> IF progress THEN "RUN_OK" ELSE "PARAM_ERROR"
    [] mode # "RUNNING" /\ avail_in_expect # avail_in -> "SEQUENCE_ERROR"
    [] mode = "FINISHING" /\ ~progress -> "SEQUENCE_ERROR"
    [] avail_in_expect > 0 \/ ~isempty_RL \/ state_out_pos < numZ ->
         IF mode = "FLUSHING" THEN "FLUSH_OK" ELSE "FINISH_OK"
    [] OTHER -> IF mode = "FLUSHING" THEN "RUN_OK" ELSE "STREAM_END"

NextMode ==
  CASE mode = "FLUSHING" /\ Result = "RUN_OK" -> "RUNNING"
    [] mode = "FINISHING" /\ Result = "STREAM_END" -> "IDLE"
    [] OTHER -> mode

Return ==
  /\ call' = "none" /\ ret' = Result /\ mode' = NextMode
  /\ UNCHANGED <<caller, next_in, avail_out, wire, rl, crc, bsBuff, avail_in_expect, progress>>

OutputFull ==
  /\ call # "none" /\ state = "OUTPUT"
  /\ state_out_pos < numZ /\ avail_out = 0
  /\ Return
  /\ UNCHANGED <<state, block, blockNo, zbits, state_out_pos>>

AllIn_slip == avail_in_expect = 0
AllIn == avail_in_expect = 0 /\ isempty_RL

EndOfStream ==
  /\ call # "none" /\ state = "OUTPUT" /\ state_out_pos >= numZ
  /\ mode = "FINISHING" /\ AllIn
  /\ Return
  /\ UNCHANGED <<state, block, blockNo, zbits, state_out_pos>>

\* prepare_new_block; a flush ends when nothing is left behind the block.
\* The test that ends it reads numZ and state_out_pos as they are then: 0.
BlockOut ==
  /\ call # "none" /\ state = "OUTPUT" /\ state_out_pos >= numZ
  /\ ~(mode = "FINISHING" /\ AllIn)
  /\ block' = <<>> /\ blockNo' = blockNo + 1 /\ zbits' = <<>> /\ state_out_pos' = 0
  /\ blockCRC' = <<>>
  /\ state' = "INPUT"
  /\ IF mode = "FLUSHING" /\ AllIn
     THEN call' = "none" /\ ret' = Result /\ mode' = NextMode
     ELSE UNCHANGED <<call, ret, mode>>
  /\ UNCHANGED <<caller, next_in, avail_out, wire, rl, combinedCRC, bsBuff,
                 avail_in_expect, progress>>

MoreInput_slip ==
  /\ nblock <= 2 * nblockMAX /\ avail_in > 0
  /\ mode # "RUNNING" => avail_in_expect > 0
MoreInput ==
  /\ nblock < nblockMAX /\ avail_in > 0
  /\ mode # "RUNNING" => avail_in_expect > 0

RunFull_slip(ch) == ch # state_in_ch
RunFull(ch) == ch # state_in_ch \/ state_in_len = MaxRun

\* copy_input_until_stop with ADD_CHAR_TO_BLOCK
CopyInput ==
  /\ call # "none" /\ state = "INPUT" /\ MoreInput
  /\ LET ch == Head(next_in) IN
     IF RunFull(ch)
     THEN /\ block' = block \o PairAdded
          /\ blockCRC' = blockCRC \o PairCRC
          /\ state_in_ch' = ch /\ state_in_len' = 1
     ELSE state_in_len' = state_in_len + 1 /\ UNCHANGED <<block, blockCRC, state_in_ch>>
  /\ next_in' = Tail(next_in)
  /\ avail_in_expect' = IF mode = "RUNNING" THEN avail_in_expect ELSE avail_in_expect - 1
  /\ progress' = TRUE
  /\ UNCHANGED <<caller, avail_out, wire, mode, state, blockNo, combinedCRC, bits, call, ret>>

\* BZ2_compressBlock: what it appends to the bits, of which the last ones wait
\* in bsBuff for the next block or the trailer.
BlockUnits(b, c) ==
  (IF blockNo = 1 THEN << <<"hdr">> >> ELSE <<>>)
  \o (IF b # <<>> THEN << <<"blk1", c>>, <<"blk2", b>> >> ELSE <<>>)

compressBlock(b, c, is_last_block) ==
  LET comb == IF b # <<>> THEN Append(combinedCRC, c) ELSE combinedCRC
      all == bsBuff \o BlockUnits(b, c)
  IN /\ combinedCRC' = comb
     /\ IF is_last_block
        THEN zbits' = Append(all, <<"end", comb>>) /\ bsBuff' = <<>>
        ELSE IF all = <<>> THEN UNCHANGED <<zbits, bsBuff>>
        ELSE zbits' = SubSeq(all, 1, Len(all) - 1) /\ bsBuff' = <<all[Len(all)]>>

\* All the input of a flush or of the end is in: the pending run goes into
\* the block, which is compressed.
LastBlock ==
  /\ call # "none" /\ state = "INPUT" /\ ~MoreInput
  /\ mode # "RUNNING" /\ avail_in_expect = 0
  /\ block' = block \o PairAdded
  /\ blockCRC' = blockCRC \o PairCRC
  /\ state_in_ch' = None /\ state_in_len' = 0
  /\ compressBlock(block', blockCRC', mode = "FINISHING")
  /\ state' = "OUTPUT"
  /\ UNCHANGED <<caller, next_in, avail_out, wire, mode, blockNo, state_out_pos,
                 avail_in_expect, call, progress, ret>>

\* The block is full: the pending run stays for the next one.
FullBlock ==
  /\ call # "none" /\ state = "INPUT" /\ ~MoreInput
  /\ mode = "RUNNING" \/ avail_in_expect > 0
  /\ nblock >= nblockMAX
  /\ compressBlock(block, blockCRC, FALSE)
  /\ state' = "OUTPUT"
  /\ UNCHANGED <<caller, next_in, avail_out, wire, mode, block, blockNo, rl, blockCRC,
                 state_out_pos, avail_in_expect, call, progress, ret>>

InputUsed ==
  /\ call # "none" /\ state = "INPUT" /\ ~MoreInput
  /\ mode = "RUNNING" \/ avail_in_expect > 0
  /\ nblock < nblockMAX
  /\ Return
  /\ UNCHANGED <<state, block, blockNo, zbits, state_out_pos>>

Handle ==
  \/ CopyOutput \/ OutputFull \/ EndOfStream \/ BlockOut
  \/ CopyInput \/ LastBlock \/ FullBlock \/ InputUsed

CNext == Run \/ BeginFlush \/ BeginFinish \/ Continue \/ Handle

CSpec == CInit /\ [][CNext]_cvars

\* The block never grows past nblockMAX + 5, well inside the margin of 19 below
\* 100000 * blockSize100k: copying stops as soon as the block is full, and the
\* run that is pending then has one byte only (add_pair_to_block, flush_RL).
BlockFits == nblock <= nblockMAX + 5

\* No call that has something to do and room to do it is refused: BZ2_bzWrite
\* and BZ2_bzWriteClose64 give up at any other result.
CallsSucceed ==
  ret \in {"OK", "RUN_OK", "FLUSH_OK", "FINISH_OK", "STREAM_END"}
=============================================================================
