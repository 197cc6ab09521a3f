-------------------------- MODULE Programs_proofs --------------------------
(***************************************************************************)
(* Proofs about the compressor and the program of bzip2 and the harness    *)
(* that runs the programs of the suite.                                    *)
(***************************************************************************)
EXTENDS BzCompress, Bzip2FilesProps, Harness, SequenceTheorems, WellFoundedInduction, TLAPS

CONSTANT Payload   \* what the tokens of the files hold

-----------------------------------------------------------------------------
(***************************************************************************)
(* For every block size, buffer size and input: a block never outgrows its *)
(* margin, and no call of the compressor that has something to do and room *)
(* to do it is refused.                                                    *)
(***************************************************************************)

-----------------------------------------------------------------------------
(* The inductive invariant                                                   *)

UnitsOnWire == {<<"hdr">>} \cup ({"blk1", "blk2"} \X Seq(Nat)) \cup ({"end"} \X Seq(Seq(Nat)))

Chars == 0..255

Types ==
  /\ todo \in Seq(Chars) /\ next_in \in Seq(Chars) /\ avail_out \in Nat
  /\ block \in Seq(Nat) /\ state_in_ch \in Nat /\ state_in_len \in Nat
  /\ blockCRC \in Seq(Nat) /\ combinedCRC \in Seq(Seq(Nat))
  /\ bsBuff \in Seq(UnitsOnWire) /\ zbits \in Seq(UnitsOnWire) /\ state_out_pos \in Nat
  /\ avail_in_expect \in Nat /\ progress \in BOOLEAN
  /\ state \in {"INPUT", "OUTPUT"}
  /\ mode \in {"RUNNING", "FLUSHING", "FINISHING", "IDLE"}

\* A full block has a pending run of one byte.
BlockInv ==
  /\ nblock <= nblockMAX + 5
  /\ state = "INPUT" => nblock <= nblockMAX + 4
  /\ state = "INPUT" /\ nblock >= nblockMAX => state_in_len <= 1

\* Something is pending whenever a call has to make progress.
CallInv ==
  /\ state = "INPUT" => state_out_pos = 0
  /\ state = "INPUT" /\ block # <<>> => ~isempty_RL
  /\ mode = "RUNNING" /\ state = "OUTPUT" => ~isempty_RL
  /\ mode \in {"FLUSHING", "FINISHING"} => avail_in_expect = avail_in
  /\ call # "none" => mode # "IDLE"
  /\ call # "none" /\ ~progress => avail_out > 0
  /\ call # "none" /\ ~progress /\ mode = "RUNNING" => avail_in > 0
  /\ mode = "FINISHING" /\ (call = "none" \/ ~progress) /\ state = "OUTPUT" =>
       state_out_pos < numZ \/ ~AllIn

IInv == Types /\ BlockInv /\ CallInv /\ CallsSucceed

-----------------------------------------------------------------------------
\* The pending run is worth five symbols, and one when it is one byte.
LEMMA PairBytesFacts ==
  ASSUME NEW ch \in Nat, NEW len \in Nat
  PROVE  /\ PairBytes(ch, len) \in Seq(Nat)
         /\ Len(PairBytes(ch, len)) <= 5
         /\ len <= 1 => Len(PairBytes(ch, len)) <= 1
<1> DEFINE k == Smaller(len, 4)
           more == IF len >= 4 THEN <<len - 4>> ELSE <<>>
<1>1. k \in 0..4 /\ (len <= 1 => k <= 1)
  BY DEF Smaller
<1>2. Repeat(ch, k) \in Seq(Nat) /\ Len(Repeat(ch, k)) = k
  BY <1>1 DEF Repeat
<1>3. more \in Seq(Nat) /\ Len(more) <= 1 /\ (len <= 1 => Len(more) = 0)
  <2>1. CASE len >= 4
    <3>1. len - 4 \in Nat
      BY <2>1
    <3> QED BY <2>1, <3>1
  <2>2. CASE ~(len >= 4)
    BY <2>2
  <2> QED BY <2>1, <2>2
<1>4. PairBytes(ch, len) = Repeat(ch, k) \o more
  BY DEF PairBytes
<1> HIDE DEF k, more
<1> QED BY <1>1, <1>2, <1>3, <1>4

\* flush_RL and add_pair_to_block on the pending run.
LEMMA PairAddedFacts ==
  ASSUME Types
  PROVE  /\ PairAdded \in Seq(Nat) /\ Len(PairAdded) <= 5
         /\ state_in_len <= 1 => Len(PairAdded) <= 1
         /\ PairCRC \in Seq(Nat)
<1>1. state_in_ch \in Nat /\ state_in_len \in Nat
  BY DEF Types
<1>2. Repeat(state_in_ch, state_in_len) \in Seq(Nat)
  BY <1>1 DEF Repeat
<1> QED BY <1>1, <1>2, PairBytesFacts DEF PairAdded, PairCRC

\* What BZ2_compressBlock appends is made of units.
LEMMA BlockUnitsFacts ==
  ASSUME NEW b \in Seq(Nat), NEW c \in Seq(Nat)
  PROVE  BlockUnits(b, c) \in Seq(UnitsOnWire)
<1>1. <<"hdr">> \in UnitsOnWire /\ <<"blk1", c>> \in UnitsOnWire /\ <<"blk2", b>> \in UnitsOnWire
  BY DEF UnitsOnWire
<1>2. << <<"hdr">> >> \in Seq(UnitsOnWire) /\ << <<"blk1", c>>, <<"blk2", b>> >> \in Seq(UnitsOnWire)
  BY <1>1
<1>3. <<>> \in Seq(UnitsOnWire)
  OBVIOUS
<1> DEFINE x == IF blockNo = 1 THEN << <<"hdr">> >> ELSE <<>>
           y == IF b # <<>> THEN << <<"blk1", c>>, <<"blk2", b>> >> ELSE <<>>
<1>4. x \in Seq(UnitsOnWire) /\ y \in Seq(UnitsOnWire)
  BY <1>2, <1>3
<1>5. BlockUnits(b, c) = x \o y
  BY DEF BlockUnits
<1> HIDE DEF x, y
<1> QED BY <1>4, <1>5

\* A block keeps the types; the last one leaves output.
LEMMA CompressBlockFacts ==
  ASSUME NEW b \in Seq(Nat), NEW c \in Seq(Nat), NEW is_last_block \in BOOLEAN,
         Types, compressBlock(b, c, is_last_block)
  PROVE  /\ combinedCRC' \in Seq(Seq(Nat)) /\ bsBuff' \in Seq(UnitsOnWire)
         /\ zbits' \in Seq(UnitsOnWire)
         /\ is_last_block => Len(zbits') > 0
<1> DEFINE comb == IF b # <<>> THEN Append(combinedCRC, c) ELSE combinedCRC
           all == bsBuff \o BlockUnits(b, c)
<1>1. comb \in Seq(Seq(Nat)) /\ all \in Seq(UnitsOnWire)
  BY BlockUnitsFacts DEF Types
<1>2. /\ combinedCRC' = comb
      /\ IF is_last_block
         THEN zbits' = Append(all, <<"end", comb>>) /\ bsBuff' = <<>>
         ELSE IF all = <<>> THEN UNCHANGED <<zbits, bsBuff>>
         ELSE zbits' = SubSeq(all, 1, Len(all) - 1) /\ bsBuff' = <<all[Len(all)]>>
  BY DEF compressBlock
<1>3. <<"end", comb>> \in UnitsOnWire
  BY <1>1 DEF UnitsOnWire
<1> HIDE DEF comb, all
<1>4. CASE is_last_block
  <2>1. zbits' = Append(all, <<"end", comb>>) /\ bsBuff' = <<>>
    BY <1>2, <1>4
  <2>2. zbits' \in Seq(UnitsOnWire) /\ Len(zbits') > 0
    BY <1>1, <1>3, <2>1
  <2>3. bsBuff' \in Seq(UnitsOnWire)
    BY <2>1
  <2> QED BY <1>1, <1>2, <2>2, <2>3
<1>5. CASE ~is_last_block /\ all = <<>>
  BY <1>1, <1>2, <1>5 DEF Types
<1>6. CASE ~is_last_block /\ all # <<>>
  <2>1. Len(all) \in Nat /\ \A i \in 1..Len(all) : all[i] \in UnitsOnWire
    BY <1>1
  <2>2. Len(all) > 0
    BY <1>1, <1>6
  <2>3. all[Len(all)] \in UnitsOnWire
    BY <2>1, <2>2
  <2>4. <<all[Len(all)]>> \in Seq(UnitsOnWire)
    BY <2>3
  <2>5. Len(all) - 1 \in Int /\ \A i \in 1..Len(all) - 1 : all[i] \in UnitsOnWire
    BY <2>1
  <2>6. SubSeq(all, 1, Len(all) - 1) \in Seq(UnitsOnWire)
    BY <2>5, SubSeqProperties
  <2>7. bsBuff' = <<all[Len(all)]>> /\ zbits' = SubSeq(all, 1, Len(all) - 1)
    BY <1>2, <1>6
  <2> QED BY <1>1, <1>2, <1>6, <2>4, <2>6, <2>7
<1> QED BY <1>4, <1>5, <1>6

-----------------------------------------------------------------------------
LEMMA InitIInv == CInit => IInv
<1> SUFFICES ASSUME CInit PROVE IInv
  OBVIOUS
<1>1. todo \in Seq(Chars)
  <2>1. data \in Seq(Bytes) /\ Bytes \subseteq Chars
    BY BytesAssumption DEF CInit, Chars
  <2>2. \A i \in 1..Len(data) : data[i] \in Chars
    BY <2>1
  <2>3. data \in Seq(Chars)
    BY <2>1, <2>2
  <2> QED BY <2>3 DEF CInit
<1>2. Types
  <2>1. \A S : <<>> \in Seq(S)
    OBVIOUS
  <2>2. /\ next_in \in Seq(Chars) /\ block \in Seq(Nat) /\ blockCRC \in Seq(Nat)
        /\ combinedCRC \in Seq(Seq(Nat)) /\ bsBuff \in Seq(UnitsOnWire)
        /\ zbits \in Seq(UnitsOnWire)
    BY <2>1 DEF CInit
  <2>3. /\ avail_out \in Nat /\ state_in_ch \in Nat /\ state_in_len \in Nat
        /\ avail_in_expect \in Nat /\ state_out_pos \in Nat
    BY DEF None, CInit
  <2>4. /\ state \in {"INPUT", "OUTPUT"} /\ progress \in BOOLEAN
        /\ mode \in {"RUNNING", "FLUSHING", "FINISHING", "IDLE"}
    BY DEF CInit
  <2> QED BY <1>1, <2>2, <2>3, <2>4 DEF Types
<1>3. BlockInv
  BY SizesAssumption DEF BlockInv, nblock, CInit
<1>4. CallInv
  BY DEF CallInv, CInit
<1> QED BY <1>2, <1>3, <1>4 DEF IInv, CallsSucceed, CInit

\* The caller's part of a call: input of its own, some output space.
LEMMA NewCall ==
  ASSUME Types, NEW nin \in Nat, NEW nout \in OutSizes, nin <= Len(todo),
         NEW action \in {"RUN", "FLUSH", "FINISH"}, BZ2_bzCompress(action, nin, nout)
  PROVE  /\ todo' \in Seq(Chars) /\ next_in' \in Seq(Chars)
         /\ avail_in' = avail_in + nin
         /\ avail_out' \in Nat /\ avail_out' > 0
         /\ call = "none" /\ call' # "none" /\ progress' = FALSE
<1> USE DEF Types, BZ2_bzCompress
<1>1. SubSeq(todo, 1, nin) \in Seq(Chars) /\ Len(SubSeq(todo, 1, nin)) = nin
  <2>1. \A i \in 1..nin : todo[i] \in Chars
    OBVIOUS
  <2> HIDE DEF BZ2_bzCompress
  <2> QED BY <2>1, SubSeqProperties
<1>2. SubSeq(todo, nin + 1, Len(todo)) \in Seq(Chars)
  <2>1. \A i \in nin + 1..Len(todo) : todo[i] \in Chars
    OBVIOUS
  <2> HIDE DEF BZ2_bzCompress
  <2> QED BY <2>1, SubSeqProperties
<1>3. next_in' \in Seq(Chars) /\ Len(next_in') = Len(next_in) + nin
  BY <1>1
<1> QED BY <1>2, <1>3, SizesAssumption DEF avail_in

\* The sizes that the caller chooses.
LEMMA Portions ==
  ASSUME Types, NEW nin \in {Smaller(k, Len(todo)) : k \in InSizes \cup {0}}
  PROVE  nin \in Nat /\ nin <= Len(todo)
BY SizesAssumption DEF Types, Smaller

\* A new call leaves the compressor as it is.
LEMMA CallerStep ==
  ASSUME IInv, Run \/ BeginFlush \/ BeginFinish \/ Continue
  PROVE  IInv'
<1> USE DEF IInv
<1>1. ASSUME Run PROVE IInv'
  <2>1. PICK nin \in {Smaller(k, Len(todo)) : k \in InSizes \cup {0}}, nout \in OutSizes :
          avail_in + nin > 0 /\ BZ2_bzCompress("RUN", nin, nout)
    BY <1>1 DEF Run
  <2>2. nin \in Nat /\ nin <= Len(todo)
    BY Portions
  <2>3. /\ todo' \in Seq(Chars) /\ next_in' \in Seq(Chars) /\ avail_in' = avail_in + nin
        /\ avail_out' \in Nat /\ avail_out' > 0 /\ progress' = FALSE
    BY <2>1, <2>2, NewCall
  <2>4. UNCHANGED <<state, block, blockNo, rl, crc, bits, ret, mode, avail_in_expect>>
    BY <1>1, <2>1 DEF Run, BZ2_bzCompress
  <2>5. mode = "RUNNING"
    BY <1>1 DEF Run
  <2>6. Types'
    BY <2>3, <2>4 DEF Types, rl, crc, bits
  <2>7. BlockInv'
    BY <2>4 DEF BlockInv, nblock, rl
  <2>8. CallInv'
    BY <2>1, <2>3, <2>4, <2>5 DEF CallInv, isempty_RL, rl, bits
  <2> QED BY <2>4, <2>6, <2>7, <2>8 DEF CallsSucceed
<1>2. ASSUME NEW action \in {"FLUSH", "FINISH"}, NEW newmode \in {"FLUSHING", "FINISHING"},
             Begin(action, newmode)
      PROVE  IInv'
  <2>1. PICK nin \in {Smaller(k, Len(todo)) : k \in InSizes \cup {0}}, nout \in OutSizes :
          BZ2_bzCompress(action, nin, nout) /\ avail_in_expect' = avail_in + nin
    BY <1>2 DEF Begin
  <2>2. nin \in Nat /\ nin <= Len(todo)
    BY Portions
  <2>3. /\ todo' \in Seq(Chars) /\ next_in' \in Seq(Chars) /\ avail_in' = avail_in + nin
        /\ avail_out' \in Nat /\ avail_out' > 0 /\ progress' = FALSE
    BY <2>1, <2>2, NewCall
  <2>4. UNCHANGED <<state, block, blockNo, rl, crc, bits, ret>>
    BY <2>1 DEF BZ2_bzCompress
  <2>5. mode = "RUNNING" /\ mode' = newmode
    BY <1>2 DEF Begin
  <2>6. avail_in_expect' \in Nat
    BY <2>1, <2>2 DEF Types, avail_in
  <2>7. Types'
    BY <2>3, <2>4, <2>5, <2>6 DEF Types, rl, crc, bits
  <2>8. BlockInv'
    BY <2>4 DEF BlockInv, nblock, rl
  <2>9. isempty_RL' = isempty_RL
    BY <2>4 DEF isempty_RL, rl
  <2>10. CallInv'
    BY <2>1, <2>3, <2>4, <2>5, <2>9 DEF CallInv, AllIn, bits, numZ
  <2> QED BY <2>4, <2>7, <2>8, <2>10 DEF CallsSucceed
<1>3. ASSUME Continue PROVE IInv'
  <2>1. PICK action \in {"FLUSH", "FINISH"}, nout \in OutSizes : BZ2_bzCompress(action, 0, nout)
    BY <1>3 DEF Continue
  <2>2. /\ todo' \in Seq(Chars) /\ next_in' \in Seq(Chars) /\ avail_in' = avail_in + 0
        /\ avail_out' \in Nat /\ avail_out' > 0 /\ call = "none" /\ progress' = FALSE
    <3>1. 0 \in Nat /\ 0 <= Len(todo)
      BY DEF Types
    <3> QED BY <2>1, <3>1, NewCall
  <2>3. UNCHANGED <<state, block, blockNo, rl, crc, bits, ret, mode, avail_in_expect>>
    BY <1>3, <2>1 DEF Continue, BZ2_bzCompress
  <2>4. mode \in {"FLUSHING", "FINISHING"}
    BY <1>3 DEF Continue
  <2>5. Types'
    BY <2>2, <2>3 DEF Types, rl, crc, bits
  <2>6. BlockInv'
    BY <2>3 DEF BlockInv, nblock, rl
  <2>7. isempty_RL' = isempty_RL
    BY <2>3 DEF isempty_RL, rl
  <2>8. avail_in' = avail_in
    BY <2>2 DEF avail_in, Types
  <2>9. CallInv'
    BY <2>2, <2>3, <2>4, <2>7, <2>8 DEF CallInv, AllIn, bits, numZ
  <2> QED BY <2>3, <2>5, <2>6, <2>9 DEF CallsSucceed
<1> QED BY <1>1, <1>2, <1>3 DEF BeginFlush, BeginFinish

-----------------------------------------------------------------------------
(* The steps inside a call                                                   *)

\* A call that made progress, or flushes, ends without an error.
LEMMA ReturnStep ==
  ASSUME IInv, call # "none", Return,
         progress \/ mode = "FLUSHING",
         state = "INPUT" \/ state_out_pos < numZ \/ mode = "FINISHING",
         UNCHANGED <<state, block, blockNo, zbits, state_out_pos>>
  PROVE  IInv'
<1>1. UNCHANGED <<todo, next_in, avail_out, state_in_ch, state_in_len, blockCRC, combinedCRC,
                  bsBuff, avail_in_expect, progress, state, block, zbits, state_out_pos>>
  BY DEF Return, caller, rl, crc
<1>2. ret' = Result /\ mode' = NextMode /\ call' = "none"
  BY DEF Return
<1>3. mode \in {"RUNNING", "FLUSHING", "FINISHING"}
  BY DEF IInv, Types, CallInv
<1>a. mode # "RUNNING" => avail_in_expect = avail_in
  BY <1>3 DEF IInv, CallInv
<1>4. CallsSucceed'
  BY <1>2, <1>3, <1>a DEF Result, CallsSucceed
<1>5. mode' \in {mode, "RUNNING", "IDLE"}
  BY <1>2 DEF NextMode
<1>6. Types'
  BY <1>1, <1>5 DEF IInv, Types
<1>7. BlockInv'
  BY <1>1 DEF IInv, BlockInv, nblock
<1>8. isempty_RL' = isempty_RL /\ AllIn' = AllIn
  BY <1>1 DEF isempty_RL, AllIn
<1>9. mode' = "RUNNING" /\ state' = "OUTPUT" => ~isempty_RL'
  <2>1. CASE mode = "RUNNING"
    BY <1>1, <1>8, <2>1 DEF IInv, CallInv
  <2>2. CASE mode # "RUNNING" /\ mode' = "RUNNING"
    BY <1>1, <1>2, <2>2 DEF NextMode, Result
  <2> QED BY <2>1, <2>2
<1>10. mode' = "FINISHING" => state_out_pos < numZ \/ ~AllIn
  BY <1>2, <1>3, <1>a DEF NextMode, Result, AllIn, IInv, Types
<1>11. mode' \in {"FLUSHING", "FINISHING"} => mode' = mode
  BY <1>5
<1>12. CallInv'
  BY <1>1, <1>2, <1>8, <1>9, <1>10, <1>11 DEF IInv, CallInv, numZ, avail_in
<1> QED BY <1>4, <1>6, <1>7, <1>12 DEF IInv

LEMMA OutputFullStep == ASSUME IInv, OutputFull PROVE IInv'
<1>1. progress
  BY DEF IInv, CallInv, Types, OutputFull
<1> QED BY <1>1, ReturnStep DEF OutputFull

LEMMA EndOfStreamStep == ASSUME IInv, EndOfStream PROVE IInv'
<1>1. ~(state_out_pos < numZ)
  BY DEF IInv, Types, EndOfStream, numZ
<1>2. progress
  BY <1>1 DEF IInv, CallInv, EndOfStream
<1> QED BY <1>2, ReturnStep DEF EndOfStream

LEMMA InputUsedStep == ASSUME IInv, InputUsed PROVE IInv'
<1>1. avail_in \in Nat /\ (MoreInput <=> avail_in > 0)
  BY DEF IInv, Types, avail_in, InputUsed, MoreInput
<1>2. avail_in = 0
  BY <1>1 DEF InputUsed
<1>3. mode = "RUNNING"
  BY <1>2 DEF IInv, Types, CallInv, InputUsed
<1>4. progress
  BY <1>2, <1>3 DEF IInv, CallInv, InputUsed
<1> QED BY <1>4, ReturnStep DEF InputUsed

LEMMA CopyOutputStep == ASSUME IInv, CopyOutput PROVE IInv'
<1>1. UNCHANGED <<todo, next_in, mode, state, block, state_in_ch, state_in_len, blockCRC,
                  combinedCRC, zbits, bsBuff, avail_in_expect, call, ret>>
  BY DEF CopyOutput, caller, rl, crc
<1>2. state_out_pos' \in Nat /\ avail_out' \in Nat /\ progress' = TRUE /\ state = "OUTPUT"
      /\ call # "none"
  BY DEF CopyOutput, IInv, Types
<1>3. Types'
  BY <1>1, <1>2 DEF IInv, Types
<1>4. BlockInv'
  BY <1>1 DEF IInv, BlockInv, nblock
<1>5. isempty_RL' = isempty_RL
  BY <1>1 DEF isempty_RL
<1>6. CallInv'
  BY <1>1, <1>2, <1>5 DEF IInv, CallInv, avail_in
<1> QED BY <1>1, <1>3, <1>4, <1>6 DEF IInv, CallsSucceed

LEMMA BlockOutStep == ASSUME IInv, BlockOut PROVE IInv'
<1>1. UNCHANGED <<todo, next_in, avail_out, state_in_ch, state_in_len, combinedCRC, bsBuff,
                  avail_in_expect, progress>>
  BY DEF BlockOut, caller, rl
<1>2. /\ block' = <<>> /\ zbits' = <<>> /\ state_out_pos' = 0 /\ blockCRC' = <<>>
      /\ state' = "INPUT" /\ call # "none"
  BY DEF BlockOut
<1>3. isempty_RL' = isempty_RL
  BY <1>1 DEF isempty_RL
<1>4. \/ mode = "FLUSHING" /\ mode' = "RUNNING" /\ call' = "none" /\ ret' = "RUN_OK"
      \/ UNCHANGED <<call, ret, mode>>
  <2>1. CASE mode = "FLUSHING" /\ AllIn
    <3>1. ~(state_out_pos < numZ) /\ ~(avail_in_expect > 0) /\ isempty_RL
      BY <2>1 DEF BlockOut, IInv, Types, numZ, AllIn
    <3>a. avail_in_expect = avail_in
      BY <2>1 DEF IInv, CallInv
    <3>2. Result = "RUN_OK"
      BY <2>1, <3>1, <3>a DEF Result
    <3> QED BY <2>1, <3>2 DEF BlockOut, NextMode
  <2>2. CASE ~(mode = "FLUSHING" /\ AllIn)
    BY <2>2 DEF BlockOut
  <2> QED BY <2>1, <2>2
<1>5. Types'
  <2>1. \A S : <<>> \in Seq(S)
    OBVIOUS
  <2>2. block' \in Seq(Nat) /\ zbits' \in Seq(UnitsOnWire) /\ blockCRC' \in Seq(Nat)
    BY <1>2, <2>1
  <2> QED BY <1>1, <1>2, <1>4, <2>2 DEF IInv, Types
<1>6. BlockInv'
  BY <1>2, SizesAssumption DEF BlockInv, nblock
<1>7. CallInv'
  BY <1>1, <1>2, <1>3, <1>4 DEF IInv, CallInv, avail_in
<1>8. CallsSucceed'
  BY <1>4 DEF IInv, CallsSucceed
<1> QED BY <1>5, <1>6, <1>7, <1>8 DEF IInv

LEMMA CopyInputStep == ASSUME IInv, CopyInput PROVE IInv'
<1>1. /\ UNCHANGED <<todo, avail_out, mode, state, combinedCRC, zbits, state_out_pos, bsBuff,
                     call, ret>>
      /\ state = "INPUT" /\ call # "none" /\ progress' = TRUE
  BY DEF CopyInput, caller, bits
<1>2. nblock < nblockMAX /\ next_in # <<>> /\ (mode # "RUNNING" => avail_in_expect > 0)
  BY DEF CopyInput, MoreInput, avail_in, IInv, Types
<1>3. Head(next_in) \in Chars /\ Tail(next_in) \in Seq(Chars) /\ Len(Tail(next_in)) = Len(next_in) - 1
  BY <1>2, HeadTailProperties DEF IInv, Types
<1>4. next_in' \in Seq(Chars) /\ avail_in' = avail_in - 1
  BY <1>3 DEF CopyInput, avail_in
<1>5. avail_in_expect' \in Nat /\ (mode # "RUNNING" => avail_in_expect' = avail_in_expect - 1)
      /\ (mode = "RUNNING" => avail_in_expect' = avail_in_expect)
  BY <1>2 DEF CopyInput, IInv, Types
<1>6. /\ block' \in Seq(Nat) /\ blockCRC' \in Seq(Nat)
      /\ state_in_ch' \in Nat /\ state_in_len' \in Nat
      /\ nblock' <= nblockMAX + 4
      /\ nblock' >= nblockMAX => state_in_len' <= 1
      /\ ~isempty_RL'
  <2>1. nblock \in Nat /\ nblockMAX \in Nat /\ block \in Seq(Nat) /\ blockCRC \in Seq(Nat)
    BY SizesAssumption DEF nblock, IInv, Types
  <2>2. CASE RunFull(Head(next_in))
    <3>1. /\ block' = block \o PairAdded /\ blockCRC' = blockCRC \o PairCRC
          /\ state_in_ch' = Head(next_in) /\ state_in_len' = 1
      BY <2>2 DEF CopyInput
    <3>2. PairAdded \in Seq(Nat) /\ Len(PairAdded) <= 5 /\ PairCRC \in Seq(Nat)
      BY PairAddedFacts DEF IInv
    <3>3. block' \in Seq(Nat) /\ blockCRC' \in Seq(Nat) /\ Len(block') = Len(block) + Len(PairAdded)
      BY <2>1, <3>1, <3>2
    <3>4. nblock' <= nblockMAX + 4
      BY <1>2, <2>1, <3>2, <3>3 DEF nblock
    <3>5. state_in_ch' \in 0..255
      BY <1>3, <3>1 DEF Chars
    <3>6. state_in_len' = 1
      BY <3>1
    <3>7. ~isempty_RL'
      BY <3>5, <3>6 DEF isempty_RL, None
    <3>8. state_in_ch' \in Nat /\ state_in_len' \in Nat /\ state_in_len' <= 1
      BY <3>5, <3>6
    <3> QED BY <3>3, <3>4, <3>7, <3>8
  <2>3. CASE ~RunFull(Head(next_in))
    <3>1. state_in_len' = state_in_len + 1 /\ UNCHANGED <<block, blockCRC, state_in_ch>>
      BY <2>3 DEF CopyInput
    <3>2. state_in_ch = Head(next_in)
      BY <2>3 DEF RunFull
    <3>3. state_in_ch \in 0..255 /\ state_in_len \in Nat
      BY <1>3, <3>2 DEF Chars, IInv, Types
    <3> QED BY <1>2, <2>1, <3>1, <3>3 DEF isempty_RL, None, nblock
  <2> QED BY <2>2, <2>3
<1>7. Types'
  BY <1>1, <1>4, <1>5, <1>6 DEF IInv, Types
<1>8. BlockInv'
  BY <1>1, <1>6, SizesAssumption DEF BlockInv, nblock
<1>9. CallInv'
  BY <1>1, <1>4, <1>5, <1>6 DEF IInv, CallInv
<1> QED BY <1>1, <1>7, <1>8, <1>9 DEF IInv, CallsSucceed

\* The pending run is the last thing that goes into a block.
LEMMA LastBlockStep == ASSUME IInv, LastBlock PROVE IInv'
<1>1. /\ UNCHANGED <<todo, next_in, avail_out, mode, state_out_pos, avail_in_expect, call,
                     progress, ret>>
      /\ state = "INPUT" /\ state' = "OUTPUT" /\ call # "none" /\ mode # "RUNNING"
  BY DEF LastBlock, caller
<1>2. /\ block' = block \o PairAdded /\ blockCRC' = blockCRC \o PairCRC
      /\ state_in_ch' = None /\ state_in_len' = 0
  BY DEF LastBlock
<1>3. /\ PairAdded \in Seq(Nat) /\ Len(PairAdded) <= 5 /\ PairCRC \in Seq(Nat)
      /\ state_in_len <= 1 => Len(PairAdded) <= 1
  BY PairAddedFacts DEF IInv
<1>4. block \in Seq(Nat) /\ blockCRC \in Seq(Nat) /\ nblockMAX \in Nat
  BY SizesAssumption DEF IInv, Types
<1>5. block' \in Seq(Nat) /\ blockCRC' \in Seq(Nat) /\ Len(block') = Len(block) + Len(PairAdded)
  BY <1>2, <1>3, <1>4
<1>6. compressBlock(block', blockCRC', mode = "FINISHING") /\ (mode = "FINISHING") \in BOOLEAN
  BY DEF LastBlock
<1>7. /\ combinedCRC' \in Seq(Seq(Nat)) /\ bsBuff' \in Seq(UnitsOnWire) /\ zbits' \in Seq(UnitsOnWire)
      /\ mode = "FINISHING" => Len(zbits') > 0
  <2>1. PICK b \in Seq(Nat), c \in Seq(Nat) : b = block' /\ c = blockCRC'
    BY <1>5
  <2>2. compressBlock(b, c, mode = "FINISHING")
    BY <1>6, <2>1 DEF compressBlock, BlockUnits
  <2> QED BY <1>6, <2>2, CompressBlockFacts DEF IInv
<1>8. Types'
  BY <1>1, <1>2, <1>5, <1>7 DEF IInv, Types, None
<1>9. BlockInv'
  <2>1. Len(block) < nblockMAX \/ (Len(block) <= nblockMAX + 4 /\ state_in_len <= 1)
    BY <1>1, <1>4 DEF IInv, BlockInv, nblock
  <2>2. Len(block') <= nblockMAX + 5
    BY <1>3, <1>4, <1>5, <2>1
  <2> QED BY <1>1, <2>2 DEF BlockInv, nblock
<1>10. CallInv'
  BY <1>1, <1>7 DEF IInv, CallInv, numZ, avail_in
<1> QED BY <1>1, <1>8, <1>9, <1>10 DEF IInv, CallsSucceed

LEMMA FullBlockStep == ASSUME IInv, FullBlock PROVE IInv'
<1>1. /\ UNCHANGED <<todo, next_in, avail_out, mode, block, state_in_ch, state_in_len, blockCRC,
                     state_out_pos, avail_in_expect, call, progress, ret>>
      /\ state = "INPUT" /\ state' = "OUTPUT" /\ call # "none" /\ nblock >= nblockMAX
  BY DEF FullBlock, caller, rl
<1>2. /\ combinedCRC' \in Seq(Seq(Nat)) /\ bsBuff' \in Seq(UnitsOnWire) /\ zbits' \in Seq(UnitsOnWire)
  BY CompressBlockFacts DEF IInv, Types, FullBlock
<1>3. ~isempty_RL /\ isempty_RL' = isempty_RL
  <2>1. block # <<>>
    BY <1>1, SizesAssumption DEF nblock
  <2> QED BY <1>1, <2>1 DEF IInv, CallInv, isempty_RL
<1>4. Types'
  BY <1>1, <1>2 DEF IInv, Types
<1>5. BlockInv'
  BY <1>1 DEF IInv, BlockInv, nblock
<1>6. CallInv'
  BY <1>1, <1>3 DEF IInv, CallInv, AllIn, avail_in
<1> QED BY <1>1, <1>4, <1>5, <1>6 DEF IInv, CallsSucceed

-----------------------------------------------------------------------------
LEMMA StepIInv == IInv /\ [CNext]_cvars => IInv'
<1> SUFFICES ASSUME IInv, [CNext]_cvars PROVE IInv'
  OBVIOUS
<1>1. CASE Run \/ BeginFlush \/ BeginFinish \/ Continue
  BY <1>1, CallerStep
<1>2. CASE Handle
  BY <1>2, CopyOutputStep, OutputFullStep, EndOfStreamStep, BlockOutStep, CopyInputStep,
     LastBlockStep, FullBlockStep, InputUsedStep DEF Handle
<1>3. CASE UNCHANGED cvars
  BY <1>3 DEF IInv, Types, BlockInv, CallInv, CallsSucceed, cvars, caller, rl, crc, bits, nblock,
     numZ, avail_in, AllIn, isempty_RL
<1> QED BY <1>1, <1>2, <1>3 DEF CNext

\* The state of the compressor is consistent between and inside its calls.
THEOREM Invariance == CSpec => []IInv
BY InitIInv, StepIInv, PTL DEF CSpec

\* A block never outgrows the margin behind nblockMAX (BZ2_bzCompressInit,
\* add_pair_to_block).
THEOREM BlockMargin == CSpec => []BlockFits
<1>1. IInv => BlockFits
  BY DEF IInv, BlockInv, BlockFits
<1> QED BY <1>1, Invariance, PTL

\* No call with something to do and room to do it is refused (BZ2_bzCompress).
THEOREM CallsAccepted == CSpec => []CallsSucceed
<1>1. IInv => CallsSucceed
  BY DEF IInv
<1> QED BY <1>1, Invariance, PTL

-----------------------------------------------------------------------------
(***************************************************************************)
(* Proofs about the files bzip2 works on (bzip2.c), for any command lines, *)
(* directories, contents and numbers of faults, with other programs that   *)
(* create and remove files and with kills at any moment.                   *)
(*                                                                         *)
(* The invariant has a part about the file that is being written, by the   *)
(* position in the input (Progress), and parts about each named file       *)
(* (Safe), each output (Settled) and the files of others (Untouched).      *)
(* Those three see of a step only what it does to the directory, which one *)
(* of nine kinds of steps says (Kinds).   The last part says what has been *)
(* dealt with while the exit status is still 0: on disk (FilesDone), by    *)
(* testing (TestsDone) and on stdout (Told).                               *)
(***************************************************************************)

\* The tokens; what is written depends on the second component of what was
\* read, whichever token that is.
Held == Payload \cup {"foreign", <<"hdr">>[2], <<"end">>[2], <<"bad">>[2]}
Token == {<<"hdr">>, <<"end">>, <<"bad">>} \cup ({"raw", "blk"} \X Held)
Content == {Absent, Dir} \cup Seq(Token)

\* No close of an output fails (the findings show what happens if one does),
\* a directory has a place for every input and output and holds files of
\* tokens, and no output has the name of its own input.  Standard input is no
\* directory.
Filesystem ==
  /\ "fclose" \notin Faults
  /\ \A c \in Commands :
       /\ c.op \in {"compress", "uncompress", "test"}
       /\ \A d \in Directories(c) :
            /\ c.args \in Seq(DOMAIN d)
            /\ \A x \in DOMAIN d : d[x] \in Content
            /\ \A i \in 1 .. Len(c.args) :
                 /\ OutNameOf(c, c.args[i]) \in DOMAIN d \ {c.args[i]}
                 /\ c.srcMode = "I2O" => d[c.args[i]] # Dir

-----------------------------------------------------------------------------
\* The control points at which the output is there, made for this argument.
Late == {"stamp", "remove", "fail"}
Ours == {"stream", "cat", "close", "magic", "notbzip2", "unlink"} \cup Late
PCs == {"next", "open", "exit", "killed"} \cup Ours

Written == files[Out] \o pend

TypedCtl ==
  /\ n \in Nat \ {0} /\ pc \in PCs
  /\ exitValue \in Nat /\ (pc = "fail" => ec \in {1, 2})
  /\ pc \notin {"next", "exit", "killed"} => n <= Len(cmd.args)
  /\ pc \in {"remove", "unlink"} => ToFile
  /\ ToFile => pend \in Seq(Token)
  /\ ToFile /\ pc \in {"next", "open", "notbzip2", "stamp", "remove"} => pend = <<>>
  /\ ToFile /\ pc \in Ours => rd \in Nat \ {0}

TypedFiles ==
  /\ cmd \in Commands /\ orig \in Directories(cmd) /\ DOMAIN files = DOMAIN orig
  /\ \A x \in DOMAIN files : files[x] \in Content
  /\ ToFile /\ pc = "open" => files[In] # Dir
  /\ ToFile /\ pc \in Ours => in \in Seq(Token) /\ files[Out] \in Seq(Token)

Typed == TypedCtl /\ TypedFiles

\* The first r - 1 tokens of c are streams, the last of them open if ins.
InStreams(c, r, ins) ==
  /\ r \in 1 .. Len(c) + 1 /\ ins \in BOOLEAN
  /\ r > 1 => c[1] = <<"hdr">>
  /\ ins <=> r > 1 /\ c[r - 1] # <<"end">>
  /\ \A i \in 1 .. r - 1 :
       /\ c[i][1] \in {"hdr", "blk", "end"}
       /\ c[i] = <<"end">> => i = r - 1 \/ c[i + 1] = <<"hdr">>
       /\ i > 1 /\ c[i] = <<"hdr">> => c[i - 1] = <<"end">>

Compressed(c, k) == << <<"hdr">> >> \o [i \in 1 .. k |-> <<"blk", c[i][2]>>]

\* Where the copy of trycat may begin.
Garbage(c) == {k \in BeforeGarbage(c) \cup {0} : k < Len(c) /\ (k = 0 => c[1] # <<"hdr">>)}

\* What was written when r - 1 tokens of c were compressed, decompressed or
\* copied.
CompressedTo(c, r, w) ==
  r <= Len(c) + 1 /\ w = IF r = 1 THEN <<>> ELSE Compressed(c, r - 1)
PlainTo(c, r, ins, sn, w) ==
  /\ InStreams(c, r, ins) /\ w = Data(c)[r - 1]
  /\ sn \in Nat /\ (sn = 0 <=> r = 1)
CopiedTo(c, r, w) ==
  /\ r <= Len(c) + 1
  /\ \E k \in Garbage(c) : w = Data(c)[k] \o SubSeq(c, 1, r - 1)

\* w is what was written of the input c before the close of the files.
Work(at, c, r, err, sn, ins, w) ==
  /\ at = "stream" /\ cmd.op = "compress" => CompressedTo(c, r, w)
  /\ at = "stream" /\ cmd.op = "uncompress" => PlainTo(c, r, ins, sn, w)
  /\ at = "cat" => cmd.op = "uncompress" /\ cmd.force /\ CopiedTo(c, r, w)
  /\ at = "close" => err \/ w \in Complete(c)
  /\ at = "magic" =>
       /\ cmd.op = "uncompress"
       /\ IF sn = 1 THEN w = <<>> ELSE w \in Complete(c)

\* What was written to a file so far, at every control point.
Progress ==
  ToFile =>
  /\ Work(pc, in, rd, rerr, streamNo, inStream, Written)
  /\ pc = "notbzip2" => files[Out] = <<>>
  /\ pc \in {"stamp", "remove"} => files[Out] \in Complete(in)
  /\ pc \in {"stream", "cat", "close", "magic", "stamp"} => deleteOutputOnInterrupt
  /\ pc = "unlink" => exitValue > 0
  /\ pc = "fail" /\ ~deleteOutputOnInterrupt =>
       pend = <<>> /\ files[Out] \in Complete(in) \cup {<<>>}

-----------------------------------------------------------------------------
Gone(p) == p \notin foreign /\ files[p] # orig[p]
Reached(p) == \E i \in 1 .. Len(cmd.args) : i <= n /\ cmd.args[i] = p

\* A named file, whichever argument is being processed, ...
Kept(p) ==
  /\ files[p] \in {orig[p], Absent}
  /\ p \in kept => files[p] = Absent /\ files[OutName(p)] # Absent
  /\ Gone(p) => files[OutName(p)] \in Complete(orig[p])
  /\ p \in kept \/ Gone(p) => Reached(p)

\* ... while another argument has the output of the same name ...
Elsewhere(p) ==
  ToFile /\ pc \in Ours /\ In # p /\ Out = OutName(p) => p \notin kept /\ ~Gone(p)

\* ... and while it is its turn.
Turn(p) ==
  ToFile /\ pc \in Ours \cup {"open"} /\ In = p =>
    /\ pc \notin Late => p \notin kept
    /\ ~Gone(p)
    /\ pc \in Ours => in = orig[p]

Safe == \A p \in Named : Independent(p) => Kept(p) /\ Elsewhere(p) /\ Turn(p)

Tidy(o) ==
  \/ files[o] \in {Absent, orig[o]}
  \/ o \in foreign
  \/ \E q \in Named : OutName(q) = o /\ files[o] \in Complete(orig[q])
  \/ exitValue # 0 /\ (files[o] = <<>> \/ o \in warned)

\* An output that no argument is writing.
Settled ==
  ToFile /\ pc # "killed" =>
    \A p \in Named :
      LET o == OutName(p) IN
      /\ \A q \in Named : OutName(q) = o => Independent(q)
      /\ ~(pc \in Ours /\ Out = o)
      => Tidy(o)

Untouched ==
  /\ ForeignKept
  /\ ~cmd.force /\ ToFile /\ pc \in Ours /\ Out \notin Named =>
       orig[Out] = Absent /\ Out \notin foreign

FilesInv == Typed /\ Progress /\ Safe /\ Settled /\ Untouched

-----------------------------------------------------------------------------
(* Tokens and the data of a file.                                          *)

LEMMA Tokens ==
  /\ <<"hdr">> \in Token /\ <<"end">> \in Token /\ <<"raw", "foreign">> \in Token
  /\ \A t \in Token :
       /\ <<"raw", t[2]>> \in Token /\ <<"blk", t[2]>> \in Token
       /\ t # <<"absent">> /\ t # <<"dir">>
<1>1. ASSUME NEW t \in Token PROVE t[2] \in Held /\ t # <<"absent">> /\ t # <<"dir">>
  <2>1. CASE t \in {"raw", "blk"} \X Held
    BY <2>1
  <2>2. CASE t \in {<<"hdr">>, <<"end">>, <<"bad">>}
    BY <2>2 DEF Held
  <2>3. QED
    BY <2>1, <2>2 DEF Token
<1>2. \A d \in Held : <<"raw", d>> \in Token /\ <<"blk", d>> \in Token
  BY DEF Token
<1>3. "foreign" \in Held
  BY DEF Held
<1>4. QED
  BY <1>1, <1>2, <1>3 DEF Token

LEMMA AbsentIsNoFile == Absent \notin Seq(Token) /\ Dir \notin Seq(Token) /\ Absent # Dir
<1>1. ASSUME Absent \in Seq(Token) PROVE FALSE
  <2>1. Absent[1] \in Token
    BY <1>1 DEF Absent
  <2>2. QED
    BY <2>1, Tokens DEF Absent
<1>2. ASSUME Dir \in Seq(Token) PROVE FALSE
  <2>1. Dir[1] \in Token
    BY <1>2 DEF Dir
  <2>2. QED
    BY <2>1, Tokens DEF Dir
<1>3. QED
  BY <1>1, <1>2 DEF Absent, Dir

\* What one token adds to the data.
Add(t, s) == IF t[1] = "blk" THEN Append(s, <<"raw", t[2]>>) ELSE s
UpTo(c, m, g) == g = [k \in 0 .. m |-> IF k = 0 THEN <<>> ELSE Add(c[k], g[k - 1])]

LEMMA LeastOf ==
  ASSUME NEW T, T \subseteq Nat, T # {}
  PROVE  \E i \in T : \A j \in T : i <= j
<1>1. OpToRel(<, Nat) = {ss \in Nat \X Nat : ss[1] < ss[2]}
  BY DEF OpToRel
<1>2. PICK i \in T : \A j \in T : <<j, i>> \notin {ss \in Nat \X Nat : ss[1] < ss[2]}
  BY <1>1, NatLessThanWellFounded, WFMin
<1>3. ASSUME NEW j \in T PROVE i <= j
  <2>1. i \in Nat /\ j \in Nat /\ ~ (j < i)
    BY <1>2
  <2>2. QED
    BY <2>1
<1>4. QED
  BY <1>3

\* The recursive definition of Data has a solution.
LEMMA DataExists ==
  ASSUME NEW c, NEW m \in Nat
  PROVE  \E g : UpTo(c, m, g)
<1> DEFINE Lacking == {k \in Nat : ~ \E g : UpTo(c, k, g)}
<1> SUFFICES ASSUME Lacking # {} PROVE FALSE
  OBVIOUS
<1>1. PICK k \in Lacking : \A j \in Lacking : k <= j
  BY LeastOf
<1>2. CASE k = 0
  <2>1. UpTo(c, 0, [j \in 0 .. 0 |-> <<>>])
    BY DEF UpTo
  <2>2. QED
    BY <1>2, <2>1
<1>3. CASE k # 0
  <2>1. k \in Nat /\ k - 1 \in Nat /\ k - 1 \notin Lacking
    BY <1>1, <1>3
  <2>2. PICK g : UpTo(c, k - 1, g)
    BY <2>1
  <2> DEFINE h == [j \in 0 .. k |-> IF j = k THEN Add(c[k], g[k - 1]) ELSE g[j]]
  <2>3. g = [j \in 0 .. k - 1 |-> IF j = 0 THEN <<>> ELSE Add(c[j], g[j - 1])]
    BY <2>2 DEF UpTo
  <2> HIDE DEF Lacking
  <2>4. ASSUME NEW j \in 0 .. k
        PROVE  h[j] = IF j = 0 THEN <<>> ELSE Add(c[j], h[j - 1])
    <3>1. CASE j = 0
      <4>1. 0 \in 0 .. k - 1 /\ g[0] = <<>>
        BY <1>3, <2>1, <2>3
      <4>2. QED
        BY <3>1, <4>1, <1>3
    <3>2. CASE j = k
      <4>1. h[k - 1] = g[k - 1]
        BY <2>1
      <4>2. QED
        BY <3>2, <4>1, <1>3
    <3>3. CASE j # 0 /\ j # k
      <4>1. j \in 0 .. k - 1 /\ j - 1 \in 0 .. k /\ j - 1 # k
        BY <2>1, <3>3
      <4>2. g[j] = Add(c[j], g[j - 1]) /\ h[j - 1] = g[j - 1] /\ h[j] = g[j]
        BY <2>3, <3>3, <4>1
      <4>3. QED
        BY <4>2, <3>3
    <3>4. QED
      BY <3>1, <3>2, <3>3
  <2> HIDE DEF h
  <2>5. h = [j \in 0 .. k |-> h[j]]
    BY DEF h
  <2>6. UpTo(c, k, h)
    BY <2>4, <2>5 DEF UpTo
  <2>7. QED
    BY <2>6 DEF Lacking
<1>4. QED
  BY <1>2, <1>3

LEMMA DataSteps ==
  ASSUME NEW c \in Seq(Token)
  PROVE  /\ Data(c)[0] = <<>>
         /\ \A k \in 1 .. Len(c) : Data(c)[k] = Add(c[k], Data(c)[k - 1])
<1>1. PICK g : UpTo(c, Len(c), g)
  <2>1. Len(c) \in Nat
    OBVIOUS
  <2>2. QED
    BY <2>1, DataExists
<1>2. Data(c) = CHOOSE f : UpTo(c, Len(c), f)
  BY DEF Data, UpTo, Add
<1>3. UpTo(c, Len(c), Data(c))
  BY <1>1, <1>2
<1>4. QED
  BY <1>3 DEF UpTo

LEMMA DataTyped ==
  ASSUME NEW c \in Seq(Token), NEW m \in 0 .. Len(c)
  PROVE  Data(c)[m] \in Seq(Token)
<1> DEFINE Wrong == {k \in 0 .. Len(c) : Data(c)[k] \notin Seq(Token)}
<1> SUFFICES ASSUME Wrong # {} PROVE FALSE
  OBVIOUS
<1>1. PICK k \in Wrong : \A j \in Wrong : k <= j
  <2>1. Wrong \subseteq Nat
    OBVIOUS
  <2>2. QED
    BY <2>1, LeastOf
<1>2. k # 0
  <2>1. Data(c)[0] = <<>> /\ <<>> \in Seq(Token)
    BY DataSteps
  <2>2. QED
    BY <2>1
<1>3. k \in 1 .. Len(c) /\ k - 1 \in 0 .. Len(c) /\ k - 1 \notin Wrong
  BY <1>1, <1>2
<1>4. Data(c)[k] = Add(c[k], Data(c)[k - 1]) /\ Data(c)[k - 1] \in Seq(Token)
  BY <1>3, DataSteps
<1>5. c[k] \in Token /\ <<"raw", c[k][2]>> \in Token
  <2>1. c[k] \in Token
    BY <1>3
  <2>2. QED
    BY <2>1, Tokens
<1>6. Data(c)[k] \in Seq(Token)
  BY <1>4, <1>5 DEF Add
<1>7. QED
  BY <1>6

-----------------------------------------------------------------------------
(* Streams, and the outputs that are complete.                             *)

LEMMA StreamToken ==
  ASSUME NEW c \in Seq(Token), NEW r, NEW ins, InStreams(c, r, ins), r <= Len(c),
         \/ ~ins /\ c[r] = <<"hdr">>
         \/ ins /\ c[r][1] = "blk"
         \/ ins /\ c[r] = <<"end">>
  PROVE  InStreams(c, r + 1, c[r] # <<"end">>)
<1>1. /\ r \in Nat \ {0} /\ Len(c) \in Nat /\ r + 1 \in 1 .. Len(c) + 1
      /\ r > 1 => c[1] = <<"hdr">>
      /\ ins <=> r > 1 /\ c[r - 1] # <<"end">>
  BY DEF InStreams
<1>2. \A i \in 1 .. r - 1 : /\ c[i][1] \in {"hdr", "blk", "end"}
                            /\ c[i] = <<"end">> => i = r - 1 \/ c[i + 1] = <<"hdr">>
                            /\ i > 1 /\ c[i] = <<"hdr">> => c[i - 1] = <<"end">>
  BY DEF InStreams
<1>3. <<"hdr">>[1] = "hdr" /\ <<"end">>[1] = "end" /\ <<"hdr">> # <<"end">>
  OBVIOUS
<1>4. c[1] = <<"hdr">>
  BY <1>1
<1>5. c[r][1] \in {"hdr", "blk", "end"}
  BY <1>3
<1>6. r > 1 /\ c[r - 1] = <<"end">> => c[r] = <<"hdr">>
  BY <1>1
<1>7. r > 1 /\ c[r] = <<"hdr">> => c[r - 1] = <<"end">>
  BY <1>1, <1>3
<1>8. ASSUME NEW i \in 1 .. (r + 1) - 1
      PROVE  /\ c[i][1] \in {"hdr", "blk", "end"}
             /\ c[i] = <<"end">> => i = (r + 1) - 1 \/ c[i + 1] = <<"hdr">>
             /\ i > 1 /\ c[i] = <<"hdr">> => c[i - 1] = <<"end">>
  <2>1. CASE i = r
    BY <2>1, <1>1, <1>5, <1>7
  <2>2. CASE i # r
    <3>1. i \in 1 .. r - 1 /\ (i = r - 1 => i + 1 = r /\ r > 1)
      BY <2>2, <1>1
    <3>2. QED
      BY <3>1, <1>2, <1>6
  <2>3. QED
    BY <2>1, <2>2
<1>9. (c[r] # <<"end">>) <=> r + 1 > 1 /\ c[(r + 1) - 1] # <<"end">>
  BY <1>1
<1>10. QED
  BY <1>1, <1>4, <1>8, <1>9 DEF InStreams

LEMMA StreamsEnd ==
  ASSUME NEW c \in Seq(Token), NEW r, InStreams(c, r, FALSE), r # 1,
         r <= Len(c) => c[r] # <<"hdr">>
  PROVE  r - 1 \in BeforeGarbage(c)
<1> DEFINE k == r - 1
           s == SubSeq(c, 1, k)
<1>1. /\ Len(c) \in Nat /\ r \in Nat /\ k \in 1 .. Len(c) /\ k + 1 = r /\ c[1] = <<"hdr">> /\ c[k] = <<"end">>
  BY DEF InStreams
<1>2. \A i \in 1 .. k : /\ c[i][1] \in {"hdr", "blk", "end"}
                        /\ c[i] = <<"end">> => i = k \/ c[i + 1] = <<"hdr">>
                        /\ i > 1 /\ c[i] = <<"hdr">> => c[i - 1] = <<"end">>
  BY DEF InStreams
<1>3. k < Len(c) => c[k + 1] # <<"hdr">>
  BY <1>1
<1> HIDE DEF k
<1>4. Len(s) = k /\ s # <<>> /\ \A i \in 1 .. k : s[i] = c[i]
  BY <1>1
<1> HIDE DEF s
<1>5. ASSUME NEW i \in 1 .. Len(s)
      PROVE  /\ s[i][1] \in {"hdr", "blk", "end"}
             /\ s[i] = <<"end">> => i = Len(s) \/ s[i + 1] = <<"hdr">>
             /\ i > 1 /\ s[i] = <<"hdr">> => s[i - 1] = <<"end">>
  <2>1. i \in 1 .. k /\ s[i] = c[i] /\ (i # k => s[i + 1] = c[i + 1])
    BY <1>1, <1>4
  <2>2. i > 1 => s[i - 1] = c[i - 1]
    BY <2>1, <1>1, <1>4
  <2>3. QED
    BY <2>1, <2>2, <1>2, <1>4
<1>6. s[1] = <<"hdr">> /\ s[Len(s)] = <<"end">>
  BY <1>1, <1>4
<1>7. Streams(s)
  BY <1>4, <1>5, <1>6 DEF Streams
<1>8. QED
  BY <1>1, <1>3, <1>7 DEF BeforeGarbage, s, k

LEMMA CompressedSteps ==
  ASSUME NEW c \in Seq(Token)
  PROVE  /\ Compressed(c, 0) = << <<"hdr">> >>
         /\ \A k \in 0 .. Len(c) :
              /\ Compressed(c, k) \in Seq(Token)
              /\ k < Len(c) => Compressed(c, k + 1) = Compressed(c, k) \o << <<"blk", c[k + 1][2]>> >>
<1>1. \A i \in 1 .. Len(c) : <<"blk", c[i][2]>> \in Token
  <2>1. \A i \in 1 .. Len(c) : c[i] \in Token
    OBVIOUS
  <2>2. QED
    BY <2>1, Tokens
<1>2. << <<"hdr">> >> \in Seq(Token)
  BY Tokens
<1>3. Compressed(c, 0) = << <<"hdr">> >>
  <2>1. [i \in 1 .. 0 |-> <<"blk", c[i][2]>>] = <<>>
    OBVIOUS
  <2>2. QED
    BY <2>1, <1>2 DEF Compressed
<1>4. ASSUME NEW k \in 0 .. Len(c) PROVE Compressed(c, k) \in Seq(Token)
  <2>1. [i \in 1 .. k |-> <<"blk", c[i][2]>>] \in Seq(Token)
    BY <1>1
  <2>2. QED
    BY <2>1, <1>2 DEF Compressed
<1>5. ASSUME NEW k \in 0 .. Len(c), k < Len(c)
      PROVE  Compressed(c, k + 1) = Compressed(c, k) \o << <<"blk", c[k + 1][2]>> >>
  <2> DEFINE b == [i \in 1 .. Len(c) |-> <<"blk", c[i][2]>>]
             s == [i \in 1 .. k |-> b[i]]
             t == [i \in 1 .. k + 1 |-> b[i]]
  <2>1. Compressed(c, k) = << <<"hdr">> >> \o s /\ Compressed(c, k + 1) = << <<"hdr">> >> \o t
        /\ <<"blk", c[k + 1][2]>> = b[k + 1]
    BY <1>5 DEF Compressed
  <2>2. \A i \in 1 .. Len(c) : b[i] \in Token
    BY <1>1
  <2> HIDE DEF b
  <2>3. s \in Seq(Token) /\ t \in Seq(Token) /\ b[k + 1] \in Token
    BY <2>2, <1>5
  <2>4. t = s \o << b[k + 1] >>
    BY <2>3, <1>5
  <2> HIDE DEF s, t
  <2>5. (<< <<"hdr">> >> \o s) \o << b[k + 1] >> = << <<"hdr">> >> \o (s \o << b[k + 1] >>)
    BY <2>3, <1>2
  <2>6. QED
    BY <2>1, <2>4, <2>5
<1>6. QED
  BY <1>3, <1>4, <1>5

LEMMA CompletePlain ==
  ASSUME NEW c \in Seq(Token), cmd.op = "uncompress", NEW k \in BeforeGarbage(c)
  PROVE  Data(c)[k] \in Complete(c)
BY AbsentIsNoFile DEF Complete

LEMMA CompleteCopied ==
  ASSUME NEW c \in Seq(Token), cmd.op = "uncompress", cmd.force, NEW k \in Garbage(c)
  PROVE  Data(c)[k] \o c \in Complete(c)
<1>1. CASE k = 0
  <2>1. c # <<>> /\ c[1] # <<"hdr">> /\ Data(c)[0] \o c = c
    BY <1>1, DataSteps DEF Garbage
  <2>2. QED
    BY <1>1, <2>1, AbsentIsNoFile DEF Complete
<1>2. CASE k # 0
  <2>1. k \in BeforeGarbage(c) \ {Len(c)}
    BY <1>2 DEF Garbage
  <2>2. QED
    BY <2>1, AbsentIsNoFile DEF Complete
<1>3. QED
  BY <1>1, <1>2

LEMMA CompleteCompressed ==
  ASSUME NEW c \in Seq(Token), cmd.op = "compress"
  PROVE  Compressed(c, Len(c)) \o << <<"end">> >> \in Complete(c)
<1>1. DOMAIN c = 1 .. Len(c)
  OBVIOUS
<1>2. QED
  BY <1>1, AbsentIsNoFile DEF Complete, Compressed

LEMMA CompleteTyped ==
  ASSUME NEW c \in Content, cmd.op \in {"compress", "uncompress", "test"}
  PROVE  Complete(c) \subseteq Seq(Token)
<1>1. CASE c \in {Absent, Dir}
  BY <1>1 DEF Complete
<1>2. CASE c \in Seq(Token)
  <2>1. Compressed(c, Len(c)) \o << <<"end">> >> \in Seq(Token)
    <3>1. Len(c) \in 0 .. Len(c) /\ << <<"end">> >> \in Seq(Token)
      BY <1>2, Tokens
    <3>2. Compressed(c, Len(c)) \in Seq(Token)
      BY <1>2, <3>1, CompressedSteps
    <3>3. QED
      BY <3>1, <3>2
  <2>2. \A k \in BeforeGarbage(c) : k \in 0 .. Len(c) /\ Data(c)[k] \in Seq(Token)
    BY <1>2, DataTyped DEF BeforeGarbage
  <2>3. \A k \in BeforeGarbage(c) : Data(c)[k] \o c \in Seq(Token)
    BY <1>2, <2>2
  <2>4. DOMAIN c = 1 .. Len(c)
    BY <1>2
  <2>5. CASE cmd.op = "compress"
    BY <2>1, <2>4, <2>5, <1>2, AbsentIsNoFile DEF Complete, Compressed
  <2>6. CASE cmd.op # "compress"
    BY <2>2, <2>3, <2>6, <1>2, AbsentIsNoFile DEF Complete
  <2>7. QED
    BY <2>5, <2>6
<1>3. QED
  BY <1>1, <1>2 DEF Content

-----------------------------------------------------------------------------
(* What a step does to the directory.                                      *)

Same == UNCHANGED <<cmd, orig, foreign, kept>>
Stays ==
  /\ Same /\ files' = files /\ n' \in {n, n + 1}
  /\ ToFile /\ pc' \in Ours \cup {"open"} =>
       /\ n' = n /\ in' = in
       /\ IF pc' = "open" THEN pc = "open" ELSE pc \in Ours
       /\ pc' \in Late \/ pc \notin Late \/ files[In] # Absent
OnlyOut ==
  DOMAIN files' = DOMAIN files /\ \A x \in DOMAIN files : x # Out => files'[x] = files[x]
Writes ==
  /\ Same /\ ToFile /\ pc \in Ours /\ pc' \in Ours \cup {"exit"} /\ n' = n /\ in' = in
  /\ OnlyOut /\ files'[Out] \in Seq(Token)
  /\ pc \in Late => pc' = "exit"
Clears ==
  /\ Same /\ ToFile /\ pc \in {"notbzip2", "unlink"} /\ pc' \in {"next", "exit"}
  /\ n' \in {n, n + 1}
  /\ OnlyOut /\ files'[Out] = Absent
Makes ==
  /\ Same /\ ToFile /\ pc = "open" /\ files[Out] = Absent
  /\ OnlyOut /\ files'[Out] = <<>>
  /\ \/ pc' = "stream" /\ n' = n /\ files[In] # Absent /\ in' = files[In]
     \/ pc' = "next" /\ n' = n + 1 /\ exitValue' # 0
Accepts ==
  /\ Same /\ ToFile /\ pc = "next" /\ pc' = "open" /\ n' = n /\ n <= Len(cmd.args)
  /\ ~Refused
  /\ OnlyOut /\ files'[Out] = Absent
\* With -f, when the output in the way was not removed.
Declines ==
  /\ Same /\ ToFile /\ pc = "next" /\ pc' = "open" /\ n' = n /\ n <= Len(cmd.args)
  /\ ~Refused /\ cmd.force
  /\ files' = files
TakesIn ==
  /\ Same /\ ToFile /\ pc = "remove" /\ pc' = "next" /\ n' = n + 1
  /\ files[In] # Absent /\ files' = [files EXCEPT ![In] = Absent]
StepKind ==
  \/ Stays \/ Writes \/ Clears \/ Makes \/ Accepts \/ Declines \/ TakesIn
  \/ OtherCreates \/ OtherRemoves

LEMMA Layout ==
  ASSUME Filesystem, Typed
  PROVE  /\ "fclose" \notin Faults
         /\ cmd.op \in {"compress", "uncompress", "test"}
         /\ Len(cmd.args) \in Nat /\ Named \subseteq DOMAIN files
         /\ \A p \in Named : OutName(p) \in DOMAIN files /\ OutName(p) # p
         /\ n <= Len(cmd.args) =>
              In \in Named /\ In \in DOMAIN files /\ Out \in DOMAIN files /\ Out # In
<1>1. /\ cmd \in Commands /\ orig \in Directories(cmd) /\ DOMAIN files = DOMAIN orig /\ n \in Nat \ {0}
  BY DEF Typed, TypedCtl, TypedFiles
<1>2. /\ "fclose" \notin Faults /\ cmd.op \in {"compress", "uncompress", "test"}
      /\ cmd.args \in Seq(DOMAIN files)
      /\ \A i \in 1 .. Len(cmd.args) : OutNameOf(cmd, cmd.args[i]) \in DOMAIN files \ {cmd.args[i]}
  BY <1>1 DEF Filesystem
<1>3. Len(cmd.args) \in Nat /\ \A i \in 1 .. Len(cmd.args) : cmd.args[i] \in DOMAIN files
  BY <1>2
<1>4. \A p \in Named : p \in DOMAIN files /\ OutName(p) \in DOMAIN files /\ OutName(p) # p
  BY <1>2, <1>3 DEF Named, OutName
<1>5. n <= Len(cmd.args) => In \in Named
  BY <1>1, <1>3 DEF Named, In
<1>6. QED
  BY <1>2, <1>3, <1>4, <1>5 DEF Out

LEMMA Delivers ==
  ASSUME ToFile, Out \in DOMAIN files, files[Out] \in Seq(Token), NEW toks \in Seq(Token), Deliver(toks)
  PROVE  OnlyOut /\ files'[Out] = files[Out] \o toks /\ files'[Out] \in Seq(Token)
<1>1. files' = [files EXCEPT ![Out] = files[Out] \o toks]
  BY DEF Deliver
<1>2. files[Out] \o toks \in Seq(Token)
  OBVIOUS
<1>3. QED
  BY <1>1, <1>2 DEF OnlyOut

\* What fwrite and fflush have in common: what was written is in the file or
\* in the buffer, unless an error is noted.
WritesTo(toks) ==
  /\ OnlyOut /\ files'[Out] \in Seq(Token) /\ pend' \in Seq(Token)
  /\ ~werr' => files'[Out] \o pend' = Written \o toks

LEMMA FlushWrites ==
  ASSUME ToFile, Out \in DOMAIN files, files[Out] \in Seq(Token), pend \in Seq(Token),
         NEW toks \in Seq(Token), fflush(toks)
  PROVE  WritesTo(toks) /\ pend' = <<>>
<1>1. CASE Deliver(pend \o toks) /\ pend' = <<>>
  <2>1. pend \o toks \in Seq(Token)
    OBVIOUS
  <2>2. OnlyOut /\ files'[Out] = files[Out] \o (pend \o toks) /\ files'[Out] \in Seq(Token)
    BY <2>1, <1>1, Delivers
  <2>3. files'[Out] \o pend' = files'[Out]
    BY <2>2, <1>1
  <2>4. Written \o toks = files[Out] \o (pend \o toks)
    BY DEF Written
  <2>5. QED
    BY <1>1, <2>2, <2>3, <2>4 DEF WritesTo
<1>2. CASE pend' = <<>> /\ werr' = TRUE /\ UNCHANGED <<files, stdout>>
  BY <1>2 DEF WritesTo, OnlyOut
<1>3. QED
  BY <1>1, <1>2 DEF fflush

LEMMA WriteWrites ==
  ASSUME ToFile, Out \in DOMAIN files, files[Out] \in Seq(Token), pend \in Seq(Token),
         NEW toks \in Seq(Token), fwrite(toks)
  PROVE  WritesTo(toks)
<1>1. CASE pend' = pend \o toks /\ UNCHANGED <<files, stdout, werr>>
  <2>1. files'[Out] \o pend' = Written \o toks
    BY <1>1 DEF Written
  <2>2. pend' \in Seq(Token)
    BY <1>1
  <2>3. QED
    BY <2>1, <2>2, <1>1 DEF WritesTo, OnlyOut
<1>2. CASE fflush(toks)
  BY <1>2, FlushWrites
<1>3. QED
  BY <1>1, <1>2 DEF fwrite, fflush

-----------------------------------------------------------------------------
(* Every step is of one of these kinds, and keeps the control state typed. *)

LEMMA ArgumentSteps ==
  ASSUME Filesystem, Typed, CheckRefused \/ CheckAccepted \/ MetaInfoFails \/ OpenFiles \/ OpenFails
  PROVE  StepKind /\ TypedCtl'
<1>1. TypedCtl /\ Len(cmd.args) \in Nat /\ cmd' = cmd /\ (ToFile' <=> ToFile)
  BY Layout DEF Typed, CheckRefused, CheckAccepted, MetaInfoFails, OpenFiles, OpenFails, conf, ToFile
<1>2. n <= Len(cmd.args) => Out \in DOMAIN files
  BY Layout
<1> USE DEF TypedCtl, PCs, Ours, Late, Same, conf, stream, disk, status, outside, NextArgument, setExit
<1>3. CASE CheckRefused
  <2>1. Stays
    BY <1>3 DEF CheckRefused, Stays
  <2>2. TypedCtl'
    BY <1>1, <1>3 DEF CheckRefused
  <2>3. QED
    BY <2>1, <2>2 DEF StepKind
<1>4. CASE CheckAccepted
  <2>1. CASE ToFile
    <3>1. files' = [files EXCEPT ![Out] = Absent] => Accepts
      BY <1>2, <1>4, <2>1 DEF CheckAccepted, Accepts, OnlyOut, ToFile
    <3>2. files' = files /\ files[Out] # Absent => Declines
      <4>1. files[Out] # Absent => cmd.force
        BY <1>4, <2>1 DEF CheckAccepted, Refused, ToFile
      <4>2. QED
        BY <1>4, <2>1, <4>1 DEF CheckAccepted, Declines
    <3>3. StepKind
      BY <1>4, <2>1, <3>1, <3>2 DEF CheckAccepted, StepKind
    <3>4. QED
      BY <1>1, <1>4, <3>3 DEF CheckAccepted
  <2>2. CASE ~ToFile
    <3>1. Stays
      BY <1>4, <2>2 DEF CheckAccepted, Stays
    <3>2. QED
      BY <1>1, <1>4, <3>1 DEF CheckAccepted, StepKind
  <2>3. QED
    BY <2>1, <2>2
<1>5. CASE OpenFiles
  <2>1. CASE ToFile
    <3>1. Makes
      BY <1>1, <1>2, <1>5, <2>1 DEF OpenFiles, Makes, OnlyOut, Creatable
    <3>2. QED
      BY <1>1, <1>5, <3>1 DEF OpenFiles, StepKind
  <2>2. CASE ~ToFile
    <3>1. Stays
      BY <1>5, <2>2 DEF OpenFiles, Stays
    <3>2. QED
      BY <1>1, <1>5, <2>2, <3>1 DEF OpenFiles, StepKind
  <2>3. QED
    BY <2>1, <2>2
<1>6. CASE OpenFails
  <2>1. Stays \/ Makes
    <3>1. CASE ToFile /\ Creatable /\ files' = [files EXCEPT ![Out] = <<>>]
      <4>1. Makes
        BY <1>1, <1>2, <1>6, <3>1 DEF OpenFails, Makes, OnlyOut, Creatable
      <4>2. QED
        BY <4>1
    <3>2. CASE files' = files
      BY <1>6, <3>2 DEF OpenFails, Stays
    <3>3. QED
      BY <1>6, <3>1, <3>2 DEF OpenFails
  <2>2. TypedCtl'
    BY <1>1, <1>6 DEF OpenFails
  <2>3. QED
    BY <2>1, <2>2 DEF StepKind
<1>7. CASE MetaInfoFails
  <2>1. Stays
    BY <1>7 DEF MetaInfoFails, Stays
  <2>2. TypedCtl'
    <3>1. exitValue' \in Nat /\ n' = n /\ pc' = "exit" /\ pend' = pend /\ pc = "open"
      BY <1>1, <1>7 DEF MetaInfoFails
    <3>2. QED
      BY <1>1, <3>1
  <2>3. QED
    BY <2>1, <2>2 DEF StepKind
<1>8. QED
  BY <1>3, <1>4, <1>5, <1>6, <1>7

\* Steps that write a chunk of the output.
LEMMA ChunkSteps ==
  ASSUME Filesystem, Typed, CompressChunk \/ CompressFinish \/ StreamBlock \/ CatChunk \/ CloseFiles
  PROVE  StepKind /\ TypedCtl'
<1>1. TypedCtl /\ TypedFiles /\ Len(cmd.args) \in Nat /\ cmd' = cmd /\ (ToFile' <=> ToFile)
  BY Layout DEF Typed, CompressChunk, CompressFinish, StreamBlock, CatChunk, CloseFiles, conf, ToFile
<1>2. n <= Len(cmd.args) => Out \in DOMAIN files
  BY Layout
<1>3. pc \in {"stream", "cat", "close"} /\ n \in Nat \ {0} /\ n <= Len(cmd.args) /\ exitValue \in Nat
  BY <1>1 DEF TypedCtl, CompressChunk, CompressFinish, StreamBlock, CatChunk, CloseFiles
<1>4. CASE ~ToFile
  <2>1. pc' # "open" /\ n' \in {n, n + 1} /\ files' = files /\ Same
    BY <1>4 DEF CompressChunk, CompressFinish, StreamBlock, CatChunk, CloseFiles, fwrite, fflush, Deliver,
         FailWith, Proceed, conf, stream, outside, disk, Same
  <2>2. Stays
    BY <1>4, <2>1 DEF Stays
  <2>3. TypedCtl'
    BY <1>1, <1>3, <1>4 DEF TypedCtl, PCs, Ours, Late, CompressChunk, CompressFinish, StreamBlock, CatChunk,
         CloseFiles, FailWith, Proceed, stream
  <2>4. QED
    BY <2>2, <2>3 DEF StepKind
<1>5. CASE ToFile
  <2>1. /\ in \in Seq(Token) /\ rd \in Nat \ {0} /\ files[Out] \in Seq(Token) /\ pend \in Seq(Token)
        /\ Out \in DOMAIN files
    BY <1>1, <1>2, <1>3, <1>5 DEF TypedCtl, TypedFiles, Ours
  <2>2. ~AtEof => in[rd] \in Token
    BY <2>1 DEF AtEof
  <2>3. Header \in Seq(Token) /\ Header \o << <<"end">> >> \in Seq(Token) /\ <<>> \in Seq(Token)
    <3>1. << <<"hdr">> >> \in Seq(Token) /\ <<>> \in Seq(Token) /\ << <<"end">> >> \in Seq(Token)
      BY Tokens
    <3>2. Header \in Seq(Token)
      BY <3>1 DEF Header
    <3>3. QED
      BY <3>1, <3>2
  <2>4. ~AtEof => /\ Header \o << <<"blk", in[rd][2]>> >> \in Seq(Token)
                  /\ << <<"raw", in[rd][2]>> >> \in Seq(Token) /\ << in[rd] >> \in Seq(Token)
    <3>1. ASSUME ~AtEof
          PROVE  /\ << <<"blk", in[rd][2]>> >> \in Seq(Token)
                 /\ << <<"raw", in[rd][2]>> >> \in Seq(Token) /\ << in[rd] >> \in Seq(Token)
      BY <2>2, <3>1, Tokens
    <3>2. QED
      BY <3>1, <2>3
  <2>5. cmd.op # "test"
    BY <1>5 DEF ToFile
  <2>6. \E toks \in Seq(Token) : WritesTo(toks) /\ (pc' \in {"close", "stamp"} => pend' = <<>> \/ pc = "cat")
    <3>1. CASE CompressChunk
      BY <3>1, <1>5, <2>1, <2>4, WriteWrites DEF CompressChunk, FailWith, Proceed
    <3>2. CASE CompressFinish
      BY <3>2, <1>5, <2>1, <2>3, FlushWrites DEF CompressFinish
    <3>3. CASE StreamBlock
      BY <3>3, <1>5, <2>1, <2>4, <2>5, WriteWrites DEF StreamBlock, FailWith, Proceed
    <3>4. CASE CatChunk
      BY <3>4, <1>5, <2>1, <2>4, WriteWrites DEF CatChunk, FailWith, Proceed
    <3>5. CASE CloseFiles
      BY <3>5, <1>5, <2>1, <2>3, <2>5, FlushWrites DEF CloseFiles
    <3>6. QED
      BY <3>1, <3>2, <3>3, <3>4, <3>5
  <2>7. /\ Same /\ n' = n /\ in' = in /\ exitValue' = exitValue
        /\ rd' \in {rd, rd + 1}
        /\ (pc' = "fail" /\ ec' = 1) \/ pc' \in {"stream", "cat", "close", "stamp"}
        /\ pc' = "stamp" => pc = "close"
    BY <2>5 DEF CompressChunk, CompressFinish, StreamBlock, CatChunk, CloseFiles, FailWith, Proceed,
         conf, stream, outside, Same
  <2>8. Writes
    BY <1>3, <1>5, <2>6, <2>7 DEF Writes, WritesTo, Ours, Late
  <2>9. TypedCtl'
    BY <1>1, <1>3, <1>5, <2>1, <2>6, <2>7 DEF TypedCtl, WritesTo, PCs, Ours, Late
  <2>10. QED
    BY <2>8, <2>9 DEF StepKind
<1>6. QED
  BY <1>4, <1>5

\* Steps that only read.
LEMMA ReaderSteps ==
  ASSUME Filesystem, Typed,
         \/ StreamHeader \/ StreamTrailer \/ StreamEnds \/ StreamCorrupt \/ StreamMagic
         \/ CatEnds \/ ReadFails
  PROVE  Stays /\ TypedCtl'
<1>1. TypedCtl /\ Len(cmd.args) \in Nat /\ cmd' = cmd /\ (ToFile' <=> ToFile)
  BY Layout DEF Typed, StreamHeader, StreamTrailer, StreamEnds, StreamCorrupt, StreamMagic, CatEnds,
       ReadFails, conf, ToFile
<1>2. ToFile => cmd.op # "test"
  BY DEF ToFile
<1>3. pc \in {"stream", "cat"}
  BY DEF StreamHeader, StreamTrailer, StreamEnds, StreamCorrupt, StreamMagic, CatEnds, ReadFails
<1>4. /\ Same /\ files' = files /\ pend' = pend /\ exitValue' = exitValue /\ in' = in
      /\ rd' \in {rd, rd + 1, 1}
      /\ \/ pc' = "next" /\ n' = n + 1 /\ ~ToFile
         \/ pc' = "fail" /\ ec' \in {1, 2} /\ n' = n
         \/ pc' \in {"stream", "cat", "close", "magic"} /\ n' = n
  BY <1>2, <1>3 DEF StreamHeader, StreamTrailer, StreamEnds, StreamCorrupt, StreamMagic, CatEnds, ReadFails,
       BrokenStream, testFail, FailWith, conf, stream, disk, status, outside, Same
<1>5. Stays
  BY <1>3, <1>4 DEF Stays, Ours, Late
<1>6. TypedCtl'
  BY <1>1, <1>3, <1>4 DEF TypedCtl, PCs, Ours, Late
<1>7. QED
  BY <1>5, <1>6

LEMMA MagicStep ==
  ASSUME Filesystem, Typed, BadMagic
  PROVE  /\ StepKind /\ TypedCtl'
         /\ ToFile => /\ pc' = IF streamNo = 1 THEN "notbzip2" ELSE "stamp"
                      /\ pend' = <<>> /\ files'[Out] = Written
<1>1. TypedCtl /\ TypedFiles /\ Len(cmd.args) \in Nat /\ cmd' = cmd /\ (ToFile' <=> ToFile)
  BY Layout DEF Typed, BadMagic, conf, ToFile
<1>2. pc = "magic" /\ n \in Nat \ {0} /\ n <= Len(cmd.args) /\ exitValue \in Nat /\ "fclose" \notin Faults
  BY <1>1, Layout DEF TypedCtl, BadMagic
<1>3. Same /\ in' = in /\ rd' = rd /\ exitValue' = exitValue
  BY DEF BadMagic, conf, stream, outside, Same
<1>4. CASE ~ToFile
  <2>1. pc' \in {"next", "notbzip2", "stamp"} /\ n' \in {n, n + 1} /\ files' = files
        /\ (pc' # "next" => n' = n)
    BY <1>4 DEF BadMagic, testFail, Proceed, disk
  <2>2. Stays
    BY <1>3, <1>4, <2>1 DEF Stays
  <2>3. TypedCtl'
    BY <1>1, <1>2, <1>3, <1>4, <2>1 DEF TypedCtl, PCs, Ours, Late
  <2>4. QED
    BY <1>4, <2>2, <2>3 DEF StepKind
<1>5. CASE ToFile
  <2>1. /\ files[Out] \in Seq(Token) /\ pend \in Seq(Token) /\ Out \in DOMAIN files
    BY <1>1, <1>2, <1>5, Layout DEF TypedCtl, TypedFiles, Ours
  <2>2. cmd.op # "test"
    BY <1>5 DEF ToFile
  <2>3. /\ Deliver(pend) /\ pend' = <<>> /\ n' = n
        /\ pc' = IF streamNo = 1 THEN "notbzip2" ELSE "stamp"
    BY <1>2, <1>5, <2>2 DEF BadMagic, Proceed, Fault
  <2>4. OnlyOut /\ files'[Out] = Written /\ files'[Out] \in Seq(Token)
    BY <1>5, <2>1, <2>3, Delivers DEF Written
  <2>5. Writes
    BY <1>2, <1>3, <1>5, <2>3, <2>4 DEF Writes, Ours, Late
  <2>6. TypedCtl'
    BY <1>1, <1>2, <1>3, <1>5, <2>3 DEF TypedCtl, PCs, Ours, Late
  <2>7. QED
    BY <2>3, <2>4, <2>5, <2>6 DEF StepKind
<1>6. QED
  BY <1>4, <1>5

\* Steps after the stream, and the end of the program.
LEMMA EndSteps ==
  ASSUME Filesystem, Typed,
         NotBzip2 \/ StampOutput \/ RemoveInput \/ CleanUpAndFail \/ DeleteOutput \/ Exit \/ Kill
  PROVE  StepKind /\ TypedCtl'
<1>1. TypedCtl /\ TypedFiles /\ Len(cmd.args) \in Nat /\ cmd' = cmd /\ (ToFile' <=> ToFile)
  BY Layout DEF Typed, NotBzip2, StampOutput, RemoveInput, CleanUpAndFail, DeleteOutput, Exit, Kill, conf, ToFile
<1>2. n <= Len(cmd.args) => Out \in DOMAIN files
  BY Layout
<1> USE DEF PCs, Ours, Late, Same, conf, stream, disk, status, outside, NextArgument, setExit, FailWith, Proceed,
      TypedCtl
<1>3. CASE NotBzip2
  <2>1. CASE pc' = "fail"
    <3>1. Stays
      BY <1>1, <1>3, <2>1 DEF NotBzip2, Stays
    <3>2. QED
      BY <1>1, <1>3, <2>1, <3>1 DEF NotBzip2, StepKind
  <2>2. CASE pc' = "next" /\ ~ToFile
    <3>1. Stays
      BY <1>1, <1>3, <2>2 DEF NotBzip2, Stays
    <3>2. QED
      BY <1>1, <1>3, <2>2, <3>1 DEF NotBzip2, StepKind, NotBzip2Value
  <2>3. CASE pc' = "next" /\ ToFile
    <3>1. Clears
      BY <1>1, <1>2, <1>3, <2>3 DEF NotBzip2, Clears, OnlyOut
    <3>2. QED
      BY <1>1, <1>3, <2>3, <3>1 DEF NotBzip2, StepKind, NotBzip2Value
  <2>4. QED
    BY <1>3, <2>1, <2>2, <2>3 DEF NotBzip2
<1>4. CASE StampOutput
  <2>1. Stays
    BY <1>1, <1>4 DEF StampOutput, Stays
  <2>2. TypedCtl'
    BY <1>1, <1>4 DEF StampOutput
  <2>3. QED
    BY <2>1, <2>2 DEF StepKind
<1>5. CASE RemoveInput
  <2>1. Stays \/ TakesIn
    BY <1>1, <1>5 DEF RemoveInput, Stays, TakesIn
  <2>2. TypedCtl'
    BY <1>1, <1>5 DEF RemoveInput
  <2>3. QED
    BY <2>1, <2>2 DEF StepKind
<1>6. CASE CleanUpAndFail
  <2>1. TypedCtl'
    <3>1. exitValue' \in Nat /\ n' = n /\ rd' = rd
      BY <1>1, <1>6 DEF CleanUpAndFail
    <3>2. /\ pc' = "unlink" => ToFile /\ pend' = pend
          /\ pc' # "unlink" => pc' = "exit" /\ pend' = <<>>
      BY <1>6 DEF CleanUpAndFail, MayDelete
    <3>3. pc = "fail" /\ n <= Len(cmd.args) /\ (ToFile => pend \in Seq(Token) /\ rd \in Nat \ {0})
      BY <1>1, <1>6 DEF CleanUpAndFail
    <3>4. CASE pc' = "unlink"
      BY <1>1, <3>1, <3>2, <3>3, <3>4
    <3>5. CASE pc' # "unlink"
      BY <1>1, <3>1, <3>2, <3>5
    <3>6. QED
      BY <3>4, <3>5
  <2>2. CASE MayDelete /\ files[In] # Absent
    <3>1. Stays
      BY <1>1, <1>6, <2>2 DEF CleanUpAndFail, Stays
    <3>2. QED
      BY <2>1, <3>1 DEF StepKind
  <2>3. CASE ~(MayDelete /\ files[In] # Absent) /\ ToFile
    <3>1. /\ files[Out] \in Seq(Token) /\ pend \in Seq(Token) /\ Out \in DOMAIN files
      BY <1>1, <1>2, <1>6, <2>3 DEF CleanUpAndFail, TypedFiles
    <3>2. OnlyOut /\ files'[Out] \in Seq(Token)
      BY <1>6, <2>3, <3>1, Delivers DEF CleanUpAndFail, FlushAtExit, OnlyOut
    <3>3. Writes
      BY <1>1, <1>6, <2>3, <3>2 DEF CleanUpAndFail, Writes
    <3>4. QED
      BY <2>1, <3>3 DEF StepKind
  <2>4. CASE ~(MayDelete /\ files[In] # Absent) /\ ~ToFile
    <3>1. files' = files
      BY <1>6, <2>4 DEF CleanUpAndFail, FlushAtExit, Deliver
    <3>2. Stays
      BY <1>1, <1>6, <2>4, <3>1 DEF CleanUpAndFail, Stays
    <3>3. QED
      BY <2>1, <3>2 DEF StepKind
  <2>5. QED
    BY <2>2, <2>3, <2>4
<1>7. CASE DeleteOutput
  <2>1. Clears \/ Writes
    <3>1. /\ pc = "unlink" /\ ToFile /\ Out \in DOMAIN files
          /\ files[Out] \in Seq(Token) /\ pend \in Seq(Token)
      BY <1>1, <1>2, <1>7 DEF DeleteOutput, TypedFiles
    <3>2. CASE files' = [files EXCEPT ![Out] = Absent]
      BY <1>1, <1>7, <3>1, <3>2 DEF DeleteOutput, Clears, OnlyOut
    <3>3. CASE Deliver(pend)
      <4>1. OnlyOut /\ files'[Out] \in Seq(Token)
        BY <3>1, <3>3, Delivers
      <4>2. QED
        BY <1>1, <1>7, <3>1, <4>1 DEF DeleteOutput, Writes
    <3>4. QED
      BY <1>7, <3>2, <3>3 DEF DeleteOutput
  <2>2. TypedCtl'
    BY <1>1, <1>7 DEF DeleteOutput
  <2>3. QED
    BY <2>1, <2>2 DEF StepKind
<1>8. CASE Exit
  <2>1. Stays
    BY <1>1, <1>8 DEF Exit, Stays
  <2>2. TypedCtl'
    <3>1. exitValue' \in Nat /\ pend' = <<>> /\ pc' = "exit" /\ n' = n
      BY <1>1, <1>8 DEF Exit
    <3>2. QED
      BY <1>1, <3>1
  <2>3. QED
    BY <2>1, <2>2 DEF StepKind
<1>9. CASE Kill
  <2>1. Stays
    BY <1>1, <1>9 DEF Kill, Stays
  <2>2. TypedCtl'
    BY <1>1, <1>9 DEF Kill
  <2>3. QED
    BY <2>1, <2>2 DEF StepKind
<1>10. QED
  BY <1>3, <1>4, <1>5, <1>6, <1>7, <1>8, <1>9

LEMMA Kinds ==
  ASSUME Filesystem, Typed, [Bzip2Next]_bzip2Vars
  PROVE  StepKind /\ TypedCtl'
<1>1. TypedCtl
  BY DEF Typed
<1>2. CASE OtherCreates \/ OtherRemoves
  <2>1. cmd' = cmd /\ (ToFile' <=> ToFile) /\ UNCHANGED <<n, pc, exitValue, ec, pend, rd>>
    BY <1>2 DEF OtherCreates, OtherRemoves, conf, ToFile, status, stream
  <2>2. TypedCtl'
    BY <1>1, <2>1 DEF TypedCtl
  <2>3. QED
    BY <1>2, <2>2 DEF StepKind
<1>3. CASE UNCHANGED bzip2Vars
  <2>1. Same /\ (ToFile' <=> ToFile) /\ UNCHANGED <<n, pc, exitValue, ec, pend, rd, in, files>>
    BY <1>3 DEF bzip2Vars, conf, stream, disk, status, outside, ToFile, Same
  <2>2. Stays
    BY <2>1 DEF Stays
  <2>3. TypedCtl'
    BY <1>1, <2>1 DEF TypedCtl, Same
  <2>4. QED
    BY <2>2, <2>3 DEF StepKind
<1>4. CASE Program \/ ReadFails \/ Kill
  BY <1>4, ArgumentSteps, ChunkSteps, ReaderSteps, MagicStep, EndSteps DEF Program, StepKind
<1>5. QED
  BY <1>2, <1>3, <1>4 DEF Bzip2Next, Bzip2Done

LEMMA Frame ==
  ASSUME StepKind
  PROVE  /\ cmd' = cmd /\ orig' = orig /\ (ToFile' <=> ToFile) /\ Named' = Named
         /\ \A p : OutName(p)' = OutName(p)
         /\ \A p : Independent(p)' <=> Independent(p)
         /\ in' = in => Complete(in)' = Complete(in)
         /\ n' = n => In' = In /\ Out' = Out
<1>1. cmd' = cmd /\ orig' = orig
  BY DEF StepKind, Same, Stays, Writes, Clears, Makes, Accepts, Declines, TakesIn, OtherCreates, OtherRemoves, conf
<1>2. QED
  BY <1>1 DEF ToFile, Named, OutName, In, Out, Independent, Complete

LEMMA TypedStep ==
  ASSUME Filesystem, Typed, [Bzip2Next]_bzip2Vars
  PROVE  Typed'
<1>1. StepKind /\ TypedCtl'
  BY Kinds
<1>2. TypedFiles /\ TypedCtl
  BY DEF Typed
<1>3. /\ cmd' = cmd /\ orig' = orig /\ (ToFile' <=> ToFile)
      /\ n' = n => In' = In /\ Out' = Out
  BY <1>1, Frame
<1>4. pc \notin {"next", "exit", "killed"} =>
        In \in DOMAIN files /\ Out \in DOMAIN files /\ Out # In
  BY <1>2, Layout DEF TypedCtl
<1>5. /\ Absent \in Content /\ <<>> \in Content /\ <<>> \in Seq(Token) /\ Seq(Token) \subseteq Content
      /\ Foreign \in Seq(Token) /\ Absent # Dir /\ Absent \notin Seq(Token) /\ Dir \notin Seq(Token)
  BY Tokens, AbsentIsNoFile DEF Content, Foreign
<1> DEFINE FilesTyped == /\ DOMAIN files' = DOMAIN files
                         /\ \A x \in DOMAIN files : files'[x] \in Content
           OpenTyped == ToFile /\ pc' = "open" => files'[In'] # Dir
           OursTyped == ToFile /\ pc' \in Ours => in' \in Seq(Token) /\ files'[Out'] \in Seq(Token)
<1>6. FilesTyped /\ OpenTyped /\ OursTyped => TypedFiles'
  BY <1>2, <1>3 DEF TypedFiles
<1> HIDE DEF FilesTyped, OpenTyped, OursTyped
<1> USE DEF Ours, Late
<1>7. CASE Stays
  <2>1. FilesTyped
    BY <1>2, <1>7 DEF FilesTyped, Stays, TypedFiles
  <2>2. OpenTyped
    BY <1>2, <1>3, <1>7 DEF OpenTyped, Stays, TypedFiles
  <2>3. OursTyped
    BY <1>2, <1>3, <1>7 DEF OursTyped, Stays, TypedFiles
  <2>4. QED
    BY <1>1, <1>6, <2>1, <2>2, <2>3 DEF Typed
<1>8. CASE Writes
  <2>1. FilesTyped
    BY <1>2, <1>4, <1>5, <1>8 DEF FilesTyped, Writes, OnlyOut, TypedFiles
  <2>2. OpenTyped /\ OursTyped
    BY <1>2, <1>3, <1>8 DEF OpenTyped, OursTyped, Writes, TypedFiles
  <2>3. QED
    BY <1>1, <1>6, <2>1, <2>2 DEF Typed
<1>9. CASE Clears
  <2>1. FilesTyped
    BY <1>2, <1>4, <1>5, <1>9 DEF FilesTyped, Clears, OnlyOut, TypedFiles
  <2>2. OpenTyped /\ OursTyped
    BY <1>9 DEF OpenTyped, OursTyped, Clears
  <2>3. QED
    BY <1>1, <1>6, <2>1, <2>2 DEF Typed
<1>10. CASE Makes
  <2>1. FilesTyped
    BY <1>2, <1>4, <1>5, <1>10 DEF FilesTyped, Makes, OnlyOut, TypedFiles
  <2>2. OpenTyped
    BY <1>10 DEF OpenTyped, Makes
  <2>3. OursTyped
    <3>1. files[In] \in Seq(Token) \cup {Absent}
      BY <1>2, <1>4, <1>10 DEF Makes, TypedFiles, Content
    <3>2. QED
      BY <1>3, <1>5, <1>10, <3>1 DEF OursTyped, Makes
  <2>4. QED
    BY <1>1, <1>6, <2>1, <2>2, <2>3 DEF Typed
<1>11. CASE Accepts
  <2>1. In \in DOMAIN files /\ Out \in DOMAIN files /\ Out # In
    BY <1>11, Layout DEF Accepts
  <2>2. FilesTyped
    BY <1>2, <1>5, <1>11, <2>1 DEF FilesTyped, Accepts, OnlyOut, TypedFiles
  <2>3. OpenTyped
    BY <1>3, <1>11, <2>1 DEF OpenTyped, Accepts, OnlyOut, Refused, ToFile
  <2>4. OursTyped
    BY <1>11 DEF OursTyped, Accepts
  <2>5. QED
    BY <1>1, <1>6, <2>2, <2>3, <2>4 DEF Typed
<1>16. CASE Declines
  <2>1. FilesTyped
    BY <1>2, <1>16 DEF FilesTyped, Declines, TypedFiles
  <2>2. OpenTyped
    BY <1>3, <1>16 DEF OpenTyped, Declines, Refused, ToFile
  <2>3. OursTyped
    BY <1>16 DEF OursTyped, Declines
  <2>4. QED
    BY <1>1, <1>6, <2>1, <2>2, <2>3 DEF Typed
<1>12. CASE TakesIn
  <2>1. FilesTyped
    BY <1>2, <1>5, <1>12 DEF FilesTyped, TakesIn, TypedFiles
  <2>2. OpenTyped /\ OursTyped
    BY <1>12 DEF OpenTyped, OursTyped, TakesIn
  <2>3. QED
    BY <1>1, <1>6, <2>1, <2>2 DEF Typed
<1>13. CASE OtherCreates
  <2>1. pc' = pc /\ n' = n /\ in' = in /\ ToFile /\ files[Out] = Absent /\ files' = [files EXCEPT ![Out] = Foreign]
    BY <1>13 DEF OtherCreates, stream
  <2>2. FilesTyped
    BY <1>2, <1>5, <2>1 DEF FilesTyped, TypedFiles
  <2>3. OpenTyped
    BY <1>2, <1>3, <1>4, <2>1 DEF OpenTyped, TypedFiles
  <2>4. OursTyped
    BY <1>2, <1>5, <2>1 DEF OursTyped, TypedFiles
  <2>5. QED
    BY <1>1, <1>6, <2>2, <2>3, <2>4 DEF Typed
<1>14. CASE OtherRemoves
  <2>1. pc' = pc /\ n' = n /\ in' = in /\ files' = [files EXCEPT ![In] = Absent]
    BY <1>14 DEF OtherRemoves, stream
  <2>2. FilesTyped
    BY <1>2, <1>5, <2>1 DEF FilesTyped, TypedFiles
  <2>3. OpenTyped
    BY <1>2, <1>3, <1>4, <1>5, <2>1 DEF OpenTyped, TypedFiles
  <2>4. OursTyped
    BY <1>2, <1>3, <1>4, <2>1 DEF OursTyped, TypedFiles
  <2>5. QED
    BY <1>1, <1>6, <2>2, <2>3, <2>4 DEF Typed
<1>15. QED
  BY <1>1, <1>7, <1>8, <1>9, <1>10, <1>11, <1>12, <1>13, <1>14, <1>16 DEF StepKind

-----------------------------------------------------------------------------
(* What a chunk adds.                                                      *)

LEMMA Concatenation ==
  ASSUME NEW S, NEW a \in Seq(S), NEW b \in Seq(S), NEW t \in S
  PROVE  /\ (a \o b) \o <<t>> = a \o (b \o <<t>>)
         /\ Append(a, t) = a \o <<t>>
         /\ a \o <<>> = a /\ <<>> \o a = a
<1>1. <<t>> \in Seq(S)
  OBVIOUS
<1>2. (a \o b) \o <<t>> = a \o (b \o <<t>>)
  BY <1>1
<1>3. Append(a, t) = a \o <<t>>
  BY <1>1
<1>4. QED
  BY <1>2, <1>3

LEMMA CompressedChunk ==
  ASSUME NEW c \in Seq(Token), NEW r \in Nat \ {0}, NEW w, CompressedTo(c, r, w)
  PROVE  LET header == IF r = 1 THEN << <<"hdr">> >> ELSE <<>> IN
         /\ r <= Len(c) => CompressedTo(c, r + 1, w \o (header \o << <<"blk", c[r][2]>> >>))
         /\ r > Len(c) /\ cmd.op = "compress" => w \o (header \o << <<"end">> >>) \in Complete(c)
<1> DEFINE header == IF r = 1 THEN << <<"hdr">> >> ELSE <<>>
<1>1. /\ Len(c) \in Nat /\ r - 1 \in 0 .. Len(c) /\ w = IF r = 1 THEN <<>> ELSE Compressed(c, r - 1)
  BY DEF CompressedTo
<1>2. /\ Compressed(c, r - 1) \in Seq(Token) /\ Compressed(c, 0) = << <<"hdr">> >>
      /\ w \in Seq(Token) /\ header \in Seq(Token)
  <2>1. Compressed(c, r - 1) \in Seq(Token) /\ Compressed(c, 0) = << <<"hdr">> >>
    BY <1>1, CompressedSteps
  <2>2. << <<"hdr">> >> \in Seq(Token)
    BY Tokens
  <2>3. QED
    BY <1>1, <2>1, <2>2
<1>3. w \o header = Compressed(c, r - 1)
  <2>1. CASE r = 1
    BY <2>1, <1>1, <1>2
  <2>2. CASE r # 1
    BY <2>2, <1>1, <1>2
  <2>3. QED
    BY <2>1, <2>2
<1> HIDE DEF header
<1>4. ASSUME NEW t \in Token PROVE w \o (header \o <<t>>) = Compressed(c, r - 1) \o <<t>>
  <2> DEFINE u == <<t>>
  <2>1. u \in Seq(Token)
    OBVIOUS
  <2> HIDE DEF u
  <2>2. (w \o header) \o u = w \o (header \o u)
    BY <1>2, <2>1
  <2>3. QED
    BY <1>3, <2>2 DEF u
<1>5. ASSUME r <= Len(c) PROVE CompressedTo(c, r + 1, w \o (header \o << <<"blk", c[r][2]>> >>))
  <2>1. c[r] \in Token
    BY <1>5
  <2>2. <<"blk", c[r][2]>> \in Token
    BY <2>1, Tokens
  <2>3. (r - 1) + 1 = r /\ r - 1 < Len(c)
    BY <1>1, <1>5
  <2>4. Compressed(c, r) = Compressed(c, r - 1) \o << <<"blk", c[r][2]>> >>
    BY <1>1, <2>3, CompressedSteps
  <2>5. (r + 1) - 1 = r /\ r + 1 # 1 /\ r + 1 <= Len(c) + 1
    BY <1>1, <1>5
  <2>6. QED
    BY <1>4, <2>2, <2>4, <2>5 DEF CompressedTo
<1>6. ASSUME r > Len(c), cmd.op = "compress" PROVE w \o (header \o << <<"end">> >>) \in Complete(c)
  <2>1. r - 1 = Len(c)
    BY <1>1, <1>6
  <2>2. QED
    BY <1>4, <1>6, <2>1, Tokens, CompleteCompressed
<1>7. QED
  BY <1>5, <1>6 DEF header

LEMMA PlainToken ==
  ASSUME NEW c \in Seq(Token), NEW r, NEW ins, NEW sn, NEW w, PlainTo(c, r, ins, sn, w), r <= Len(c),
         \/ ~ins /\ c[r] = <<"hdr">>
         \/ ins /\ c[r][1] = "blk"
         \/ ins /\ c[r] = <<"end">>
  PROVE  PlainTo(c, r + 1, c[r] # <<"end">>, IF ins THEN sn ELSE sn + 1,
                 IF c[r][1] = "blk" THEN w \o << <<"raw", c[r][2]>> >> ELSE w)
<1>1. /\ Len(c) \in Nat /\ r \in 1 .. Len(c) /\ w = Data(c)[r - 1] /\ sn \in Nat /\ (sn = 0 <=> r = 1)
      /\ InStreams(c, r, ins) /\ (ins => r # 1)
  BY DEF PlainTo, InStreams
<1>2. InStreams(c, r + 1, c[r] # <<"end">>)
  BY <1>1, StreamToken
<1>3. Data(c)[r] = Add(c[r], w)
  BY <1>1, DataSteps
<1>4. w \in Seq(Token) /\ c[r] \in Token
  <2>1. r - 1 \in 0 .. Len(c)
    BY <1>1
  <2>2. QED
    BY <1>1, <2>1, DataTyped
<1>5. Add(c[r], w) = IF c[r][1] = "blk" THEN w \o << <<"raw", c[r][2]>> >> ELSE w
  <2>1. <<"raw", c[r][2]>> \in Token
    BY <1>4, Tokens
  <2>2. Append(w, <<"raw", c[r][2]>>) = w \o << <<"raw", c[r][2]>> >>
    BY <1>4, <2>1, Concatenation
  <2>3. QED
    BY <2>2 DEF Add
<1>6. (r + 1) - 1 = r /\ r + 1 # 1 /\ (IF ins THEN sn ELSE sn + 1) \in Nat \ {0}
  BY <1>1
<1>7. QED
  BY <1>2, <1>3, <1>5, <1>6 DEF PlainTo

\* At the end of a stream with no other behind it.
LEMMA PlainEnds ==
  ASSUME NEW c \in Seq(Token), NEW r, NEW sn, NEW w, PlainTo(c, r, FALSE, sn, w), cmd.op = "uncompress",
         r <= Len(c) => c[r] # <<"hdr">>
  PROVE  /\ IF r = 1 THEN w = <<>> ELSE w \in Complete(c)
         /\ r <= Len(c) => CopiedTo(c, 1, w)
<1>1. /\ Len(c) \in Nat /\ r \in 1 .. Len(c) + 1 /\ w = Data(c)[r - 1] /\ InStreams(c, r, FALSE)
  BY DEF PlainTo, InStreams
<1>2. r # 1 => r - 1 \in BeforeGarbage(c)
  BY <1>1, StreamsEnd
<1>3. IF r = 1 THEN w = <<>> ELSE w \in Complete(c)
  <2>1. CASE r = 1
    BY <2>1, <1>1, DataSteps
  <2>2. CASE r # 1
    BY <2>2, <1>1, <1>2, CompletePlain
  <2>3. QED
    BY <2>1, <2>2
<1>4. ASSUME r <= Len(c) PROVE CopiedTo(c, 1, w)
  <2>1. r - 1 \in Garbage(c)
    <3>1. r - 1 < Len(c) /\ (r - 1 = 0 <=> r = 1)
      BY <1>1, <1>4
    <3>2. QED
      BY <3>1, <1>2, <1>4 DEF Garbage
  <2>2. w \in Seq(Token)
    <3>1. r - 1 \in 0 .. Len(c)
      BY <1>1
    <3>2. QED
      BY <1>1, <3>1, DataTyped
  <2>3. SubSeq(c, 1, 1 - 1) = <<>> /\ w \o <<>> = w
    BY <2>2
  <2>4. w = Data(c)[r - 1] \o SubSeq(c, 1, 1 - 1)
    BY <1>1, <2>3
  <2>5. 1 <= Len(c) + 1
    OBVIOUS
  <2>6. QED
    BY <2>1, <2>4, <2>5 DEF CopiedTo
<1>5. QED
  BY <1>3, <1>4

LEMMA GarbageTyped ==
  ASSUME NEW c \in Seq(Token), NEW k \in Garbage(c)
  PROVE  Data(c)[k] \in Seq(Token)
<1>1. k \in 0 .. Len(c)
  BY DEF Garbage, BeforeGarbage
<1>2. QED
  BY <1>1, DataTyped

LEMMA CopiedChunk ==
  ASSUME NEW c \in Seq(Token), NEW r \in Nat \ {0}, NEW w, CopiedTo(c, r, w)
  PROVE  /\ r <= Len(c) => CopiedTo(c, r + 1, w \o <<c[r]>>)
         /\ r > Len(c) /\ cmd.op = "uncompress" /\ cmd.force => w \in Complete(c)
<1>1. PICK k \in Garbage(c) : w = Data(c)[k] \o SubSeq(c, 1, r - 1)
  BY DEF CopiedTo
<1>2. Len(c) \in Nat /\ r <= Len(c) + 1 /\ Data(c)[k] \in Seq(Token)
  BY GarbageTyped DEF CopiedTo
<1>3. ASSUME r <= Len(c) PROVE CopiedTo(c, r + 1, w \o <<c[r]>>)
  <2>1. (r + 1) - 1 = r /\ r + 1 <= Len(c) + 1
    BY <1>2, <1>3
  <2>2. SubSeq(c, 1, r) = SubSeq(c, 1, r - 1) \o <<c[r]>>
    BY <1>3
  <2>3. SubSeq(c, 1, r - 1) \in Seq(Token) /\ <<c[r]>> \in Seq(Token)
    BY <1>2, <1>3
  <2> DEFINE d == Data(c)[k]
             e == SubSeq(c, 1, r - 1)
             u == <<c[r]>>
  <2>4. d \in Seq(Token) /\ e \in Seq(Token) /\ u \in Seq(Token)
    BY <1>2, <2>3
  <2> HIDE DEF d, e, u
  <2>5. (d \o e) \o u = d \o (e \o u)
    BY <2>4
  <2>6. w \o <<c[r]>> = Data(c)[k] \o SubSeq(c, 1, r)
    BY <1>1, <2>2, <2>5 DEF d, e, u
  <2>7. QED
    BY <2>1, <2>6 DEF CopiedTo
<1>4. ASSUME r > Len(c), cmd.op = "uncompress", cmd.force PROVE w \in Complete(c)
  <2>1. r - 1 = Len(c)
    BY <1>2, <1>4
  <2>2. SubSeq(c, 1, Len(c)) = c
    OBVIOUS
  <2>3. QED
    BY <1>1, <1>4, <2>1, <2>2, CompleteCopied
<1>5. QED
  BY <1>3, <1>4

-----------------------------------------------------------------------------
(* What a step of the stream functions adds to what was written, to a file *)
(* or to stdout.                                                           *)

LEMMA WorkChunk ==
  ASSUME in \in Seq(Token), rd \in Nat \ {0}, cmd.op \in {"compress", "uncompress"},
         NEW w, Work(pc, in, rd, rerr, streamNo, inStream, w),
         CompressChunk \/ CompressFinish \/ StreamBlock \/ CatChunk
  PROVE  \E toks \in Seq(Token) :
           /\ fwrite(toks) \/ fflush(toks)
           /\ werr' => pc' = "fail"
           /\ Work(pc', in', rd', rerr', streamNo', inStream', w \o toks)
<1>1. in' = in /\ rerr' = rerr /\ Len(in) \in Nat
  BY DEF CompressChunk, CompressFinish, StreamBlock, CatChunk, stream
<1>2. << <<"hdr">> >> \in Seq(Token) /\ <<>> \in Seq(Token) /\ << <<"end">> >> \in Seq(Token)
  BY Tokens
<1>3. Header \in Seq(Token) /\ Header = IF rd = 1 THEN << <<"hdr">> >> ELSE <<>>
  BY <1>2 DEF Header
<1>4. ASSUME ~AtEof PROVE rd <= Len(in) /\ in[rd] \in Token /\ <<in[rd]>> \in Seq(Token)
        /\ << <<"raw", in[rd][2]>> >> \in Seq(Token) /\ << <<"blk", in[rd][2]>> >> \in Seq(Token)
  <2>1. rd <= Len(in)
    BY <1>1, <1>4 DEF AtEof
  <2>2. in[rd] \in Token
    BY <2>1
  <2>3. QED
    BY <2>1, <2>2, Tokens
<1>5. ASSUME pc' = "fail" PROVE \A v : Work(pc', in', rd', rerr', streamNo', inStream', v)
  BY <1>5 DEF Work
<1>6. CASE CompressChunk
  <2> DEFINE toks == Header \o << <<"blk", in[rd][2]>> >>
  <2>1. /\ pc = "stream" /\ cmd.op = "compress" /\ ~AtEof /\ rd' = rd + 1 /\ fwrite(toks)
        /\ IF werr' THEN pc' = "fail" ELSE pc' = "stream"
    BY <1>6 DEF CompressChunk, FailWith, Proceed
  <2>2. toks \in Seq(Token)
    BY <1>3, <1>4, <2>1
  <2>3. CompressedTo(in, rd, w)
    BY <2>1 DEF Work
  <2>4. CompressedTo(in, rd + 1, w \o toks)
    BY <1>3, <1>4, <2>1, <2>3, CompressedChunk
  <2> HIDE DEF toks
  <2>5. ~werr' => Work(pc', in', rd', rerr', streamNo', inStream', w \o toks)
    BY <1>1, <2>1, <2>4 DEF Work
  <2>6. QED
    BY <1>5, <2>1, <2>2, <2>5
<1>7. CASE CompressFinish
  <2> DEFINE toks == Header \o << <<"end">> >>
  <2>1. /\ pc = "stream" /\ cmd.op = "compress" /\ AtEof /\ fflush(toks)
        /\ IF werr' THEN pc' = "fail" ELSE pc' = "close"
    BY <1>7 DEF CompressFinish, FailWith, Proceed
  <2>2. toks \in Seq(Token)
    BY <1>2, <1>3
  <2>3. CompressedTo(in, rd, w)
    BY <2>1 DEF Work
  <2>4. rd > Len(in) => w \o toks \in Complete(in)
    BY <1>3, <2>1, <2>3, CompressedChunk
  <2> HIDE DEF toks
  <2>5. ~werr' => Work(pc', in', rd', rerr', streamNo', inStream', w \o toks)
    BY <1>1, <2>1, <2>4 DEF Work, AtEof
  <2>6. QED
    BY <1>5, <2>1, <2>2, <2>5
<1>8. CASE StreamBlock
  <2> DEFINE toks == << <<"raw", in[rd][2]>> >>
  <2>1. /\ pc = "stream" /\ cmd.op = "uncompress" /\ ~AtEof /\ inStream /\ in[rd][1] = "blk"
        /\ rd' = rd + 1 /\ inStream' = inStream /\ streamNo' = streamNo /\ fwrite(toks)
        /\ IF werr' THEN pc' = "fail" ELSE pc' = "stream"
    BY <1>8 DEF StreamBlock, FailWith, Proceed
  <2>2. PlainTo(in, rd, inStream, streamNo, w)
    BY <2>1 DEF Work
  <2>3. in[rd] # <<"end">> /\ inStream = TRUE
    <3>1. inStream \in BOOLEAN
      BY <2>2 DEF PlainTo, InStreams
    <3>2. QED
      BY <2>1, <3>1
  <2>4. PlainTo(in, rd + 1, in[rd] # <<"end">>, IF inStream THEN streamNo ELSE streamNo + 1,
                IF in[rd][1] = "blk" THEN w \o toks ELSE w)
    BY <1>4, <2>1, <2>2, PlainToken
  <2>5. PlainTo(in, rd + 1, TRUE, streamNo, w \o toks)
    <3>1. (in[rd] # <<"end">>) = TRUE
      BY <2>3
    <3>2. QED
      BY <2>1, <2>4, <3>1
  <2>6. toks \in Seq(Token)
    BY <1>4, <2>1
  <2> HIDE DEF toks
  <2>7. ~werr' => Work(pc', in', rd', rerr', streamNo', inStream', w \o toks)
    BY <1>1, <2>1, <2>3, <2>5 DEF Work
  <2>8. QED
    BY <1>5, <2>1, <2>6, <2>7
<1>9. CASE CatChunk
  <2> DEFINE toks == <<in[rd]>>
  <2>1. /\ pc = "cat" /\ ~AtEof /\ rd' = rd + 1 /\ fwrite(toks)
        /\ IF werr' THEN pc' = "fail" ELSE pc' = "cat"
    BY <1>9 DEF CatChunk, FailWith, Proceed
  <2>2. CopiedTo(in, rd, w) /\ cmd.op = "uncompress" /\ cmd.force
    BY <2>1 DEF Work
  <2>3. CopiedTo(in, rd + 1, w \o toks) /\ toks \in Seq(Token)
    BY <1>4, <2>1, <2>2, CopiedChunk
  <2> HIDE DEF toks
  <2>4. ~werr' => Work(pc', in', rd', rerr', streamNo', inStream', w \o toks)
    BY <1>1, <2>1, <2>2, <2>3 DEF Work
  <2>5. QED
    BY <1>5, <2>1, <2>3, <2>4
<1>10. QED
  BY <1>6, <1>7, <1>8, <1>9

LEMMA WorkReader ==
  ASSUME in \in Seq(Token), rd \in Nat \ {0}, cmd.op \in {"compress", "uncompress"},
         NEW w, Work(pc, in, rd, rerr, streamNo, inStream, w),
         StreamHeader \/ StreamTrailer \/ StreamEnds \/ StreamCorrupt \/ StreamMagic \/ CatEnds \/ ReadFails
  PROVE  Work(pc', in', rd', rerr', streamNo', inStream', w)
<1>1. in' = in /\ pc \in {"stream", "cat"}
  BY DEF StreamHeader, StreamTrailer, StreamEnds, StreamCorrupt, StreamMagic, CatEnds, ReadFails, stream
<1>2. /\ Len(in) \in Nat
      /\ (AtEof <=> rerr \/ rd > Len(in)) /\ (~(rd > Len(in)) <=> rd <= Len(in))
  BY DEF AtEof
<1>3. CASE StreamEnds \/ StreamCorrupt
  BY <1>3 DEF Work, StreamEnds, StreamCorrupt, BrokenStream, FailWith
<1>4. ASSUME pc = "stream", cmd.op = "uncompress"
      PROVE  PlainTo(in, rd, inStream, streamNo, w) /\ (~inStream => inStream = FALSE)
             /\ streamNo \in Nat /\ (streamNo = 0 <=> rd = 1)
  BY <1>4 DEF Work, PlainTo, InStreams
<1>5. CASE StreamHeader
  <2>1. /\ pc = "stream" /\ pc' = pc /\ cmd.op = "uncompress" /\ rd <= Len(in) /\ ~inStream
        /\ in[rd] = <<"hdr">> /\ rd' = rd + 1 /\ inStream' = TRUE /\ streamNo' = streamNo + 1
    BY <1>2, <1>5 DEF StreamHeader
  <2>2. (in[rd] # <<"end">>) = TRUE /\ in[rd][1] # "blk"
    BY <2>1
  <2>3. PlainTo(in, rd + 1, in[rd] # <<"end">>, IF inStream THEN streamNo ELSE streamNo + 1,
                IF in[rd][1] = "blk" THEN w \o << <<"raw", in[rd][2]>> >> ELSE w)
    BY <1>4, <2>1, PlainToken
  <2>4. PlainTo(in, rd + 1, TRUE, streamNo + 1, w)
    BY <2>1, <2>2, <2>3
  <2>5. QED
    BY <1>1, <2>1, <2>4 DEF Work
<1>6. CASE StreamTrailer
  <2>1. /\ pc = "stream" /\ cmd.op = "uncompress" /\ rd <= Len(in) /\ inStream
        /\ in[rd] = <<"end">> /\ rd' = rd + 1 /\ inStream' = FALSE /\ streamNo' = streamNo
        /\ pc' = IF rd = Len(in) THEN "close" ELSE "stream"
    BY <1>2, <1>6 DEF StreamTrailer
  <2>2. (in[rd] # <<"end">>) = FALSE /\ in[rd][1] # "blk"
    BY <2>1
  <2>3. PlainTo(in, rd + 1, in[rd] # <<"end">>, IF inStream THEN streamNo ELSE streamNo + 1,
                IF in[rd][1] = "blk" THEN w \o << <<"raw", in[rd][2]>> >> ELSE w)
    BY <1>4, <2>1, PlainToken
  <2>4. PlainTo(in, rd + 1, FALSE, streamNo, w)
    BY <2>1, <2>2, <2>3
  <2>5. CASE rd # Len(in)
    BY <1>1, <2>1, <2>4, <2>5 DEF Work
  <2>6. CASE rd = Len(in)
    <3>1. rd + 1 # 1 /\ ~ (rd + 1 <= Len(in))
      BY <1>2, <2>6
    <3>2. w \in Complete(in)
      BY <2>1, <2>4, <3>1, PlainEnds
    <3>3. QED
      BY <1>1, <2>1, <2>6, <3>2 DEF Work
  <2>7. QED
    BY <2>5, <2>6
<1>7. CASE StreamMagic
  <2>1. /\ pc = "stream" /\ cmd.op = "uncompress" /\ rd <= Len(in) /\ ~inStream
        /\ in[rd] # <<"hdr">> /\ streamNo' = streamNo + 1
        /\ IF cmd.force THEN rd' = 1 /\ pc' = "cat" ELSE pc' = "magic"
    BY <1>2, <1>7 DEF StreamMagic
  <2>2. PlainTo(in, rd, FALSE, streamNo, w)
    BY <1>4, <2>1
  <2>3. /\ IF rd = 1 THEN w = <<>> ELSE w \in Complete(in)
        /\ CopiedTo(in, 1, w)
    BY <2>1, <2>2, PlainEnds
  <2>4. CASE cmd.force
    BY <1>1, <2>1, <2>3, <2>4 DEF Work
  <2>5. CASE ~cmd.force
    <3>1. streamNo' = 1 <=> rd = 1
      BY <1>4, <2>1
    <3>2. QED
      BY <1>1, <2>1, <2>3, <2>5, <3>1 DEF Work
  <2>6. QED
    BY <2>4, <2>5
<1>8. CASE CatEnds
  <2>1. pc = "cat" /\ pc' = "close" /\ rerr' = rerr /\ AtEof
    BY <1>8 DEF CatEnds, stream
  <2>2. CopiedTo(in, rd, w) /\ cmd.op = "uncompress" /\ cmd.force
    BY <2>1 DEF Work
  <2>3. rd > Len(in) => w \in Complete(in)
    BY <2>2, CopiedChunk
  <2>4. QED
    BY <1>1, <1>2, <2>1, <2>3 DEF Work
<1>9. CASE ReadFails
  BY <1>1, <1>9 DEF ReadFails, Work
<1>10. QED
  BY <1>3, <1>5, <1>6, <1>7, <1>8, <1>9

LEMMA WorkBegins ==
  ASSUME in' \in Seq(Token), rd' = 1, streamNo' = 0, inStream' = FALSE
  PROVE  Work("stream", in', rd', rerr', streamNo', inStream', <<>>)
<1>1. Len(in') \in Nat /\ Data(in')[0] = <<>>
  BY DataSteps
<1>2. InStreams(in', 1, FALSE)
  BY <1>1 DEF InStreams
<1>3. PlainTo(in', rd', inStream', streamNo', <<>>) /\ CompressedTo(in', rd', <<>>)
  <2>1. rd' - 1 = 0 /\ rd' <= Len(in') + 1
    BY <1>1
  <2>2. PlainTo(in', rd', inStream', streamNo', <<>>)
    BY <1>1, <1>2, <2>1 DEF PlainTo
  <2>3. CompressedTo(in', rd', <<>>)
    BY <2>1 DEF CompressedTo
  <2>4. QED
    BY <2>2, <2>3
<1>4. QED
  BY <1>3 DEF Work

-----------------------------------------------------------------------------
(* The output that is being written.                                       *)

LEMMA Idle ==
  ASSUME \/ ~ToFile'
         \/ pc' \in {"next", "open", "exit", "killed"}
         \/ pc' = "fail" /\ deleteOutputOnInterrupt'
  PROVE  Progress'
BY DEF Progress, Work

LEMMA Primes ==
  ASSUME cmd' = cmd, n' = n
  PROVE  /\ Written' = files'[Out] \o pend'
         /\ files[Out]' = files'[Out]
         /\ Work(pc, in, rd, rerr, streamNo, inStream, Written)' <=>
              Work(pc', in', rd', rerr', streamNo', inStream', Written')
<1>1. Written' = files'[Out] \o pend' /\ files[Out]' = files'[Out]
  BY DEF Written, Out, OutName, In
<1>2. Complete(in)' = Complete(in')
  BY DEF Complete
<1>3. QED
  BY <1>1, <1>2 DEF Work

LEMMA ProgressOpen ==
  ASSUME Filesystem, Typed, ToFile, StepKind, OpenFiles
  PROVE  Progress'
<1>1. /\ pc = "open" /\ pc' = "stream" /\ n' = n /\ cmd' = cmd /\ cmd.op # "test"
      /\ pend' = pend /\ files[In] # Absent /\ files' = [files EXCEPT ![Out] = <<>>]
      /\ in' = files[In] /\ rd' = 1 /\ streamNo' = 0 /\ inStream' = FALSE /\ deleteOutputOnInterrupt'
  BY DEF OpenFiles, ToFile, conf
<1>2. /\ pend = <<>> /\ files[In] # Dir /\ n <= Len(cmd.args) /\ \A x \in DOMAIN files : files[x] \in Content
  BY <1>1 DEF Typed, TypedCtl, TypedFiles
<1>3. In \in DOMAIN files /\ Out \in DOMAIN files
  BY <1>2, Layout
<1>4. in' \in Seq(Token)
  BY <1>1, <1>2, <1>3 DEF Content
<1>5. Written' = <<>>
  BY <1>1, <1>2, <1>3, Primes
<1>6. Work(pc', in', rd', rerr', streamNo', inStream', Written')
  BY <1>1, <1>4, <1>5, WorkBegins
<1>7. QED
  BY <1>1, <1>6, Primes DEF Progress

LEMMA ProgressChunk ==
  ASSUME Filesystem, Typed, Progress, ToFile, CompressChunk \/ CompressFinish \/ StreamBlock \/ CatChunk
  PROVE  Progress'
<1>1. /\ cmd' = cmd /\ n' = n /\ pc \in {"stream", "cat"}
      /\ deleteOutputOnInterrupt' = deleteOutputOnInterrupt
      /\ pc' \in {"stream", "cat", "close", "fail"}
  BY DEF CompressChunk, CompressFinish, StreamBlock, CatChunk, conf, stream, FailWith, Proceed, ToFile
<1>2. /\ deleteOutputOnInterrupt /\ cmd.op \in {"compress", "uncompress"}
      /\ Work(pc, in, rd, rerr, streamNo, inStream, Written)
  BY <1>1, Layout DEF Progress, ToFile
<1>3. /\ in \in Seq(Token) /\ rd \in Nat \ {0} /\ files[Out] \in Seq(Token) /\ pend \in Seq(Token)
      /\ n <= Len(cmd.args)
  BY <1>1 DEF Typed, TypedCtl, TypedFiles, Ours
<1>4. Out \in DOMAIN files
  BY <1>3, Layout
<1>5. PICK toks \in Seq(Token) :
        /\ fwrite(toks) \/ fflush(toks)
        /\ werr' => pc' = "fail"
        /\ Work(pc', in', rd', rerr', streamNo', inStream', Written \o toks)
  BY <1>2, <1>3, WorkChunk
<1>6. CASE pc' = "fail"
  BY <1>1, <1>2, <1>6, Idle
<1>7. CASE pc' # "fail"
  <2>1. WritesTo(toks) /\ ~werr'
    BY <1>3, <1>4, <1>5, <1>7, FlushWrites, WriteWrites
  <2>2. Written' = Written \o toks
    BY <1>1, <2>1, Primes DEF WritesTo
  <2>3. QED
    BY <1>1, <1>2, <1>5, <1>7, <2>2, Primes DEF Progress
<1>8. QED
  BY <1>6, <1>7

LEMMA ProgressReader ==
  ASSUME Filesystem, Typed, Progress, ToFile,
         StreamHeader \/ StreamTrailer \/ StreamEnds \/ StreamCorrupt \/ StreamMagic \/ CatEnds \/ ReadFails
  PROVE  Progress'
<1>1. /\ cmd' = cmd /\ pend' = pend /\ files' = files /\ pc \in {"stream", "cat"} /\ cmd.op # "test"
      /\ deleteOutputOnInterrupt' = deleteOutputOnInterrupt
  BY DEF StreamHeader, StreamTrailer, StreamEnds, StreamCorrupt, StreamMagic, CatEnds, ReadFails,
     conf, disk, ToFile
<1>2. n' = n /\ pc' \in {"stream", "cat", "close", "magic", "fail"}
  BY <1>1 DEF StreamHeader, StreamTrailer, StreamEnds, StreamCorrupt, StreamMagic, CatEnds, ReadFails,
     BrokenStream, FailWith
<1>3. /\ deleteOutputOnInterrupt /\ cmd.op \in {"compress", "uncompress"}
      /\ Work(pc, in, rd, rerr, streamNo, inStream, Written)
  BY <1>1, Layout DEF Progress, ToFile
<1>4. in \in Seq(Token) /\ rd \in Nat \ {0}
  BY <1>1 DEF Typed, TypedCtl, TypedFiles, Ours
<1>5. Work(pc', in', rd', rerr', streamNo', inStream', Written)
  BY <1>3, <1>4, WorkReader
<1>6. Written' = Written
  BY <1>1, <1>2 DEF Written, Out, OutName, In
<1>7. CASE pc' = "fail"
  BY <1>1, <1>3, <1>7, Idle
<1>8. CASE pc' # "fail"
  BY <1>1, <1>2, <1>3, <1>5, <1>6, <1>8, Primes DEF Progress
<1>9. QED
  BY <1>7, <1>8

LEMMA ProgressEnd ==
  ASSUME Filesystem, Typed, Progress, ToFile,
         CloseFiles \/ BadMagic \/ NotBzip2 \/ StampOutput \/ RemoveInput \/ CleanUpAndFail
  PROVE  Progress'
<1>1. /\ cmd' = cmd /\ in' = in /\ cmd.op # "test"
      /\ Complete(in)' = Complete(in)
  <2>1. cmd' = cmd /\ in' = in
    BY DEF CloseFiles, BadMagic, NotBzip2, StampOutput, RemoveInput, CleanUpAndFail, conf, stream
  <2>2. QED
    BY <2>1 DEF ToFile, Complete
<1>2. n' = n => files[Out]' = files'[Out]
  BY <1>1 DEF Out, OutName, In
<1>3. pc \in Ours
  BY DEF CloseFiles, BadMagic, NotBzip2, StampOutput, RemoveInput, CleanUpAndFail, Ours, Late
<1>4. /\ files[Out] \in Seq(Token) /\ pend \in Seq(Token) /\ n <= Len(cmd.args) /\ Out \in DOMAIN files
  <2>1. n <= Len(cmd.args) /\ files[Out] \in Seq(Token) /\ pend \in Seq(Token)
    BY <1>3 DEF Typed, TypedCtl, TypedFiles, Ours, Late
  <2>2. QED
    BY <2>1, Layout
<1>5. CASE CloseFiles
  <2>1. /\ pc = "close" /\ n' = n /\ deleteOutputOnInterrupt' /\ fflush(<<>>)
        /\ pc' = "fail" \/ (pc' = "stamp" /\ ~rerr /\ ~werr')
    BY <1>1, <1>5 DEF CloseFiles, FailWith, Proceed, ferror, Progress
  <2>2. <<>> \in Seq(Token)
    OBVIOUS
  <2>3. WritesTo(<<>>) /\ pend' = <<>>
    BY <1>4, <2>1, <2>2, FlushWrites
  <2>4. CASE pc' = "fail"
    BY <2>1, <2>4, Idle
  <2>5. CASE pc' = "stamp" /\ ~rerr /\ ~werr'
    <3>1. files'[Out] \o <<>> = Written \o <<>> /\ files'[Out] \in Seq(Token)
      BY <2>3, <2>5 DEF WritesTo
    <3>2. Written \in Seq(Token)
      BY <1>4 DEF Written
    <3>3. files'[Out] = Written
      BY <3>1, <3>2
    <3>4. Written \in Complete(in)
      BY <2>1, <2>5 DEF Progress, Work
    <3>5. QED
      BY <1>1, <1>2, <2>1, <2>5, <3>3, <3>4 DEF Progress, Work
  <2>6. QED
    BY <2>1, <2>4, <2>5
<1>6. CASE BadMagic
  <2>1. /\ pc = "magic" /\ n' = n /\ deleteOutputOnInterrupt' = deleteOutputOnInterrupt
        /\ pc' = IF streamNo = 1 THEN "notbzip2" ELSE "stamp"
        /\ files'[Out] = Written
    BY <1>1, <1>6, MagicStep DEF BadMagic
  <2>2. /\ deleteOutputOnInterrupt
        /\ IF streamNo = 1 THEN Written = <<>> ELSE Written \in Complete(in)
    BY <2>1 DEF Progress, Work
  <2>3. QED
    BY <1>1, <1>2, <2>1, <2>2 DEF Progress, Work
<1>7. CASE NotBzip2
  <2>1. CASE pc' = "next"
    BY <2>1, Idle
  <2>2. CASE pc' = "fail"
    <3>1. /\ pc = "notbzip2" /\ files' = files /\ n' = n /\ pend' = pend
      BY <1>7, <2>2 DEF NotBzip2, NextArgument
    <3>2. files[Out] = <<>> /\ pend = <<>>
      BY <3>1 DEF Typed, TypedCtl, Progress
    <3>3. QED
      BY <1>2, <2>2, <3>1, <3>2 DEF Progress, Work
  <2>3. QED
    BY <1>7, <2>1, <2>2 DEF NotBzip2, NextArgument, FailWith
<1>8. CASE StampOutput
  <2>1. pc = "stamp" /\ files' = files /\ files[Out] \in Complete(in) /\ deleteOutputOnInterrupt
    BY <1>8 DEF StampOutput, disk, Progress
  <2>2. CASE pc' = "next"
    BY <2>2, Idle
  <2>3. CASE pc' = "fail"
    BY <1>8, <2>1, <2>3, Idle DEF StampOutput, NextArgument, Proceed
  <2>4. CASE pc' = "remove"
    <3>1. n' = n
      BY <1>8, <2>4 DEF StampOutput, NextArgument
    <3>2. QED
      BY <1>1, <1>2, <2>1, <2>4, <3>1 DEF Progress, Work
  <2>5. QED
    BY <1>8, <2>2, <2>3, <2>4 DEF StampOutput, NextArgument, Proceed, FailWith
<1>9. CASE RemoveInput
  <2>1. CASE pc' = "next"
    BY <2>1, Idle
  <2>2. CASE pc' = "fail"
    <3>1. pc = "remove" /\ files' = files /\ n' = n /\ pend' = pend
      BY <1>9, <2>2 DEF RemoveInput, NextArgument
    <3>2. files[Out] \in Complete(in) /\ pend = <<>>
      BY <3>1 DEF Typed, TypedCtl, Progress
    <3>3. QED
      BY <1>1, <1>2, <2>2, <3>1, <3>2 DEF Progress, Work
  <2>3. QED
    BY <1>9, <2>1, <2>2 DEF RemoveInput, NextArgument, FailWith
<1>10. CASE CleanUpAndFail
  <2>1. CASE pc' = "exit"
    BY <2>1, Idle
  <2>2. CASE pc' = "unlink"
    <3>1. pc = "fail" /\ setExit(ec)
      BY <1>10 DEF CleanUpAndFail
    <3>2. ec \in {1, 2} /\ exitValue \in Nat
      BY <3>1 DEF Typed, TypedCtl
    <3>3. exitValue' > 0
      BY <3>1, <3>2 DEF setExit
    <3>4. QED
      BY <2>2, <3>3 DEF Progress, Work
  <2>3. QED
    BY <1>10, <2>1, <2>2 DEF CleanUpAndFail
<1>11. QED
  BY <1>5, <1>6, <1>7, <1>8, <1>9, <1>10

LEMMA ProgressStep ==
  ASSUME Filesystem, Typed, Progress, [Bzip2Next]_bzip2Vars
  PROVE  Progress'
<1>1. StepKind
  BY Kinds
<1>2. cmd' = cmd /\ (ToFile' <=> ToFile)
  BY <1>1, Frame
<1>3. CASE ~ToFile
  BY <1>2, <1>3, Idle
<1>4. CASE ToFile /\ (CheckRefused \/ CheckAccepted \/ MetaInfoFails \/ OpenFails \/ DeleteOutput \/ Exit
                      \/ Kill)
  BY <1>4, Idle DEF CheckRefused, CheckAccepted, MetaInfoFails, OpenFails, DeleteOutput, Exit, Kill, NextArgument
<1>5. CASE ToFile /\ OpenFiles
  BY <1>1, <1>5, ProgressOpen
<1>6. CASE ToFile /\ (CompressChunk \/ CompressFinish \/ StreamBlock \/ CatChunk)
  BY <1>6, ProgressChunk
<1>7. CASE ToFile /\ (StreamHeader \/ StreamTrailer \/ StreamEnds \/ StreamCorrupt \/ StreamMagic
                      \/ CatEnds \/ ReadFails)
  BY <1>7, ProgressReader
<1>8. CASE ToFile /\ (CloseFiles \/ BadMagic \/ NotBzip2 \/ StampOutput \/ RemoveInput \/ CleanUpAndFail)
  BY <1>8, ProgressEnd
<1>9. CASE ToFile /\ (OtherCreates \/ OtherRemoves \/ UNCHANGED bzip2Vars)
  <2>1. CASE pc \notin Ours
    <3>1. pc' = pc /\ pc \in PCs
      BY <1>9 DEF OtherCreates, OtherRemoves, bzip2Vars, Typed, TypedCtl
    <3>2. QED
      BY <2>1, <3>1, Idle DEF PCs
  <2>2. CASE pc \in Ours
    <3>1. n <= Len(cmd.args) /\ files[Out] \in Seq(Token)
      BY <1>9, <2>2 DEF Typed, TypedCtl, TypedFiles, Ours, Late
    <3>2. In # Out /\ In \in DOMAIN files /\ Out \in DOMAIN files
      BY <3>1, Layout
    <3>3. ~OtherCreates
      BY <3>1, AbsentIsNoFile DEF OtherCreates
    <3>4. /\ UNCHANGED <<pc, n, cmd, in, rd, rerr, streamNo, inStream, pend, exitValue, deleteOutputOnInterrupt>>
          /\ files'[Out] = files[Out]
      BY <1>9, <3>2, <3>3 DEF OtherRemoves, bzip2Vars, stream, status, conf, disk
    <3>5. /\ Written' = Written /\ files[Out]' = files[Out] /\ Complete(in)' = Complete(in)
      BY <3>4 DEF Written, Out, OutName, In, Complete
    <3>6. Work(pc, in, rd, rerr, streamNo, inStream, Written)' <=>
            Work(pc, in, rd, rerr, streamNo, inStream, Written)
      BY <3>4, <3>5, Primes DEF Work
    <3>7. QED
      BY <1>2, <3>4, <3>5, <3>6 DEF Progress
  <2>3. QED
    BY <2>1, <2>2
<1>10. QED
  BY <1>3, <1>4, <1>5, <1>6, <1>7, <1>8, <1>9 DEF Bzip2Next, Program, Bzip2Done

-----------------------------------------------------------------------------
(* The named files.                                                        *)

\* A file that is as it was found, or was taken away by others.
LEMMA QuietKept ==
  ASSUME orig' = orig, NEW p, files'[p] \in {orig[p], Absent}, p \notin kept', ~Gone(p)'
  PROVE  Kept(p)' /\ Elsewhere(p)' /\ ((pc' \in Ours => in' = orig[p]) => Turn(p)')
BY DEF Kept, Elsewhere, Turn

LEMMA SameKept ==
  ASSUME cmd' = cmd, orig' = orig, n \in Nat, n' \in {n, n + 1}, NEW p, Kept(p),
         files'[p] = files[p], files'[OutName(p)] = files[OutName(p)],
         p \in foreign' <=> p \in foreign, p \in kept' <=> p \in kept
  PROVE  Kept(p)' /\ (Gone(p)' <=> Gone(p))
<1>1. OutName(p)' = OutName(p) /\ Complete(orig[p])' = Complete(orig[p])
  BY DEF OutName, Complete
<1>2. Gone(p)' <=> Gone(p)
  BY DEF Gone
<1>3. Reached(p) => Reached(p)'
  <2>1. \A i \in 1 .. Len(cmd.args) : i <= n => i <= n'
    OBVIOUS
  <2>2. QED
    BY <2>1 DEF Reached
<1>4. QED
  BY <1>1, <1>2, <1>3 DEF Kept

LEMMA SafeStep ==
  ASSUME Filesystem, Typed, Progress, Safe, StepKind, NEW p \in Named, Independent(p)
  PROVE  Kept(p)' /\ Elsewhere(p)' /\ Turn(p)'
<1> DEFINE o == OutName(p)
<1>1. Kept(p) /\ Elsewhere(p) /\ Turn(p)
  BY DEF Safe
<1>2. /\ cmd' = cmd /\ orig' = orig /\ (ToFile' <=> ToFile) /\ OutName(p)' = o
      /\ Complete(orig[p])' = Complete(orig[p])
      /\ n' = n => In' = In /\ Out' = Out
  <2>1. cmd' = cmd /\ orig' = orig /\ (ToFile' <=> ToFile) /\ OutName(p)' = OutName(p)
        /\ (n' = n => In' = In /\ Out' = Out)
    BY Frame
  <2>2. QED
    BY <2>1 DEF Complete
<1>3. /\ p \in DOMAIN files /\ o \in DOMAIN files /\ o # p
      /\ n <= Len(cmd.args) => In \in Named /\ In \in DOMAIN files /\ Out \in DOMAIN files /\ Out # In
  BY Layout
<1>4. n \in Nat \ {0} /\ (pc \notin {"next", "exit", "killed"} => n <= Len(cmd.args)) /\ TypedFiles
  BY DEF Typed, TypedCtl
<1>5. /\ Absent \notin Seq(Token) /\ Absent \notin Complete(orig[p])
  <2>1. orig[p] \in Content /\ cmd.op \in {"compress", "uncompress", "test"}
    BY <1>3, <1>4, Layout DEF Filesystem, TypedFiles
  <2>2. QED
    BY <2>1, CompleteTyped, AbsentIsNoFile
<1>6. files[p] \in {orig[p], Absent} /\ (p \in kept => files[p] = Absent /\ files[o] # Absent)
      /\ (Gone(p) => files[o] \in Complete(orig[p])) /\ (p \in kept \/ Gone(p) => Reached(p))
  BY <1>1 DEF Kept
<1>7. /\ n <= Len(cmd.args) => Out # p
      /\ In = p => Out = o
  BY <1>3 DEF Independent, Out
<1>8. files[o] = Absent => p \notin kept /\ ~Gone(p)
  BY <1>5, <1>6
<1>9. ASSUME In # p, In = o, n <= Len(cmd.args) PROVE p \notin kept /\ ~Gone(p)
  <2>1. ASSUME NEW i \in 1 .. Len(cmd.args), i <= n, cmd.args[i] = p PROVE FALSE
    <3>1. i # n
      BY <1>9, <2>1 DEF In
    <3>2. i < n /\ n \in 1 .. Len(cmd.args)
      BY <1>4, <1>9, <2>1, <3>1
    <3>3. cmd.args[n] # OutName(p)
      BY <2>1, <3>2 DEF Independent
    <3>4. QED
      BY <1>9, <3>3 DEF In
  <2>2. QED
    BY <1>6, <2>1 DEF Reached
<1> HIDE DEF o
<1> USE DEF Ours, Late
\* When only the directory's other entries change.
<1>10. ASSUME n' \in {n, n + 1}, files'[p] = files[p], files'[o] = files[o],
              p \in foreign' <=> p \in foreign, p \in kept' <=> p \in kept
       PROVE  Kept(p)' /\ (Gone(p)' <=> Gone(p))
  BY <1>1, <1>2, <1>4, <1>10, SameKept DEF o
\* When the output changes that an untouched file would have.
<1>11. ASSUME files'[p] = files[p], p \in foreign' <=> p \in foreign, p \in kept' <=> p \in kept,
              p \notin kept, ~Gone(p)
       PROVE  /\ Kept(p)' /\ Elsewhere(p)' /\ ((pc' \in Ours => in' = orig[p]) => Turn(p)')
  <2>1. ~Gone(p)'
    BY <1>2, <1>11 DEF Gone
  <2>2. QED
    BY <1>2, <1>6, <1>11, <2>1, QuietKept
<1>12. CASE Stays
  <2>1. Kept(p)' /\ (Gone(p)' <=> Gone(p)) /\ kept' = kept
    BY <1>10, <1>12 DEF Stays, Same
  <2>2. ToFile' /\ pc' \in Ours \cup {"open"} =>
          /\ In' = In /\ Out' = Out /\ in' = in /\ ToFile
          /\ IF pc' = "open" THEN pc = "open" ELSE pc \in Ours
          /\ pc' \in Late \/ pc \notin Late \/ files[In] # Absent
    BY <1>2, <1>12 DEF Stays
  <2>3. Elsewhere(p)'
    BY <1>1, <1>2, <2>1, <2>2 DEF Elsewhere, o
  <2>4. ToFile' /\ pc' \in Ours \cup {"open"} /\ In' = p /\ pc' \notin Late => p \notin kept
    BY <1>1, <1>6, <2>2 DEF Turn
  <2>5. Turn(p)'
    BY <1>1, <1>2, <2>1, <2>2, <2>4 DEF Turn
  <2>6. QED
    BY <2>1, <2>3, <2>5
<1>13. CASE Writes
  <2>1. /\ n <= Len(cmd.args) /\ ToFile /\ pc \in Ours /\ kept' = kept /\ foreign' = foreign /\ in' = in
        /\ In' = In /\ Out' = Out /\ n' = n /\ files'[p] = files[p] /\ files'[Out] # Absent
        /\ pc \in Late => pc' = "exit"
    BY <1>2, <1>3, <1>4, <1>5, <1>7, <1>13 DEF Writes, OnlyOut, Same
  <2>2. CASE p \notin kept /\ ~Gone(p)
    <3>1. Turn(p)'
      BY <1>1, <1>2, <1>11, <2>1, <2>2 DEF Turn
    <3>2. QED
      BY <1>11, <2>1, <2>2, <3>1
  <2>3. CASE Out # o
    <3>1. files'[o] = files[o]
      BY <1>3, <1>13, <2>3 DEF Writes, OnlyOut
    <3>2. Kept(p)'
      BY <1>10, <2>1, <3>1
    <3>3. Elsewhere(p)' /\ Turn(p)'
      BY <1>2, <1>7, <2>1, <2>3 DEF Elsewhere, Turn
    <3>4. QED
      BY <3>2, <3>3
  <2>4. CASE Out = o /\ p \in kept
    <3>1. In = p /\ pc \in Late /\ ~Gone(p) /\ pc' = "exit"
      BY <1>1, <2>1, <2>4 DEF Elsewhere, Turn, o
    <3>2. Elsewhere(p)' /\ Turn(p)'
      BY <3>1 DEF Elsewhere, Turn
    <3>3. ~Gone(p)' /\ Reached(p)'
      <4>1. ~Gone(p)'
        BY <1>2, <2>1, <3>1 DEF Gone
      <4>2. Reached(p)'
        BY <1>2, <1>6, <2>1, <2>4 DEF Reached
      <4>3. QED
        BY <4>1, <4>2
    <3>4. Kept(p)'
      BY <1>2, <1>6, <2>1, <2>4, <3>3 DEF Kept
    <3>5. QED
      BY <3>2, <3>4
  <2>5. CASE Out = o /\ Gone(p)
    BY <1>1, <2>1, <2>5 DEF Elsewhere, Turn, o
  <2>6. QED
    BY <2>2, <2>3, <2>4, <2>5
<1>14. CASE Clears
  <2>1. /\ n <= Len(cmd.args) /\ ToFile /\ pc \in Ours \ Late /\ kept' = kept /\ foreign' = foreign
        /\ files'[p] = files[p] /\ pc' \notin Ours \cup {"open"} /\ n' \in {n, n + 1}
    BY <1>3, <1>4, <1>7, <1>14 DEF Clears, OnlyOut, Same
  <2>2. CASE Out # o
    <3>1. files'[o] = files[o]
      BY <1>3, <1>14, <2>2 DEF Clears, OnlyOut
    <3>2. QED
      BY <1>10, <2>1, <3>1 DEF Elsewhere, Turn
  <2>3. CASE Out = o
    <3>1. p \notin kept /\ ~Gone(p)
      BY <1>1, <2>1, <2>3 DEF Elsewhere, Turn, o
    <3>2. QED
      BY <1>11, <2>1, <3>1
  <2>4. QED
    BY <2>2, <2>3
<1>15. CASE Makes
  <2>1. /\ n <= Len(cmd.args) /\ ToFile /\ kept' = kept /\ foreign' = foreign
        /\ files'[p] = files[p] /\ n' \in {n, n + 1} /\ files[Out] = Absent
        /\ pc' \in Ours \cup {"open"} => /\ In' = In /\ Out' = Out
                                         /\ files[In] # Absent /\ in' = files[In]
    BY <1>2, <1>3, <1>4, <1>7, <1>15 DEF Makes, OnlyOut, Same
  <2>2. CASE Out # o
    <3>1. files'[o] = files[o]
      BY <1>3, <1>15, <2>2 DEF Makes, OnlyOut
    <3>2. Elsewhere(p)' /\ Turn(p)'
      BY <1>2, <1>7, <2>1, <2>2 DEF Elsewhere, Turn
    <3>3. QED
      BY <1>10, <2>1, <3>1, <3>2
  <2>3. CASE Out = o
    <3>1. p \notin kept /\ ~Gone(p)
      BY <1>8, <2>1, <2>3
    <3>2. Kept(p)' /\ Elsewhere(p)' /\ ~Gone(p)'
      <4>1. ~Gone(p)'
        BY <1>2, <2>1, <3>1 DEF Gone
      <4>2. QED
        BY <1>11, <2>1, <3>1, <4>1
    <3>3. Turn(p)'
      BY <1>2, <1>6, <2>1, <3>1, <3>2 DEF Turn
    <3>4. QED
      BY <3>2, <3>3
  <2>4. QED
    BY <2>2, <2>3
<1>16. CASE Accepts
  <2>1. /\ n <= Len(cmd.args) /\ ToFile /\ kept' = kept /\ foreign' = foreign
        /\ files'[p] = files[p] /\ n' = n /\ files[In] # Absent /\ pc' = "open"
        /\ In' = In /\ ~cmd.force => files[Out] = Absent
    BY <1>2, <1>3, <1>4, <1>7, <1>16 DEF Accepts, OnlyOut, Same, Refused, ToFile
  <2>2. CASE Out # o
    <3>1. files'[o] = files[o]
      BY <1>3, <1>16, <2>2 DEF Accepts, OnlyOut
    <3>2. Elsewhere(p)' /\ Turn(p)'
      BY <1>2, <1>7, <2>1, <2>2 DEF Elsewhere, Turn
    <3>3. QED
      BY <1>10, <2>1, <3>1, <3>2
  <2>3. CASE Out = o
    <3>1. p \notin kept /\ ~Gone(p)
      <4>1. CASE In = p
        BY <1>6, <2>1, <4>1 DEF Gone
      <4>2. CASE In # p
        <5>1. ~cmd.force
          BY <1>3, <2>1, <2>3, <4>2 DEF Independent, Out, o
        <5>2. QED
          BY <1>2, <1>8, <1>16, <2>1, <2>3, <5>1 DEF Accepts
      <4>3. QED
        BY <4>1, <4>2
    <3>2. QED
      BY <1>11, <2>1, <3>1
  <2>4. QED
    BY <2>2, <2>3
<1>21. CASE Declines
  <2>1. /\ n <= Len(cmd.args) /\ ToFile /\ kept' = kept /\ foreign' = foreign
        /\ files' = files /\ n' = n /\ files[In] # Absent /\ pc' = "open" /\ In' = In
    BY <1>2, <1>21 DEF Declines, Same, Refused, ToFile
  <2>2. Kept(p)' /\ (Gone(p)' <=> Gone(p))
    BY <1>10, <2>1
  <2>3. Elsewhere(p)'
    BY <2>1 DEF Elsewhere
  <2>4. In = p => p \notin kept /\ ~Gone(p)
    BY <1>6, <2>1 DEF Gone
  <2>5. Turn(p)'
    BY <2>1, <2>2, <2>4 DEF Turn
  <2>6. QED
    BY <2>2, <2>3, <2>5
<1>17. CASE TakesIn
  <2>1. /\ n <= Len(cmd.args) /\ ToFile /\ pc = "remove" /\ kept' = kept /\ foreign' = foreign
        /\ n' = n + 1 /\ pc' = "next" /\ In \in DOMAIN files /\ files[In] # Absent
        /\ files' = [files EXCEPT ![In] = Absent]
    BY <1>3, <1>4, <1>17 DEF TakesIn, Same
  <2>2. Elsewhere(p)' /\ Turn(p)'
    BY <2>1 DEF Elsewhere, Turn
  <2>3. CASE In = p
    <3>1. files'[p] = Absent /\ files'[o] = files[o] /\ p \notin kept
      BY <1>3, <1>6, <2>1, <2>3
    <3>2. files[o] \in Complete(orig[p])
      <4>1. files[Out] \in Complete(in) /\ in = orig[p]
        BY <1>1, <2>1, <2>3 DEF Progress, Turn
      <4>2. QED
        BY <1>7, <2>3, <4>1
    <3>3. Reached(p)'
      <4>1. n \in 1 .. Len(cmd.args) /\ n <= n' /\ cmd.args[n] = p
        BY <1>4, <2>1, <2>3 DEF In
      <4>2. QED
        BY <1>2, <4>1 DEF Reached
    <3>4. Kept(p)'
      BY <1>2, <2>1, <3>1, <3>2, <3>3 DEF Kept
    <3>5. QED
      BY <2>2, <3>4
  <2>4. CASE In # p /\ In # o
    BY <1>3, <1>10, <2>1, <2>2, <2>4
  <2>5. CASE In # p /\ In = o
    <3>1. p \notin kept /\ ~Gone(p) /\ files'[p] = files[p]
      BY <1>3, <1>9, <2>1, <2>5
    <3>2. QED
      BY <1>11, <2>1, <2>2, <3>1
  <2>6. QED
    BY <2>3, <2>4, <2>5
<1>18. CASE OtherCreates
  <2>1. /\ n <= Len(cmd.args) /\ ToFile /\ kept' = kept /\ foreign' = foreign \cup {Out} /\ pc' = pc
        /\ n' = n /\ In' = In /\ Out' = Out /\ in' = in
        /\ files[Out] = Absent /\ files' = [files EXCEPT ![Out] = Foreign]
    BY <1>2, <1>18 DEF OtherCreates, Running, stream
  <2>2. files'[p] = files[p] /\ (p \in foreign' <=> p \in foreign)
    BY <1>3, <1>7, <2>1
  <2>3. CASE Out # o
    <3>1. files'[o] = files[o]
      BY <1>3, <2>1, <2>3
    <3>2. Elsewhere(p)' /\ Turn(p)'
      BY <1>2, <1>7, <2>1, <2>3 DEF Elsewhere, Turn
    <3>3. QED
      BY <1>10, <2>1, <2>2, <3>1, <3>2
  <2>4. CASE Out = o
    <3>1. p \notin kept /\ ~Gone(p)
      BY <1>8, <2>1, <2>4
    <3>2. Kept(p)' /\ Elsewhere(p)' /\ ~Gone(p)'
      <4>1. ~Gone(p)'
        BY <1>2, <2>2, <3>1 DEF Gone
      <4>2. QED
        BY <1>11, <2>1, <2>2, <3>1, <4>1
    <3>3. Turn(p)'
      BY <1>1, <1>2, <2>1, <3>1, <3>2 DEF Turn
    <3>4. QED
      BY <3>2, <3>3
  <2>5. QED
    BY <2>3, <2>4
<1>19. CASE OtherRemoves
  <2>1. /\ n <= Len(cmd.args) /\ foreign' = foreign \cup {In} /\ pc' = pc
        /\ n' = n /\ In' = In /\ Out' = Out /\ in' = in /\ In \in DOMAIN files
        /\ files' = [files EXCEPT ![In] = Absent]
        /\ kept' = IF ToFile /\ pc \in Late /\ files[Out] # Absent THEN kept \cup {In} ELSE kept
    BY <1>2, <1>3, <1>19 DEF OtherRemoves, Running, stream
  <2>2. CASE In = p
    <3>1. files'[p] = Absent /\ files'[o] = files[o] /\ p \in foreign' /\ Out = o
      BY <1>3, <1>7, <2>1, <2>2
    <3>2. p \in kept' => files[o] # Absent
      BY <1>6, <2>1, <3>1
    <3>3. Reached(p)' /\ ~Gone(p)'
      <4>1. n \in 1 .. Len(cmd.args) /\ n <= n' /\ cmd.args[n] = p
        BY <1>4, <2>1, <2>2 DEF In
      <4>2. QED
        BY <1>2, <3>1, <4>1 DEF Reached, Gone
    <3>4. Kept(p)'
      BY <1>2, <3>1, <3>2, <3>3 DEF Kept
    <3>5. Elsewhere(p)'
      BY <2>1, <2>2 DEF Elsewhere
    <3>6. Turn(p)'
      BY <1>1, <1>2, <2>1, <2>2, <3>3 DEF Turn
    <3>7. QED
      BY <3>4, <3>5, <3>6
  <2>3. CASE In # p
    <3>1. files'[p] = files[p] /\ (p \in foreign' <=> p \in foreign) /\ (p \in kept' <=> p \in kept)
      BY <1>3, <2>1, <2>3
    <3>2. CASE In # o
      <4>1. files'[o] = files[o]
        BY <1>3, <2>1, <3>2
      <4>2. Kept(p)' /\ (Gone(p)' <=> Gone(p))
        BY <1>10, <2>1, <3>1, <4>1
      <4>3. Elsewhere(p)'
        BY <1>1, <1>2, <2>1, <3>1, <4>2 DEF Elsewhere, o
      <4>4. Turn(p)'
        BY <2>1, <2>3 DEF Turn
      <4>5. QED
        BY <4>2, <4>3, <4>4
    <3>3. CASE In = o
      <4>1. p \notin kept /\ ~Gone(p)
        BY <1>9, <2>1, <2>3, <3>3
      <4>2. Turn(p)'
        BY <2>1, <2>3 DEF Turn
      <4>3. QED
        BY <1>11, <3>1, <4>1, <4>2
    <3>4. QED
      BY <3>2, <3>3
  <2>4. QED
    BY <2>2, <2>3
<1>20. QED
  BY <1>12, <1>13, <1>14, <1>15, <1>16, <1>17, <1>18, <1>19, <1>21 DEF StepKind

-----------------------------------------------------------------------------
(* The files of others.                                                    *)

LEMMA UntouchedStep ==
  ASSUME Filesystem, Typed, Untouched, StepKind
  PROVE  Untouched'
<1> SUFFICES ASSUME ~cmd.force PROVE Untouched'
  <2>1. cmd' = cmd
    BY Frame
  <2>2. QED
    BY <2>1 DEF Untouched, ForeignKept
<1>1. /\ cmd' = cmd /\ orig' = orig /\ (ToFile' <=> ToFile) /\ Named' = Named
      /\ n' = n => In' = In /\ Out' = Out
  BY Frame
<1>2. /\ n <= Len(cmd.args) => In \in Named /\ In \in DOMAIN files /\ Out \in DOMAIN files /\ Out # In
      /\ (pc \notin {"next", "exit", "killed"} => n <= Len(cmd.args)) /\ TypedFiles
  BY Layout DEF Typed, TypedCtl
<1>3. \A p \in DOMAIN files \ Named : (orig[p] # Absent => files[p] = orig[p]) /\ (p \in foreign => files[p] = Foreign)
  BY DEF Untouched, ForeignKept
<1>4. ToFile /\ pc \in Ours /\ Out \notin Named => orig[Out] = Absent /\ Out \notin foreign
  BY DEF Untouched
<1>5. Absent # Foreign
  BY DEF Absent, Foreign
<1>6. ASSUME Out \in DOMAIN files \ Named, files[Out] = Absent PROVE orig[Out] = Absent /\ Out \notin foreign
  BY <1>3, <1>5, <1>6
<1> DEFINE Keeps == /\ DOMAIN files' = DOMAIN files
                    /\ \A p \in DOMAIN files \ Named :
                         /\ orig[p] # Absent => files'[p] = orig[p]
                         /\ p \in foreign' => files'[p] = Foreign
           Fresh == ToFile /\ pc' \in Ours /\ Out' \notin Named => orig[Out'] = Absent /\ Out' \notin foreign'
<1>7. ASSUME Keeps, Fresh PROVE Untouched'
  <2>1. ForeignKept'
    <3>1. DOMAIN files' = DOMAIN files
      BY <1>7 DEF Keeps
    <3>2. ASSUME NEW x \in DOMAIN files \ Named
          PROVE  (orig'[x] # Absent => files'[x] = orig'[x]) /\ (x \in foreign' => files'[x] = Foreign)
      BY <1>1, <1>7 DEF Keeps
    <3>3. DOMAIN files' \ Named' = DOMAIN files \ Named
      BY <1>1, <3>1
    <3>4. QED
      BY <3>2, <3>3 DEF ForeignKept
  <2>2. QED
    BY <1>1, <1>7, <2>1 DEF Untouched, Fresh
<1> HIDE DEF Keeps, Fresh
<1>8. ASSUME OnlyOut, foreign' = foreign, Out \notin Named => orig[Out] = Absent /\ Out \notin foreign
      PROVE  Keeps
  BY <1>3, <1>8 DEF OnlyOut, Keeps
<1>9. CASE Stays
  <2>1. Keeps
    BY <1>3, <1>9 DEF Stays, Same, Keeps
  <2>2. Fresh
    BY <1>1, <1>4, <1>9 DEF Stays, Same, Ours, Late, Fresh
  <2>3. QED
    BY <1>7, <2>1, <2>2
<1>10. CASE Writes
  <2>1. Keeps
    BY <1>4, <1>8, <1>10 DEF Writes, Same
  <2>2. Fresh
    BY <1>1, <1>4, <1>10 DEF Writes, Same, Fresh
  <2>3. QED
    BY <1>7, <2>1, <2>2
<1>11. CASE Clears
  <2>1. Keeps
    BY <1>4, <1>8, <1>11 DEF Clears, Same, Ours, Late
  <2>2. Fresh
    BY <1>11 DEF Clears, Fresh, Ours, Late
  <2>3. QED
    BY <1>7, <2>1, <2>2
<1>12. CASE Makes \/ Accepts
  <2>1. Out \in DOMAIN files /\ files[Out] = Absent /\ foreign' = foreign /\ OnlyOut
    BY <1>2, <1>12 DEF Makes, Accepts, Same, Refused, ToFile
  <2>2. Keeps
    BY <1>6, <1>8, <2>1
  <2>3. Fresh
    BY <1>1, <1>6, <1>12, <2>1 DEF Makes, Accepts, Ours, Late, Fresh
  <2>4. QED
    BY <1>7, <2>2, <2>3
<1>13. CASE TakesIn
  <2>1. In \in Named /\ In \in DOMAIN files /\ foreign' = foreign /\ files' = [files EXCEPT ![In] = Absent]
    BY <1>2, <1>13 DEF TakesIn, Same
  <2>2. Keeps
    BY <1>3, <2>1 DEF Keeps
  <2>3. Fresh
    BY <1>13 DEF TakesIn, Fresh, Ours, Late
  <2>4. QED
    BY <1>7, <2>2, <2>3
<1>14. CASE OtherCreates
  <2>1. /\ Out \in DOMAIN files /\ files[Out] = Absent /\ foreign' = foreign \cup {Out} /\ pc' = pc /\ ToFile
        /\ files' = [files EXCEPT ![Out] = Foreign]
    BY <1>2, <1>14 DEF OtherCreates, Running
  <2>2. Keeps
    BY <1>3, <1>6, <2>1 DEF Keeps
  <2>3. Fresh
    BY <1>2, <2>1, AbsentIsNoFile DEF TypedFiles, Fresh
  <2>4. QED
    BY <1>7, <2>2, <2>3
<1>15. CASE OtherRemoves
  <2>1. /\ In \in Named /\ In \in DOMAIN files /\ foreign' = foreign \cup {In} /\ pc' = pc /\ n' = n
        /\ files' = [files EXCEPT ![In] = Absent]
    BY <1>2, <1>15 DEF OtherRemoves, Running
  <2>2. Keeps
    BY <1>3, <2>1 DEF Keeps
  <2>3. Fresh
    BY <1>1, <1>4, <2>1 DEF Fresh
  <2>4. QED
    BY <1>7, <2>2, <2>3
<1>16. QED
  BY <1>9, <1>10, <1>11, <1>12, <1>13, <1>14, <1>15 DEF StepKind, Declines

-----------------------------------------------------------------------------
(* The outputs that nothing is written to.                                 *)

LEMMA ExitGrows ==
  ASSUME exitValue \in Nat, [Bzip2Next]_bzip2Vars
  PROVE  exitValue # 0 => exitValue' # 0
<1>1. CASE CheckRefused \/ CheckAccepted \/ MetaInfoFails \/ OpenFiles \/ OpenFails
  BY <1>1 DEF CheckRefused, CheckAccepted, MetaInfoFails, OpenFiles, OpenFails, NextArgument, setExit, status
<1>2. CASE CompressChunk \/ CompressFinish \/ StreamHeader \/ StreamBlock \/ StreamTrailer \/ CatChunk \/ CatEnds
  BY <1>2 DEF CompressChunk, CompressFinish, StreamHeader, StreamBlock, StreamTrailer, CatChunk, CatEnds, status
<1>3. CASE StreamEnds \/ StreamCorrupt \/ StreamMagic \/ CloseFiles \/ BadMagic \/ ReadFails
  BY <1>3 DEF StreamEnds, StreamCorrupt, StreamMagic, CloseFiles, BadMagic, ReadFails, status
<1>4. CASE NotBzip2 \/ StampOutput \/ RemoveInput
  BY <1>4 DEF NotBzip2, StampOutput, RemoveInput, NextArgument, setExit, NotBzip2Value
<1>5. CASE CleanUpAndFail \/ DeleteOutput \/ Exit \/ Kill \/ OtherCreates \/ OtherRemoves \/ UNCHANGED bzip2Vars
  BY <1>5 DEF CleanUpAndFail, DeleteOutput, Exit, Kill, OtherCreates, OtherRemoves, setExit, status, bzip2Vars
<1>6. QED
  BY <1>1, <1>2, <1>3, <1>4, <1>5 DEF Bzip2Next, Program, Bzip2Done

\* A warning that was given stays given.
LEMMA WarnedGrows ==
  ASSUME [Bzip2Next]_bzip2Vars
  PROVE  warned \subseteq warned'
<1>1. CASE CheckRefused \/ CheckAccepted \/ MetaInfoFails \/ OpenFiles \/ OpenFails
  BY <1>1 DEF CheckRefused, CheckAccepted, MetaInfoFails, OpenFiles, OpenFails, outside
<1>2. CASE CompressChunk \/ CompressFinish \/ StreamHeader \/ StreamBlock \/ StreamTrailer \/ CatChunk \/ CatEnds
  BY <1>2 DEF CompressChunk, CompressFinish, StreamHeader, StreamBlock, StreamTrailer, CatChunk, CatEnds, outside
<1>3. CASE StreamEnds \/ StreamCorrupt \/ StreamMagic \/ CloseFiles \/ BadMagic \/ ReadFails
  BY <1>3 DEF StreamEnds, StreamCorrupt, StreamMagic, CloseFiles, BadMagic, ReadFails, outside
<1>4. CASE NotBzip2 \/ StampOutput \/ RemoveInput
  BY <1>4 DEF NotBzip2, StampOutput, RemoveInput, outside
<1>5. CASE CleanUpAndFail \/ DeleteOutput \/ Exit \/ Kill \/ OtherCreates \/ OtherRemoves \/ UNCHANGED bzip2Vars
  BY <1>5 DEF CleanUpAndFail, DeleteOutput, Exit, Kill, OtherCreates, OtherRemoves, outside, bzip2Vars
<1>6. QED
  BY <1>1, <1>2, <1>3, <1>4, <1>5 DEF Bzip2Next, Program, Bzip2Done

LEMMA TidyKept ==
  ASSUME cmd' = cmd, orig' = orig, exitValue # 0 => exitValue' # 0, foreign \subseteq foreign',
         warned \subseteq warned', NEW o, Tidy(o), files'[o] = files[o]
  PROVE  Tidy(o)'
<1>1. Named' = Named /\ \A q : OutName(q)' = OutName(q) /\ Complete(orig[q])' = Complete(orig[q])
  BY DEF Named, OutName, Complete
<1>2. QED
  BY <1>1 DEF Tidy

\* When the program is done with an output.
LEMMA LeavesTidy ==
  ASSUME Filesystem, Typed, Progress, Safe, [Bzip2Next]_bzip2Vars, ToFile, pc \in Ours, pc' \notin Ours \cup {"killed"},
         NEW o, o = Out, \A q \in Named : OutName(q) = o => Independent(q)
  PROVE  Tidy(o)'
<1>1. /\ cmd' = cmd /\ orig' = orig /\ Named' = Named
      /\ \A q : OutName(q)' = OutName(q) /\ Complete(orig[q])' = Complete(orig[q])
  <2>1. StepKind
    BY Kinds
  <2>2. cmd' = cmd /\ orig' = orig
    BY <2>1, Frame
  <2>3. QED
    BY <2>2 DEF Named, OutName, Complete
<1>2. /\ n <= Len(cmd.args) /\ TypedFiles /\ files[Out] \in Seq(Token) /\ pend \in Seq(Token)
  BY DEF Typed, TypedCtl, TypedFiles, Ours, Late
<1>3. PICK i : i = In /\ i \in Named /\ i \in DOMAIN files /\ o \in DOMAIN files /\ i # o /\ o = OutName(i)
  BY <1>2, Layout DEF Out
<1>4. in = orig[i] /\ Independent(i)
  BY <1>3 DEF Safe, Turn
<1>6. CASE Clears
  <2>1. files'[o] = Absent
    BY <1>6 DEF Clears
  <2>2. files'[o] = Absent
    BY <1>3, <2>1
  <2>3. QED
    BY <2>2 DEF Tidy
<1>7. ASSUME files'[o] \in Complete(in) PROVE Tidy(o)'
  <2>1. i \in Named' /\ OutName(i)' = o /\ files'[o] \in Complete(orig[i])'
    BY <1>1, <1>3, <1>4, <1>7
  <2>2. QED
    BY <2>1 DEF Tidy
<1>8. CASE RemoveInput
  <2>1. files'[o] = files[o] /\ pc = "remove"
    BY <1>3, <1>8 DEF RemoveInput
  <2>2. QED
    BY <1>2, <1>7, <2>1 DEF Progress
<1>9. CASE StampOutput
  <2>1. files' = files /\ pc = "stamp"
    BY <1>9 DEF StampOutput, disk
  <2>2. QED
    BY <1>2, <1>7, <2>1 DEF Progress
<1>10. CASE CleanUpAndFail
  <2>1. /\ pc = "fail" /\ setExit(ec) /\ pc' = "exit" /\ FlushAtExit
        /\ deleteOutputOnInterrupt => o \in warned'
    BY <1>3, <1>10 DEF CleanUpAndFail, MayDelete, Ours
  <2>2. exitValue' # 0
    <3>1. ec \in {1, 2} /\ exitValue \in Nat
      BY <2>1 DEF Typed, TypedCtl
    <3>2. QED
      BY <2>1, <3>1 DEF setExit
  <2>3. Deliver(pend)
    BY <2>1, Layout DEF FlushAtExit, Fault
  <2>4. files' = [files EXCEPT ![o] = files[o] \o pend]
    BY <2>3 DEF Deliver
  <2>5. CASE deleteOutputOnInterrupt
    BY <2>1, <2>2, <2>5 DEF Tidy
  <2>6. CASE ~deleteOutputOnInterrupt
    <3>1. pend = <<>> /\ files[o] \in Complete(in) \cup {<<>>}
      BY <2>1, <2>6 DEF Progress
    <3>2. files'[o] = files[o]
      BY <1>2, <2>4, <3>1
    <3>3. files'[o] = <<>> => Tidy(o)'
      BY <2>2 DEF Tidy
    <3>4. QED
      BY <1>2, <1>7, <3>1, <3>2, <3>3
  <2>7. QED
    BY <2>1, <2>5, <2>6
<1>11. CASE NotBzip2
  <2>1. files' = [files EXCEPT ![Out] = Absent]
    BY <1>11 DEF NotBzip2, FailWith, Ours, Late
  <2>2. files'[o] = Absent
    BY <1>3, <2>1
  <2>3. QED
    BY <2>2 DEF Tidy
<1>12. CASE DeleteOutput
  <2>1. CASE files' = [files EXCEPT ![Out] = Absent]
    <3>1. files'[o] = Absent
      BY <1>3, <2>1
    <3>2. QED
      BY <3>1 DEF Tidy
  <2>2. CASE warned' = warned \cup {Out}
    <3>1. exitValue' # 0
      <4>1. pc = "unlink" /\ exitValue' = exitValue
        BY <1>12 DEF DeleteOutput, status
      <4>2. exitValue > 0 /\ exitValue \in Nat
        BY <4>1 DEF Progress, Typed, TypedCtl
      <4>3. QED
        BY <4>1, <4>2
    <3>2. QED
      BY <2>2, <3>1 DEF Tidy
  <2>3. QED
    BY <1>12, <2>1, <2>2 DEF DeleteOutput
<1>13. ~(CheckRefused \/ CheckAccepted \/ MetaInfoFails \/ OpenFiles \/ OpenFails \/ Exit \/ Kill)
  BY DEF CheckRefused, CheckAccepted, MetaInfoFails, OpenFiles, OpenFails, Exit, Kill, Ours, Late
<1>14. cmd.op # "test"
  BY DEF ToFile
<1>15. ~(CompressChunk \/ CompressFinish \/ StreamHeader \/ StreamBlock \/ StreamTrailer \/ CatChunk \/ CatEnds)
  BY <1>14 DEF CompressChunk, CompressFinish, StreamHeader, StreamBlock, StreamTrailer, CatChunk, CatEnds,
     FailWith, Proceed, Ours, Late
<1>16. ~(StreamEnds \/ StreamCorrupt \/ StreamMagic \/ CloseFiles \/ BadMagic \/ ReadFails)
  BY <1>14 DEF StreamEnds, StreamCorrupt, StreamMagic, CloseFiles, BadMagic, ReadFails, BrokenStream,
     FailWith, Proceed, Ours, Late
<1>17. ~(OtherCreates \/ OtherRemoves \/ UNCHANGED bzip2Vars)
  BY DEF OtherCreates, OtherRemoves, bzip2Vars
<1>18. QED
  BY <1>2, <1>8, <1>9, <1>10, <1>11, <1>12, <1>13, <1>15, <1>16, <1>17 DEF Bzip2Next, Program, Bzip2Done

LEMMA KilledStays ==
  ASSUME pc = "killed", [Bzip2Next]_bzip2Vars
  PROVE  pc' = "killed"
BY DEF Bzip2Next, Program, Bzip2Done, Running, bzip2Vars, CheckRefused, CheckAccepted, MetaInfoFails, OpenFiles, OpenFails, CompressChunk,
   CompressFinish, StreamHeader, StreamBlock, StreamTrailer, StreamEnds, StreamCorrupt, StreamMagic, CatChunk,
   CatEnds, CloseFiles, BadMagic, NotBzip2, StampOutput, RemoveInput, CleanUpAndFail, DeleteOutput, Exit,
   ReadFails, Kill, OtherCreates, OtherRemoves

LEMMA SettledStep ==
  ASSUME Filesystem, Typed, Progress, Safe, Settled, [Bzip2Next]_bzip2Vars
  PROVE  Settled'
<1>1. StepKind
  BY Kinds
<1>2. /\ cmd' = cmd /\ orig' = orig /\ (ToFile' <=> ToFile) /\ Named' = Named
      /\ \A p : OutName(p)' = OutName(p)
      /\ \A p : Independent(p)' <=> Independent(p)
      /\ n' = n => In' = In /\ Out' = Out
  BY <1>1, Frame
<1> SUFFICES ASSUME ToFile, pc' # "killed", NEW p \in Named, NEW o, o = OutName(p),
                    \A q \in Named : OutName(q) = o => Independent(q),
                    ~(pc' \in Ours /\ Out' = o)
             PROVE  Tidy(o)'
  BY <1>2 DEF Settled, Tidy
<1>3. (exitValue # 0 => exitValue' # 0) /\ warned \subseteq warned'
  BY ExitGrows, WarnedGrows DEF Typed, TypedCtl
<1>4. /\ n <= Len(cmd.args) => In \in Named /\ In \in DOMAIN files /\ Out \in DOMAIN files /\ Out # In
      /\ (pc \notin {"next", "exit", "killed"} => n <= Len(cmd.args)) /\ o \in DOMAIN files
      /\ Named \subseteq DOMAIN files /\ pc \in PCs
  BY Layout DEF Typed, TypedCtl
<1>6. CASE pc \in Ours /\ Out = o /\ pc' \notin Ours
  BY <1>6, LeavesTidy
<1>7. ASSUME foreign' = foreign \/ foreign' = foreign \cup {In}, files'[o] = files[o],
             ~(pc \in Ours /\ Out = o), pc # "killed"
      PROVE  Tidy(o)'
  <2>1. Tidy(o)
    BY <1>7 DEF Settled
  <2>2. QED
    BY <1>2, <1>3, <1>7, <2>1, TidyKept
<1>8. ASSUME OnlyOut, foreign' = foreign, Out # o, pc # "killed", n <= Len(cmd.args) PROVE Tidy(o)'
  <2>1. files'[o] = files[o]
    BY <1>4, <1>8 DEF OnlyOut
  <2>2. QED
    BY <1>7, <1>8, <2>1
<1> USE DEF Ours, Late
<1>9. CASE Stays
  <2>1. pc # "killed"
    BY <1>9, KilledStays
  <2>2. CASE pc \in Ours /\ Out = o /\ pc' \in Ours
    BY <1>2, <1>9, <2>2 DEF Stays
  <2>3. CASE ~(pc \in Ours /\ Out = o)
    BY <1>7, <1>9, <2>1, <2>3 DEF Stays, Same
  <2>4. QED
    BY <1>6, <2>2, <2>3
<1>10. CASE Writes
  <2>1. n <= Len(cmd.args) /\ OnlyOut /\ foreign' = foreign /\ pc \in Ours /\ Out' = Out
    BY <1>2, <1>4, <1>10 DEF Writes, Same
  <2>2. CASE Out = o
    BY <1>6, <2>1, <2>2
  <2>3. CASE Out # o
    BY <1>8, <2>1, <2>3
  <2>4. QED
    BY <2>2, <2>3
<1>11. CASE Clears
  <2>1. n <= Len(cmd.args) /\ OnlyOut /\ foreign' = foreign /\ pc \in Ours /\ pc' \notin Ours
    BY <1>4, <1>11 DEF Clears, Same
  <2>2. QED
    BY <1>6, <1>8, <2>1
<1>12. CASE Makes
  <2>1. n <= Len(cmd.args) /\ OnlyOut /\ foreign' = foreign /\ pc = "open" /\ files'[Out] = <<>>
        /\ (pc' = "stream" => Out' = Out) /\ (pc' = "stream" \/ exitValue' # 0)
    BY <1>2, <1>4, <1>12 DEF Makes, Same
  <2>2. CASE Out = o
    BY <2>1, <2>2 DEF Tidy
  <2>3. CASE Out # o
    BY <1>8, <2>1, <2>3
  <2>4. QED
    BY <2>2, <2>3
<1>13. CASE Accepts
  <2>1. n <= Len(cmd.args) /\ OnlyOut /\ foreign' = foreign /\ pc = "next" /\ files'[Out] = Absent
    BY <1>4, <1>13 DEF Accepts, Same
  <2>2. CASE Out = o
    BY <2>1, <2>2 DEF Tidy
  <2>3. CASE Out # o
    BY <1>8, <2>1, <2>3
  <2>4. QED
    BY <2>2, <2>3
<1>17. CASE Declines
  <2>1. files' = files /\ foreign' = foreign /\ pc = "next"
    BY <1>17 DEF Declines, Same
  <2>2. QED
    BY <1>7, <2>1
<1>14. CASE TakesIn \/ OtherRemoves
  <2>1. /\ n <= Len(cmd.args) /\ foreign' \in {foreign, foreign \cup {In}} /\ In \in DOMAIN files
        /\ files' = [files EXCEPT ![In] = Absent] /\ pc # "killed"
        /\ \/ pc = "remove" /\ pc' = "next"
           \/ pc' = pc /\ Out' = Out
    BY <1>2, <1>4, <1>14 DEF TakesIn, OtherRemoves, Running, Same
  <2>2. CASE In = o
    <3>1. files'[o] = Absent
      BY <2>1, <2>2
    <3>2. QED
      BY <3>1 DEF Tidy
  <2>3. CASE In # o
    <3>1. files'[o] = files[o]
      BY <1>4, <2>1, <2>3
    <3>2. QED
      BY <1>6, <1>7, <2>1, <3>1
  <2>4. QED
    BY <2>2, <2>3
<1>15. CASE OtherCreates
  <2>1. /\ n <= Len(cmd.args) /\ foreign' = foreign \cup {Out} /\ Out \in DOMAIN files
        /\ files' = [files EXCEPT ![Out] = Foreign] /\ pc # "killed"
    BY <1>4, <1>15 DEF OtherCreates, Running
  <2>2. CASE Out = o
    BY <2>1, <2>2 DEF Tidy
  <2>3. CASE Out # o
    <3>1. files'[o] = files[o]
      BY <1>4, <2>1, <2>3
    <3>2. Tidy(o)
      BY <2>1, <2>3 DEF Settled
    <3>3. QED
      BY <1>2, <1>3, <2>1, <3>1, <3>2, TidyKept
  <2>4. QED
    BY <2>2, <2>3
<1>16. QED
  BY <1>1, <1>9, <1>10, <1>11, <1>12, <1>13, <1>14, <1>15, <1>17 DEF StepKind

-----------------------------------------------------------------------------
LEMMA FilesInit ==
  ASSUME Filesystem, Bzip2Init
  PROVE  FilesInv
<1>1. /\ cmd \in Commands /\ orig \in Directories(cmd) /\ files = orig /\ n = 1 /\ pc = "next"
      /\ pend = <<>> /\ exitValue = 0 /\ foreign = {} /\ kept = {}
  BY DEF Bzip2Init
<1>2. Typed
  <2>1. TypedCtl
    BY <1>1 DEF TypedCtl, PCs, Ours, Late
  <2>2. TypedFiles
    BY <1>1 DEF TypedFiles, Filesystem, Ours, Late
  <2>3. QED
    BY <2>1, <2>2 DEF Typed
<1>3. Progress
  BY <1>1 DEF Progress, Work
<1>4. Safe
  BY <1>1 DEF Safe, Kept, Elsewhere, Turn, Gone, Ours, Late
<1>5. Settled
  BY <1>1 DEF Settled, Tidy
<1>6. Untouched
  BY <1>1 DEF Untouched, ForeignKept, Ours, Late
<1>7. QED
  BY <1>2, <1>3, <1>4, <1>5, <1>6 DEF FilesInv

LEMMA FilesStep ==
  ASSUME Filesystem, FilesInv, [Bzip2Next]_bzip2Vars
  PROVE  FilesInv'
<1>1. Typed /\ Progress /\ Safe /\ Settled /\ Untouched
  BY DEF FilesInv
<1>2. StepKind
  BY <1>1, Kinds
<1>3. Safe'
  <2>1. Named' = Named /\ \A p : Independent(p)' <=> Independent(p)
    BY <1>2, Frame
  <2>2. \A p \in Named : Independent(p) => Kept(p)' /\ Elsewhere(p)' /\ Turn(p)'
    BY <1>1, <1>2, SafeStep
  <2>3. QED
    BY <2>1, <2>2 DEF Safe
<1>4. Typed' /\ Progress' /\ Settled' /\ Untouched'
  BY <1>1, <1>2, TypedStep, ProgressStep, SettledStep, UntouchedStep
<1>5. QED
  BY <1>3, <1>4 DEF FilesInv

THEOREM FilesInvariant ==
  ASSUME Filesystem
  PROVE  Bzip2Spec => []FilesInv
<1>1. Bzip2Init => FilesInv
  BY FilesInit
<1>2. FilesInv /\ [Bzip2Next]_bzip2Vars => FilesInv'
  BY FilesStep
<1>3. QED
  BY <1>1, <1>2, PTL DEF Bzip2Spec

\* The property NothingLost: at every moment, a kill included, what a named
\* file held is in the file or completely in its output; compress and
\* uncompress remove an input only behind a whole output, and
\* cleanUpAndFail deletes no output whose input is gone.
THEOREM NothingIsLost ==
  ASSUME Filesystem
  PROVE  Bzip2Spec => []NothingLost
<1>1. FilesInv => NothingLost
  BY DEF FilesInv, Safe, Kept, Gone, NothingLost
<1>2. QED
  BY <1>1, FilesInvariant, PTL

\* The property FilesKept (ForeignKept and NoPartialOutput): without -f
\* fopen_output_safely and cleanUpAndFail leave every file alone that this
\* invocation did not make, and when the program ends by itself an output
\* that is not whole is an empty one, or one a WARNING told of because its
\* deletion failed or its input is gone; the exit status is not 0 then.
\* Closing an output is assumed not to fail.
THEOREM OutputsAreWhole ==
  ASSUME Filesystem
  PROVE  Bzip2Spec => []FilesKept
<1>1. FilesInv => ForeignKept
  BY DEF FilesInv, Untouched
<1>2. FilesInv => NoPartialOutput
  BY DEF FilesInv, Settled, Tidy, NoPartialOutput, ToFile, Ours, Late
<1>3. FilesInv => FilesKept
  BY <1>1, <1>2 DEF FilesKept
<1>4. QED
  BY <1>3, FilesInvariant, PTL

-----------------------------------------------------------------------------
(* The exit status.  While it is 0, every argument before the n-th is done *)
(* with: its output is complete, it is on stdout, or it tested as sound.   *)

Args == 1 .. Len(cmd.args)
Busy == pc \in Ours \cup {"open"}

\* Into files: the output of p, if p is not its turn again, and no other
\* argument is about to write it.
AllFinished(p) ==
  Independent(p) /\ p \notin foreign =>
    \/ Busy /\ In = p
    \/ files[OutName(p)] \in Complete(orig[p]) /\ (Busy => Out # OutName(p))
FilesDone ==
  ToFile /\ exitValue = 0 /\ pc # "killed" => \A i \in Args : i < n => AllFinished(cmd.args[i])

\* Testing: the part of the input that was read consists of streams.
Sound(p) == p \in foreign \/ BeforeGarbage(orig[p]) # {}
Testing ==
  /\ pc \in {"next", "open", "stream", "close", "magic", "fail", "exit", "killed"}
  /\ pc = "stream" =>
       InStreams(in, rd, inStream) /\ streamNo \in Nat /\ (streamNo = 0 <=> rd = 1)
  /\ pc = "close" => rerr \/ BeforeGarbage(in) # {}
  /\ pc = "magic" => streamNo = 1 \/ BeforeGarbage(in) # {}
TestsDone ==
  cmd.op = "test" =>
    /\ Testing
    /\ exitValue = 0 /\ ~testFailsExist => \A i \in Args : i < n => Sound(cmd.args[i])

\* To stdout: the outputs of the arguments before the n-th, and what was
\* written of the n-th.
Pieces(parts, w) ==
  /\ parts \in Seq(Seq(Token)) /\ w \in Seq(Token) /\ Len(parts) = n - 1
  /\ \A i \in 1 .. n - 1 : parts[i] \in Complete(orig[cmd.args[i]])
  /\ stdout \o pend = FlattenSeq(parts) \o w
  /\ Work(pc, in, rd, rerr, streamNo, inStream, w)
  /\ pc \in {"next", "open", "exit"} => w = <<>>
  /\ pc = "stamp" => w \in Complete(in)
Telling ==
  /\ cmd.op # "test" /\ ~ToFile /\ foreign = {}
  /\ exitValue = 0 /\ pc \notin {"fail", "killed", "notbzip2"}
Told ==
  Telling =>
    /\ stdout \in Seq(Token) /\ pend \in Seq(Token)
    /\ pc = "exit" => pend = <<>>
    /\ \E parts, w : Pieces(parts, w)

\* What is read is what was found, when no file is written.
Reads ==
  ~ToFile =>
    /\ \A p \in Named : files[p] = orig[p] \/ (p \in foreign /\ files[p] = Absent)
    /\ pc = "open" => files[In] # Dir
    /\ pc \in Ours =>
         /\ in \in Seq(Token) /\ rd \in Nat \ {0}
         /\ In \in foreign \/ in = orig[In]

Ends ==
  /\ n <= Len(cmd.args) + 1
  /\ pc = "exit" /\ exitValue = 0 => n = Len(cmd.args) + 1 /\ ~testFailsExist

ExitInv == Ends /\ Reads /\ FilesDone /\ TestsDone /\ Told

-----------------------------------------------------------------------------
(* Sequences of pieces.                                                    *)

FlatTo(s, m, g) == g = [i \in 1 .. m |-> IF i = 1 THEN s[i] ELSE g[i - 1] \o s[i]]

LEMMA FlatExists ==
  ASSUME NEW s, NEW m \in Nat
  PROVE  \E g : FlatTo(s, m, g)
<1> DEFINE Lacking == {k \in Nat : ~ \E g : FlatTo(s, k, g)}
<1> SUFFICES ASSUME Lacking # {} PROVE FALSE
  OBVIOUS
<1>1. PICK k \in Lacking : \A j \in Lacking : k <= j
  BY LeastOf
<1>2. CASE k = 0
  <2>1. FlatTo(s, 0, [j \in 1 .. 0 |-> <<>>])
    BY DEF FlatTo
  <2>2. QED
    BY <1>2, <2>1
<1>3. CASE k # 0
  <2>1. k \in Nat \ {0} /\ k - 1 \in Nat /\ k - 1 \notin Lacking
    BY <1>1, <1>3
  <2>2. PICK g : FlatTo(s, k - 1, g)
    BY <2>1
  <2> DEFINE h == [j \in 1 .. k |-> IF j = 1 THEN s[1] ELSE IF j = k THEN g[k - 1] \o s[k] ELSE g[j]]
  <2>3. g = [j \in 1 .. k - 1 |-> IF j = 1 THEN s[j] ELSE g[j - 1] \o s[j]]
    BY <2>2 DEF FlatTo
  <2> HIDE DEF Lacking
  <2>4. ASSUME NEW j \in 1 .. k
        PROVE  h[j] = IF j = 1 THEN s[j] ELSE h[j - 1] \o s[j]
    <3>1. CASE j = 1
      BY <3>1
    <3>2. CASE j # 1
      <4>1. j - 1 \in 1 .. k - 1 /\ j - 1 \in 1 .. k /\ j - 1 # k
        BY <2>1, <3>2
      <4>2. g[1] = s[1]
        <5>1. 1 \in 1 .. k - 1
          BY <2>1, <4>1
        <5>2. QED
          BY <2>3, <5>1
      <4>3. h[j - 1] = g[j - 1]
        BY <4>1, <4>2
      <4>4. CASE j = k
        BY <3>2, <4>3, <4>4
      <4>5. CASE j # k
        <5>1. j \in 1 .. k - 1
          BY <2>1, <4>5
        <5>2. g[j] = g[j - 1] \o s[j] /\ h[j] = g[j]
          BY <2>3, <3>2, <4>5, <5>1
        <5>3. QED
          BY <3>2, <4>3, <5>2
      <4>6. QED
        BY <4>4, <4>5
    <3>3. QED
      BY <3>1, <3>2
  <2> HIDE DEF h
  <2>5. h = [j \in 1 .. k |-> h[j]]
    BY DEF h
  <2>6. FlatTo(s, k, h)
    BY <2>4, <2>5 DEF FlatTo
  <2>7. QED
    BY <2>6 DEF Lacking
<1>4. QED
  BY <1>2, <1>3

\* Two sequences that agree up to a place are flattened alike up to there.
LEMMA FlatAgrees ==
  ASSUME NEW s, NEW t, NEW m \in Nat, NEW k \in Nat, m <= k, NEW f, NEW g,
         FlatTo(s, m, f), FlatTo(t, k, g), \A i \in 1 .. m : s[i] = t[i] /\ s[i] \in Seq(Token)
  PROVE  \A i \in 1 .. m : f[i] = g[i] /\ f[i] \in Seq(Token)
<1> DEFINE Wrong == {i \in 1 .. m : ~(f[i] = g[i] /\ f[i] \in Seq(Token))}
<1> SUFFICES ASSUME Wrong # {} PROVE FALSE
  OBVIOUS
<1>1. PICK i \in Wrong : \A j \in Wrong : i <= j
  <2>1. Wrong \subseteq Nat
    OBVIOUS
  <2>2. QED
    BY <2>1, LeastOf
<1>2. i \in 1 .. m /\ i \in 1 .. k /\ s[i] = t[i] /\ s[i] \in Seq(Token)
  OBVIOUS
<1>3. /\ f[i] = IF i = 1 THEN s[i] ELSE f[i - 1] \o s[i]
      /\ g[i] = IF i = 1 THEN t[i] ELSE g[i - 1] \o t[i]
  BY <1>2 DEF FlatTo
<1>4. CASE i = 1
  BY <1>2, <1>3, <1>4
<1>5. CASE i # 1
  <2>1. i - 1 \in 1 .. m /\ i - 1 \notin Wrong
    BY <1>1, <1>2, <1>5
  <2>2. f[i - 1] = g[i - 1] /\ f[i - 1] \in Seq(Token)
    BY <2>1
  <2>3. f[i] = f[i - 1] \o s[i] /\ g[i] = f[i - 1] \o s[i]
    BY <1>2, <1>3, <1>5, <2>2
  <2>4. f[i - 1] \o s[i] \in Seq(Token)
    BY <1>2, <2>2
  <2>5. QED
    BY <2>3, <2>4
<1>6. QED
  BY <1>4, <1>5

LEMMA Flattened ==
  ASSUME NEW s \in Seq(Seq(Token)), s # <<>>
  PROVE  \E f : FlatTo(s, Len(s), f) /\ FlattenSeq(s) = f[Len(s)]
<1> DEFINE F == CHOOSE f : FlatTo(s, Len(s), f)
<1>1. Len(s) \in Nat /\ Len(s) # 0
  OBVIOUS
<1>2. FlatTo(s, Len(s), F)
  BY <1>1, FlatExists
<1>3. FlattenSeq(s) = F[Len(s)]
  BY <1>1 DEF FlattenSeq, FlatTo
<1>4. QED
  BY <1>2, <1>3

LEMMA FlattenAppend ==
  ASSUME NEW s \in Seq(Seq(Token)), NEW w \in Seq(Token)
  PROVE  FlattenSeq(s) \in Seq(Token) /\ FlattenSeq(Append(s, w)) = FlattenSeq(s) \o w
<1> DEFINE t == Append(s, w)
           m == Len(s)
<1>1. /\ m \in Nat /\ t \in Seq(Seq(Token)) /\ t # <<>> /\ Len(t) = m + 1 /\ t[m + 1] = w
      /\ \A i \in 1 .. m : s[i] = t[i] /\ s[i] \in Seq(Token)
  <2> DEFINE P == Seq(Token)
  <2>1. s \in Seq(P) /\ w \in P
    OBVIOUS
  <2> HIDE DEF P
  <2>2. m \in Nat /\ t \in Seq(P) /\ Len(t) = m + 1 /\ t[m + 1] = w
    BY <2>1
  <2>3. \A i \in 1 .. m : s[i] = t[i] /\ s[i] \in P
    BY <2>1
  <2>4. t # <<>>
    BY <2>2
  <2>5. QED
    BY <2>2, <2>3, <2>4 DEF P
<1> HIDE DEF t
<1>2. PICK g : FlatTo(t, m + 1, g) /\ FlattenSeq(t) = g[m + 1]
  BY <1>1, Flattened
<1>3. m + 1 \in 1 .. m + 1 /\ m + 1 \in Nat /\ m <= m + 1 /\ (m + 1) - 1 = m
  BY <1>1
<1>4. g[m + 1] = IF m + 1 = 1 THEN w ELSE g[m] \o w
  BY <1>1, <1>2, <1>3 DEF FlatTo
<1>5. CASE s = <<>>
  <2>1. FlattenSeq(s) = <<>> /\ <<>> \o w = w /\ m = 0
    BY <1>5 DEF FlattenSeq
  <2>2. QED
    BY <1>2, <1>4, <2>1 DEF t
<1>6. CASE s # <<>>
  <2>1. PICK f : FlatTo(s, m, f) /\ FlattenSeq(s) = f[m]
    BY <1>6, Flattened
  <2>2. m \in 1 .. m /\ m + 1 # 1
    BY <1>1, <1>6
  <2> HIDE DEF m
  <2>3. f[m] = g[m] /\ f[m] \in Seq(Token)
    BY <1>1, <1>2, <1>3, <2>1, <2>2, FlatAgrees
  <2>4. QED
    BY <1>2, <1>4, <2>1, <2>2, <2>3 DEF t
<1>7. QED
  BY <1>5, <1>6

-----------------------------------------------------------------------------
(* What a step does to the exit status.                                    *)

LEMMA Grows ==
  ASSUME Filesystem, Typed, [Bzip2Next]_bzip2Vars
  PROVE  /\ cmd' = cmd /\ orig' = orig /\ (ToFile' <=> ToFile) /\ foreign \subseteq foreign'
         /\ exitValue' = 0 => exitValue = 0
         /\ ~testFailsExist' => ~testFailsExist
         /\ n' = n \/ (n' = n + 1 /\ n <= Len(cmd.args))
         /\ pc' # "killed" => pc # "killed"
<1>1. StepKind /\ TypedCtl
  BY Kinds DEF Typed
<1>2. cmd' = cmd /\ orig' = orig /\ (ToFile' <=> ToFile) /\ foreign \subseteq foreign'
  <2>1. foreign \subseteq foreign'
    BY <1>1 DEF StepKind, Same, Stays, Writes, Clears, Makes, Accepts, Declines, TakesIn, OtherCreates, OtherRemoves
  <2>2. QED
    BY <1>1, <2>1, Frame
<1>3. exitValue' = 0 => exitValue = 0
  BY <1>1, ExitGrows DEF TypedCtl
<1>4. pc' # "killed" => pc # "killed"
  BY KilledStays
<1>5. n' = n \/ (n' = n + 1 /\ n <= Len(cmd.args))
  <2>1. pc \notin {"next", "exit", "killed"} => n <= Len(cmd.args)
    BY <1>1 DEF TypedCtl
  <2>2. CASE CheckRefused \/ CheckAccepted \/ MetaInfoFails \/ OpenFiles \/ OpenFails
    BY <2>1, <2>2 DEF CheckRefused, CheckAccepted, MetaInfoFails, OpenFiles, OpenFails, NextArgument
  <2>3. CASE CompressChunk \/ CompressFinish \/ StreamHeader \/ StreamBlock \/ StreamTrailer \/ CatChunk \/ CatEnds
    BY <2>3 DEF CompressChunk, CompressFinish, StreamHeader, StreamBlock, StreamTrailer, CatChunk, CatEnds
  <2>4. CASE StreamEnds \/ StreamCorrupt \/ StreamMagic \/ CloseFiles \/ BadMagic \/ ReadFails
    BY <2>1, <2>4 DEF StreamEnds, StreamCorrupt, StreamMagic, CloseFiles, BadMagic, ReadFails, BrokenStream,
       testFail
  <2>5. CASE NotBzip2 \/ StampOutput \/ RemoveInput
    BY <2>1, <2>5 DEF NotBzip2, StampOutput, RemoveInput, NextArgument
  <2>6. CASE CleanUpAndFail \/ DeleteOutput \/ Exit \/ Kill \/ OtherCreates \/ OtherRemoves
             \/ UNCHANGED bzip2Vars
    BY <2>6 DEF CleanUpAndFail, DeleteOutput, Exit, Kill, OtherCreates, OtherRemoves, bzip2Vars
  <2>7. QED
    BY <2>2, <2>3, <2>4, <2>5, <2>6 DEF Bzip2Next, Program, Bzip2Done
<1>6. ~testFailsExist' => ~testFailsExist
  <2>1. CASE CheckRefused \/ CheckAccepted \/ MetaInfoFails \/ OpenFiles \/ OpenFails
    BY <2>1 DEF CheckRefused, CheckAccepted, MetaInfoFails, OpenFiles, OpenFails, status
  <2>2. CASE CompressChunk \/ CompressFinish \/ StreamHeader \/ StreamBlock \/ StreamTrailer \/ CatChunk \/ CatEnds
    BY <2>2 DEF CompressChunk, CompressFinish, StreamHeader, StreamBlock, StreamTrailer, CatChunk, CatEnds, status
  <2>3. CASE StreamEnds \/ StreamCorrupt \/ StreamMagic \/ CloseFiles \/ BadMagic \/ ReadFails
    BY <2>3 DEF StreamEnds, StreamCorrupt, StreamMagic, CloseFiles, BadMagic, ReadFails, BrokenStream,
       testFail, status
  <2>4. CASE NotBzip2 \/ StampOutput \/ RemoveInput
    BY <2>4 DEF NotBzip2, StampOutput, RemoveInput
  <2>5. CASE CleanUpAndFail \/ DeleteOutput \/ Exit \/ Kill \/ OtherCreates \/ OtherRemoves
             \/ UNCHANGED bzip2Vars
    BY <2>5 DEF CleanUpAndFail, DeleteOutput, Exit, Kill, OtherCreates, OtherRemoves, status, bzip2Vars
  <2>6. QED
    BY <2>1, <2>2, <2>3, <2>4, <2>5 DEF Bzip2Next, Program, Bzip2Done
<1>7. QED
  BY <1>2, <1>3, <1>4, <1>5, <1>6

LEMMA EndsStep ==
  ASSUME Filesystem, Typed, Progress, Ends, [Bzip2Next]_bzip2Vars
  PROVE  Ends'
<1>1. /\ cmd' = cmd
      /\ exitValue' = 0 => exitValue = 0
      /\ n' = n \/ (n' = n + 1 /\ n <= Len(cmd.args))
  BY Grows
<1>2. Len(cmd.args) \in Nat /\ n \in Nat /\ n <= Len(cmd.args) + 1 /\ exitValue \in Nat
  BY Layout DEF Typed, TypedCtl, Ends
<1>3. ASSUME pc' = "exit", exitValue' = 0 PROVE n' = Len(cmd.args) + 1 /\ ~testFailsExist'
  <2>1. CASE Exit
    BY <1>2, <1>3, <2>1 DEF Exit, setExit
  <2>2. CASE CleanUpAndFail
    <3>1. ec \in {1, 2} /\ setExit(ec)
      BY <2>2 DEF CleanUpAndFail, Typed, TypedCtl
    <3>2. QED
      BY <1>2, <1>3, <3>1 DEF setExit
  <2>3. CASE DeleteOutput
    <3>1. exitValue' = exitValue /\ pc = "unlink" /\ ToFile
      BY <2>3 DEF DeleteOutput, status, Typed, TypedCtl
    <3>2. QED
      BY <1>2, <1>3, <3>1 DEF Progress
  <2>4. CASE OtherCreates \/ OtherRemoves \/ UNCHANGED bzip2Vars
    <3>1. UNCHANGED <<pc, n, exitValue, testFailsExist>>
      BY <2>4 DEF OtherCreates, OtherRemoves, status, bzip2Vars
    <3>2. QED
      BY <1>3, <3>1 DEF Ends
  <2>5. ~(CheckRefused \/ CheckAccepted \/ OpenFiles \/ OpenFails \/ NotBzip2 \/ StampOutput \/ RemoveInput
          \/ Kill \/ MetaInfoFails)
    BY <1>2, <1>3 DEF CheckRefused, CheckAccepted, OpenFiles, OpenFails, NotBzip2, StampOutput, RemoveInput, Kill,
       MetaInfoFails, NextArgument, FailWith, Proceed, setExit
  <2>6. ~(CompressChunk \/ CompressFinish \/ StreamHeader \/ StreamBlock \/ StreamTrailer \/ CatChunk \/ CatEnds)
    BY <1>3 DEF CompressChunk, CompressFinish, StreamHeader, StreamBlock, StreamTrailer, CatChunk, CatEnds,
       FailWith, Proceed
  <2>7. ~(StreamEnds \/ StreamCorrupt \/ StreamMagic \/ CloseFiles \/ BadMagic \/ ReadFails)
    BY <1>3 DEF StreamEnds, StreamCorrupt, StreamMagic, CloseFiles, BadMagic, ReadFails, BrokenStream, testFail,
       FailWith, Proceed
  <2>8. QED
    BY <2>1, <2>2, <2>3, <2>4, <2>5, <2>6, <2>7 DEF Bzip2Next, Program, Bzip2Done
<1>4. n' <= Len(cmd.args) + 1
  BY <1>1, <1>2
<1>5. QED
  BY <1>1, <1>3, <1>4 DEF Ends

\* No file is written: an input is read that is as it was found.
LEMMA Reading ==
  ASSUME Filesystem, Typed, ~ToFile, [Bzip2Next]_bzip2Vars
  PROVE  /\ OtherRemoves \/ (files' = files /\ foreign' = foreign)
         /\ pc' = "open" => n' = n /\ (pc = "open" \/ CheckAccepted)
         /\ pc' \in Ours => \/ OpenFiles
                            \/ pc \in Ours /\ n' = n /\ in' = in /\ rd' \in {rd, rd + 1, 1}
<1> USE DEF Ours, Late
<1>1. CASE CheckRefused \/ CheckAccepted \/ MetaInfoFails \/ OpenFiles \/ OpenFails
  BY <1>1 DEF CheckRefused, CheckAccepted, MetaInfoFails, OpenFiles, OpenFails, NextArgument, disk, outside
<1>2. CASE CompressChunk \/ CompressFinish \/ StreamBlock \/ CatChunk \/ CloseFiles
  <2>1. files' = files /\ foreign' = foreign
    BY <1>2 DEF CompressChunk, CompressFinish, StreamBlock, CatChunk, CloseFiles, fwrite, fflush, Deliver, disk,
       outside
  <2>2. pc \in Ours /\ pc' # "open" /\ (pc' \in Ours => n' = n) /\ in' = in /\ rd' \in {rd, rd + 1}
    BY <1>2 DEF CompressChunk, CompressFinish, StreamBlock, CatChunk, CloseFiles, FailWith, Proceed, stream
  <2>3. QED
    BY <2>1, <2>2
<1>3. CASE StreamHeader \/ StreamTrailer \/ CatEnds \/ StreamEnds \/ StreamCorrupt \/ StreamMagic \/ ReadFails
  BY <1>3 DEF StreamHeader, StreamTrailer, CatEnds, StreamEnds, StreamCorrupt, StreamMagic, ReadFails,
     BrokenStream, testFail, FailWith, stream, disk, outside
<1>4. CASE BadMagic \/ NotBzip2 \/ StampOutput
  BY <1>4 DEF BadMagic, NotBzip2, StampOutput, NextArgument, testFail, FailWith, Proceed, stream, disk, outside
<1>5. CASE CleanUpAndFail \/ Exit \/ Kill
  BY <1>5 DEF CleanUpAndFail, MayDelete, FlushAtExit, Deliver, Exit, Kill, outside
<1>6. CASE RemoveInput \/ DeleteOutput
  BY <1>6 DEF RemoveInput, DeleteOutput, Typed, TypedCtl
<1>7. CASE OtherCreates \/ OtherRemoves \/ UNCHANGED bzip2Vars
  BY <1>7 DEF OtherCreates, OtherRemoves, bzip2Vars, stream, disk, outside
<1>8. QED
  BY <1>1, <1>2, <1>3, <1>4, <1>5, <1>6, <1>7 DEF Bzip2Next, Program, Bzip2Done

LEMMA ReadsStep ==
  ASSUME Filesystem, Typed, Reads, [Bzip2Next]_bzip2Vars
  PROVE  Reads'
<1>1. /\ cmd' = cmd /\ orig' = orig /\ (ToFile' <=> ToFile) /\ foreign \subseteq foreign' /\ Named' = Named
      /\ n' = n => In' = In
  BY Grows DEF Named, In
<1> SUFFICES ASSUME ~ToFile PROVE Reads'
  BY <1>1 DEF Reads
<1>2. /\ OtherRemoves \/ (files' = files /\ foreign' = foreign)
      /\ pc' = "open" => n' = n /\ (pc = "open" \/ CheckAccepted)
      /\ pc' \in Ours => \/ OpenFiles
                         \/ pc \in Ours /\ n' = n /\ in' = in /\ rd' \in {rd, rd + 1, 1}
  BY Reading
<1>3. /\ \A p \in Named : files[p] = orig[p] \/ (p \in foreign /\ files[p] = Absent)
      /\ pc = "open" => files[In] # Dir
      /\ pc \in Ours => in \in Seq(Token) /\ rd \in Nat \ {0} /\ (In \in foreign \/ in = orig[In])
  BY DEF Reads
<1>4. /\ pc \notin {"next", "exit", "killed"} => n <= Len(cmd.args)
      /\ n <= Len(cmd.args) => In \in Named /\ In \in DOMAIN files
      /\ \A x \in DOMAIN files : files[x] \in Content
  BY Layout DEF Typed, TypedCtl, TypedFiles
<1>5. OtherRemoves => /\ files' = [files EXCEPT ![In] = Absent] /\ foreign' = foreign \cup {In}
                      /\ pc' = pc /\ n' = n /\ In \in DOMAIN files
  BY <1>4 DEF OtherRemoves, Running
<1>6. \A p \in Named : files'[p] = orig[p] \/ (p \in foreign' /\ files'[p] = Absent)
  <2>1. CASE OtherRemoves
    <3>1. Named \subseteq DOMAIN files
      BY Layout
    <3>2. QED
      BY <1>3, <1>5, <2>1, <3>1
  <2>2. QED
    BY <1>2, <1>3, <2>1
<1>7. pc' = "open" => files'[In] # Dir /\ n' = n
  <2>1. CASE CheckAccepted
    <3>1. /\ n <= Len(cmd.args) /\ n' = n /\ files' = files
          /\ cmd.srcMode = "I2O" \/ files[In] \notin {Absent, Dir}
      BY <2>1 DEF CheckAccepted, Refused
    <3>2. CASE cmd.srcMode = "I2O"
      <4>1. cmd \in Commands /\ orig \in Directories(cmd) /\ n \in Nat \ {0}
        BY DEF Typed, TypedCtl, TypedFiles
      <4>2. orig[In] # Dir
        BY <3>1, <3>2, <4>1 DEF Filesystem, In
      <4>3. files[In] = orig[In] \/ files[In] = Absent
        BY <1>3, <1>4, <3>1
      <4>4. QED
        BY <3>1, <4>2, <4>3, AbsentIsNoFile
    <3>3. QED
      BY <3>1, <3>2
  <2>2. QED
    BY <1>2, <1>3, <1>5, AbsentIsNoFile, <2>1
<1>8. pc' \in Ours => /\ in' \in Seq(Token) /\ rd' \in Nat \ {0} /\ n' = n
                      /\ In \in foreign' \/ in' = orig[In]
  <2>1. CASE OpenFiles
    <3>1. /\ pc = "open" /\ n' = n /\ in' = files[In] /\ files[In] # Absent /\ rd' = 1
      BY <2>1 DEF OpenFiles
    <3>2. files[In] \in Seq(Token)
      BY <1>3, <1>4, <3>1 DEF Content
    <3>3. QED
      BY <1>1, <1>3, <1>4, <3>1, <3>2
  <2>2. QED
    BY <1>1, <1>2, <1>3, <2>1
<1>9. QED
  BY <1>1, <1>6, <1>7, <1>8 DEF Reads

-----------------------------------------------------------------------------
(* Tests.                                                                  *)

LEMMA TestingStep ==
  ASSUME Filesystem, Typed, cmd.op = "test", Reads, Testing, [Bzip2Next]_bzip2Vars
  PROVE  Testing'
<1>1. ~ToFile
  BY DEF ToFile
<1>2. pc \in Ours => in \in Seq(Token) /\ rd \in Nat \ {0} /\ Len(in) \in Nat
  BY <1>1 DEF Reads
<1>3. CASE CheckRefused \/ CheckAccepted \/ OpenFails \/ Exit \/ Kill
  BY <1>3 DEF CheckRefused, CheckAccepted, OpenFails, Exit, Kill, NextArgument, Testing
<1>4. CASE OpenFiles
  <2>1. pc' = "stream" /\ rd' = 1 /\ streamNo' = 0 /\ inStream' = FALSE /\ Reads'
    BY <1>4, ReadsStep DEF OpenFiles
  <2>2. in' \in Seq(Token)
    <3>1. ~ToFile'
      BY <1>1, Grows
    <3>2. QED
      BY <2>1, <3>1 DEF Reads, Ours
  <2>3. InStreams(in', 1, FALSE)
    BY <2>2 DEF InStreams
  <2>4. QED
    BY <2>1, <2>3 DEF Testing
<1>5. CASE StreamHeader \/ StreamBlock \/ StreamTrailer
  <2>1. /\ pc = "stream" /\ ~AtEof /\ in' = in /\ rd' = rd + 1 /\ rerr' = rerr
        /\ \/ ~inStream /\ in[rd] = <<"hdr">> /\ inStream' = TRUE /\ streamNo' = streamNo + 1 /\ pc' = pc
           \/ inStream /\ in[rd][1] = "blk" /\ inStream' = inStream /\ streamNo' = streamNo /\ pc' = pc
           \/ /\ inStream /\ in[rd] = <<"end">> /\ inStream' = FALSE /\ streamNo' = streamNo
              /\ pc' = IF rd = Len(in) THEN "close" ELSE "stream"
    BY <1>5 DEF StreamHeader, StreamBlock, StreamTrailer, Proceed
  <2>2. /\ in \in Seq(Token) /\ rd \in Nat \ {0} /\ Len(in) \in Nat /\ rd <= Len(in)
    BY <1>2, <2>1 DEF AtEof, Ours
  <2>3. InStreams(in, rd, inStream) /\ streamNo \in Nat /\ (streamNo = 0 <=> rd = 1)
    BY <2>1 DEF Testing
  <2>4. InStreams(in, rd + 1, in[rd] # <<"end">>)
    BY <2>1, <2>2, <2>3, StreamToken
  <2>5. inStream' = (in[rd] # <<"end">>)
    <3>1. inStream \in BOOLEAN
      BY <2>3 DEF InStreams
    <3>2. CASE inStream /\ in[rd][1] = "blk" /\ inStream' = inStream
      <4>1. in[rd] # <<"end">>
        BY <3>2
      <4>2. QED
        BY <3>1, <3>2, <4>1
    <3>3. CASE in[rd] = <<"hdr">> /\ inStream' = TRUE
      <4>1. (in[rd] # <<"end">>) = TRUE
        BY <3>3
      <4>2. QED
        BY <3>3, <4>1
    <3>4. CASE in[rd] = <<"end">> /\ inStream' = FALSE
      <4>1. (in[rd] # <<"end">>) = FALSE
        BY <3>4
      <4>2. QED
        BY <3>4, <4>1
    <3>5. QED
      BY <2>1, <3>2, <3>3, <3>4
  <2>6. InStreams(in', rd', inStream')
    BY <2>1, <2>4, <2>5
  <2>7. streamNo' \in Nat /\ (streamNo' = 0 <=> rd' = 1)
    <3>1. inStream => rd # 1
      BY <2>2, <2>3 DEF InStreams
    <3>2. streamNo' = streamNo \/ streamNo' = streamNo + 1
      BY <2>1
    <3>3. streamNo' = streamNo => rd # 1
      BY <2>1, <2>3, <3>1
    <3>4. QED
      BY <2>1, <2>2, <2>3, <3>2, <3>3
  <2>8. pc' = "close" => BeforeGarbage(in') # {}
    <3>1. ASSUME pc' = "close"
          PROVE  InStreams(in, rd + 1, FALSE) /\ rd + 1 # 1 /\ ~(rd + 1 <= Len(in))
      <4>1. in[rd] = <<"end">> /\ rd = Len(in)
        BY <2>1, <3>1
      <4>2. (in[rd] # <<"end">>) = FALSE
        BY <4>1
      <4>3. InStreams(in, rd + 1, FALSE)
        BY <2>4, <4>2
      <4>4. rd + 1 # 1 /\ ~(rd + 1 <= Len(in))
        BY <2>2, <4>1
      <4>5. QED
        BY <4>3, <4>4
    <3>2. QED
      BY <2>1, <2>2, <3>1, StreamsEnd
  <2>9. pc' \in {"stream", "close"}
    BY <2>1
  <2>10. QED
    BY <2>6, <2>7, <2>8, <2>9 DEF Testing
<1>6. CASE StreamMagic
  <2>1. /\ pc = "stream" /\ ~AtEof /\ ~inStream /\ in[rd] # <<"hdr">> /\ in' = in
        /\ streamNo' = streamNo + 1 /\ pc' = "magic"
    BY <1>6 DEF StreamMagic
  <2>2. in \in Seq(Token) /\ InStreams(in, rd, inStream) /\ streamNo \in Nat /\ (streamNo = 0 <=> rd = 1)
    BY <1>2, <2>1 DEF Testing, Ours
  <2>3. InStreams(in, rd, FALSE)
    <3>1. inStream = FALSE
      BY <2>1, <2>2 DEF InStreams
    <3>2. QED
      BY <2>2, <3>1
  <2>4. rd # 1 => BeforeGarbage(in) # {}
    BY <2>1, <2>2, <2>3, StreamsEnd
  <2>5. QED
    BY <2>1, <2>2, <2>4 DEF Testing
<1>7. CASE StreamEnds \/ StreamCorrupt
  BY <1>7 DEF StreamEnds, StreamCorrupt, BrokenStream, testFail, FailWith, Testing
<1>8. CASE ReadFails \/ OtherRemoves \/ OtherCreates \/ UNCHANGED bzip2Vars
  <2>1. UNCHANGED <<pc, in, rd, streamNo, inStream>> /\ (rerr => rerr')
    BY <1>8 DEF ReadFails, OtherRemoves, OtherCreates, stream, bzip2Vars
  <2>2. pc = "close" => rerr' \/ BeforeGarbage(in') # {}
    BY <2>1 DEF Testing
  <2>3. QED
    BY <2>1, <2>2 DEF Testing
<1>9. CASE CloseFiles \/ BadMagic
  BY <1>9 DEF CloseFiles, BadMagic, testFail, FailWith, Testing
<1>10. CASE CleanUpAndFail
  BY <1>1, <1>10 DEF CleanUpAndFail, MayDelete, Testing
<1>11. ~(CompressChunk \/ CompressFinish \/ CatChunk \/ CatEnds \/ NotBzip2 \/ StampOutput \/ RemoveInput \/ DeleteOutput
         \/ MetaInfoFails)
  BY <1>1 DEF CompressChunk, CompressFinish, CatChunk, CatEnds, NotBzip2, StampOutput, RemoveInput, DeleteOutput,
     MetaInfoFails, Testing
<1>12. QED
  BY <1>3, <1>4, <1>5, <1>6, <1>7, <1>8, <1>9, <1>10, <1>11 DEF Bzip2Next, Program, Bzip2Done

LEMMA TestsDoneStep ==
  ASSUME Filesystem, Typed, Reads, TestsDone, [Bzip2Next]_bzip2Vars
  PROVE  TestsDone'
<1>1. /\ cmd' = cmd /\ orig' = orig /\ foreign \subseteq foreign'
      /\ exitValue' = 0 => exitValue = 0
      /\ ~testFailsExist' => ~testFailsExist
      /\ n' = n \/ (n' = n + 1 /\ n <= Len(cmd.args))
  BY Grows
<1> SUFFICES ASSUME cmd.op = "test" PROVE TestsDone'
  BY <1>1 DEF TestsDone
<1>2. Testing /\ Testing'
  BY TestingStep DEF TestsDone
<1>3. SUFFICES ASSUME exitValue' = 0, ~testFailsExist', NEW i \in Args, i < n'
      PROVE  Sound(cmd.args[i])'
  BY <1>1, <1>2 DEF TestsDone, Args
<1>4. n \in Nat \ {0} /\ exitValue \in Nat /\ Len(cmd.args) \in Nat /\ i \in Nat
  BY <1>3, Layout DEF Typed, TypedCtl, Args
<1>5. CASE i < n
  <2>1. Sound(cmd.args[i])
    BY <1>1, <1>3, <1>5 DEF TestsDone
  <2>2. QED
    BY <1>1, <2>1 DEF Sound, BeforeGarbage
<1>6. CASE ~(i < n)
  <2>1. n' = n + 1 /\ i = n
    BY <1>1, <1>3, <1>4, <1>6
  <2>2. CASE CloseFiles \/ BadMagic
    <3>1. pc \in Ours /\ BeforeGarbage(in) # {}
      BY <1>1, <1>2, <1>3, <1>4, <2>1, <2>2 DEF CloseFiles, BadMagic, FailWith, ferror, testFail, Testing, Ours
    <3>2. In \in foreign \/ in = orig[In]
      BY <3>1 DEF Reads, ToFile
    <3>3. In \in foreign' \/ BeforeGarbage(orig'[In]) # {}
      BY <1>1, <3>1, <3>2
    <3>4. QED
      BY <1>1, <2>1, <3>3 DEF Sound, In
  <2>3. ~(CheckRefused \/ CheckAccepted \/ MetaInfoFails \/ OpenFiles \/ OpenFails)
    BY <1>3, <1>4, <2>1 DEF CheckRefused, CheckAccepted, MetaInfoFails, OpenFiles, OpenFails, NextArgument, setExit
  <2>4. ~(CompressChunk \/ CompressFinish \/ StreamHeader \/ StreamBlock \/ StreamTrailer \/ CatChunk \/ CatEnds)
    BY <1>4, <2>1 DEF CompressChunk, CompressFinish, StreamHeader, StreamBlock, StreamTrailer, CatChunk, CatEnds
  <2>5. ~(StreamEnds \/ StreamCorrupt \/ StreamMagic \/ ReadFails)
    BY <1>3, <1>4, <2>1 DEF StreamEnds, StreamCorrupt, StreamMagic, ReadFails, BrokenStream, testFail
  <2>6. ~(NotBzip2 \/ StampOutput \/ RemoveInput)
    BY <1>2 DEF NotBzip2, StampOutput, RemoveInput, Testing
  <2>7. ~(CleanUpAndFail \/ DeleteOutput \/ Exit \/ Kill \/ OtherCreates \/ OtherRemoves \/ UNCHANGED bzip2Vars)
    BY <1>4, <2>1 DEF CleanUpAndFail, DeleteOutput, Exit, Kill, OtherCreates, OtherRemoves, bzip2Vars
  <2>8. QED
    BY <2>2, <2>3, <2>4, <2>5, <2>6, <2>7 DEF Bzip2Next, Program, Bzip2Done
<1>7. QED
  BY <1>5, <1>6

-----------------------------------------------------------------------------
(* Outputs to stdout.                                                      *)

\* What fwrite and fflush have in common when the output is stdout.
LEMMA Spoken ==
  ASSUME ~ToFile, stdout \in Seq(Token), pend \in Seq(Token), NEW toks \in Seq(Token),
         fwrite(toks) \/ fflush(toks), ~werr'
  PROVE  stdout' \in Seq(Token) /\ pend' \in Seq(Token) /\ stdout' \o pend' = (stdout \o pend) \o toks
<1>1. CASE pend' = pend \o toks /\ stdout' = stdout
  BY <1>1
<1>2. CASE Deliver(pend \o toks) /\ pend' = <<>>
  <2>1. stdout' = stdout \o (pend \o toks)
    BY <1>2 DEF Deliver
  <2>2. stdout' \in Seq(Token) /\ stdout' \o pend' = stdout'
    BY <1>2, <2>1
  <2>3. QED
    BY <1>2, <2>1, <2>2
<1>3. QED
  BY <1>1, <1>2 DEF fwrite, fflush

\* A step that adds to what is said of the n-th argument.
LEMMA SaysMore ==
  ASSUME cmd' = cmd, orig' = orig, n' = n, n \in Nat \ {0}, NEW parts, NEW w, Pieces(parts, w),
         NEW toks \in Seq(Token), stdout' \o pend' = (stdout \o pend) \o toks,
         Work(pc', in', rd', rerr', streamNo', inStream', w \o toks),
         pc' \in {"next", "open", "exit"} => w \o toks = <<>>,
         pc' = "stamp" => w \o toks \in Complete(in)'
  PROVE  Pieces(parts, w \o toks)'
<1>1. /\ parts \in Seq(Seq(Token)) /\ w \in Seq(Token) /\ Len(parts) = n - 1
      /\ \A i \in 1 .. n - 1 : parts[i] \in Complete(orig[cmd.args[i]])
      /\ stdout \o pend = FlattenSeq(parts) \o w
  BY DEF Pieces
<1>2. \A c : Complete(c)' = Complete(c)
  BY DEF Complete
<1>3. FlattenSeq(parts) \in Seq(Token) /\ w \o toks \in Seq(Token)
  BY <1>1, FlattenAppend
<1>4. (FlattenSeq(parts) \o w) \o toks = FlattenSeq(parts) \o (w \o toks)
  BY <1>1, <1>3
<1>5. Work(pc, in, rd, rerr, streamNo, inStream, w \o toks)' <=>
        Work(pc', in', rd', rerr', streamNo', inStream', w \o toks)
  BY <1>2 DEF Work
<1>6. \A i \in 1 .. n' - 1 : parts[i] \in Complete(orig[cmd.args[i]])'
  BY <1>1, <1>2
<1>7. QED
  BY <1>1, <1>3, <1>4, <1>5, <1>6 DEF Pieces

LEMMA ToldStep ==
  ASSUME Filesystem, Typed, Reads, Told, [Bzip2Next]_bzip2Vars
  PROVE  Told'
<1> SUFFICES ASSUME Telling'
             PROVE  /\ stdout' \in Seq(Token) /\ pend' \in Seq(Token)
                    /\ pc' = "exit" => pend' = <<>>
                    /\ \E parts, w : Pieces(parts, w)'
  BY DEF Told
<1>1. /\ cmd' = cmd /\ orig' = orig /\ (ToFile' <=> ToFile) /\ foreign \subseteq foreign'
      /\ exitValue' = 0 => exitValue = 0
      /\ pc' # "killed" => pc # "killed"
  BY Grows
<1>2. /\ cmd.op \in {"compress", "uncompress"} /\ ~ToFile /\ foreign = {} /\ foreign' = {} /\ exitValue = 0
      /\ pc' \notin {"fail", "killed", "notbzip2"} /\ pc # "killed" /\ exitValue' = 0
  BY <1>1, Layout DEF Telling
<1>3. /\ n \in Nat \ {0} /\ Len(cmd.args) \in Nat /\ "fclose" \notin Faults
      /\ pc = "fail" => ec \in {1, 2}
  BY Layout DEF Typed, TypedCtl
<1>4. pc \notin {"fail", "notbzip2"}
  <2>1. CASE pc = "fail"
    <3>1. CASE CleanUpAndFail
      BY <1>2, <1>3, <2>1, <3>1 DEF CleanUpAndFail, setExit
    <3>2. CASE UNCHANGED bzip2Vars
      BY <1>2, <2>1, <3>2 DEF bzip2Vars
    <3>3. QED
      BY <1>2, <2>1, <3>1, <3>2 DEF Bzip2Next, Program, Bzip2Done, CheckRefused, CheckAccepted, MetaInfoFails, OpenFiles, OpenFails,
         CompressChunk, CompressFinish, StreamHeader, StreamBlock, StreamTrailer, StreamEnds, StreamCorrupt,
         StreamMagic, CatChunk, CatEnds, CloseFiles, BadMagic, NotBzip2, StampOutput, RemoveInput, DeleteOutput,
         Exit, ReadFails, Kill, OtherCreates, OtherRemoves
  <2>2. CASE pc = "notbzip2"
    <3>1. CASE NotBzip2
      BY <1>2, <2>2, <3>1 DEF NotBzip2, NextArgument, setExit, NotBzip2Value, FailWith
    <3>2. CASE UNCHANGED bzip2Vars
      BY <1>2, <2>2, <3>2 DEF bzip2Vars
    <3>3. QED
      BY <1>2, <2>2, <3>1, <3>2 DEF Bzip2Next, Program, Bzip2Done, CheckRefused, CheckAccepted, MetaInfoFails, OpenFiles, OpenFails,
         CompressChunk, CompressFinish, StreamHeader, StreamBlock, StreamTrailer, StreamEnds, StreamCorrupt,
         StreamMagic, CatChunk, CatEnds, CloseFiles, BadMagic, CleanUpAndFail, StampOutput, RemoveInput, DeleteOutput,
         Exit, ReadFails, Kill, OtherCreates, OtherRemoves
  <2>3. QED
    BY <2>1, <2>2
<1>5. Telling /\ stdout \in Seq(Token) /\ pend \in Seq(Token) /\ (pc = "exit" => pend = <<>>)
  BY <1>2, <1>4 DEF Told, Telling
<1>6. PICK parts, w : Pieces(parts, w)
  BY <1>5 DEF Told
<1>7. /\ w \in Seq(Token) /\ Work(pc, in, rd, rerr, streamNo, inStream, w)
      /\ pc \in {"next", "open", "exit"} => w = <<>>
      /\ pc = "stamp" => w \in Complete(in)
  BY <1>6 DEF Pieces
<1>8. pc \in Ours => in \in Seq(Token) /\ rd \in Nat \ {0} /\ in = orig[In]
  BY <1>2 DEF Reads
<1>9. ASSUME n' = n, NEW toks \in Seq(Token), stdout' \in Seq(Token), pend' \in Seq(Token),
             stdout' \o pend' = (stdout \o pend) \o toks,
             Work(pc', in', rd', rerr', streamNo', inStream', w \o toks),
             pc' \in {"next", "open", "exit"} => w \o toks = <<>>,
             pc' = "stamp" => w \o toks \in Complete(in)',
             pc' = "exit" => pend' = <<>>
      PROVE  /\ stdout' \in Seq(Token) /\ pend' \in Seq(Token)
             /\ pc' = "exit" => pend' = <<>>
             /\ \E u, v : Pieces(u, v)'
  <2>1. Pieces(parts, w \o toks)'
    BY <1>1, <1>3, <1>6, <1>9, SaysMore
  <2>2. QED
    BY <1>9, <2>1
<1>10. w \o <<>> = w /\ (stdout \o pend) \o <<>> = stdout \o pend /\ <<>> \in Seq(Token)
       /\ stdout \o <<>> = stdout /\ stdout \o pend \in Seq(Token)
       /\ (stdout \o pend) \o <<>> = stdout \o pend
  BY <1>5, <1>7
<1>11. \A c : Complete(c)' = Complete(c)
  BY <1>1 DEF Complete
<1>12. CASE CheckRefused \/ OpenFails
  BY <1>2, <1>12 DEF CheckRefused, OpenFails, NextArgument, setExit
<1>13. CASE CheckAccepted \/ Exit
  <2>1. n' = n /\ stdout' \in Seq(Token) /\ pend' \in Seq(Token) /\ stdout' \o pend' = stdout \o pend
        /\ (pc' = "exit" => pend' = <<>>) /\ pc' \in {"open", "exit"} /\ w = <<>>
    BY <1>3, <1>5, <1>7, <1>10, <1>13 DEF CheckAccepted, Exit, Fault
  <2>2. Work(pc', in', rd', rerr', streamNo', inStream', w \o <<>>)
    BY <2>1 DEF Work
  <2>3. QED
    BY <1>9, <1>10, <2>1, <2>2
<1>14. CASE OpenFiles
  <2>1. /\ n' = n /\ stdout' = stdout /\ pend' = pend /\ pc' = "stream" /\ pc = "open" /\ w = <<>>
        /\ rd' = 1 /\ streamNo' = 0 /\ inStream' = FALSE
    BY <1>7, <1>14 DEF OpenFiles
  <2>2. in' \in Seq(Token)
    BY <1>1, <1>2, <2>1, ReadsStep DEF Reads, Ours
  <2>3. Work(pc', in', rd', rerr', streamNo', inStream', w \o <<>>)
    BY <1>10, <2>1, <2>2, WorkBegins
  <2>4. QED
    BY <1>5, <1>9, <1>10, <2>1, <2>3
<1>15. CASE CompressChunk \/ CompressFinish \/ StreamBlock \/ CatChunk
  <2>1. pc \in Ours /\ n' = n /\ pc' \in {"stream", "cat", "close", "fail"}
    BY <1>2, <1>15 DEF CompressChunk, CompressFinish, StreamBlock, CatChunk, FailWith, Proceed, Ours
  <2>2. PICK toks \in Seq(Token) :
          /\ fwrite(toks) \/ fflush(toks)
          /\ werr' => pc' = "fail"
          /\ Work(pc', in', rd', rerr', streamNo', inStream', w \o toks)
    BY <1>2, <1>7, <1>8, <1>15, <2>1, WorkChunk
  <2>3. stdout' \in Seq(Token) /\ pend' \in Seq(Token) /\ stdout' \o pend' = (stdout \o pend) \o toks
    BY <1>2, <1>5, <2>2, Spoken
  <2>4. QED
    BY <1>9, <2>1, <2>2, <2>3
<1>16. CASE StreamHeader \/ StreamTrailer \/ StreamEnds \/ StreamCorrupt \/ StreamMagic \/ CatEnds \/ ReadFails
  <2>1. pc \in Ours /\ n' = n /\ stdout' = stdout /\ pend' = pend /\ pc' \in {"stream", "cat", "close", "magic"}
    BY <1>2, <1>16 DEF StreamHeader, StreamTrailer, StreamEnds, StreamCorrupt, StreamMagic, CatEnds, ReadFails,
       BrokenStream, FailWith, disk, Ours
  <2>2. Work(pc', in', rd', rerr', streamNo', inStream', w)
    BY <1>2, <1>7, <1>8, <1>16, <2>1, WorkReader
  <2>3. QED
    BY <1>5, <1>9, <1>10, <2>1, <2>2
<1>17. CASE CloseFiles \/ BadMagic
  <2>1. /\ n' = n /\ pc' = "stamp" /\ in' = in /\ w \in Complete(in)
        /\ (fflush(<<>>) /\ ~werr') \/ (stdout' = stdout /\ pend' = pend)
    BY <1>2, <1>7, <1>17 DEF CloseFiles, BadMagic, FailWith, Proceed, ferror, stream, disk, Work
  <2>2. stdout' \in Seq(Token) /\ pend' \in Seq(Token) /\ stdout' \o pend' = (stdout \o pend) \o <<>>
    BY <1>2, <1>5, <1>10, <2>1, Spoken
  <2>3. Work(pc', in', rd', rerr', streamNo', inStream', w \o <<>>)
    BY <2>1 DEF Work
  <2>4. QED
    BY <1>9, <1>10, <1>11, <2>1, <2>2, <2>3
<1>18. CASE StampOutput
  <2>1. pc = "stamp" /\ pc' = "next" /\ n' = n + 1 /\ stdout' = stdout /\ pend' = pend
    BY <1>2, <1>18 DEF StampOutput, NextArgument, disk
  <2>2. /\ parts \in Seq(Seq(Token)) /\ Len(parts) = n - 1
        /\ \A i \in 1 .. n - 1 : parts[i] \in Complete(orig[cmd.args[i]])
        /\ stdout \o pend = FlattenSeq(parts) \o w
    BY <1>6 DEF Pieces
  <2>3. w \in Complete(orig[cmd.args[n]])
    BY <1>7, <1>8, <2>1 DEF Ours, Late, In
  <2> DEFINE t == Append(parts, w)
  <2>4. /\ t \in Seq(Seq(Token)) /\ Len(t) = n' - 1 /\ n' - 1 = n
        /\ \A i \in 1 .. n - 1 : t[i] = parts[i]
        /\ t[n] = w
    <3> DEFINE P == Seq(Token)
    <3>1. parts \in Seq(P) /\ w \in P
      BY <1>7, <2>2
    <3> HIDE DEF P
    <3>2. t \in Seq(P) /\ Len(t) = Len(parts) + 1 /\ t[Len(parts) + 1] = w
          /\ \A i \in 1 .. Len(parts) : t[i] = parts[i]
      BY <3>1
    <3> HIDE DEF t
    <3>3. n' - 1 = n /\ Len(parts) + 1 = n
      BY <1>3, <2>1, <2>2
    <3>4. QED
      BY <2>2, <3>2, <3>3 DEF P
  <2>5. FlattenSeq(t) = FlattenSeq(parts) \o w /\ FlattenSeq(t) \in Seq(Token)
    <3>1. FlattenSeq(parts) \in Seq(Token) /\ FlattenSeq(t) = FlattenSeq(parts) \o w
      BY <1>7, <2>2, FlattenAppend
    <3>2. QED
      BY <1>7, <3>1
  <2> HIDE DEF t
  <2>6. \A i \in 1 .. n' - 1 : t[i] \in Complete(orig[cmd.args[i]])'
    <3>1. \A i \in 1 .. n : i = n \/ i \in 1 .. n - 1
      BY <1>3
    <3>2. QED
      BY <1>1, <1>11, <2>2, <2>3, <2>4, <3>1
  <2>7. stdout' \o pend' = FlattenSeq(t) \o <<>>
    BY <2>1, <2>2, <2>5
  <2>8. Work(pc, in, rd, rerr, streamNo, inStream, <<>>)'
    BY <2>1 DEF Work
  <2>9. Pieces(t, <<>>)'
    BY <1>10, <2>1, <2>4, <2>6, <2>7, <2>8 DEF Pieces
  <2>10. QED
    BY <1>5, <2>1, <2>9
<1>19. CASE OtherRemoves \/ OtherCreates
  BY <1>2, <1>19 DEF OtherRemoves, OtherCreates
<1>20. CASE UNCHANGED bzip2Vars
  <2>1. UNCHANGED <<n, stdout, pend, pc, in, rd, rerr, streamNo, inStream>>
    BY <1>20 DEF bzip2Vars, disk, stream
  <2>2. Work(pc', in', rd', rerr', streamNo', inStream', w \o <<>>)
    BY <1>7, <1>10, <2>1
  <2>3. QED
    BY <1>5, <1>7, <1>9, <1>10, <1>11, <2>1, <2>2
<1>21. ~(NotBzip2 \/ CleanUpAndFail \/ RemoveInput \/ DeleteOutput \/ Kill \/ MetaInfoFails)
  BY <1>2, <1>4 DEF NotBzip2, CleanUpAndFail, RemoveInput, DeleteOutput, Kill, MetaInfoFails, Typed, TypedCtl
<1>22. QED
  BY <1>12, <1>13, <1>14, <1>15, <1>16, <1>17, <1>18, <1>19, <1>20, <1>21 DEF Bzip2Next, Program, Bzip2Done

-----------------------------------------------------------------------------
(* Outputs into files.                                                     *)

\* An argument is left with an exit status of 0 only behind a whole output.
LEMMA Leaves ==
  ASSUME Filesystem, Typed, Progress, ToFile, [Bzip2Next]_bzip2Vars, exitValue' = 0, pc' # "killed",
         n' # n \/ (Busy /\ pc' \in {"next", "exit"})
  PROVE  /\ pc \in {"stamp", "remove"} /\ pc' = "next" /\ n' = n + 1
         /\ \A x \in DOMAIN files : x # In => files'[x] = files[x]
<1> USE DEF Ours, Late
<1>1. exitValue \in Nat /\ (pc = "fail" => ec \in {1, 2}) /\ cmd.op # "test"
  BY DEF Typed, TypedCtl, ToFile
<1>2. CASE CheckRefused \/ CheckAccepted \/ MetaInfoFails \/ OpenFiles \/ OpenFails
  BY <1>1, <1>2 DEF CheckRefused, CheckAccepted, MetaInfoFails, OpenFiles, OpenFails, NextArgument, setExit, Busy
<1>3. CASE CompressChunk \/ CompressFinish \/ StreamHeader \/ StreamBlock \/ StreamTrailer \/ CatChunk \/ CatEnds
  BY <1>3 DEF CompressChunk, CompressFinish, StreamHeader, StreamBlock, StreamTrailer, CatChunk, CatEnds,
     FailWith, Proceed
<1>4. CASE StreamEnds \/ StreamCorrupt \/ StreamMagic \/ CloseFiles \/ BadMagic \/ ReadFails
  BY <1>1, <1>4 DEF StreamEnds, StreamCorrupt, StreamMagic, CloseFiles, BadMagic, ReadFails, BrokenStream,
     FailWith, Proceed
<1>5. CASE NotBzip2
  BY <1>1, <1>5 DEF NotBzip2, NotBzip2Value, NextArgument, setExit, FailWith
<1>6. CASE StampOutput
  BY <1>1, <1>6 DEF StampOutput, NextArgument, FailWith, Proceed, disk
<1>7. CASE RemoveInput
  BY <1>1, <1>7 DEF RemoveInput, NextArgument, FailWith
<1>8. CASE CleanUpAndFail
  BY <1>1, <1>8 DEF CleanUpAndFail, setExit
<1>9. CASE DeleteOutput
  BY <1>1, <1>9 DEF DeleteOutput, status, Progress
<1>10. CASE Exit \/ Kill \/ OtherCreates \/ OtherRemoves \/ UNCHANGED bzip2Vars
  BY <1>10 DEF Exit, Kill, OtherCreates, OtherRemoves, bzip2Vars, Busy
<1>11. QED
  BY <1>2, <1>3, <1>4, <1>5, <1>6, <1>7, <1>8, <1>9, <1>10 DEF Bzip2Next, Program, Bzip2Done

\* A whole output stays, unless it is the turn of its input again.
LEMMA StaysFinished ==
  ASSUME Filesystem, Typed, StepKind, ToFile, exitValue' = 0,
         NEW i \in Args, i < n, Independent(cmd.args[i]), cmd.args[i] \notin foreign',
         ~(Busy /\ In = cmd.args[i]),
         files[OutName(cmd.args[i])] \in Complete(orig[cmd.args[i]]),
         Busy => Out # OutName(cmd.args[i])
  PROVE  \/ Busy' /\ In' = cmd.args[i]
         \/ /\ files'[OutName(cmd.args[i])] = files[OutName(cmd.args[i])]
            /\ Busy' => Out' # OutName(cmd.args[i])
<1> DEFINE p == cmd.args[i]
           o == OutName(p)
<1> USE DEF Ours, Late
<1>1. /\ p \in Named /\ p \in DOMAIN files /\ o \in DOMAIN files /\ o # p
      /\ n <= Len(cmd.args) => In \in Named /\ In \in DOMAIN files
  BY Layout DEF Named, Args
<1>2. n \in Nat \ {0} /\ i \in Nat /\ Len(cmd.args) \in Nat
      /\ (pc \notin {"next", "exit", "killed"} => n <= Len(cmd.args))
  BY Layout DEF Typed, TypedCtl, Args
<1>3. n' = n => In' = In /\ Out' = Out
  BY Frame
<1>4. files[o] # Absent
  <2>1. orig[p] \in Content /\ cmd.op \in {"compress", "uncompress", "test"}
    BY <1>1, Layout DEF Filesystem, Typed, TypedFiles
  <2>2. QED
    BY <2>1, CompleteTyped, AbsentIsNoFile
\* An argument before the n-th has an output that is not the n-th.
<1>5. n <= Len(cmd.args) => In # o
  <2>1. SUFFICES ASSUME n <= Len(cmd.args) PROVE cmd.args[n] # OutName(p)
    BY DEF In
  <2>2. n \in 1 .. Len(cmd.args) /\ i \in 1 .. Len(cmd.args) /\ i < n
    BY <1>2, <2>1 DEF Args
  <2>3. QED
    BY <2>2 DEF Independent
<1>6. In = p \/ (cmd.force /\ In \in Named => Out # o)
  BY <1>1 DEF Independent, Out
<1>7. Independent(p) /\ p \notin foreign' /\ ~(Busy /\ In = p) /\ (Busy => Out # o)
  OBVIOUS
<1> SUFFICES (Busy' /\ In' = p) \/ (files'[o] = files[o] /\ (Busy' => Out' # o))
  OBVIOUS
<1> HIDE DEF p, o
<1>8. CASE Stays
  <2>1. files' = files /\ (Busy' => Busy /\ n' = n)
    BY <1>8 DEF Stays, Busy
  <2>2. QED
    BY <1>3, <1>7, <2>1
<1>9. CASE Writes
  <2>1. OnlyOut /\ Busy /\ n' = n
    BY <1>9 DEF Writes, Busy
  <2>2. QED
    BY <1>1, <1>3, <1>7, <2>1 DEF OnlyOut
<1>10. CASE Clears
  <2>1. OnlyOut /\ Busy /\ ~Busy'
    BY <1>10 DEF Clears, Busy
  <2>2. QED
    BY <1>1, <1>7, <2>1 DEF OnlyOut
<1>11. CASE Makes
  <2>1. OnlyOut /\ Busy /\ (Busy' => n' = n)
    BY <1>11 DEF Makes, Busy
  <2>2. QED
    BY <1>1, <1>3, <1>7, <2>1 DEF OnlyOut
<1>12. CASE Accepts
  <2>1. OnlyOut /\ Busy' /\ n' = n /\ n <= Len(cmd.args) /\ (cmd.force \/ files[Out] = Absent)
    BY <1>12 DEF Accepts, Busy, Refused, ToFile
  <2>2. CASE In = p
    BY <1>3, <2>1, <2>2
  <2>3. CASE In # p
    <3>1. Out # o
      BY <1>1, <1>4, <1>6, <2>1, <2>3
    <3>2. QED
      BY <1>1, <1>3, <2>1, <3>1 DEF OnlyOut
  <2>4. QED
    BY <2>2, <2>3
<1>17. CASE Declines
  <2>1. files' = files /\ Busy' /\ n' = n /\ n <= Len(cmd.args) /\ cmd.force
    BY <1>17 DEF Declines, Busy
  <2>2. QED
    BY <1>1, <1>3, <1>6, <2>1
<1>13. CASE TakesIn
  <2>1. n <= Len(cmd.args) /\ ~Busy' /\ files' = [files EXCEPT ![In] = Absent]
    BY <1>2, <1>13 DEF TakesIn, Busy
  <2>2. QED
    BY <1>1, <1>5, <2>1
<1>14. CASE OtherCreates
  <2>1. files[Out] = Absent /\ files' = [files EXCEPT ![Out] = Foreign] /\ n' = n /\ (Busy' <=> Busy)
    BY <1>14 DEF OtherCreates, Busy
  <2>2. QED
    BY <1>1, <1>3, <1>4, <1>7, <2>1
<1>15. CASE OtherRemoves
  <2>1. /\ n <= Len(cmd.args) /\ files' = [files EXCEPT ![In] = Absent] /\ n' = n /\ (Busy' <=> Busy)
    BY <1>15 DEF OtherRemoves, Running, Busy
  <2>2. QED
    BY <1>1, <1>3, <1>5, <1>7, <2>1
<1>16. QED
  BY <1>8, <1>9, <1>10, <1>11, <1>12, <1>13, <1>14, <1>15, <1>17 DEF StepKind

LEMMA FilesDoneStep ==
  ASSUME Filesystem, Typed, Progress, Safe, FilesDone, [Bzip2Next]_bzip2Vars
  PROVE  FilesDone'
<1>1. /\ cmd' = cmd /\ orig' = orig /\ (ToFile' <=> ToFile) /\ foreign \subseteq foreign'
      /\ exitValue' = 0 => exitValue = 0
      /\ n' = n \/ (n' = n + 1 /\ n <= Len(cmd.args))
      /\ pc' # "killed" => pc # "killed"
  BY Grows
<1>2. StepKind /\ TypedCtl'
  BY Kinds
<1>3. /\ \A p : OutName(p)' = OutName(p) /\ (Independent(p)' <=> Independent(p))
      /\ \A c : Complete(c)' = Complete(c)
      /\ n' = n => In' = In
  BY <1>1, <1>2, Frame DEF Complete
<1> SUFFICES ASSUME ToFile, exitValue' = 0, pc' # "killed", NEW i \in Args, i < n',
                    Independent(cmd.args[i]), cmd.args[i] \notin foreign'
             PROVE  \/ Busy' /\ In' = cmd.args[i]
                    \/ /\ files'[OutName(cmd.args[i])] \in Complete(orig[cmd.args[i]])
                       /\ Busy' => Out' # OutName(cmd.args[i])
  BY <1>1, <1>3 DEF FilesDone, AllFinished, Args
<1> DEFINE p == cmd.args[i]
           o == OutName(p)
<1>4. n \in Nat \ {0} /\ i \in Nat /\ p \in Named /\ o \in DOMAIN files /\ o # p /\ pc' \in PCs
  BY <1>2, Layout DEF Typed, TypedCtl, Args, Named
<1>5. i < n => (Busy /\ In = p) \/ (files[o] \in Complete(orig[p]) /\ (Busy => Out # o))
  BY <1>1 DEF FilesDone, AllFinished
<1>6. CASE In = p /\ (n' # n \/ (Busy /\ ~Busy'))
  <2>1. n' # n \/ (Busy /\ pc' \in {"next", "exit"})
    BY <1>4, <1>6 DEF Busy, PCs
  <2>2. /\ pc \in {"stamp", "remove"} /\ pc' = "next"
        /\ \A x \in DOMAIN files : x # In => files'[x] = files[x]
    BY <2>1, Leaves
  <2>3. files[Out] \in Complete(in) /\ in = orig[In]
    BY <1>4, <1>6, <2>2 DEF Progress, Safe, Turn, Ours, Late
  <2>4. files'[o] = files[o] /\ Out = o
    BY <1>4, <1>6, <2>2 DEF Out
  <2>5. ~Busy'
    BY <2>2 DEF Busy, Ours, Late
  <2>6. QED
    BY <1>6, <2>3, <2>4, <2>5
<1>7. CASE In = p /\ n' = n /\ (Busy => Busy')
  <2>1. CASE Busy
    BY <1>3, <1>7, <2>1
  <2>2. CASE ~Busy
    <3>1. i < n /\ files[o] \in Complete(orig[p])
      BY <1>5, <1>7, <2>2
    <3>2. QED
      BY <1>2, <2>2, <3>1, StaysFinished
  <2>3. QED
    BY <2>1, <2>2
<1>8. CASE In # p
  <2>1. i < n
    BY <1>1, <1>4, <1>8 DEF In
  <2>2. files[o] \in Complete(orig[p]) /\ (Busy => Out # o)
    BY <1>5, <1>8, <2>1
  <2>3. QED
    BY <1>2, <1>8, <2>1, <2>2, StaysFinished
<1>9. QED
  BY <1>6, <1>7, <1>8

-----------------------------------------------------------------------------
LEMMA ExitInit ==
  ASSUME Filesystem, Bzip2Init
  PROVE  ExitInv
<1>1. /\ cmd \in Commands /\ orig \in Directories(cmd) /\ files = orig /\ n = 1 /\ pc = "next"
      /\ pend = <<>> /\ exitValue = 0 /\ stdout = <<>>
  BY DEF Bzip2Init
<1>2. Typed /\ Len(cmd.args) \in Nat
  BY FilesInit, Layout DEF FilesInv
<1>3. Ends
  BY <1>1, <1>2 DEF Ends
<1>4. Reads
  BY <1>1 DEF Reads, Ours, Late
<1>5. \A i \in Args : ~(i < n)
  BY <1>1, <1>2 DEF Args
<1>6. FilesDone
  BY <1>5 DEF FilesDone
<1>7. TestsDone
  BY <1>1, <1>5 DEF TestsDone, Testing
<1>8. Told
  <2>1. <<>> \in Seq(Seq(Token)) /\ <<>> \in Seq(Token) /\ Len(<<>>) = n - 1
    <3>1. n - 1 = 0
      BY <1>1
    <3>2. QED
      BY <3>1
  <2>2. \A i \in 1 .. n - 1 : FALSE
    BY <1>1
  <2>3. FlattenSeq(<<>>) = <<>>
    BY DEF FlattenSeq
  <2>4. stdout \o pend = FlattenSeq(<<>>) \o <<>>
    BY <1>1, <2>3
  <2>5. Work(pc, in, rd, rerr, streamNo, inStream, <<>>)
    BY <1>1 DEF Work
  <2>6. Pieces(<<>>, <<>>)
    BY <1>1, <2>1, <2>2, <2>4, <2>5 DEF Pieces
  <2>7. QED
    BY <1>1, <2>1, <2>6 DEF Told
<1>9. QED
  BY <1>3, <1>4, <1>6, <1>7, <1>8 DEF ExitInv

LEMMA ExitStep ==
  ASSUME Filesystem, FilesInv, ExitInv, [Bzip2Next]_bzip2Vars
  PROVE  ExitInv'
<1>1. Typed /\ Progress /\ Safe /\ Ends /\ Reads /\ FilesDone /\ TestsDone /\ Told
  BY DEF FilesInv, ExitInv
<1>2. Ends' /\ FilesDone'
  BY <1>1, EndsStep, FilesDoneStep
<1>3. Reads' /\ TestsDone' /\ Told'
  BY <1>1, ReadsStep, TestsDoneStep, ToldStep
<1>4. QED
  BY <1>2, <1>3 DEF ExitInv

\* What an exit status of 0 says, from the invariant.
LEMMA ExitSays ==
  ASSUME Filesystem, FilesInv, ExitInv, pc = "exit", exitValue = 0
  PROVE  ExitTells
<1>1. Typed /\ Ends /\ FilesDone /\ TestsDone /\ Told
  BY DEF FilesInv, ExitInv
<1>2. n = Len(cmd.args) + 1 /\ Len(cmd.args) \in Nat /\ ~testFailsExist
  BY <1>1, Layout DEF Ends
<1>3. \A i \in Args : i < n
  BY <1>2 DEF Args
<1>4. CASE cmd.op = "test"
  <2>1. \A i \in Args : Sound(cmd.args[i])
    BY <1>1, <1>2, <1>3, <1>4 DEF TestsDone
  <2>2. \A p \in Named : p \in foreign \/ BeforeGarbage(orig[p]) # {}
    BY <2>1 DEF Named, Args, Sound
  <2>3. QED
    BY <1>4, <2>2 DEF ExitTells
<1>5. CASE ToFile
  <2>1. \A i \in Args : AllFinished(cmd.args[i])
    BY <1>1, <1>3, <1>5 DEF FilesDone
  <2>2. ~Busy
    BY DEF Busy, Ours, Late
  <2>3. \A p \in Named : Independent(p) /\ p \notin foreign => files[OutName(p)] \in Complete(orig[p])
    BY <2>1, <2>2 DEF AllFinished, Named, Args
  <2>4. QED
    BY <1>5, <2>3 DEF ExitTells, ToFile
<1>6. CASE cmd.op # "test" /\ ~ToFile /\ foreign = {}
  <2>1. Telling
    BY <1>6 DEF Telling
  <2>2. PICK parts, w : Pieces(parts, w)
    BY <1>1, <2>1 DEF Told
  <2>3. stdout \in Seq(Token) /\ pend = <<>> /\ w = <<>> /\ stdout \o pend = FlattenSeq(parts) \o w
        /\ parts \in Seq(Seq(Token)) /\ Len(parts) = n - 1
        /\ \A i \in 1 .. n - 1 : parts[i] \in Complete(orig[cmd.args[i]])
    BY <1>1, <2>1, <2>2 DEF Told, Pieces
  <2>4. stdout = FlattenSeq(parts)
    <3>1. stdout \o pend = stdout /\ FlattenSeq(parts) \o w = FlattenSeq(parts)
      <4>1. FlattenSeq(parts) \in Seq(Token)
        BY <2>3, FlattenAppend
      <4>2. QED
        BY <2>3, <4>1
    <3>2. QED
      BY <2>3, <3>1
  <2>5. n - 1 = Len(cmd.args)
    BY <1>2
  <2>6. \A i \in Args : parts[i] \in Complete(orig[cmd.args[i]])
    BY <2>3, <2>5 DEF Args
  <2>7. parts \in [Args -> UNION {Complete(orig[p]) : p \in Named}]
    <3>1. \A i \in Args : parts[i] \in UNION {Complete(orig[p]) : p \in Named}
      BY <2>6 DEF Named, Args
    <3>2. parts = [i \in Args |-> parts[i]]
      <4> DEFINE P == Seq(Token)
      <4>1. parts \in Seq(P) /\ Len(parts) = Len(cmd.args)
        BY <2>3, <2>5
      <4> HIDE DEF P
      <4>2. QED
        BY <4>1 DEF Args
    <3>3. QED
      BY <3>1, <3>2
  <2>8. \E part \in [Args -> UNION {Complete(orig[p]) : p \in Named}] :
          /\ \A i \in Args : part[i] \in Complete(orig[cmd.args[i]])
          /\ stdout = FlattenSeq(part)
    BY <2>4, <2>6, <2>7
  <2>9. cmd.srcMode # "F2F"
    BY <1>6 DEF ToFile
  <2>10. QED
    BY <1>6, <2>8, <2>9 DEF ExitTells, Args
<1>7. CASE cmd.op # "test" /\ ~ToFile /\ foreign # {}
  <2>1. cmd.srcMode # "F2F"
    BY <1>7 DEF ToFile
  <2>2. QED
    BY <1>7, <2>1 DEF ExitTells
<1>8. QED
  BY <1>4, <1>5, <1>6, <1>7

\* The property ExitTells: main returns 0 only when every argument has been
\* dealt with: its output is complete (compress and uncompress to files), all
\* outputs are on stdout in the order of the arguments, or it tested as sound.
THEOREM ExitStatusTells ==
  ASSUME Filesystem
  PROVE  Bzip2Spec => []ExitTells
<1>1. Bzip2Init => FilesInv /\ ExitInv
  BY FilesInit, ExitInit
<1>2. (FilesInv /\ ExitInv) /\ [Bzip2Next]_bzip2Vars => (FilesInv /\ ExitInv)'
  BY FilesStep, ExitStep
<1>3. FilesInv /\ ExitInv => ExitTells
  <2>1. SUFFICES ASSUME FilesInv, ExitInv PROVE ExitTells
    OBVIOUS
  <2>2. CASE pc = "exit" /\ exitValue = 0
    BY <2>1, <2>2, ExitSays
  <2>3. CASE ~(pc = "exit" /\ exitValue = 0)
    BY <2>3 DEF ExitTells
  <2>4. QED
    BY <2>2, <2>3
<1>4. QED
  BY <1>1, <1>2, <1>3, PTL DEF Bzip2Spec

-----------------------------------------------------------------------------
(***************************************************************************)
(* Proof that the harness measures what the suite lists (run.sh, common.sh,*)
(* Makefile.in), for any suite in which a program belongs to one directory,*)
(* whatever make and the compilers fail to build and whatever was built    *)
(* before.  The invariant says where the driver is while an entry is run,  *)
(* whose values the shell variables hold, whose code is in the .cwasm file *)
(* and which engines of the entry are still to come.                       *)
(***************************************************************************)

EngineNames == {"native", "wasmtime", "wavm", "wasmer", "wasm3", "wamr"}
Codes == EngineNames \cup {NoValue}
Fields == {"arg", "wasmdir"}
Texts == STRING \cup {NoValue}
Workload == [arg : Texts, wasmdir : Texts]
AtRun == phase \in {"run", "compiled"}

TypeOK ==
  /\ opts \in [aot : BOOLEAN, dry : BOOLEAN]
  /\ makes \in [Dirs -> MayFail]
  /\ phase \in {"enter", "build", "test", "run", "compiled"}
  /\ nth \in 1 .. Len(Suite) + 1 /\ (phase # "enter" => nth \in 1 .. Len(Suite))
  /\ cwd \in Dirs \cup {Root}
  /\ cwasm \in [Dirs -> Codes]
  /\ leftover \in Workload
  /\ engines \in Seq(EngineNames)
  /\ log \subseteq [entry : 1 .. Len(Suite), engine : EngineNames, given : Workload,
                    code : Codes, at : Dirs \cup {Root}]

\* A directory holds nothing or all that make leaves in it; the driver runs
\* an entry in the entry's directory.
Places ==
  /\ DOMAIN built = Dirs \cup {Root} /\ built[Root] = {}
  /\ \A d \in Dirs : built[d] \in {{}, Built(d, makes[d])}
  /\ AtRun => cwd = Entry.dir /\ cwd \in Dirs

\* A variable that was set was listed before, and holds what the entry lists.
Variables ==
  \A f \in Fields :
    /\ leftover[f] # NoValue =>
         \E j \in 1 .. Len(Suite) : /\ j < nth \/ (j = nth /\ AtRun)
                                    /\ Suite[j][f] # NoValue
    /\ AtRun /\ Listed(nth, f) => leftover[f] = Suite[nth][f]

\* Compiled code is that of an engine measured on this entry, or about to be.
Compiled ==
  /\ opts.dry => \A d \in Dirs : cwasm[d] = NoValue
  /\ \A d \in Dirs : cwasm[d] # NoValue =>
       /\ AtRun /\ d = cwd
       /\ HasEngine(nth, cwasm[d]) \/ (phase = "compiled" /\ cwasm[d] = Head(engines))

\* While everything builds, the driver is where it should be, and each engine
\* of the entry has been measured or is still to come.
AllBuild(i) == \A j \in 1 .. i : Builds(j)
ToCome(e) == \E k \in 1 .. Len(engines) : engines[k] = e
Listing == {"native"} \cup {Engines[k] : k \in 1 .. Len(Engines)}
AllMeasured ==
  ~opts.dry =>
    /\ \A i \in 1 .. Len(Suite) : i < nth /\ AllBuild(i) => MeasuredOn(i)
    /\ phase = "enter" /\ AllBuild(nth - 1) => cwd = Root
    /\ phase # "enter" /\ AllBuild(nth) => cwd = Entry.dir
    /\ phase = "test" /\ AllBuild(nth) => <<Entry.prog, "wasm">> \in built[cwd]
    /\ AtRun => \A e \in Listing : HasEngine(nth, e) \/ ToCome(e)

HarnessInv ==
  TypeOK /\ Places /\ Variables /\ Compiled /\ AllMeasured /\ MeasuredAsListed /\ CodeOfThisEntry

-----------------------------------------------------------------------------
LEMMA SuiteTyped ==
  /\ Len(Suite) \in Nat
  /\ \A i \in 1 .. Len(Suite) :
       /\ Suite[i] \in [dir : STRING, prog : STRING, arg : STRING, wasmdir : STRING]
       /\ \A f \in Fields : Suite[i][f] \in STRING
<1> DEFINE Entries == [dir : STRING, prog : STRING, arg : STRING, wasmdir : STRING]
<1>1. Suite \in Seq(Entries)
  BY SuiteAssumption
<1>2. ASSUME NEW i \in 1 .. Len(Suite) PROVE Suite[i] \in Entries
  <2> HIDE DEF Entries
  <2>1. QED
    BY <1>1
<1>3. ASSUME NEW i \in 1 .. Len(Suite), NEW f \in Fields PROVE Suite[i][f] \in STRING
  <2>1. Suite[i].arg \in STRING /\ Suite[i].wasmdir \in STRING
    BY <1>2
  <2>2. QED
    BY <2>1 DEF Fields
<1>4. Len(Suite) \in Nat
  BY <1>1
<1>5. QED
  BY <1>2, <1>3, <1>4

LEMMA EngineList ==
  ASSUME opts.aot \in BOOLEAN
  PROVE  /\ <<"native">> \o Engines \in Seq(EngineNames)
         /\ \A e \in Listing : \E k \in 1 .. Len(<<"native">> \o Engines) :
              (<<"native">> \o Engines)[k] = e
<1>1. Engines \in Seq(EngineNames)
  <2>1. Compilers \in Seq(EngineNames) /\ Interpreters \in Seq(EngineNames)
    BY DEF Compilers, Interpreters, EngineNames
  <2>2. Compilers \o Interpreters \in Seq(EngineNames)
    BY <2>1
  <2>3. QED
    BY <2>1, <2>2 DEF Engines
<1>2. \A k \in 1 .. Len(Engines) : (<<"native">> \o Engines)[k + 1] = Engines[k]
  BY <1>1
<1>3. /\ <<"native">> \o Engines \in Seq(EngineNames) /\ (<<"native">> \o Engines)[1] = "native"
      /\ Len(<<"native">> \o Engines) = Len(Engines) + 1 /\ Len(Engines) \in Nat
  BY <1>1 DEF EngineNames
<1>4. \A k \in 1 .. Len(Engines) : k + 1 \in 1 .. Len(<<"native">> \o Engines)
  BY <1>3
<1>5. 1 \in 1 .. Len(<<"native">> \o Engines)
  BY <1>3
<1>6. QED
  BY <1>2, <1>3, <1>4, <1>5, Zenon DEF Listing

LEMMA HeadAndTail ==
  ASSUME NEW S, NEW s \in Seq(S), s # <<>>
  PROVE  /\ Head(s) \in S /\ Tail(s) \in Seq(S)
         /\ \A k \in 1 .. Len(s) : s[k] = Head(s) \/ \E j \in 1 .. Len(Tail(s)) : Tail(s)[j] = s[k]
<1>1. Head(s) \in S /\ Tail(s) \in Seq(S) /\ Len(Tail(s)) = Len(s) - 1 /\ Len(s) \in Nat \ {0}
  OBVIOUS
<1>2. ASSUME NEW k \in 1 .. Len(s), k # 1
      PROVE  k - 1 \in 1 .. Len(Tail(s)) /\ Tail(s)[k - 1] = s[k]
  BY <1>1, <1>2
<1>3. s[1] = Head(s)
  BY <1>1
<1>4. QED
  BY <1>1, <1>2, <1>3

\* What was built in the directory of an entry.
LEMMA BuiltPrograms ==
  ASSUME NEW d, NEW how \in MayFail, NEW i \in 1 .. Len(Suite)
  PROVE  /\ \A form : <<Suite[i].prog, form>> \in Built(d, how) => d = Suite[i].dir
         /\ d = Suite[i].dir /\ how = "both" => <<Suite[i].prog, "wasm">> \in Built(d, how)
<1>1. \A p \in ProgOf(d) : \E j \in 1 .. Len(Suite) : Suite[j].dir = d /\ p = Suite[j].prog
  BY DEF ProgOf
<1>2. Suite[i].prog \in ProgOf(Suite[i].dir)
  BY DEF ProgOf
<1>3. how \in {"both", "native", "nothing"}
  BY OutcomesAssumption
<1>4. ASSUME NEW form, <<Suite[i].prog, form>> \in Built(d, how) PROVE d = Suite[i].dir
  <2>1. Suite[i].prog \in ProgOf(d)
    BY <1>3, <1>4 DEF Built
  <2>2. QED
    BY <1>1, <2>1, SuiteAssumption
<1>5. QED
  BY <1>2, <1>4 DEF Built

\* A step that only adds to the log keeps what has been measured.
LEMMA MeasuredStays ==
  ASSUME log \subseteq log', opts' = opts
  PROVE  /\ \A i, e : HasEngine(i, e) => HasEngine(i, e)'
         /\ \A i : MeasuredOn(i) => MeasuredOn(i)'
         /\ Listing' = Listing
BY DEF HasEngine, MeasuredOn, Engines, Listing

LEMMA BuildsStays ==
  ASSUME makes' = makes
  PROVE  /\ \A i : Builds(i)' <=> Builds(i)
         /\ \A i : AllBuild(i)' <=> AllBuild(i)
BY DEF Builds, AllBuild

-----------------------------------------------------------------------------
(* The steps *)

\* The part of the invariant about the log holds as long as the log stays.
LEMMA LogStays ==
  ASSUME MeasuredAsListed, CodeOfThisEntry, log' = log
  PROVE  MeasuredAsListed' /\ CodeOfThisEntry'
BY DEF MeasuredAsListed, CodeOfThisEntry, Listed

LEMMA EnterStep ==
  ASSUME HarnessInv, Enter
  PROVE  HarnessInv'
<1>1. /\ phase = "enter" /\ nth <= Len(Suite) /\ phase' = "build"
      /\ cwd' = IF cwd = Root /\ Entry.dir \in Dirs THEN Entry.dir ELSE cwd
      /\ UNCHANGED <<opts, makes, nth, built, cwasm, leftover, engines, log>>
      /\ Entry' = Entry
  BY DEF Enter, Entry
<1>2. TypeOK /\ Places /\ Variables /\ Compiled /\ AllMeasured
  BY DEF HarnessInv
<1>3. nth \in 1 .. Len(Suite)
  BY <1>1, <1>2 DEF TypeOK
<1>4. TypeOK'
  BY <1>1, <1>2, <1>3 DEF TypeOK
<1>5. Places'
  BY <1>1, <1>2 DEF Places, AtRun
<1>6. Variables'
  BY <1>1, <1>2 DEF Variables, AtRun, Listed
<1>7. Compiled'
  BY <1>1, <1>2 DEF Compiled, AtRun
<1>8. AllMeasured'
  <2>1. SUFFICES ASSUME ~opts.dry PROVE AllMeasured'
    BY <1>1 DEF AllMeasured
  <2>2. /\ \A i : AllBuild(i)' <=> AllBuild(i)
        /\ \A i : MeasuredOn(i) => MeasuredOn(i)'
    BY <1>1, BuildsStays, MeasuredStays
  <2>3. ASSUME AllBuild(nth) PROVE cwd' = Entry.dir
    <3>1. AllBuild(nth - 1) /\ Builds(nth)
      BY <1>3, <2>3, SuiteTyped DEF AllBuild
    <3>2. cwd = Root
      BY <1>1, <1>2, <2>1, <3>1 DEF AllMeasured
    <3>3. QED
      BY <1>1, <3>1, <3>2 DEF Builds, Entry
  <2>4. QED
    BY <1>1, <1>2, <2>1, <2>2, <2>3 DEF AllMeasured, AtRun
<1>9. QED
  BY <1>1, <1>4, <1>5, <1>6, <1>7, <1>8, LogStays DEF HarnessInv

LEMMA BuildStep ==
  ASSUME HarnessInv, Build
  PROVE  HarnessInv'
<1>1. /\ phase = "build" /\ phase' = "test"
      /\ built' = IF opts.dry \/ cwd = Root \/ <<Entry.prog, "native">> \in built[cwd]
                  THEN built
                  ELSE [built EXCEPT ![cwd] = @ \cup Built(cwd, makes[cwd])]
      /\ UNCHANGED <<opts, makes, nth, cwd, cwasm, leftover, engines, log>>
      /\ Entry' = Entry
  BY DEF Build, Entry
<1>2. TypeOK /\ Places /\ Variables /\ Compiled /\ AllMeasured
  BY DEF HarnessInv
<1>3. nth \in 1 .. Len(Suite)
  BY <1>1, <1>2 DEF TypeOK
<1>4. TypeOK'
  BY <1>1, <1>2, <1>3 DEF TypeOK
<1>5. Places'
  <2>1. CASE built' = built
    BY <1>1, <1>2, <2>1 DEF Places, AtRun
  <2>2. CASE cwd # Root /\ built' = [built EXCEPT ![cwd] = @ \cup Built(cwd, makes[cwd])]
    <3>1. cwd \in Dirs /\ Root \notin Dirs
      BY <1>2, <2>2, DirsAssumption DEF TypeOK
    <3>2. /\ DOMAIN built = Dirs \cup {Root} /\ built[Root] = {}
          /\ \A d \in Dirs : built[d] \in {{}, Built(d, makes[d])}
      BY <1>2 DEF Places
    <3>3. built'[cwd] = Built(cwd, makes[cwd]) /\ \A d \in Dirs \cup {Root} : d # cwd => built'[d] = built[d]
      BY <2>2, <3>1, <3>2
    <3>4. QED
      BY <1>1, <2>2, <3>1, <3>2, <3>3 DEF Places, AtRun
  <2>3. QED
    BY <1>1, <2>1, <2>2
<1>6. Variables'
  BY <1>1, <1>2 DEF Variables, AtRun, Listed
<1>7. Compiled'
  BY <1>1, <1>2 DEF Compiled, AtRun
<1>8. AllMeasured'
  <2>1. SUFFICES ASSUME ~opts.dry PROVE AllMeasured'
    BY <1>1 DEF AllMeasured
  <2>2. /\ \A i : AllBuild(i)' <=> AllBuild(i)
        /\ \A i : MeasuredOn(i) => MeasuredOn(i)'
    BY <1>1, BuildsStays, MeasuredStays
  <2>3. ASSUME AllBuild(nth) PROVE cwd = Entry.dir /\ <<Entry.prog, "wasm">> \in built'[cwd]
    <3>1. Builds(nth) /\ cwd = Entry.dir
      BY <1>1, <1>2, <1>3, <2>1, <2>3 DEF AllBuild, AllMeasured
    <3>2. cwd \in Dirs /\ makes[cwd] = "both" /\ makes[cwd] \in MayFail /\ cwd # Root
      BY <1>2, <3>1, DirsAssumption DEF Builds, Entry, TypeOK
    <3>3. <<Entry.prog, "wasm">> \in Built(cwd, makes[cwd])
      BY <1>3, <3>1, <3>2, BuiltPrograms DEF Entry
    <3>4. built[cwd] \in {{}, Built(cwd, makes[cwd])} /\ cwd \in DOMAIN built
      BY <1>2, <3>2 DEF Places
    <3>5. QED
      BY <1>1, <2>1, <3>1, <3>2, <3>3, <3>4
  <2>4. QED
    BY <1>1, <1>2, <2>1, <2>2, <2>3 DEF AllMeasured, AtRun
<1>9. QED
  BY <1>1, <1>4, <1>5, <1>6, <1>7, <1>8, LogStays DEF HarnessInv

LEMMA SkipStep ==
  ASSUME HarnessInv, Skip
  PROVE  HarnessInv'
<1>1. /\ phase = "test" /\ <<Entry.prog, "wasm">> \notin built[cwd]
      /\ phase' = "enter" /\ nth' = nth + 1
      /\ UNCHANGED <<opts, makes, cwd, built, cwasm, leftover, engines, log>>
  BY DEF Skip
<1>2. TypeOK /\ Places /\ Variables /\ Compiled /\ AllMeasured
  BY DEF HarnessInv
<1>3. nth \in 1 .. Len(Suite) /\ Len(Suite) \in Nat
  BY <1>1, <1>2, SuiteTyped DEF TypeOK
<1>4. TypeOK'
  BY <1>1, <1>2, <1>3 DEF TypeOK
<1>5. Places'
  BY <1>1, <1>2 DEF Places, AtRun
<1>6. Variables'
  <2>1. ASSUME NEW f \in Fields, leftover[f] # NoValue
        PROVE  \E j \in 1 .. Len(Suite) : j < nth + 1 /\ Suite[j][f] # NoValue
    <3>1. PICK j \in 1 .. Len(Suite) : j < nth /\ Suite[j][f] # NoValue
      BY <1>1, <1>2, <2>1 DEF Variables, AtRun
    <3>2. QED
      BY <1>3, <3>1
  <2>2. QED
    BY <1>1, <2>1 DEF Variables, AtRun
<1>7. Compiled'
  BY <1>1, <1>2 DEF Compiled, AtRun
<1>8. AllMeasured'
  <2>1. SUFFICES ASSUME ~opts.dry PROVE AllMeasured'
    BY <1>1 DEF AllMeasured
  <2>2. /\ \A i : AllBuild(i)' <=> AllBuild(i)
        /\ \A i : MeasuredOn(i) => MeasuredOn(i)'
    BY <1>1, BuildsStays, MeasuredStays
  <2>3. ~AllBuild(nth) /\ nth' - 1 = nth
    BY <1>1, <1>2, <1>3, <2>1 DEF AllMeasured
  <2>4. \A i \in 1 .. Len(Suite) : i < nth' => i < nth \/ i = nth
    BY <1>1, <1>3
  <2>5. QED
    BY <1>1, <1>2, <2>1, <2>2, <2>3, <2>4 DEF AllMeasured, AtRun
<1>9. QED
  BY <1>1, <1>4, <1>5, <1>6, <1>7, <1>8, LogStays DEF HarnessInv

\* A variable takes the entry's value, or is as it was.
LEMMA SourceStep ==
  ASSUME HarnessInv, Source
  PROVE  HarnessInv'
<1>1. /\ phase = "test" /\ <<Entry.prog, "wasm">> \in built[cwd]
      /\ leftover' = [arg |-> Latest(leftover.arg, Entry.arg),
                      wasmdir |-> Latest(leftover.wasmdir, Entry.wasmdir)]
      /\ engines' = <<"native">> \o Engines /\ phase' = "run"
      /\ UNCHANGED <<opts, makes, nth, cwd, built, cwasm, log>>
      /\ Entry' = Entry
  BY DEF Source, Entry
<1>2. TypeOK /\ Places /\ Variables /\ Compiled /\ AllMeasured
  BY DEF HarnessInv
<1>3. nth \in 1 .. Len(Suite) /\ Len(Suite) \in Nat
  BY <1>1, <1>2, SuiteTyped DEF TypeOK
<1>4. opts.aot \in BOOLEAN /\ leftover \in Workload
  BY <1>2 DEF TypeOK
<1>5. leftover' \in Workload /\ \A f \in Fields : leftover'[f] = Latest(leftover[f], Suite[nth][f])
  <2>1. leftover.arg \in Texts /\ leftover.wasmdir \in Texts
    BY <1>4 DEF Workload
  <2>2. Entry.arg \in STRING /\ Entry.wasmdir \in STRING
    BY <1>3, SuiteTyped DEF Entry, Fields
  <2>3. QED
    BY <1>1, <2>1, <2>2 DEF Latest, Workload, Fields, Entry, Texts
<1>6. engines' \in Seq(EngineNames) /\ \A e \in Listing : ToCome(e)'
  BY <1>1, <1>4, EngineList, Zenon DEF ToCome
<1>7. TypeOK'
  BY <1>1, <1>2, <1>3, <1>5, <1>6 DEF TypeOK
<1>8. cwd \in Dirs /\ cwd = Entry.dir
  <2>1. cwd \in Dirs \cup {Root} /\ built[cwd] # {}
    BY <1>1, <1>2 DEF TypeOK
  <2>2. cwd \in Dirs /\ built[cwd] = Built(cwd, makes[cwd])
    BY <1>2, <2>1 DEF Places
  <2>3. makes[cwd] \in MayFail
    BY <1>2, <2>2 DEF TypeOK
  <2>4. QED
    BY <1>1, <1>3, <2>2, <2>3, BuiltPrograms DEF Entry
<1>9. Places'
  BY <1>1, <1>2, <1>8 DEF Places, AtRun
<1>10. Variables'
  <2>1. ASSUME NEW f \in Fields, leftover'[f] # NoValue
        PROVE  \E j \in 1 .. Len(Suite) : (j < nth \/ j = nth) /\ Suite[j][f] # NoValue
    <3>1. CASE Suite[nth][f] # NoValue
      BY <1>3, <3>1
    <3>2. CASE Suite[nth][f] = NoValue
      <4>1. leftover[f] # NoValue
        BY <1>5, <2>1, <3>2 DEF Latest
      <4>2. QED
        BY <1>1, <1>2, <4>1 DEF Variables, AtRun
    <3>3. QED
      BY <3>1, <3>2
  <2>2. ASSUME NEW f \in Fields, Listed(nth, f) PROVE leftover'[f] = Suite[nth][f]
    <3>1. CASE Suite[nth][f] # NoValue
      BY <1>5, <3>1 DEF Latest
    <3>2. CASE Suite[nth][f] = NoValue
      <4>1. \A j \in 1 .. Len(Suite) : j < nth => Suite[j][f] = NoValue
        BY <1>3, <2>2, <3>2 DEF Listed
      <4>2. leftover[f] = NoValue
        BY <1>1, <1>2, <4>1 DEF Variables, AtRun
      <4>3. QED
        BY <1>5, <3>2, <4>2 DEF Latest
    <3>3. QED
      BY <3>1, <3>2
  <2>3. QED
    BY <1>1, <2>1, <2>2 DEF Variables, AtRun, Listed
<1>11. Compiled'
  BY <1>1, <1>2 DEF Compiled, AtRun
<1>12. AllMeasured'
  <2>1. SUFFICES ASSUME ~opts.dry PROVE AllMeasured'
    BY <1>1 DEF AllMeasured
  <2>2. /\ \A i : AllBuild(i)' <=> AllBuild(i)
        /\ \A i : MeasuredOn(i) => MeasuredOn(i)'
        /\ Listing' = Listing
    BY <1>1, BuildsStays, MeasuredStays
  <2>3. QED
    BY <1>1, <1>2, <1>6, <1>8, <2>1, <2>2 DEF AllMeasured, AtRun
<1>13. QED
  BY <1>1, <1>7, <1>9, <1>10, <1>11, <1>12, LogStays DEF HarnessInv

LEMMA CompileStep ==
  ASSUME HarnessInv, Compile
  PROVE  HarnessInv'
<1>1. /\ phase = "run" /\ engines # <<>> /\ phase' = "compiled"
      /\ cwasm' \in IF opts.dry THEN {cwasm} ELSE {cwasm, [cwasm EXCEPT ![cwd] = Head(engines)]}
      /\ UNCHANGED <<opts, makes, nth, cwd, built, leftover, engines, log>>
      /\ Entry' = Entry
  BY DEF Compile, Entry
<1>2. TypeOK /\ Places /\ Variables /\ Compiled /\ AllMeasured
  BY DEF HarnessInv
<1>3. nth \in 1 .. Len(Suite) /\ cwd \in Dirs /\ cwasm \in [Dirs -> Codes]
  BY <1>1, <1>2 DEF TypeOK, Places, AtRun
<1>4. Head(engines) \in EngineNames
  BY <1>1, <1>2, HeadAndTail DEF TypeOK
<1>5. cwasm' \in [Dirs -> Codes]
  BY <1>1, <1>3, <1>4 DEF Codes
<1>6. TypeOK'
  BY <1>1, <1>2, <1>3, <1>5 DEF TypeOK
<1>7. Places'
  BY <1>1, <1>2 DEF Places, AtRun
<1>8. Variables'
  BY <1>1, <1>2 DEF Variables, AtRun, Listed
<1>9. Compiled'
  <2>1. opts'.dry => \A d \in Dirs : cwasm'[d] = NoValue
    BY <1>1, <1>2 DEF Compiled
  <2>2. ASSUME NEW d \in Dirs, cwasm'[d] # NoValue
        PROVE  d = cwd /\ (HasEngine(nth, cwasm'[d]) \/ cwasm'[d] = Head(engines))
    BY <1>1, <1>2, <1>3, <2>2 DEF Compiled
  <2>3. \A e : HasEngine(nth, e)' <=> HasEngine(nth, e)
    BY <1>1 DEF HasEngine
  <2>4. QED
    BY <1>1, <2>1, <2>2, <2>3 DEF Compiled, AtRun, HasEngine
<1>10. AllMeasured'
  <2>1. SUFFICES ASSUME ~opts.dry PROVE AllMeasured'
    BY <1>1 DEF AllMeasured
  <2>2. /\ \A i : AllBuild(i)' <=> AllBuild(i)
        /\ \A i : MeasuredOn(i) => MeasuredOn(i)'
        /\ \A i, e : HasEngine(i, e) => HasEngine(i, e)'
        /\ Listing' = Listing
    BY <1>1, BuildsStays, MeasuredStays
  <2>3. \A e : ToCome(e)' <=> ToCome(e)
    BY <1>1 DEF ToCome
  <2>4. QED
    BY <1>1, <1>2, <2>1, <2>2, <2>3 DEF AllMeasured, AtRun, HasEngine
<1>11. QED
  BY <1>1, <1>6, <1>7, <1>8, <1>9, <1>10, LogStays DEF HarnessInv

\* What is measured is in the entry's directory, is given what its variables
\* hold, and runs its own code or that of an engine measured before.
LEMMA RunTestStep ==
  ASSUME HarnessInv, RunTest
  PROVE  HarnessInv'
<1>a. PICK e, given, code, r :
        /\ e = Head(engines)
        /\ given = IF e = "native" THEN [arg |-> Entry.arg, wasmdir |-> Entry.wasmdir] ELSE leftover
        /\ code = IF IsAot THEN cwasm[cwd] ELSE e
        /\ r = [entry |-> nth, engine |-> e, given |-> given, code |-> code, at |-> cwd]
  OBVIOUS
<1>1. /\ engines # <<>> /\ phase = (IF IsAot THEN "compiled" ELSE "run") /\ phase' = "run"
      /\ log' = IF opts.dry THEN log ELSE log \cup {r}
      /\ engines' = Tail(engines)
      /\ UNCHANGED <<opts, makes, nth, cwd, built, cwasm, leftover>>
      /\ Entry' = Entry
  BY <1>a DEF RunTest, Entry
<1>2. TypeOK /\ Places /\ Variables /\ Compiled /\ AllMeasured /\ MeasuredAsListed /\ CodeOfThisEntry
  BY DEF HarnessInv
<1>3. AtRun /\ nth \in 1 .. Len(Suite) /\ cwd \in Dirs /\ cwd = Entry.dir
  BY <1>1, <1>2 DEF TypeOK, Places, AtRun
<1>4. /\ e \in EngineNames /\ Tail(engines) \in Seq(EngineNames)
      /\ \A x : ToCome(x) => x = e \/ ToCome(x)'
  <2>1. engines \in Seq(EngineNames)
    BY <1>2 DEF TypeOK
  <2>2. /\ e \in EngineNames /\ Tail(engines) \in Seq(EngineNames)
        /\ \A k \in 1 .. Len(engines) : engines[k] = e \/ \E j \in 1 .. Len(Tail(engines)) :
                                                              Tail(engines)[j] = engines[k]
    BY <1>1, <1>a, <2>1, HeadAndTail
  <2>3. QED
    BY <1>1, <2>2 DEF ToCome
<1>5. given \in Workload /\ code \in Codes
  <2>1. Entry.arg \in STRING /\ Entry.wasmdir \in STRING
    BY <1>3, SuiteTyped DEF Entry, Fields
  <2>2. leftover \in Workload /\ cwasm \in [Dirs -> Codes]
    BY <1>2 DEF TypeOK
  <2>3. QED
    BY <1>3, <1>4, <1>a, <2>1, <2>2 DEF Workload, Codes, Texts
<1>6. \A f \in Fields : e = "native" \/ Listed(nth, f) => given[f] = Suite[nth][f]
  <2>1. ASSUME NEW f \in Fields, e = "native" PROVE given[f] = Suite[nth][f]
    BY <1>a, <2>1 DEF Fields, Entry
  <2>2. ASSUME NEW f \in Fields, e # "native", Listed(nth, f) PROVE given[f] = Suite[nth][f]
    BY <1>2, <1>3, <1>a, <2>2 DEF Variables
  <2>3. QED
    BY <2>1, <2>2
<1>7. code \in {NoValue, e} \/ HasEngine(nth, code)
  BY <1>1, <1>2, <1>3, <1>a DEF Compiled
<1>8. r \in [entry : 1 .. Len(Suite), engine : EngineNames, given : Workload, code : Codes, at : Dirs \cup {Root}]
  BY <1>3, <1>4, <1>5, <1>a
<1>9. /\ r.entry = nth /\ r.engine = e /\ r.given = given /\ r.code = code /\ r.at = cwd
      /\ \A x \in log' : x \in log \/ x = r
  BY <1>1, <1>a
<1>10. TypeOK'
  BY <1>1, <1>2, <1>3, <1>4, <1>8 DEF TypeOK
<1>11. Places'
  BY <1>1, <1>2, <1>3 DEF Places, AtRun
<1>12. Variables'
  BY <1>1, <1>2, <1>3 DEF Variables, AtRun, Listed
<1>13. log \subseteq log' /\ (~opts.dry => HasEngine(nth, e)')
  BY <1>1, <1>9 DEF HasEngine
<1>14. Compiled'
  <2>1. \A x : HasEngine(nth, x) => HasEngine(nth, x)'
    BY <1>1, <1>13, MeasuredStays
  <2>2. opts.dry => \A d \in Dirs : cwasm[d] = NoValue
    BY <1>2 DEF Compiled
  <2>3. ASSUME NEW d \in Dirs, cwasm[d] # NoValue PROVE d = cwd /\ HasEngine(nth, cwasm[d])'
    <3>1. d = cwd /\ (HasEngine(nth, cwasm[d]) \/ cwasm[d] = e)
      BY <1>2, <1>a, <2>3 DEF Compiled
    <3>2. ~opts.dry
      BY <2>2, <2>3
    <3>3. HasEngine(nth, cwasm[d])'
      BY <1>1, <1>13, <2>1, <3>1, <3>2 DEF HasEngine
    <3>4. QED
      BY <3>1, <3>3
  <2>4. QED
    BY <1>1, <2>2, <2>3 DEF Compiled, AtRun, HasEngine
<1>15. AllMeasured'
  <2>1. SUFFICES ASSUME ~opts.dry PROVE AllMeasured'
    BY <1>1 DEF AllMeasured
  <2>2. /\ \A i : AllBuild(i)' <=> AllBuild(i)
        /\ \A i : MeasuredOn(i) => MeasuredOn(i)'
        /\ \A i, x : HasEngine(i, x) => HasEngine(i, x)'
        /\ Listing' = Listing
    BY <1>1, <1>13, BuildsStays, MeasuredStays
  <2>3. \A x \in Listing : HasEngine(nth, x)' \/ ToCome(x)'
    <3>1. ASSUME NEW x \in Listing, ~ToCome(x)' PROVE HasEngine(nth, x)'
      <4>1. HasEngine(nth, x) \/ x = e
        BY <1>2, <1>3, <1>4, <2>1, <3>1 DEF AllMeasured
      <4>2. QED
        BY <1>1, <1>13, <2>1, <2>2, <4>1 DEF HasEngine
    <3>2. QED
      BY <3>1
  <2>4. QED
    BY <1>1, <1>2, <1>3, <2>1, <2>2, <2>3 DEF AllMeasured, AtRun, HasEngine
<1>16. MeasuredAsListed'
  <2>1. ASSUME NEW x \in log'
        PROVE  /\ x.at = Suite[x.entry].dir
               /\ \A f \in Fields : x.engine = "native" \/ Listed(x.entry, f)
                                     => x.given[f] = Suite[x.entry][f]
    <3>1. CASE x \in log
      BY <1>2, <3>1 DEF MeasuredAsListed, Fields
    <3>2. CASE x = r
      BY <1>3, <1>6, <1>9, <3>2 DEF Entry
    <3>3. QED
      BY <1>9, <2>1, <3>1, <3>2
  <2>2. QED
    BY <2>1 DEF MeasuredAsListed, Fields, Listed
<1>17. CodeOfThisEntry'
  <2>1. ASSUME NEW x \in log'
        PROVE  x.code \in {NoValue, x.engine} \/ \E q \in log' : q.entry = x.entry /\ q.engine = x.code
    <3>1. CASE x \in log
      BY <1>2, <1>13, <3>1 DEF CodeOfThisEntry
    <3>2. CASE x = r
      BY <1>7, <1>9, <1>13, <3>2 DEF HasEngine
    <3>3. QED
      BY <1>9, <2>1, <3>1, <3>2
  <2>2. QED
    BY <2>1 DEF CodeOfThisEntry
<1>18. QED
  BY <1>10, <1>11, <1>12, <1>14, <1>15, <1>16, <1>17 DEF HarnessInv

LEMMA LeaveStep ==
  ASSUME HarnessInv, Leave
  PROVE  HarnessInv'
<1>1. /\ phase = "run" /\ engines = <<>> /\ phase' = "enter" /\ nth' = nth + 1 /\ cwd' = Root
      /\ built' = IF opts.dry THEN built ELSE [built EXCEPT ![cwd] = {}]
      /\ cwasm' = IF opts.dry THEN cwasm ELSE [cwasm EXCEPT ![cwd] = NoValue]
      /\ UNCHANGED <<opts, makes, leftover, engines, log>>
  BY DEF Leave
<1>2. TypeOK /\ Places /\ Variables /\ Compiled /\ AllMeasured
  BY DEF HarnessInv
<1>3. nth \in 1 .. Len(Suite) /\ cwd \in Dirs /\ Len(Suite) \in Nat
  BY <1>1, <1>2, SuiteTyped DEF TypeOK, Places, AtRun
<1>4. cwasm' \in [Dirs -> Codes] /\ \A d \in Dirs : cwasm'[d] = NoValue
  BY <1>1, <1>2, <1>3 DEF Compiled, TypeOK, Codes
<1>5. TypeOK'
  BY <1>1, <1>2, <1>3, <1>4 DEF TypeOK
<1>6. Places'
  <2>1. DOMAIN built = Dirs \cup {Root} /\ built[Root] = {}
    BY <1>2 DEF Places
  <2>2. ASSUME NEW d \in Dirs PROVE built[d] \in {{}, Built(d, makes[d])}
    BY <1>2 DEF Places
  <2>3. QED
    BY <1>1, <2>1, <2>2 DEF Places, AtRun
<1>7. Variables'
  <2>1. ASSUME NEW f \in Fields, leftover[f] # NoValue
        PROVE  \E j \in 1 .. Len(Suite) : j < nth + 1 /\ Suite[j][f] # NoValue
    <3>1. PICK j \in 1 .. Len(Suite) : (j < nth \/ j = nth) /\ Suite[j][f] # NoValue
      BY <1>1, <1>2, <2>1 DEF Variables, AtRun
    <3>2. QED
      BY <1>3, <3>1
  <2>2. QED
    BY <1>1, <2>1 DEF Variables, AtRun
<1>8. Compiled'
  BY <1>4 DEF Compiled
<1>9. AllMeasured'
  <2>1. SUFFICES ASSUME ~opts.dry PROVE AllMeasured'
    BY <1>1 DEF AllMeasured
  <2>2. /\ \A i : AllBuild(i)' <=> AllBuild(i)
        /\ \A i : MeasuredOn(i) => MeasuredOn(i)'
    BY <1>1, BuildsStays, MeasuredStays
  <2>3. \A x : ~ToCome(x)
    BY <1>1 DEF ToCome
  <2>4. MeasuredOn(nth)
    BY <1>1, <1>2, <2>1, <2>3 DEF AllMeasured, AtRun, MeasuredOn, Listing
  <2>5. \A i \in 1 .. Len(Suite) : i < nth' => i < nth \/ i = nth
    BY <1>1, <1>3
  <2>6. QED
    BY <1>1, <1>2, <2>1, <2>2, <2>4, <2>5 DEF AllMeasured, AtRun
<1>10. QED
  BY <1>1, <1>5, <1>6, <1>7, <1>8, <1>9, LogStays DEF HarnessInv

-----------------------------------------------------------------------------
LEMMA HarnessStarts == HarnessInit => HarnessInv
<1> SUFFICES ASSUME HarnessInit PROVE HarnessInv
  OBVIOUS
<1>1. /\ opts \in Options /\ makes \in [Dirs -> MayFail] /\ phase = "enter" /\ nth = 1 /\ cwd = Root
      /\ cwasm = [d \in Dirs |-> NoValue] /\ leftover = [arg |-> NoValue, wasmdir |-> NoValue]
      /\ engines = <<>> /\ log = {}
  BY DEF HarnessInit
<1>2. leftover \in Workload /\ \A f \in Fields : leftover[f] = NoValue
  BY <1>1 DEF Workload, Fields, Texts
<1>3. TypeOK
  BY <1>1, <1>2, OptionsAssumption, SuiteTyped DEF TypeOK, Codes
<1>4. Places
  <2>1. PICK left \in SUBSET Dirs :
          built = [d \in Dirs \cup {Root} |-> IF d \in left THEN Built(d, makes[d]) ELSE {}]
    BY DEF HarnessInit
  <2>2. QED
    BY <1>1, <2>1, DirsAssumption DEF Places, AtRun
<1>5. Variables
  BY <1>1, <1>2 DEF Variables, AtRun
<1>6. Compiled
  BY <1>1 DEF Compiled
<1>7. AllMeasured
  BY <1>1, SuiteTyped DEF AllMeasured, AtRun
<1>8. QED
  BY <1>1, <1>3, <1>4, <1>5, <1>6, <1>7 DEF HarnessInv, MeasuredAsListed, CodeOfThisEntry

LEMMA HarnessSteps ==
  ASSUME HarnessInv, [HarnessNext]_harnessVars
  PROVE  HarnessInv'
<1>1. CASE UNCHANGED harnessVars
  <2>1. UNCHANGED <<opts, makes, phase, nth, cwd, built, cwasm, leftover, engines, log>>
    BY <1>1 DEF harnessVars
  <2>2. TypeOK' /\ Places' /\ Variables'
    BY <2>1 DEF HarnessInv, TypeOK, Places, Variables, AtRun, Entry, Listed
  <2>3. Compiled'
    BY <2>1 DEF HarnessInv, Compiled, AtRun, HasEngine
  <2>4. AllMeasured'
    <3>1. /\ \A i : AllBuild(i)' <=> AllBuild(i)
          /\ \A i : MeasuredOn(i) => MeasuredOn(i)'
          /\ \A i, e : HasEngine(i, e) => HasEngine(i, e)'
          /\ Listing' = Listing
      BY <2>1, BuildsStays, MeasuredStays
    <3>2. /\ \A e : ToCome(e)' <=> ToCome(e)
          /\ Entry' = Entry
      BY <2>1 DEF ToCome, Entry
    <3>3. QED
      BY <2>1, <3>1, <3>2 DEF HarnessInv, AllMeasured, AtRun, HasEngine
  <2>5. QED
    BY <2>1, <2>2, <2>3, <2>4, LogStays DEF HarnessInv
<1>2. QED
  BY <1>1, EnterStep, BuildStep, SkipStep, SourceStep, CompileStep, RunTestStep, LeaveStep DEF HarnessNext

\* The property Measured: an engine is measured in the directory of its entry
\* and on its work, on code of this entry, and everything that precedes the
\* first directory that does not build is measured on every engine.
THEOREM MeasurementsSound == HarnessSpec => []Measured
<1>1. HarnessInv => Measured
  <2> SUFFICES ASSUME HarnessInv PROVE Measured
    OBVIOUS
  <2>1. MeasuredUpToFailure
    <3> SUFFICES ASSUME Finished, ~opts.dry, NEW i \in 1 .. Len(Suite), \A j \in 1 .. i : Builds(j)
                 PROVE  MeasuredOn(i)
      BY DEF MeasuredUpToFailure
    <3>1. i < nth
      BY SuiteTyped DEF Finished, HarnessInv, TypeOK
    <3>2. QED
      BY <3>1 DEF HarnessInv, AllMeasured, AllBuild
  <2>2. QED
    BY <2>1 DEF HarnessInv, Measured
<1>2. QED
  BY <1>1, HarnessStarts, HarnessSteps, PTL DEF HarnessSpec
=============================================================================
