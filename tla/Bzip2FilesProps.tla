--------------------------- MODULE Bzip2FilesProps ---------------------------
(* What the user of bzip2 relies on, whatever fails and whoever interferes. *)
EXTENDS Bzip2Files, FiniteSets

\* The plain data of the blocks among the first k tokens of c, for every k.
Data(c) ==
  LET upTo[k \in 0..Len(c)] ==
        IF k = 0 THEN <<>>
        ELSE IF c[k][1] = "blk" THEN Append(upTo[k - 1], <<"raw", c[k][2]>>)
        ELSE upTo[k - 1]
  IN upTo

\* c is one or more whole streams.
Streams(c) ==
  /\ c # <<>> /\ c[1] = <<"hdr">> /\ c[Len(c)] = <<"end">>
  /\ \A i \in 1..Len(c) :
       /\ c[i][1] \in {"hdr", "blk", "end"}
       /\ c[i] = <<"end">> => i = Len(c) \/ c[i + 1] = <<"hdr">>
       /\ i > 1 /\ c[i] = <<"hdr">> => c[i - 1] = <<"end">>

\* The streams of c when all that follows them is trailing garbage.
BeforeGarbage(c) ==
  {k \in 1..Len(c) : Streams(SubSeq(c, 1, k)) /\ (k < Len(c) => c[k + 1] # <<"hdr">>)}

\* The outputs that hold everything an input of content c holds.
Complete(c) ==
  IF c \in {Absent, Dir} THEN {}
  ELSE IF cmd.op = "compress"
  THEN {<< <<"hdr">> >> \o [i \in DOMAIN c |-> <<"blk", c[i][2]>>] \o << <<"end">> >>}
  ELSE {Data(c)[k] : k \in BeforeGarbage(c)}
       \cup (IF cmd.force /\ c # <<>> /\ c[1] # <<"hdr">> THEN {c} ELSE {})
       \cup (IF cmd.force THEN {Data(c)[k] \o c : k \in BeforeGarbage(c) \ {Len(c)}}
             ELSE {})

Named == {cmd.args[i] : i \in 1..Len(cmd.args)}
\* No argument is written over p, or takes its output for an input of its
\* own, to be removed in turn; with -f none overwrites its output.
Independent(p) ==
  /\ \A q \in Named : OutName(q) # p
  /\ \A i, j \in 1..Len(cmd.args) : i < j /\ cmd.args[i] = p => cmd.args[j] # OutName(p)
  /\ cmd.force => \A q \in Named : q # p => OutName(q) # OutName(p)

\* What a named file held is there at every moment, a kill included: in the
\* file itself, or completely in its output ("If there was an I/O error, we
\* won't get here", compress and uncompress before they remove the input).
\* When another program removes the input of a finished output, the output is
\* not deleted (cleanUpAndFail, "to avoid loss of data").
NothingLost ==
  \A p \in Named : Independent(p) =>
    /\ p \in kept => files[OutName(p)] # Absent
    /\ p \notin foreign =>
         files[p] = orig[p] \/ files[OutName(p)] \in Complete(orig[p])

\* Without -f a file that this invocation did not create is neither changed
\* nor deleted, even one that appears after the test for it
\* (fopen_output_safely, cleanUpAndFail).
ForeignKept ==
  ~cmd.force =>
    \A p \in DOMAIN files \ Named :
      /\ orig[p] # Absent => files[p] = orig[p]
      /\ p \in foreign => files[p] = Foreign

\* An exit status of 0 means that every argument has been dealt with: its
\* output is complete, or all outputs are in order on stdout, or it tested
\* as sound.
ExitTells ==
  pc = "exit" /\ exitValue = 0 =>
    IF cmd.op = "test" THEN \A p \in Named : p \in foreign \/ BeforeGarbage(orig[p]) # {}
    ELSE IF cmd.srcMode = "F2F"
    THEN \A p \in Named : Independent(p) /\ p \notin foreign =>
           files[OutName(p)] \in Complete(orig[p])
    ELSE foreign # {} \/ 
         \E part \in [1..Len(cmd.args) -> UNION {Complete(orig[p]) : p \in Named}] :
           /\ \A i \in 1..Len(cmd.args) : part[i] \in Complete(orig[cmd.args[i]])
           /\ stdout = FlattenSeq(part)

\* When bzip2 ends by itself no incomplete output stays behind but an empty
\* one, whose input could not be opened or was no bzip2 file, and one that a
\* WARNING told of: its deletion failed, or its input is gone; the exit status
\* is not 0 then.
NoPartialOutput ==
  pc = "exit" /\ cmd.srcMode = "F2F" /\ cmd.op # "test" =>
    \A p \in Named :
      LET o == OutName(p) IN
      (\A q \in Named : OutName(q) = o => Independent(q)) =>
      \/ files[o] \in {Absent, orig[o]}
      \/ o \in foreign
      \/ \E q \in Named : OutName(q) = o /\ files[o] \in Complete(orig[q])
      \/ exitValue # 0 /\ (files[o] = <<>> \/ o \in warned)

\* Both: the files that are not the outputs of this invocation, and those
\* that are.
FilesKept == ForeignKept /\ NoPartialOutput
==============================================================================
