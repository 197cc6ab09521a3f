---------------------------- MODULE MCBzip2Files ----------------------------
(* Small directories and command lines for bzip2. *)
EXTENDS Bzip2FilesProps, TLC

raw(d) == <<"raw", d>>
blk(d) == <<"blk", d>>
hdr == <<"hdr">>
end == <<"end">>

Plain == {<<>>, <<raw("x"), raw("y")>>}
Zipped == {<<hdr, blk("x"), blk("y"), end>>,                     \* sound
           <<hdr, end, hdr, blk("x"), end>>,                     \* two streams
           <<hdr, blk("x"), end, raw("g")>>,                     \* garbage behind
           <<hdr, blk("x")>>, <<hdr, blk("x"), <<"bad">> >>,     \* broken
           <<raw("g"), blk("g")>>, <<>>}                         \* no stream

p1 == <<"p", "">>    p1z == <<"p", ".bz2">>   p1b == <<"p", ".bz">>
q1 == <<"q", "">>    q1z == <<"q", ".tbz2">>

MCLinked == {q1}

ArgLists(op) == IF op = "compress" THEN {<<p1, q1>>, <<p1z, p1>>}
                ELSE {<<p1z, q1z>>, <<p1z, p1b>>, <<p1>>}

\* -t goes with neither -c nor, to any effect, -f and -k.  A terminal is in
\* the way of compressed data only.
MCCommands ==
  UNION {[op : {op}, srcMode : {"F2F"}, force : BOOLEAN, keep : BOOLEAN, tty : {FALSE}, args : ArgLists(op)]
         \cup [op : {op}, srcMode : {"F2O"}, force : BOOLEAN, keep : {FALSE}, tty : {FALSE}, args : ArgLists(op)]
         \cup [op : {op}, srcMode : {"I2O"}, force : BOOLEAN, keep : {FALSE}, tty : {FALSE}, args : {<<Stdin>>}]
         : op \in {"compress", "uncompress"}}
  \cup [op : {"test"}, srcMode : {"F2F"}, force : {FALSE}, keep : {FALSE}, tty : {FALSE}, args : ArgLists("test")]
  \cup [op : {"compress"}, srcMode : {"F2O"}, force : {FALSE}, keep : {FALSE}, tty : {TRUE}, args : {<<p1, q1>>}]
  \cup [op : {"uncompress", "test"}, srcMode : {"I2O"}, force : {FALSE}, keep : {FALSE}, tty : BOOLEAN,
         args : {<<Stdin>>}]

Contents(c, i) ==
  IF c.op = "compress" THEN Plain \cup (IF c.srcMode = "I2O" THEN {} ELSE {Absent, Dir})
  ELSE IF i = 1 THEN Zipped
  ELSE {<<hdr, blk("z"), end>>, <<hdr, blk("z"), end, raw("g")>>, <<raw("g")>>, Absent}

Paths(c) == UNION {{c.args[i], OutNameOf(c, c.args[i])} : i \in 1..Len(c.args)}

\* The arguments with any content, beside them an output that is in the way.
MCDirectories(c) ==
  {[q \in Paths(c) |-> IF \E i \in 1..Len(c.args) : c.args[i] = q
                     THEN held[CHOOSE i \in 1..Len(c.args) : c.args[i] = q]
                       ELSE IF q \in there THEN Foreign ELSE Absent] :
        held \in {h \in [1..Len(c.args) -> UNION {Contents(c, i) : i \in {1, 2}}] :
                    \A i \in DOMAIN h : h[i] \in Contents(c, i)},
        there \in {{}, IF c.srcMode = "F2F" THEN {OutNameOf(c, c.args[1])} ELSE {}}}
=============================================================================
