----------------------------- MODULE MCPrograms -----------------------------
(***************************************************************************)
(* The parts of WABench that run by themselves, one at a time: the harness,*)
(* on four entries of the suite, one without arguments and two that share  *)
(* a directory, the bzip2 program, the bzip2 library, and the board and    *)
(* the moves of GNU Chess.                                                 *)
(***************************************************************************)
EXTENDS BzStream, Bzip2FilesProps, Harness

CONSTANT Roots

Item(d, p, a, w) == [dir |-> d, prog |-> p, arg |-> a, wasmdir |-> w]

Tsf == Item("JetStream2/tsf", "tsf", "10000", ".")
Encrypt == Item("MiBench/security/blowfish", "blowfish", "e", ".")
Decrypt == Item("MiBench/security/blowfish", "blowfish", "d", ".")
BasicMath == Item("MiBench/automotive/basicmath", "basicmath", NoValue, NoValue)

MCSuite == <<Tsf, BasicMath, Encrypt, Decrypt>>
MCDirs == {MCSuite[i].dir : i \in 1 .. Len(MCSuite)}
MCOptions == [aot : BOOLEAN, dry : BOOLEAN]

\* Inputs made of runs around the limits of a block and of a run.
RunOf(ch, k) == [i \in 1..k |-> ch]
MCInputs ==
  {RunOf(0, e) \o RunOf(1, j) \o RunOf(0, e) : e \in {0, 2}, j \in {0, 4, 5, 6}}
  \cup {RunOf(1, 13), [i \in 1..10 |-> i % 2]}

hdr == <<"hdr">>
end(c) == <<"end", c>>
Block(b, c) == << <<"blk1", c>>, <<"blk2", b>> >>
MCOtherFiles ==
  { << <<"text">> >>,                                                         \* no stream
    <<hdr, <<"text">> >>,                                                  \* no block
    <<hdr>> \o Block(<<1>>, <<0>>) \o <<end(<< <<0>> >>)>>,                \* checksum
    <<hdr>> \o Block(<<1>>, <<1>>) \o <<end(<< <<0>> >>)>>,                \* of the whole
    <<hdr>> \o Block(<<1, 1, 1, 1>>, <<1, 1, 1, 1>>) \o <<end(<< <<1, 1, 1, 1>> >>)>> }  \* no count

VARIABLES
  tool,
  root, game, was, killer1, killer2

C == INSTANCE MCChess

chessVars == <<root, game, was, killer1, killer2>>
programVars == <<tool, vars, harnessVars, bzip2Vars, chessVars>>

\* The command lines and directories of MCBzip2Files.
NoDirectories(c) == {}
Small == INSTANCE MCBzip2Files WITH
           Commands <- {}, Directories <- NoDirectories, Linked <- {}, Faults <- {}
MCCommands == Small!MCCommands
MCDirectories(c) == Small!MCDirectories(c)
MCLinked == Small!MCLinked

FewPieces == INSTANCE MCChess WITH Roots <- {}
MCRoots == FewPieces!MCRoots

Bzip2Chosen ==
  cmd = (CHOOSE c \in MCCommands : TRUE) /\ orig = CHOOSE d \in MCDirectories(cmd) : TRUE
HarnessChosen ==
  opts = (CHOOSE o \in Options : TRUE) /\ makes = [d \in Dirs |-> "nothing"]
ChessNotChosen == root = 0 /\ game = 0 /\ was = 0 /\ killer1 = 0 /\ killer2 = 0
StreamChosen == data = <<>> /\ smallDecompress = FALSE

ProgramsInit ==
  /\ tool \in {"harness", "bzip2", "stream", "chess"}
  /\ tool # "bzip2" => Bzip2Chosen
  /\ tool # "harness" => HarnessChosen
  /\ tool # "stream" => StreamChosen
  /\ Bzip2Init /\ HarnessInit /\ Init
  /\ IF tool = "chess" THEN C!Init ELSE ChessNotChosen

HarnessStep ==
  /\ tool = "harness" /\ UNCHANGED <<tool, bzip2Vars, vars, chessVars>>
  /\ HarnessNext \/ (Finished /\ UNCHANGED harnessVars)
Bzip2Step == tool = "bzip2" /\ Bzip2Next /\ UNCHANGED <<tool, harnessVars, vars, chessVars>>
StreamStep == tool = "stream" /\ Next /\ UNCHANGED <<tool, bzip2Vars, harnessVars, chessVars>>
ChessStep == tool = "chess" /\ C!Next /\ UNCHANGED <<tool, bzip2Vars, harnessVars, vars>>

\* The callers of the library go on, as BzStream says.
Chosen == tool = "stream"
ProgramsSpec ==
  /\ ProgramsInit /\ [][HarnessStep \/ Bzip2Step \/ StreamStep \/ ChessStep]_programVars
  /\ WF_vars(Chosen /\ Handle /\ UNCHANGED dvars)
  /\ WF_vars(Chosen /\ Continue /\ UNCHANGED dvars)
  /\ SF_vars(Chosen /\ (Run \/ BeginFinish) /\ UNCHANGED dvars)
  /\ WF_vars(Chosen /\ (BZ2_bzReadOpen \/ BZ2_bzRead \/ Decode))

\* The other properties are those of the modules this one extends.
EveryFileRead == Chosen => ReaderEnds
BoardExact == tool = "chess" => C!BoardExact
RepeatsCounted == tool = "chess" => C!RepeatsCounted
MovesExact == tool = "chess" => C!MovesExact
SwapExact == tool = "chess" => C!SwapExact
UnmakeRestores == [][tool = "chess" => C!TakenBack]_chessVars
PlaysChess == (tool = "chess" => C!R!Init) /\ [][tool = "chess" => C!ChessMove]_chessVars
=============================================================================
