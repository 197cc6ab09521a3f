------------------------------- MODULE Harness -------------------------------
(***************************************************************************)
(* The benchmark harness of WABench: the driver run.sh, the script         *)
(* common.sh it sources for every benchmark, and what Makefile.in builds   *)
(* and cleans.  The shell's variables survive from one benchmark to the    *)
(* next, and so do the working directory and the files.                    *)
(* A definition named X_slip is X with a plausible slip, used by no        *)
(* specification; it serves to test the properties.                        *)
(***************************************************************************)
EXTENDS Integers, Sequences, FiniteSets

CONSTANTS Suite,     \* BenchSuite: records [dir, prog, arg, wasmdir]
          Dirs,      \* the benchmark directories that exist, without the root
          MayFail,   \* the outcomes of make, of "both", "native" and "nothing"
          Options    \* the ways it is run: records [aot, dry]

NoValue == "none"    \* the empty string
Root == "root"       \* $BenchRoot

ASSUME DirsAssumption == Root \notin Dirs
ASSUME OutcomesAssumption == MayFail \subseteq {"both", "native", "nothing"}
ASSUME OptionsAssumption == Options \subseteq [aot : BOOLEAN, dry : BOOLEAN]
\* A program is that of one directory; there may be several entries for it.
ASSUME SuiteAssumption ==
  /\ Suite \in Seq([dir : STRING, prog : STRING, arg : STRING, wasmdir : STRING])
  /\ \A i, j \in 1 .. Len(Suite) : Suite[i].prog = Suite[j].prog => Suite[i].dir = Suite[j].dir

VARIABLES
  opts,     \* RunAOT and the argument -n
  makes,    \* what make makes of each directory, as long as the run lasts
  phase, nth, \* where the driver is, and at which entry of the suite
  cwd,      \* the working directory
  built,    \* in each directory, the programs that are there, by form
  cwasm,    \* in each directory, the engine whose code the .cwasm holds
  leftover, \* what ...NativeArg and ...Dir of the engines hold
  engines,  \* the engines common.sh has still to run
  log       \* the measurements, as the runs they were taken from
harnessVars == <<opts, makes, phase, nth, cwd, built, cwasm, leftover, engines, log>>

Entry == Suite[nth]
ProgOf(d) == {Suite[i].prog : i \in {j \in 1 .. Len(Suite) : Suite[j].dir = d}}

\* The files make leaves in a directory, and those it may find there.
Built(d, how) ==
  CASE how = "both" -> ProgOf(d) \X {"native", "wasm"}
    [] how = "native" -> ProgOf(d) \X {"native"}
    [] how = "nothing" -> {}

Interpreters == <<"wasm3", "wamr">>
Compilers == <<"wasmtime", "wavm", "wasmer">>
Engines == IF opts.aot THEN Compilers ELSE Compilers \o Interpreters

HarnessInit ==
  /\ opts \in Options
  /\ makes \in [Dirs -> MayFail]
  /\ phase = "enter" /\ nth = 1 /\ cwd = Root
  /\ \E left \in SUBSET Dirs :   \* built by hand before
       built = [d \in Dirs \cup {Root} |->
                  IF d \in left THEN Built(d, makes[d]) ELSE {}]
  /\ cwasm = [d \in Dirs |-> NoValue]
  /\ leftover = [arg |-> NoValue, wasmdir |-> NoValue]
  /\ engines = <<>> /\ log = {}

-----------------------------------------------------------------------------
\* cd takes the directory relative to the working directory and leaves that
\* alone if there is none; the driver goes on either way.
Enter ==
  /\ phase = "enter" /\ nth <= Len(Suite)
  /\ cwd' = IF cwd = Root /\ Entry.dir \in Dirs THEN Entry.dir ELSE cwd
  /\ phase' = "build"
  /\ UNCHANGED <<opts, makes, nth, built, cwasm, leftover, engines, log>>

\* The programs of the entry are made wherever the driver is.
Build_slip ==
  /\ phase = "build"
  /\ built' = IF opts.dry THEN built
              ELSE [built EXCEPT ![cwd] = @ \cup Built(Entry.dir, makes[Entry.dir])]
  /\ phase' = "test"
  /\ UNCHANGED <<opts, makes, nth, cwd, cwasm, leftover, engines, log>>

\* make is called unless the native program of the entry is there; in the
\* root there is nothing to make.
Build ==
  /\ phase = "build"
  /\ built' = IF opts.dry \/ cwd = Root \/ <<Entry.prog, "native">> \in built[cwd]
              THEN built
              ELSE [built EXCEPT ![cwd] = @ \cup Built(cwd, makes[cwd])]
  /\ phase' = "test"
  /\ UNCHANGED <<opts, makes, nth, cwd, cwasm, leftover, engines, log>>

\* "Cannot build WebAssembly binary...": on to the next entry, but not back
\* to the root.
Skip ==
  /\ phase = "test" /\ <<Entry.prog, "wasm">> \notin built[cwd]
  /\ phase' = "enter" /\ nth' = nth + 1
  /\ UNCHANGED <<opts, makes, cwd, built, cwasm, leftover, engines, log>>

\* The first value stays.
Latest_slip(old, new) == IF old = NoValue THEN new ELSE old
Latest(old, new) == IF new = NoValue THEN old ELSE new

\* Sources common.sh, which sets the engines' variables from a directory or
\* an argument that is not empty, and leaves them otherwise.
Source ==
  /\ phase = "test" /\ <<Entry.prog, "wasm">> \in built[cwd]
  /\ leftover' = [arg |-> Latest(leftover.arg, Entry.arg),
                  wasmdir |-> Latest(leftover.wasmdir, Entry.wasmdir)]
  /\ engines' = <<"native">> \o Engines
  /\ phase' = "run"
  /\ UNCHANGED <<opts, makes, nth, cwd, built, cwasm, log>>

IsAot == opts.aot /\ Head(engines) # "native"

\* runaot: every engine compiles to the same file; one that fails leaves
\* the file as it is.
Compile ==
  /\ phase = "run" /\ engines # <<>> /\ IsAot
  /\ cwasm' \in IF opts.dry THEN {cwasm}
                ELSE {cwasm, [cwasm EXCEPT ![cwd] = Head(engines)]}
  /\ phase' = "compiled"
  /\ UNCHANGED <<opts, makes, nth, cwd, built, leftover, engines, log>>

\* runtest: the native program takes the entry's own argument, an engine
\* what its variables hold.
RunTest ==
  /\ engines # <<>>
  /\ phase = IF IsAot THEN "compiled" ELSE "run"
  /\ LET e == Head(engines)
         given == IF e = "native" THEN [arg |-> Entry.arg, wasmdir |-> Entry.wasmdir]
                  ELSE leftover
         code == IF IsAot THEN cwasm[cwd] ELSE e
     IN log' = IF opts.dry THEN log
               ELSE log \cup {[entry |-> nth, engine |-> e, given |-> given,
                               code |-> code, at |-> cwd]}
  /\ engines' = Tail(engines)
  /\ phase' = "run"
  /\ UNCHANGED <<opts, makes, nth, cwd, built, cwasm, leftover>>

\* The driver forgets to go back.
Leave_slip_cd ==
  /\ phase = "run" /\ engines = <<>>
  /\ built' = IF opts.dry THEN built ELSE [built EXCEPT ![cwd] = {}]
  /\ cwasm' = IF opts.dry THEN cwasm ELSE [cwasm EXCEPT ![cwd] = NoValue]
  /\ phase' = "enter" /\ nth' = nth + 1
  /\ UNCHANGED <<opts, makes, cwd, leftover, engines, log>>

\* make clean leaves the compiled code.
Leave_slip_cwasm ==
  /\ phase = "run" /\ engines = <<>>
  /\ built' = IF opts.dry THEN built ELSE [built EXCEPT ![cwd] = {}]
  /\ cwd' = Root /\ phase' = "enter" /\ nth' = nth + 1
  /\ UNCHANGED <<opts, makes, cwasm, leftover, engines, log>>

\* make clean, unless this is a dry run, and back to the root.
Leave ==
  /\ phase = "run" /\ engines = <<>>
  /\ built' = IF opts.dry THEN built ELSE [built EXCEPT ![cwd] = {}]
  /\ cwasm' = IF opts.dry THEN cwasm ELSE [cwasm EXCEPT ![cwd] = NoValue]
  /\ cwd' = Root /\ phase' = "enter" /\ nth' = nth + 1
  /\ UNCHANGED <<opts, makes, leftover, engines, log>>

HarnessNext ==
  Enter \/ Build \/ Skip \/ Source \/ Compile \/ RunTest \/ Leave

HarnessSpec == HarnessInit /\ [][HarnessNext]_harnessVars

-----------------------------------------------------------------------------
Finished == phase = "enter" /\ nth > Len(Suite)
HasEngine(i, e) == \E r \in log : r.entry = i /\ r.engine = e

\* Field f is listed in entry i, or in none up to it: the variables that
\* common.sh sets only from a value that is not empty hold the entry's own.
Listed(i, f) == Suite[i][f] # NoValue \/ \A j \in 1 .. i : Suite[j][f] = NoValue

\* "Enter benchmark directory": whichever cd, make or compiler failed before,
\* an engine is measured in the directory of the entry it is reported for, and
\* given the work the native program of that entry is given, as far as the
\* entry lists it or none before it did.
MeasuredAsListed ==
  \A r \in log :
    /\ r.at = Suite[r.entry].dir
    /\ \A f \in {"arg", "wasmdir"} :
         r.engine = "native" \/ Listed(r.entry, f) => r.given[f] = Suite[r.entry][f]

MeasuredOn(i) ==
  \A e \in {"native"} \cup {Engines[k] : k \in 1 .. Len(Engines)} : HasEngine(i, e)
Builds(i) == Suite[i].dir \in Dirs /\ makes[Suite[i].dir] = "both"

\* What precedes the first directory that does not build is measured on every
\* engine, whatever had been built by hand and whatever fails later.
MeasuredUpToFailure ==
  Finished /\ ~opts.dry =>
    \A i \in 1 .. Len(Suite) : (\A j \in 1 .. i : Builds(j)) => MeasuredOn(i)

\* An engine is never measured on code that an engine of another entry left
\* behind, though two entries may share a directory and its .cwasm file.
CodeOfThisEntry ==
  \A r \in log : r.code \in {NoValue, r.engine} \/
    \E q \in log : q.entry = r.entry /\ q.engine = r.code

\* All three: a measurement is what its entry of the suite says it is.
Measured == MeasuredAsListed /\ MeasuredUpToFailure /\ CodeOfThisEntry
=============================================================================
