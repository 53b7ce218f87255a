------------------------------ MODULE Pipeline ------------------------------
(***************************************************************************)
(* The TaBaCCo driver: main() of src/tabacco-driver/driver/main.py and the *)
(* steps of drive.py it calls, one after the other, on one temporary       *)
(* directory.                                                              *)
(*                                                                         *)
(* Every step runs an external tool through utils.run with check=True, so  *)
(* any step can fail and end the run with the files written so far left   *)
(* in the directory.  With --tmpdir the directory outlives the run and a   *)
(* rerun starts on it; without it each run gets a fresh TemporaryDirectory.*)
(*                                                                         *)
(* The model keeps the files that later steps read back by name: the       *)
(* instrumented binary, the tape files tape_{step_num}.json and the        *)
(* nondebloated directory.  Bitcode handed from one step to the next by    *)
(* return value is left out; of its paths only the directory that the      *)
(* SIGHUP preparation passes compute is kept.  What a file holds is its    *)
(* provenance: the run that wrote it, the config a tape was recorded for,  *)
(* and whether the binary that recorded it carried the neck locations.     *)
(* The robustness check is reduced to its verdict (module Robustness       *)
(* models it in detail).                                                   *)
(***************************************************************************)
EXTENDS Integers, Sequences, FiniteSets, FiniteSetsExt

CONSTANTS
    None,
    NumConfigs,       \* len(debloating_spec.configs)
    MaxRuns,          \* runs of the driver on one --tmpdir
    RobustnessTapes,  \* how many tapes the robustness check may record
    Options           \* the command lines and specs to run with

ASSUME NumConfigs \in Nat \ {0} /\ MaxRuns \in Nat \ {0}

\* The highest step number a run reaches.
MaxStep == 29 + NumConfigs + Max(RobustnessTapes)

\* The command line and spec fields main() branches on.
Option ==
    [debloat: BOOLEAN, stats: BOOLEAN, replace_sighup: BOOLEAN,
     neck_miner: BOOLEAN,         \* use_neck_miner and spec.use_neck_miner
     use_guiness: BOOLEAN, spec_use_guiness: BOOLEAN,
     robustness_checks: BOOLEAN,
     user_tmpdir: BOOLEAN,        \* --tmpdir given
     tmpdir_has_bc: BOOLEAN]      \* the tmpdir path contains ".bc"

ASSUME Options \subseteq Option

\* main line 146
run_guiness(o) == o.use_guiness \/ o.spec_use_guiness

\* What a file holds.
TapeProv == [run: 1..MaxRuns, cfg: 1..NumConfigs, necks: BOOLEAN, guiness: BOOLEAN]
BinaryProv == [run: 1..MaxRuns, necks: BOOLEAN]

\* The external tools that run through utils.run, by the step that runs them.
ToolSteps == {"extract", "helpers", "annotate", "mem2reg", "sccp", "dce",
              "reg2mem", "sighup", "combine", "guiness_instrument",
              "guiness_tape", "mine", "instrument", "robustness", "tape",
              "specialize", "optimize", "compile", "optimize_nd",
              "compile_nd", "bloaty"}

\* Mutant: produce_tape returns the step number it was given.
produce_tape_nobump(step) == step

\* produce_tape writes tmp / f"tape_{step_num}.json" and returns step_num + 1.
produce_tape(step) == step + 1

\* Path(str(tmp / name).replace(".bc", suffix)), as mem2reg, sccp, dce and
\* reg2mem name their output: the replacement rewrites every ".bc" of the
\* path, so a tmpdir whose path contains ".bc" becomes another directory.
replace_bc_dir(o) == IF o.tmpdir_has_bc THEN "renamed" ELSE "tmp"

VARIABLES
    run,          \* which run of the driver on this tmpdir
    opts,         \* its options
    pc,           \* the step main() is at
    step_num,
    instrumented, \* tmp / "instrumented": BinaryProv or None
    tapefiles,    \* tmp / f"tape_{n}.json": TapeProv or None
    nd_exists,    \* tmp / "nondebloated" exists
    guiness_tape, \* main's `tape': None or the step number naming it
    tapes,        \* main's `tapes': step numbers naming the tape files
    ci,           \* the config whose tape is recorded next
    reads,        \* the tapes read this run: who read, what they expected,
                  \* what the file held
    outcome

vars == <<run, opts, pc, step_num, instrumented, tapefiles, nd_exists,
          guiness_tape, tapes, ci, reads, outcome>>

fileVars == <<instrumented, tapefiles, nd_exists>>
runVars == <<run, opts, guiness_tape, tapes, ci, reads>>

NoTapes == [n \in 1..MaxStep |-> None]

Init ==
    /\ run = 1
    /\ opts \in Options
    /\ pc = "start"
    /\ step_num = 1
    /\ instrumented = None /\ tapefiles = NoTapes /\ nd_exists = FALSE
    /\ guiness_tape = None /\ tapes = << >> /\ ci = 1 /\ reads = << >>
    /\ outcome = "running"

\* Go on to step `next', numbering `inc' more steps.
Advance(next, inc) == pc' = next /\ step_num' = step_num + inc

\* main lines 120-140: the tmpdir is a fresh TemporaryDirectory, or the
\* given one, created if missing and otherwise kept as it is.
StartRun ==
    /\ pc = "start" /\ outcome = "running"
    /\ IF opts.user_tmpdir
       THEN UNCHANGED fileVars
       ELSE instrumented' = None /\ tapefiles' = NoTapes /\ nd_exists' = FALSE
    /\ Advance("extract", 0)
    /\ UNCHANGED <<run, opts, guiness_tape, tapes, ci, reads, outcome>>

\* extract (main 141-143); the bitcode is copied, converted or extracted.
Extract ==
    /\ pc = "extract" /\ outcome = "running"
    /\ Advance(IF opts.debloat THEN "helpers" ELSE "optimize", 1)
    /\ UNCHANGED <<fileVars, runVars, outcome>>

\* add_tabacco_helpers (main 149-151)
AddTabaccoHelpers ==
    /\ pc = "helpers" /\ outcome = "running"
    /\ Advance("annotate", 1)
    /\ UNCHANGED <<fileVars, runVars, outcome>>

\* annotate (main 152-155)
Annotate ==
    /\ pc = "annotate" /\ outcome = "running"
    /\ Advance(IF opts.replace_sighup THEN "mem2reg" ELSE "combine", 1)
    /\ UNCHANGED <<fileVars, runVars, outcome>>

\* mem2reg, sccp, dce, reg2mem (main 159-162): opt writes to the renamed
\* path, and fails when that lies in a directory that does not exist.
SighupPrep ==
    /\ pc \in {"mem2reg", "sccp", "dce", "reg2mem"} /\ outcome = "running"
    /\ IF replace_bc_dir(opts) = "tmp"
       THEN /\ Advance(CASE pc = "mem2reg" -> "sccp"
                         [] pc = "sccp"    -> "dce"
                         [] pc = "dce"     -> "reg2mem"
                         [] pc = "reg2mem" -> "sighup", 1)
            /\ UNCHANGED outcome
       ELSE /\ outcome' = "BadOutputPath"
            /\ UNCHANGED <<pc, step_num>>
    /\ UNCHANGED <<fileVars, runVars>>

\* handle_sighup (main 164-166)
HandleSighup ==
    /\ pc = "sighup" /\ outcome = "running"
    /\ Advance("combine", 1)
    /\ UNCHANGED <<fileVars, runVars, outcome>>

\* main 168-177: combine, then on to neck mining (Guiness first) or
\* straight to writing the neck locations.
Combine ==
    /\ pc = "combine" /\ outcome = "running"
    /\ Advance(IF ~opts.neck_miner THEN "write_necks"
               ELSE IF run_guiness(opts) THEN "guiness_instrument"
               ELSE "mine", 0)
    /\ UNCHANGED <<fileVars, runVars, outcome>>

\* instrument without neck locations, for Guiness (main 178-180): opt, then
\* do_compile_and_link's three steps.
GuinessInstrument ==
    /\ pc = "guiness_instrument" /\ outcome = "running"
    /\ instrumented' = [run |-> run, necks |-> FALSE]
    /\ Advance("guiness_tape", 4)
    /\ UNCHANGED <<tapefiles, nd_exists, runVars, outcome>>

\* produce_tape for configs[0] with use_guiness (main 182-185).
GuinessTape ==
    /\ pc = "guiness_tape" /\ outcome = "running"
    /\ tapefiles' = [tapefiles EXCEPT ![step_num] =
                        [run |-> run, cfg |-> 1, necks |-> instrumented.necks,
                         guiness |-> TRUE]]
    /\ guiness_tape' = step_num
    /\ pc' = "mine"
    /\ step_num' = produce_tape(step_num)
    /\ UNCHANGED <<instrumented, nd_exists, run, opts, tapes, ci, reads, outcome>>

\* mine_necks (main 187-197, drive 251-304): with use_guiness it raises
\* unless it was given a tape, and neck-miner reads that tape.
MineNecks ==
    /\ pc = "mine" /\ outcome = "running"
    /\ IF run_guiness(opts) /\ guiness_tape = None
       THEN /\ outcome' = "GuinessTapeMissing"
            /\ UNCHANGED <<pc, step_num, reads>>
       ELSE /\ reads' = IF run_guiness(opts)
                        THEN Append(reads,
                                [by |-> "mine_necks",
                                 want |-> [run |-> run, cfg |-> 1, necks |-> FALSE,
                                           guiness |-> TRUE],
                                 got |-> tapefiles[guiness_tape]])
                        ELSE reads
            /\ Advance("write_necks", 1)
            /\ UNCHANGED outcome
    /\ UNCHANGED <<fileVars, run, opts, guiness_tape, tapes, ci>>

\* main 199-201: json.dump of the neck locations.
WriteNecks ==
    /\ pc = "write_necks" /\ outcome = "running"
    /\ Advance("instrument", 0)
    /\ UNCHANGED <<fileVars, runVars, outcome>>

\* instrument with neck_locations_path (main 203-209).
Instrument ==
    /\ pc = "instrument" /\ outcome = "running"
    /\ instrumented' = [run |-> run, necks |-> TRUE]
    /\ Advance(IF opts.robustness_checks THEN "robustness" ELSE "tape", 4)
    /\ UNCHANGED <<tapefiles, nd_exists, runVars, outcome>>

\* run_multi_tape_checker and its verdict (main 213-225): exit(1) when a
\* difference was found.  Its tapes go to subdirectories of tmp.
RobustnessCheck ==
    /\ pc = "robustness" /\ outcome = "running"
    /\ \E found \in BOOLEAN, k \in RobustnessTapes :
          /\ step_num' = step_num + 1 + k
          /\ IF found THEN outcome' = "stopped" /\ pc' = pc
                      ELSE outcome' = outcome /\ pc' = "tape"
    /\ UNCHANGED <<fileVars, runVars>>

\* Mutant: the loop records one tape more than there are configs.
ProduceTapeExtra ==
    /\ pc = "tape" /\ outcome = "running"
    /\ ci <= NumConfigs + 1
    /\ tapefiles' = [tapefiles EXCEPT ![step_num] =
                        [run |-> run, cfg |-> ci, necks |-> instrumented.necks,
                         guiness |-> FALSE]]
    /\ tapes' = Append(tapes, step_num)
    /\ ci' = ci + 1
    /\ step_num' = produce_tape(step_num)
    /\ pc' = IF ci = NumConfigs + 1 THEN "specialize" ELSE "tape"
    /\ UNCHANGED <<instrumented, nd_exists, run, opts, guiness_tape, reads, outcome>>

\* One iteration of main 227-236: produce_tape for the next config.
ProduceTape ==
    /\ pc = "tape" /\ outcome = "running"
    /\ ci <= NumConfigs
    /\ tapefiles' = [tapefiles EXCEPT ![step_num] =
                        [run |-> run, cfg |-> ci, necks |-> instrumented.necks,
                         guiness |-> FALSE]]
    /\ tapes' = Append(tapes, step_num)
    /\ ci' = ci + 1
    /\ step_num' = produce_tape(step_num)
    /\ pc' = IF ci = NumConfigs THEN "specialize" ELSE "tape"
    /\ UNCHANGED <<instrumented, nd_exists, run, opts, guiness_tape, reads, outcome>>

\* specialize (main 238-247, drive 421-508): configs[i] gets the tape tapes[i].
Specialize ==
    /\ pc = "specialize" /\ outcome = "running"
    /\ reads' = reads \o
          [i \in 1..NumConfigs |->
              [by |-> "specialize",
               want |-> [run |-> run, cfg |-> i, necks |-> TRUE, guiness |-> FALSE],
               got |-> tapefiles[tapes[i]]]]
    /\ Advance("optimize", 1)
    /\ UNCHANGED <<fileVars, run, opts, guiness_tape, tapes, ci, outcome>>

\* optimize (main 251-253)
Optimize ==
    /\ pc = "optimize" /\ outcome = "running"
    /\ Advance("compile", 1)
    /\ UNCHANGED <<fileVars, runVars, outcome>>

\* compile_to_native_code (main 254-262): do_compile_and_link's three steps.
Compile ==
    /\ pc = "compile" /\ outcome = "running"
    /\ IF opts.debloat /\ opts.stats
       THEN Advance("mkdir_nd", 3) /\ UNCHANGED outcome
       ELSE Advance("end", 3) /\ outcome' = "done"
    /\ UNCHANGED <<fileVars, runVars>>

\* main 266-267: nondebloated_tmpdir.mkdir(), without exist_ok.
MkdirNondebloated ==
    /\ pc = "mkdir_nd" /\ outcome = "running"
    /\ IF nd_exists
       THEN outcome' = "FileExistsError" /\ UNCHANGED <<pc, nd_exists>>
       ELSE nd_exists' = TRUE /\ pc' = "optimize_nd" /\ UNCHANGED outcome
    /\ UNCHANGED <<step_num, instrumented, tapefiles, runVars>>

\* optimize and compile_to_native_code of the input bitcode in the
\* nondebloated directory (main 268-279).
OptimizeNondebloated ==
    /\ pc = "optimize_nd" /\ outcome = "running"
    /\ Advance("compile_nd", 1)
    /\ UNCHANGED <<fileVars, runVars, outcome>>

CompileNondebloated ==
    /\ pc = "compile_nd" /\ outcome = "running"
    /\ Advance("bloaty", 3)
    /\ UNCHANGED <<fileVars, runVars, outcome>>

\* bloaty (main 282-291), the last step.
Bloaty ==
    /\ pc = "bloaty" /\ outcome = "running"
    /\ pc' = "end"
    /\ outcome' = "done"
    /\ UNCHANGED <<step_num, fileVars, runVars>>

\* utils.run with check=True: the tool exits non-zero and the exception
\* ends the run, leaving the tmpdir as it is.
ToolFails ==
    /\ pc \in ToolSteps /\ outcome = "running"
    /\ outcome' = "tool_failed"
    /\ UNCHANGED <<pc, step_num, fileVars, runVars>>

\* The driver is run again on the same command line.
Rerun ==
    /\ outcome # "running"
    /\ run < MaxRuns
    /\ run' = run + 1
    /\ pc' = "start"
    /\ step_num' = 1
    /\ guiness_tape' = None /\ tapes' = << >> /\ ci' = 1 /\ reads' = << >>
    /\ outcome' = "running"
    /\ UNCHANGED <<opts, fileVars>>

Next ==
    \/ StartRun \/ Extract \/ AddTabaccoHelpers \/ Annotate \/ SighupPrep
    \/ HandleSighup \/ Combine \/ GuinessInstrument \/ GuinessTape
    \/ MineNecks \/ WriteNecks \/ Instrument \/ RobustnessCheck
    \/ ProduceTape \/ Specialize \/ Optimize \/ Compile
    \/ MkdirNondebloated \/ OptimizeNondebloated \/ CompileNondebloated
    \/ Bloaty \/ ToolFails \/ Rerun

Spec == Init /\ [][Next]_vars

-----------------------------------------------------------------------------
Outcomes == {"running", "tool_failed", "BadOutputPath", "GuinessTapeMissing",
             "stopped", "FileExistsError", "done"}

TypeOK ==
    /\ run \in 1..MaxRuns
    /\ opts \in Options
    /\ step_num \in 1..MaxStep + 1
    /\ instrumented \in BinaryProv \cup {None}
    /\ tapefiles \in [1..MaxStep -> TapeProv \cup {None}]
    /\ nd_exists \in BOOLEAN
    /\ guiness_tape \in 1..MaxStep \cup {None}
    /\ tapes \in Seq(1..MaxStep) /\ Len(tapes) <= NumConfigs
    /\ ci \in 1..NumConfigs + 1
    /\ outcome \in Outcomes

(***************************************************************************)
(* Every tape a step reads is the one main() means it to read: neck-miner, *)
(* under Guiness, reads the tape recorded in this run for configs[0] by    *)
(* the binary instrumented without neck locations, and specialize gives    *)
(* configs[i] the tape recorded in this run for configs[i] by the binary   *)
(* instrumented with them, never a tape of another config, of the Guiness  *)
(* run or of an earlier run left in the tmpdir.  mine_necks never raises   *)
(* for want of a tape.                                                     *)
(***************************************************************************)
TapesAsExpected ==
    /\ \A k \in DOMAIN reads : reads[k].got = reads[k].want
    /\ outcome # "GuinessTapeMissing"

(***************************************************************************)
(* A run of the driver ends only with the binary written, with the         *)
(* robustness verdict, or because an external tool failed: the driver's   *)
(* own handling of the tmpdir never makes it fail.                         *)
(***************************************************************************)
CleanRunSucceeds ==
    outcome \in {"running", "tool_failed", "stopped", "done"}
=============================================================================
