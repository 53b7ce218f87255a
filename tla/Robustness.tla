----------------------------- MODULE Robustness -----------------------------
(***************************************************************************)
(* The tape robustness checker of the TaBaCCo driver,                      *)
(* src/tabacco-driver/driver/robustness.py.                                *)
(*                                                                         *)
(* run_multi_tape_checker walks the option configs of the debloating spec. *)
(* For each config perturbate_specs builds one group of specs per syscall  *)
(* the config does not mock (uid, gid, euid, pid, ppid): the specs differ  *)
(* only in the value that syscall returns.  check_variation_in_specs       *)
(* records a tape per spec, hands the tapes to the external tape           *)
(* determinism checker, and, when the checker finds more than one class of *)
(* tapes, searches its difference matrix for the first difference and      *)
(* prints it.  After a config in which some group varied, the function     *)
(* returns True and main() stops.                                          *)
(*                                                                         *)
(* A spec of a group is the value its varied syscall returns; the rest of  *)
(* the spec is the config's and is the same for the whole group.  The      *)
(* program under test is a function from field and value to the tape it    *)
(* records.  A tape file is named by its directory (the group index i) and *)
(* the step number; its content is the tape.                               *)
(***************************************************************************)
EXTENDS Integers, Sequences, SequencesExt, FiniteSets

CONSTANTS
    None,
    EffortConstant,  \* --robustness-checks-constant
    RandomValues,    \* what random.randrange(1001, 2000) may return
    Programs,        \* candidate programs: [field -> [value -> tape]]
    ConfigLists      \* candidate debloating_spec.configs, each config given
                     \* by the set of syscalls its syscall_mocks mocks

\* The five perturbate_helper calls of perturbate_specs, in order.
PerturbOrder ==
    << [syscall |-> "sys_getuid",  field |-> "uid",  defaults |-> <<0>>],
       [syscall |-> "sys_getgid",  field |-> "gid",  defaults |-> <<1>>],
       [syscall |-> "sys_geteuid", field |-> "euid", defaults |-> <<0>>],
       [syscall |-> "sys_getpid",  field |-> "pid",  defaults |-> <<1>>],
       [syscall |-> "sys_getppid", field |-> "ppid", defaults |-> <<1>>] >>

Fields == {PerturbOrder[k].field : k \in DOMAIN PerturbOrder}

\* Python truthiness of an Optional[int].
Truthy(x) == x # None /\ x # 0

-----------------------------------------------------------------------------
(* perturbate_specs                                                        *)

\* Mutant: every spec of a group takes a random value; the default is
\* never tried.
perturbate_helper_nodefault(mocked, p, rnd) ==
    IF p.syscall \notin mocked
    THEN << [specs |-> [k \in 1..EffortConstant |-> rnd[p.field][k]],
             field |-> p.field] >>
    ELSE << >>

\* perturbate_helper: unless the config mocks the syscall, effort_constant
\* specs; the k-th pops the k-th default from the end of the list while
\* there is one, and otherwise takes the random value rnd[field][k].
perturbate_helper(mocked, p, rnd) ==
    IF p.syscall \notin mocked
    THEN << [specs |-> [k \in 1..EffortConstant |->
                          IF k <= Len(p.defaults)
                          THEN p.defaults[Len(p.defaults) - k + 1]
                          ELSE rnd[p.field][k]],
             field |-> p.field] >>
    ELSE << >>

perturbate_specs(mocked, rnd) ==
    FlattenSeq([k \in DOMAIN PerturbOrder |->
                    perturbate_helper(mocked, PerturbOrder[k], rnd)])

\* The fields a config leaves unmocked.
Unmocked(mocked) == {PerturbOrder[k].field : k \in
                        {j \in DOMAIN PerturbOrder :
                            PerturbOrder[j].syscall \notin mocked}}

-----------------------------------------------------------------------------
(* produce_tape, as check_variation_in_specs calls it: the tape goes to    *)
(* tmp / f"tape_{step_num}.json" and the step number is returned bumped.   *)

TapePath(dir, step) == <<dir, step>>

\* Mutant: the step number is not bumped.
produce_tape_nobump(step) == step

produce_tape(step) == step + 1

\* The loop of lines 156-172: the specs' tape paths, in order, and the next
\* step number.
RECURSIVE ProduceTapes(_, _, _)
ProduceTapes(step, n, dir) ==
    IF n = 0 THEN [step |-> step, paths |-> << >>]
    ELSE LET r == ProduceTapes(step, n - 1, dir)
         IN  [step |-> produce_tape(r.step),
              paths |-> Append(r.paths, TapePath(dir, r.step))]

\* The files the loop leaves: each path holds the last tape written to it.
Written(paths, tapes) ==
    [p \in ToSet(paths) |->
        tapes[CHOOSE j \in DOMAIN paths :
                  paths[j] = p /\ \A k \in DOMAIN paths : paths[k] = p => k <= j]]

-----------------------------------------------------------------------------
(* run_determinism_checker runs the external tape-determinism-checker.     *)
(* Its result is a DifferenceOutputs: the classes of equal tapes, in an    *)
(* order the tool picks, and a matrix whose entry i,j is None when the two *)
(* classes agree and otherwise the index of their first difference.        *)

FirstDiff(s, t) == Len(LongestCommonPrefix({s, t}))

run_determinism_checker(tapes) ==
    { [groups |-> g,
       differences |-> [r \in 0..Len(g) - 1 |-> [c \in 0..Len(g) - 1 |->
                           IF g[r + 1] = g[c + 1] THEN None
                           ELSE FirstDiff(g[r + 1], g[c + 1])]]]
      : g \in SetToSeqs(ToSet(tapes)) }

-----------------------------------------------------------------------------
VARIABLES
    prog,       \* the program under test
    configs,    \* debloating_spec.configs
    step_num,
    ci,         \* the option config being perturbed
    rand_specs, \* perturbate_specs of that config
    gi,         \* the spec group being checked (i = gi - 1)
    output,     \* the checker's DifferenceOutputs for that group
    row, col,   \* the cursor of the minimum search
    min_val, min_left, min_right,
    variation_check_output,
    checked,    \* every group checked: config, field, values tried, tapes
                \* read, and the index and tapes printed (or None)
    pc,         \* "config", "group", "search" or "done"
    result

vars == <<prog, configs, step_num, ci, rand_specs, gi, output, row, col,
          min_val, min_left, min_right, variation_check_output, checked,
          pc, result>>

searchVars == <<output, row, col, min_val, min_left, min_right>>

\* Entry of run_multi_tape_checker, after step_num += 1.
Init ==
    /\ prog \in Programs
    /\ configs \in ConfigLists
    /\ step_num = 1
    /\ ci = 1
    /\ rand_specs = << >>
    /\ gi = 1
    /\ output = [groups |-> << >>, differences |-> << >>]
    /\ row = 0 /\ col = 0
    /\ min_val = None /\ min_left = None /\ min_right = None
    /\ variation_check_output = << >>
    /\ checked = << >>
    /\ pc = "config"
    /\ result = None

\* Lines 309-313: perturb the next option config, drawing the random values
\* its groups need.
PerturbConfig ==
    /\ pc = "config"
    /\ ci <= Len(configs)
    /\ \E rnd \in [Unmocked(configs[ci]) -> [1..EffortConstant -> RandomValues]] :
          rand_specs' = perturbate_specs(configs[ci], rnd)
    /\ gi' = 1
    /\ pc' = "group"
    /\ UNCHANGED <<prog, configs, step_num, ci, searchVars,
                   variation_check_output, checked, result>>

\* check_variation_in_specs up to found_difference (lines 148-198): record
\* a tape per spec in tmpdir / str(i), run the checker on the tape files and
\* count its groups.  With a single group the call returns at once.
CheckVariation ==
    /\ pc = "group"
    /\ gi <= Len(rand_specs)
    /\ LET group == rand_specs[gi]
           tapes == [j \in DOMAIN group.specs |-> prog[group.field][group.specs[j]]]
           run   == ProduceTapes(step_num, Len(group.specs), gi - 1)
           files == Written(run.paths, tapes)
           read  == [j \in DOMAIN run.paths |-> files[run.paths[j]]]
       IN  /\ step_num' = run.step
           /\ \E out \in run_determinism_checker(read) :
                 /\ output' = out
                 /\ checked' = Append(checked,
                                  [cfg |-> ci,
                                   field |-> group.field,
                                   values |-> ToSet(group.specs),
                                   tapes |-> ToSet(read),
                                   printed |-> None])
                 /\ IF Len(out.groups) > 1
                    THEN /\ pc' = "search"
                         /\ gi' = gi
                    ELSE /\ pc' = "group"
                         /\ gi' = gi + 1
    /\ row' = 0 /\ col' = 0
    /\ min_val' = None /\ min_left' = None /\ min_right' = None
    /\ UNCHANGED <<prog, configs, ci, rand_specs, variation_check_output, result>>

N == Len(output.groups)

\* Mutant: the cursor moves along the row without wrapping to the next one.
FindMinStepNoWrap ==
    /\ pc = "search"
    /\ row < N
    /\ col' = col + 1
    /\ UNCHANGED <<prog, configs, step_num, ci, rand_specs, gi, output, row,
                   min_val, min_left, min_right, variation_check_output,
                   checked, pc, result>>

\* Mutant: the comparison keeps the larger difference.
FindMinStepGreater ==
    /\ pc = "search"
    /\ row < N
    /\ LET elem == output.differences[row][col]
       IN  IF Truthy(elem) /\ ((Truthy(min_val) /\ elem > min_val) \/ min_val = None)
           THEN /\ min_val' = elem
                /\ min_right' = output.groups[row + 1]
                /\ min_left' = output.groups[col + 1]
           ELSE UNCHANGED <<min_val, min_left, min_right>>
    /\ IF col + 1 < N THEN col' = col + 1 /\ row' = row
                      ELSE col' = 0 /\ row' = row + 1
    /\ UNCHANGED <<prog, configs, step_num, ci, rand_specs, gi, output,
                   variation_check_output, checked, pc, result>>

\* One element of the double loop of lines 206-211.
FindMinStep ==
    /\ pc = "search"
    /\ row < N
    /\ LET elem == output.differences[row][col]
       IN  IF Truthy(elem) /\ ((Truthy(min_val) /\ elem < min_val) \/ min_val = None)
           THEN /\ min_val' = elem
                /\ min_right' = output.groups[row + 1]
                /\ min_left' = output.groups[col + 1]
           ELSE UNCHANGED <<min_val, min_left, min_right>>
    /\ IF col + 1 < N THEN col' = col + 1 /\ row' = row
                      ELSE col' = 0 /\ row' = row + 1
    /\ UNCHANGED <<prog, configs, step_num, ci, rand_specs, gi, output,
                   variation_check_output, checked, pc, result>>

\* Lines 212-288 and 324-325: when the search found a pair, read the
\* element at index min_val from both tapes and print them (a tape path is
\* a non-empty string, so it is truthy once set); the call
\* returns found_difference = True and the field is noted.
ReportDifference ==
    /\ pc = "search"
    /\ row = N
    /\ LET printed == IF min_left # None /\ min_right # None /\ Truthy(min_val)
                      THEN [index |-> min_val, left |-> min_left, right |-> min_right]
                      ELSE None
       IN  checked' = [checked EXCEPT ![Len(checked)].printed = printed]
    /\ variation_check_output' = Append(variation_check_output,
                                        rand_specs[gi].field)
    /\ gi' = gi + 1
    /\ pc' = "group"
    /\ UNCHANGED <<prog, configs, step_num, ci, rand_specs, searchVars, result>>

\* Lines 326-335: after the groups of a config, stop with True if any of
\* them varied, else go on with the next config.
EndConfig ==
    /\ pc = "group"
    /\ gi > Len(rand_specs)
    /\ IF variation_check_output # << >>
       THEN pc' = "done" /\ result' = TRUE /\ ci' = ci
       ELSE pc' = "config" /\ result' = None /\ ci' = ci + 1
    /\ UNCHANGED <<prog, configs, step_num, rand_specs, gi, searchVars,
                   variation_check_output, checked>>

\* Line 336: every config checked without a variation.
NoVariation ==
    /\ pc = "config"
    /\ ci > Len(configs)
    /\ pc' = "done"
    /\ result' = FALSE
    /\ UNCHANGED <<prog, configs, step_num, ci, rand_specs, gi, searchVars,
                   variation_check_output, checked>>

Next ==
    \/ PerturbConfig
    \/ CheckVariation
    \/ FindMinStep
    \/ ReportDifference
    \/ EndConfig
    \/ NoVariation

Spec == Init /\ [][Next]_vars

-----------------------------------------------------------------------------
TypeOK ==
    /\ step_num \in Nat \ {0}
    /\ ci \in 1..Len(configs) + 1
    /\ gi \in 1..Len(rand_specs) + 1
    /\ row \in 0..N
    /\ col \in 0..N - 1 \cup {0}
    /\ min_val \in Nat \cup {None}
    /\ variation_check_output \in Seq(Fields)
    /\ pc \in {"config", "group", "search", "done"}
    /\ result \in BOOLEAN \cup {None}

\* The default value perturbate_specs tries first for a field.
Default(f) == (CHOOSE p \in Range(PerturbOrder) : p.field = f).defaults[1]

\* The tapes the program records for a set of values of a field.
TapesOf(f, values) == {prog[f][v] : v \in values}

Depends(f) == \A r \in RandomValues : prog[f][Default(f)] # prog[f][r]

DependenceDetected ==
    (pc = "done" /\ \E c \in 1..Len(configs) : \E f \in Unmocked(configs[c]) : Depends(f))
        => result = TRUE

(***************************************************************************)
(* What check_variation_in_specs prints is a real difference: the two      *)
(* tapes it reads differ at the index it prints, and no two tapes of the   *)
(* group differ at a smaller non-zero index.                               *)
(***************************************************************************)
Diffs(T) == {FirstDiff(q[1], q[2]) : q \in {q \in T \X T : q[1] # q[2]}}

PrintedDifferenceIsReal ==
    \A k \in DOMAIN checked :
        LET p == checked[k].printed IN
        p # None =>
            /\ p.left[p.index + 1] # p.right[p.index + 1]
            /\ \A d \in Diffs(checked[k].tapes) : d > 0 => p.index <= d

(***************************************************************************)
(* The comment at line 200: when the tapes of a group differ, the search   *)
(* finds and prints the first difference, the least index at which two of  *)
(* the tapes differ.                                                       *)
(***************************************************************************)
ReportsFirstDifference ==
    \A k \in DOMAIN checked :
        (Cardinality(checked[k].tapes) > 1 /\ (k < Len(checked) \/ pc # "search"))
            => /\ checked[k].printed # None
               /\ \A d \in Diffs(checked[k].tapes) : checked[k].printed.index <= d
=============================================================================
