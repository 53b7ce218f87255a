----------------------------- MODULE NeckSummary -----------------------------
(***************************************************************************)
(* The property-policy engine and the path/summary utilities of the        *)
(* neck-search engine (src/neck-miner/reach.py, lines 1-131).              *)
(*                                                                         *)
(* A summary table is a function from a subset of PropNames to integers;  *)
(* the empty table is the function with the empty domain.  A path step is  *)
(* a record [bb, idx, csum]: the block, the instruction index the          *)
(* explorer yielded at (or None) and the block's callee-summary table.     *)
(* A function-scoped path is a sequence of steps; a complete path is a     *)
(* sequence of <<function name, function-scoped path>> pairs.              *)
(*                                                                         *)
(* Python's None is the constant None.  All operators take the program     *)
(* (function name -> [entry, bbs]) as an explicit argument.                *)
(***************************************************************************)
EXTENDS Integers, Sequences, SequencesExt

CONSTANT None

\* The property names the three global policy tables define.
PropNames == {"numSucceededLoopHeads", "numSucceededGAF"}

\* The operator tags of the policy lambdas: "sum" is
\* `y if x is None else x + y', "max" is `y if x is None else max(x, y)'.
PolicyOp(kind, x, y) ==
    CASE x = None     -> y
      [] kind = "sum" -> x + y
      [] kind = "max" -> IF x >= y THEN x ELSE y

policy_summarize_exit_path ==
    [numSucceededLoopHeads |-> "sum", numSucceededGAF |-> "sum"]
\* Mutant: exit-path summaries merged with sum instead of max.
policy_merge_exit_path_summaries_sum ==
    [numSucceededLoopHeads |-> "sum", numSucceededGAF |-> "sum"]
policy_merge_exit_path_summaries ==
    [numSucceededLoopHeads |-> "max", numSucceededGAF |-> "max"]
policy_merge_basic_block_contribution ==
    [numSucceededLoopHeads |-> "sum", numSucceededGAF |-> "sum"]

EmptyTable == [k \in {} |-> 0]

\* apply_policy / apply_policy_to_property: for every property k of src,
\* dst[k] := policy[k](dst.get(k), src[k]); a property without a policy is
\* the "Programmer error!" assertion.
apply_policy(dst, src, policy) ==
    IF Assert(DOMAIN src \subseteq DOMAIN policy,
              "apply_policy_to_property(): Programmer error!")
    THEN [k \in DOMAIN dst \cup DOMAIN src |->
            IF k \in DOMAIN src
            THEN PolicyOp(policy[k], IF k \in DOMAIN dst THEN dst[k] ELSE None, src[k])
            ELSE dst[k]]
    ELSE dst

\* The static properties of the LAST block of the
\* path, then the callee summaries of every step from the last to the first.
summarize_exit_path(prog, funcname, exit_path, policy) ==
    LET leaf == exit_path[Len(exit_path)].bb
        acc0 == apply_policy(EmptyTable, prog[funcname].bbs[leaf].props, policy)
    IN  FoldRight(LAMBDA step, acc : apply_policy(acc, step.csum, policy),
                  exit_path, acc0)

\* Fold the exit-path summaries from the left (startleft=True, the only use in the code).
merge_exit_path_summaries(exit_path_contribs, policy) ==
    FoldLeft(LAMBDA acc, epc : apply_policy(acc, epc, policy),
             EmptyTable, exit_path_contribs)

\* Fold summary into summarization.
merge_basic_block_contribution(summarization, summary, policy) ==
    apply_policy(summarization, summary, policy)

\* Every segment is summarized as an exit path,
\* then the segment summaries are accumulated from leaf to root.
summarize_complete_path(prog, fpath) ==
    LET contribs == [i \in DOMAIN fpath |->
                       summarize_exit_path(prog, fpath[i][1], fpath[i][2],
                                         policy_summarize_exit_path)]
    IN  FoldRight(LAMBDA c, acc :
                    apply_policy(acc, c, policy_merge_basic_block_contribution),
                  contribs, EmptyTable)
=============================================================================
