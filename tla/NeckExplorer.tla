---------------------------- MODULE NeckExplorer ----------------------------
(***************************************************************************)
(* The per-function explorer BB_BFS_Q of src/neck-miner/reach.py (lines    *)
(* 133-405): a breadth-first queue over one function's block graph that   *)
(* suspends ("yields") at a call to a participating function and resumes   *)
(* where it left off.                                                      *)
(*                                                                         *)
(* An explorer is a record; its fields are the object's attributes:        *)
(*   fn, forbidden        funcName, choke_point_forbidden                  *)
(*   queue, observed      the BFS deque and the observed set               *)
(*   parents              block -> BFS predecessor (None for the start)    *)
(*   visiting, instDone   visiting, visiting_inst_processed                *)
(*   chokep               chokep of the visiting block                     *)
(*   yielded, resume      yielded, and the saved enumerate() cursor as the *)
(*                        1-based index of the next instruction to scan    *)
(*   yieldCallee, yieldIdx  yield_at_callee_funcName, yield_at_inst_idx    *)
(*   exitPaths            exit_paths (values, so snapshots by definition)  *)
(*   csums                callee_summaries; get_callee_summary creates an  *)
(*                        empty table on first use, which no caller can    *)
(*                        tell apart from a table present from the start.  *)
(*                                                                         *)
(* An instruction is abstracted to [call, last]: whether its text contains *)
(* the substring "call" and its last whitespace-separated token, the only  *)
(* two things expand() examines.                                           *)
(***************************************************************************)
EXTENDS NeckSummary

\* BB_BFS_Q.__init__
NewExplorer(prog, funcName, bb_start, choke_point_forbidden) ==
    [fn          |-> funcName,
     forbidden   |-> choke_point_forbidden,
     queue       |-> <<bb_start>>,
     observed    |-> {bb_start},
     parents     |-> (bb_start :> None),
     visiting    |-> None,
     instDone    |-> FALSE,
     chokep      |-> FALSE,
     yielded     |-> FALSE,
     resume      |-> None,
     yieldCallee |-> None,
     yieldIdx    |-> None,
     exitPaths   |-> <<>>,
     csums       |-> [bb \in DOMAIN prog[funcName].bbs |-> EmptyTable]]

\* Mutant: finished without waiting for the visiting block's instructions.
finishedNoInstDone(e) == ~e.yielded /\ e.queue = <<>>

\* BB_BFS_Q.finished
finished(e) == ~e.yielded /\ e.queue = <<>> /\ e.instDone

\* BB_BFS_Q.visit: pop the queue head and read its choke-point flag.
visit(prog, e) ==
    LET bb == Head(e.queue)
    IN  [e EXCEPT !.visiting = bb,
                  !.queue    = Tail(@),
                  !.chokep   = prog[e.fn].bbs[bb].chokep,
                  !.instDone = FALSE]

\* Mutant: the visiting step without the yield index.
current_path_noidx(e) ==
    LET RECURSIVE Up(_)
        Up(bb) == IF bb = None THEN <<>>
                  ELSE Append(Up(e.parents[bb]),
                              [bb |-> bb, idx |-> None, csum |-> e.csums[bb]])
    IN  IF e.visiting = None THEN <<>> ELSE Up(e.visiting)

\* BB_BFS_Q.current_path: walk the parent map from the visiting block to
\* the start; the visiting step carries the yield index when yielded.
current_path(e) ==
    LET RECURSIVE Up(_)
        Up(bb) == IF bb = None THEN <<>>
                  ELSE Append(Up(e.parents[bb]),
                              [bb |-> bb, idx |-> None, csum |-> e.csums[bb]])
        p == Up(e.visiting)
    IN  IF e.visiting = None THEN <<>>
        ELSE [p EXCEPT ![Len(p)].idx = IF e.yielded THEN e.yieldIdx ELSE None]

\* Mutant: enqueue without marking the successor observed.
RECURSIVE EnqueueSuccsUnobserved(_, _)
EnqueueSuccsUnobserved(e, succs) ==
    IF succs = <<>> THEN e
    ELSE LET s == Head(succs)
             e2 == IF s \in e.observed THEN e
                   ELSE [e EXCEPT !.parents = @ @@ (s :> e.visiting),
                                  !.queue   = Append(@, s)]
         IN  EnqueueSuccsUnobserved(e2, Tail(succs))

\* The successor loop of expand(): enqueue every successor not yet
\* observed, in successor order, recording the visiting block as parent.
RECURSIVE EnqueueSuccs(_, _)
EnqueueSuccs(e, succs) ==
    IF succs = <<>> THEN e
    ELSE LET s == Head(succs)
             e2 == IF s \in e.observed THEN e
                   ELSE [e EXCEPT !.observed = @ \cup {s},
                                  !.parents  = @ @@ (s :> e.visiting),
                                  !.queue    = Append(@, s)]
         IN  EnqueueSuccs(e2, Tail(succs))

\* The tail of expand() once every instruction is scanned: mark the
\* instructions processed, then enqueue the successors, or, for a block
\* without successors, append a snapshot of the current path to exit_paths.
ExpandDone(prog, e) ==
    LET e1    == [e EXCEPT !.instDone = TRUE]
        succs == prog[e.fn].bbs[e.visiting].succ
    IN  IF succs = None
        THEN [e1 EXCEPT !.exitPaths = Append(@, current_path(e1))]
        ELSE EnqueueSuccs(e1, succs)

\* BB_BFS_Q.expand: resume the saved cursor (or start a fresh scan), and
\* yield at the first instruction containing "call" whose last token is a
\* participating function; otherwise finish the block.
expand(prog, p, e) ==
    IF finished(e) THEN e
    ELSE
      LET e0    == IF e.yielded
                   THEN [e EXCEPT !.yielded = FALSE, !.resume = None]
                   ELSE [e EXCEPT !.yieldCallee = None, !.yieldIdx = -1]
          from  == IF e.yielded THEN e.resume ELSE 1
          insts == prog[e.fn].bbs[e.visiting].inst
          hits  == {i \in from..Len(insts) : insts[i].call /\ insts[i].last \in p}
      IN  IF hits = {} THEN ExpandDone(prog, e0)
          ELSE LET i == Min(hits)
               IN  [e0 EXCEPT !.yielded     = TRUE,
                              !.resume      = i + 1,
                              !.yieldCallee = insts[i].last,
                              !.yieldIdx    = i - 1]

\* BB_BFS_Q.compute_final_contribution: summarize every exit path, then
\* merge the summaries.
compute_final_contribution(prog, e) ==
    merge_exit_path_summaries(
        [i \in DOMAIN e.exitPaths |->
            summarize_exit_path(prog, e.fn, e.exitPaths[i],
                                policy_summarize_exit_path)],
        policy_merge_exit_path_summaries)

\* BB_BFS_Q.accumulate_callee_contribution: fold a finished callee's
\* contribution into the visiting block's callee summary.
accumulate_callee_contribution(e, final_contrib) ==
    [e EXCEPT !.csums[e.visiting] =
        merge_basic_block_contribution(@, final_contrib,
                                       policy_merge_basic_block_contribution)]
=============================================================================
