----------------------------- MODULE NeckSearch -----------------------------
(***************************************************************************)
(* The cross-function driver NeckSearch of src/neck-miner/reach.py (lines  *)
(* 408-555): a stack of BB_BFS_Q explorers, the active one on top.         *)
(*                                                                         *)
(* visit_next(visit_func) is one visit followed by a loop that expands the *)
(* active explorer until the next visit is ready.  The model takes the     *)
(* visit as the action VisitNext and each iteration of the loop as the     *)
(* action ExpandStep: expand() followed by one of the five branches of the *)
(* loop body (ExpandRootDone, Backtrack, RefuseRecursion, Descend,         *)
(* ExpandToVisit).  pc = "expand" while the loop runs, so the iterations   *)
(* are not optional and nothing else happens between them.  reinit() is   *)
(* the action Reinit.                                                      *)
(*                                                                         *)
(* The input (program, participation list p, start function) is chosen by *)
(* Init from Inputs and never changes.  The visitor is test4's visit_func: *)
(* it summarizes the complete path it is given and returns True; log is   *)
(* the sequence of what it sees (function stack, block, chokep, forbidden, *)
(* summary) since the search was last (re)initialised.                     *)
(*                                                                         *)
(* Intermediate results an action uses several times are bound with       *)
(* \E x \in {e}, which makes TLC evaluate e once.                          *)
(***************************************************************************)
EXTENDS NeckExplorer

CONSTANTS
    Inputs,         \* set of [prog, p, start] the search may be constructed with
    MaxReinit,      \* bound on the number of reinit() calls
    RefTable,       \* the reference tables of NeckSearchSpec
    ContribTable,
    UnitTestData    \* input -> (<<func, node>> -> the unit-test-data list of
                    \* that block in main()), for the inputs test4 verifies

VARIABLES
    input,      \* the constructor arguments (program b, participation p, start_func)
    S,          \* the search stack self.S; self.F is its last element
    pc,         \* "idle" between visit_next calls, "expand" inside its loop
    log,        \* the visitor's records since the last (re)initialisation
    reinits     \* number of reinit() calls so far

vars == <<input, S, pc, log, reinits>>

prog  == input.prog
part  == input.p
start == input.start

\* self.F, kept equal to the top of self.S.
F == S[Len(S)]

SetTop(e) == [S EXCEPT ![Len(S)] = e]

\* get_function_path / get_complete_path of a stack.
FunctionPathOf(stack) == [i \in DOMAIN stack |-> stack[i].fn]
CompletePathOf(stack) == [i \in DOMAIN stack |-> <<stack[i].fn, current_path(stack[i])>>]

\* NeckSearch.finished
SearchFinished == Len(S) = 1 /\ finished(F)

\* test4's visit_func(func, node, chokep, forbidden, complete_path): what
\* it sees of a visit, with summarize_complete_path of the complete path.
VisitRecord(stack, complete_path) ==
    LET top == stack[Len(stack)]
    IN  [fns       |-> FunctionPathOf(stack),
         bb        |-> top.visiting,
         chokep    |-> top.chokep,
         forbidden |-> top.forbidden,
         summary   |-> summarize_complete_path(prog, complete_path)]

\* __init__ / reinit: a single explorer at the entry of the start function.
RootStack == <<NewExplorer(prog, start, prog[start].entry, FALSE)>>

Init ==
    /\ input \in Inputs
    /\ S = RootStack
    /\ pc = "idle"
    /\ log = <<>>
    /\ reinits = 0

(***************************************************************************)
(* visit_next: when the active queue is empty it returns without visiting  *)
(* (no step); otherwise it visits the queue head once and calls the        *)
(* visitor, then enters the expansion loop.                                *)
(***************************************************************************)
\* Mutant: the early return taken when one block is left (len(self.F) <= 1).
VisitNextOffByOne ==
    /\ pc = "idle"
    /\ Len(F.queue) > 1
    /\ \E S1 \in {SetTop(visit(prog, F))} :
         \E complete_path \in {CompletePathOf(S1)} :
           /\ S' = S1
           /\ log' = Append(log, VisitRecord(S1, complete_path))
    /\ pc' = "expand"
    /\ UNCHANGED <<input, reinits>>

VisitNext ==
    /\ pc = "idle"
    /\ F.queue # <<>>
    /\ \E S1 \in {SetTop(visit(prog, F))} :
         \E complete_path \in {CompletePathOf(S1)} :
           /\ S' = S1
           /\ log' = Append(log, VisitRecord(S1, complete_path))
    /\ pc' = "expand"
    /\ UNCHANGED <<input, reinits>>

(***************************************************************************)
(* The loop body: outcome = self.F.expand(b, p), then one of five          *)
(* branches on the expanded explorer e.                                    *)
(***************************************************************************)

\* e finished and is the root: leave the loop.
ExpandRootDone(e) ==
    /\ finished(e)
    /\ Len(S) = 1
    /\ S' = SetTop(e)
    /\ pc' = "idle"
    /\ UNCHANGED <<input, log, reinits>>

\* Mutant: leave the loop after backtracking (break instead of continue).
BacktrackBreak(e) ==
    /\ finished(e)
    /\ Len(S) > 1
    /\ \E final_contrib \in {compute_final_contribution(prog, e)} :
         S' = Append(SubSeq(S, 1, Len(S) - 2),
                     accumulate_callee_contribution(S[Len(S) - 1], final_contrib))
    /\ pc' = "idle"
    /\ UNCHANGED <<input, log, reinits>>

\* e finished below the root: compute its final contribution, pop it, fold
\* the contribution into the parent's visiting block, and continue the
\* loop on the parent.
Backtrack(e) ==
    /\ finished(e)
    /\ Len(S) > 1
    /\ \E final_contrib \in {compute_final_contribution(prog, e)} :
         S' = Append(SubSeq(S, 1, Len(S) - 2),
                     accumulate_callee_contribution(S[Len(S) - 1], final_contrib))
    /\ UNCHANGED <<input, pc, log, reinits>>

\* e yielded at a call to a function already on the stack: ignore the
\* yield and continue the loop (the next expand resumes the scan).
RefuseRecursion(e) ==
    /\ ~finished(e)
    /\ e.yielded
    /\ Contains(FunctionPathOf(S), e.yieldCallee)
    /\ S' = SetTop(e)
    /\ UNCHANGED <<input, pc, log, reinits>>

\* Mutant: descend without the `callee_func in fpath' check.
DescendUnguarded(e) ==
    /\ ~finished(e)
    /\ e.yielded
    /\ S' = Append(SetTop(e),
                   NewExplorer(prog, e.yieldCallee, prog[e.yieldCallee].entry,
                               ~e.chokep \/ e.forbidden))
    /\ pc' = "idle"
    /\ UNCHANGED <<input, log, reinits>>

\* Mutant: forbid choke points only when both conditions hold.
DescendForbidAnd(e) ==
    /\ ~finished(e)
    /\ e.yielded
    /\ ~Contains(FunctionPathOf(S), e.yieldCallee)
    /\ S' = Append(SetTop(e),
                   NewExplorer(prog, e.yieldCallee, prog[e.yieldCallee].entry,
                               ~e.chokep /\ e.forbidden))
    /\ pc' = "idle"
    /\ UNCHANGED <<input, log, reinits>>

\* e yielded at a call to a function not on the stack: push an explorer
\* for the callee, forbidding choke points when the caller's bit is set or
\* the caller is not visiting a choke point; leave the loop.
Descend(e) ==
    /\ ~finished(e)
    /\ e.yielded
    /\ ~Contains(FunctionPathOf(S), e.yieldCallee)
    /\ S' = Append(SetTop(e),
                   NewExplorer(prog, e.yieldCallee, prog[e.yieldCallee].entry,
                               ~e.chokep \/ e.forbidden))
    /\ pc' = "idle"
    /\ UNCHANGED <<input, log, reinits>>

\* e neither finished nor yielded: the next visit is ready; leave the loop.
ExpandToVisit(e) ==
    /\ ~finished(e)
    /\ ~e.yielded
    /\ S' = SetTop(e)
    /\ pc' = "idle"
    /\ UNCHANGED <<input, log, reinits>>

ExpandStep ==
    /\ pc = "expand"
    /\ \E e \in {expand(prog, part, F)} :
         \/ ExpandRootDone(e)
         \/ Backtrack(e)
         \/ RefuseRecursion(e)
         \/ Descend(e)
         \/ ExpandToVisit(e)

\* reinit(), called by the client between visit_next calls.
Reinit ==
    /\ pc = "idle"
    /\ reinits < MaxReinit
    /\ S' = RootStack
    /\ log' = <<>>
    /\ reinits' = reinits + 1
    /\ UNCHANGED <<input, pc>>

\* The steps visit_all takes: visit_next and the iterations of its loop.
Drive == VisitNext \/ ExpandStep

Next == Drive \/ Reinit

(***************************************************************************)
(* visit_all calls visit_next while the search is not finished and the     *)
(* visitor returns True (test4's visitor always does), and the loop inside *)
(* visit_next runs until it breaks: weak fairness of Drive.  reinit() is   *)
(* the client's choice and gets no fairness.                               *)
(***************************************************************************)
Spec == Init /\ [][Next]_vars /\ WF_vars(Drive)

(***************************************************************************)
(* Properties                                                              *)
(***************************************************************************)

Blocks(f) == DOMAIN prog[f].bbs

TypeOK ==
    /\ input \in Inputs
    /\ pc \in {"idle", "expand"}
    /\ reinits \in 0..MaxReinit
    /\ Len(S) >= 1
    /\ \A i \in DOMAIN S :
         LET e == S[i] IN
         /\ e.fn \in DOMAIN prog
         /\ e.observed \subseteq Blocks(e.fn)
         /\ ToSet(e.queue) \subseteq e.observed
         /\ DOMAIN e.parents = e.observed
         /\ e.visiting \in Blocks(e.fn) \cup {None}
         /\ {e.instDone, e.chokep, e.yielded, e.forbidden} \subseteq BOOLEAN
         /\ e.yielded => e.yieldCallee \in part

(***************************************************************************)
(* No function is on the search stack twice: a call to a function already *)
(* being explored, directly or through a chain of callers, is refused      *)
(* (visit_next's `callee_func in fpath' check).                            *)
(***************************************************************************)
StackFunctionsDistinct ==
    \A i, j \in DOMAIN S : i < j => S[i].fn # S[j].fn

(***************************************************************************)
(* Whenever visit_next returns, the next visit_next can do its work: the  *)
(* active explorer is not yielded (visit asserts this), every explorer     *)
(* below it is suspended at a call to the one above it, and the active     *)
(* queue is empty only when the whole search is finished, so that          *)
(* visit_next's `len(self.F) == 0' early return never hides pending work.  *)
(***************************************************************************)
VisitNextReady ==
    pc = "idle" =>
        /\ ~F.yielded
        /\ \A i \in 1..(Len(S) - 1) : S[i].yielded /\ S[i].yieldCallee = S[i + 1].fn
        /\ F.queue = <<>> => SearchFinished

Abs == INSTANCE NeckSearchSpec

(***************************************************************************)
(* The search implements the safety part of its abstract specification:   *)
(* every visit the visitor sees is the next one of the reference stream    *)
(* (depth-first over calls, breadth-first within a function, with the      *)
(* choke-points-forbidden bit and the summary of the complete path), and   *)
(* reinit starts the stream over.                                          *)
(***************************************************************************)
AbsSpec == Abs!SafetySpec

(***************************************************************************)
(* test4(..., verify=True) asserts, at the n-th visit of func@node, that   *)
(* the complete path and its summary are the n-th entry of that block's   *)
(* "unit-test-data" in main().  Every visit of a verified program passes  *)
(* those asserts, and no block is visited more often than its data lists  *)
(* (an IndexError in the visitor).  The complete path carries the yield    *)
(* index of every suspended call and the callee summaries accumulated so   *)
(* far, which the reference stream's summaries do not show.               *)
(***************************************************************************)
VisitsMatchUnitTestData ==
    [][ Len(log') = Len(log) + 1 /\ input \in DOMAIN UnitTestData =>
          LET key(v) == <<v.fns[Len(v.fns)], v.bb>>
              latest == log'[Len(log')]
              n      == Cardinality({i \in DOMAIN log : key(log[i]) = key(latest)})
              data   == UnitTestData[input]
          IN  /\ key(latest) \in DOMAIN data
              /\ n < Len(data[key(latest)])
              /\ CompletePathOf(S') = data[key(latest)][n + 1].path
              /\ latest.summary = data[key(latest)][n + 1].summary
      ]_vars

(***************************************************************************)
(* The liveness part: after the client's last reinit, visit_all delivers  *)
(* the whole reference stream.  With finitely many reinits this is what    *)
(* the abstract specification's weak fairness of Emit requires.            *)
(***************************************************************************)
VisitorSeesAll == <>[](log = Abs!Ref)

(***************************************************************************)
(* When a callee explorer is popped, the callee summary of the caller's    *)
(* visiting block grows by exactly the reference contribution of the       *)
(* callee: the max over its breadth-first exit paths of the leaf's static  *)
(* properties plus the callee summaries along the path                     *)
(* (compute_final_contribution, accumulate_callee_contribution).           *)
(***************************************************************************)
CalleeContributionExact ==
    [][ pc = "expand" /\ Len(S') = Len(S) - 1 =>
          LET caller == S[Len(S) - 1]
              folded == S'[Len(S')].csums[caller.visiting]
              ref(k) == Abs!RefContrib(F.fn, ToSet(FunctionPathOf(S)), k)
          IN  \A k \in PropNames :
                Abs!Val(folded, k) = Abs!Val(caller.csums[caller.visiting], k) + ref(k)
      ]_vars

(***************************************************************************)
(* visit_all terminates: every search, after the client's last reinit,    *)
(* reaches the finished state and stays there.                             *)
(***************************************************************************)
Termination == <>[]SearchFinished
=============================================================================
