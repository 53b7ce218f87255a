---------------------------- MODULE NeckReference ----------------------------
(***************************************************************************)
(* The reference definition of what the neck search computes for one      *)
(* program, stated without explorers, yields or a stack.  Exploring        *)
(* function f visits f's blocks in breadth-first order from its entry;     *)
(* right after a block is visited, each participating call in it (in       *)
(* instruction order) to a function not already being explored is          *)
(* explored the same way, completely, before the next visit in f.  Every   *)
(* visit carries the function stack, the block, its choke-point flag, the  *)
(* choke-points-forbidden bit and the summary of the complete path under   *)
(* the default policies (sum along a path, max over the exit paths of a    *)
(* callee, sum of callee contributions into the calling block).  The exit  *)
(* path of a leaf is its breadth-first tree path (the first arrival).      *)
(*                                                                         *)
(* The program is a constant, so TLC evaluates the reference once per      *)
(* program.  Sums are written as plain recursion over sequences.           *)
(***************************************************************************)
EXTENDS Integers, Sequences, SequencesExt

CONSTANTS
    None,
    Prog,       \* function name -> [entry, bbs]
    Part,       \* the participating functions p
    Start       \* the start function

\* The property names the program's blocks carry.
Keys == UNION {UNION {DOMAIN Prog[f].bbs[b].props : b \in DOMAIN Prog[f].bbs} : f \in DOMAIN Prog}

\* Summaries are compared key by key; a missing key counts as 0.
Val(t, k) == IF k \in DOMAIN t THEN t[k] ELSE 0
PropVal(f, b, k) == Val(Prog[f].bbs[b].props, k)
MaxOrZero(X) == IF X = {} THEN 0 ELSE Max(X)

Succs(f, b) == IF Prog[f].bbs[b].succ = None THEN <<>> ELSE Prog[f].bbs[b].succ

\* The first occurrence of every element of s, in order.
RECURSIVE Distinct(_)
Distinct(s) ==
    IF s = <<>> THEN <<>>
    ELSE <<Head(s)>> \o Distinct(SelectSeq(Tail(s), LAMBDA x : x # Head(s)))

\* The concatenation of a sequence of sequences.
RECURSIVE Concat(_)
Concat(ss) == IF ss = <<>> THEN <<>> ELSE Head(ss) \o Concat(Tail(ss))

\* The successor lists of the blocks of a level, concatenated in order.
RECURSIVE SuccsOf(_, _)
SuccsOf(f, level) == IF level = <<>> THEN <<>> ELSE Succs(f, Head(level)) \o SuccsOf(f, Tail(level))

(***************************************************************************)
(* Breadth-first search level by level: the next level is the new         *)
(* successors of the current one, in order; the tree parent of a block is  *)
(* the first block of the previous level that lists it.                    *)
(***************************************************************************)
NewLevel(f, level, seen) == SelectSeq(Distinct(SuccsOf(f, level)), LAMBDA b : b \notin seen)

RECURSIVE Levels(_, _, _)
Levels(f, level, seen) ==
    IF level = <<>> THEN <<>>
    ELSE <<level>> \o Levels(f, NewLevel(f, level, seen),
                             seen \cup ToSet(NewLevel(f, level, seen)))

BfsLevels(f) == Levels(f, <<Prog[f].entry>>, {Prog[f].entry})
BfsOrder(f)  == Concat(BfsLevels(f))

TreeParent(f, b) ==
    LET lv == BfsLevels(f)
        d  == CHOOSE d \in DOMAIN lv : Contains(lv[d], b)
        up == lv[d - 1]
    IN  up[Min({i \in DOMAIN up : Contains(Succs(f, up[i]), b)})]

\* The breadth-first tree as a parent map (None at the entry), and the tree
\* path from the entry to b as a sequence.
BfsParent(f) ==
    [b \in ToSet(BfsOrder(f)) |-> IF b = Prog[f].entry THEN None ELSE TreeParent(f, b)]
RECURSIVE PathTo(_, _)
PathTo(par, b) == IF par[b] = None THEN <<b>> ELSE Append(PathTo(par, par[b]), b)
TreePath(f, b) == PathTo(BfsParent(f), b)

\* The callees of the participating calls of a block, in instruction order.
Calls(f, b) ==
    LET cs == SelectSeq(Prog[f].bbs[b].inst, LAMBDA ins : ins.call /\ ins.last \in Part)
    IN  [i \in DOMAIN cs |-> cs[i].last]

(***************************************************************************)
(* RefContrib(f, stk, k): property k of what exploring f hands back to its *)
(* caller when the functions stk are on the stack (f among them): the max  *)
(* over f's leaves of the leaf's property plus the callee summaries along  *)
(* its tree path.  PathCsum sums the full callee summaries of a sequence   *)
(* of blocks; CalleesSum sums the contributions of a sequence of callees,  *)
(* a callee already on the stack contributing nothing.                     *)
(***************************************************************************)
RECURSIVE RefContrib(_, _, _), PathCsum(_, _, _, _), CalleesSum(_, _, _)
CalleesSum(stk, cs, k) ==
    IF cs = <<>> THEN 0
    ELSE (IF Head(cs) \in stk THEN 0 ELSE RefContrib(Head(cs), stk \cup {Head(cs)}, k))
         + CalleesSum(stk, Tail(cs), k)
PathCsum(f, stk, bs, k) ==
    IF bs = <<>> THEN 0
    ELSE CalleesSum(stk, Calls(f, Head(bs)), k) + PathCsum(f, stk, Tail(bs), k)
RefContrib(f, stk, k) ==
    LET order  == BfsOrder(f)
        leaves == {order[j] : j \in {j \in DOMAIN order : Prog[f].bbs[order[j]].succ = None}}
    IN  MaxOrZero({PropVal(f, l, k) + PathCsum(f, stk, TreePath(f, l), k) : l \in leaves})

(***************************************************************************)
(* RefStream(f, stk, forbidden, base): the visits of exploring f with the  *)
(* function stack stk (a sequence ending in f), the inherited forbidden    *)
(* bit, and base the summed summaries of the frames under f.  Seg(f, on,  *)
(* b, n) is the summary of f's segment of the path when b is visited and *)
(* has made its first n participating calls (on: the stack's functions).  *)
(***************************************************************************)
Seg(f, on, b, n) ==
    LET tp == TreePath(f, b)
    IN  [k \in Keys |->
           PropVal(f, b, k) + CalleesSum(on, SubSeq(Calls(f, b), 1, n), k)
           + PathCsum(f, on, SubSeq(tp, 1, Len(tp) - 1), k)]

AddTables(t1, t2) == [k \in Keys |-> t1[k] + t2[k]]

\* The visit record of block b of f.
RefVisit(f, stk, forbidden, base, b) ==
    [fns       |-> stk,
     bb        |-> b,
     chokep    |-> Prog[f].bbs[b].chokep,
     forbidden |-> forbidden,
     summary   |-> AddTables(base, Seg(f, ToSet(stk), b, 0))]

RECURSIVE RefStream(_, _, _, _), BlocksFrom(_, _, _, _, _), CallsFrom(_, _, _, _, _, _)
\* The visits of the blocks of order and of the calls each makes.
BlocksFrom(f, stk, forbidden, base, order) ==
    IF order = <<>> THEN <<>>
    ELSE <<RefVisit(f, stk, forbidden, base, Head(order))>>
         \o CallsFrom(f, stk, forbidden, base, Head(order), 1)
         \o BlocksFrom(f, stk, forbidden, base, Tail(order))
\* The visits of the explorations of block b's participating calls from the i-th.
CallsFrom(f, stk, forbidden, base, b, i) ==
    IF i > Len(Calls(f, b)) THEN <<>>
    ELSE (IF Calls(f, b)[i] \in ToSet(stk) THEN <<>>
          ELSE RefStream(Calls(f, b)[i], Append(stk, Calls(f, b)[i]),
                         forbidden \/ ~Prog[f].bbs[b].chokep,
                         AddTables(base, Seg(f, ToSet(stk), b, i - 1))))
         \o CallsFrom(f, stk, forbidden, base, b, i + 1)
RefStream(f, stk, forbidden, base) == BlocksFrom(f, stk, forbidden, base, BfsOrder(f))

\* The whole stream of a search started at Start.
Ref == RefStream(Start, <<Start>>, FALSE, [k \in Keys |-> 0])

\* The contribution of every function under every set of stack functions.
Contribs == [f \in DOMAIN Prog, stk \in SUBSET DOMAIN Prog |-> [k \in Keys |-> RefContrib(f, stk, k)]]
=============================================================================
