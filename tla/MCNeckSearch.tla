---------------------------- MODULE MCNeckSearch ----------------------------
(***************************************************************************)
(* Model-checking instance of NeckSearch.  The inputs are the fourteen     *)
(* test programs of reach.py main() (b0 ... b8 with their participation    *)
(* lists, start function "main") and a generated family of three-function  *)
(* programs covering every combination of control-flow shape and call list *)
(* below.                                                                  *)
(***************************************************************************)
EXTENDS NeckSearch

\* Instruction and block constructors for the program tables.
Nop == [call |-> FALSE, last |-> "nop"]
Call(f) == [call |-> TRUE, last |-> f]
Blk(inst, succ, chokep, loopHeads, gaf) ==
    [inst |-> inst, succ |-> succ, chokep |-> chokep,
     props |-> [numSucceededLoopHeads |-> loopHeads, numSucceededGAF |-> gaf]]
Fn(bbs) == [entry |-> "b0", bbs |-> bbs]

Prog_b0 ==
    "main" :> Fn("b0" :> Blk(<<Nop, Nop, Nop>>, None, TRUE, 0, 0))
Input_b0 == [prog |-> Prog_b0, p |-> {"main"}, start |-> "main"]

Prog_b1 ==
    "main" :> Fn("b0" :> Blk(<<Nop, Nop, Nop>>, <<"b1">>, TRUE, 0, 0)
                 @@ "b1" :> Blk(<<Nop, Nop, Nop>>, <<"b2">>, TRUE, 0, 0)
                 @@ "b2" :> Blk(<<Nop, Nop, Nop>>, None, FALSE, 0, 0))
Input_b1 == [prog |-> Prog_b1, p |-> {"main"}, start |-> "main"]

Prog_b1a ==
    "main" :> Fn("b0" :> Blk(<<Nop, Nop, Nop>>, <<"b1">>, TRUE, 0, 0)
                 @@ "b1" :> Blk(<<Nop, Nop, Nop>>, <<"b2">>, TRUE, 0, 0)
                 @@ "b2" :> Blk(<<Nop, Nop, Nop>>, <<"b3">>, TRUE, 0, 0)
                 @@ "b3" :> Blk(<<Nop, Nop, Nop>>, None, FALSE, 0, 0))
Input_b1a == [prog |-> Prog_b1a, p |-> {"main"}, start |-> "main"]

Prog_b1b ==
    "main" :> Fn("b0" :> Blk(<<Nop, Nop, Nop>>, <<"b1">>, TRUE, 0, 0)
                 @@ "b1" :> Blk(<<Nop, Nop, Nop>>, <<"b2">>, TRUE, 0, 0)
                 @@ "b2" :> Blk(<<Nop, Nop, Nop>>, <<"b3">>, FALSE, 0, 0)
                 @@ "b3" :> Blk(<<Nop, Nop, Nop>>, <<"b4">>, FALSE, 1, 0)
                 @@ "b4" :> Blk(<<Nop, Nop, Nop>>, <<"b5", "b6">>, FALSE, 1, 0)
                 @@ "b5" :> Blk(<<Nop, Nop, Nop>>, <<"b2">>, FALSE, 1, 0)
                 @@ "b6" :> Blk(<<Nop, Nop, Nop>>, <<"b7">>, TRUE, 1, 0)
                 @@ "b7" :> Blk(<<Nop, Nop, Nop>>, <<"b8">>, FALSE, 1, 0)
                 @@ "b8" :> Blk(<<Nop, Nop, Nop>>, <<"b9">>, FALSE, 2, 0)
                 @@ "b9" :> Blk(<<Nop, Nop, Nop>>, <<"b10", "b11">>, FALSE, 2, 0)
                 @@ "b10" :> Blk(<<Nop, Nop, Nop>>, <<"b7">>, FALSE, 2, 0)
                 @@ "b11" :> Blk(<<Nop, Nop, Nop>>, <<"b12">>, TRUE, 2, 0)
                 @@ "b12" :> Blk(<<Nop, Nop, Nop>>, None, FALSE, 2, 0))
Input_b1b == [prog |-> Prog_b1b, p |-> {"main"}, start |-> "main"]

Prog_b2 ==
    "main" :> Fn("b0" :> Blk(<<Nop, Nop, Nop>>, <<"b1">>, TRUE, 0, 0)
                 @@ "b1" :> Blk(<<Nop, Call("f0"), Nop>>, <<"b2">>, TRUE, 0, 0)
                 @@ "b2" :> Blk(<<Nop, Nop, Nop>>, None, FALSE, 0, 0))
 @@ "f0" :> Fn("b0" :> Blk(<<Nop, Nop, Nop>>, None, TRUE, 0, 0))
Input_b2 == [prog |-> Prog_b2, p |-> {"main", "f0"}, start |-> "main"]

Prog_b2a ==
    "main" :> Fn("b0" :> Blk(<<Nop, Nop, Nop>>, <<"b1">>, TRUE, 0, 0)
                 @@ "b1" :> Blk(<<Nop, Nop, Nop>>, <<"b2">>, FALSE, 0, 0)
                 @@ "b2" :> Blk(<<Nop, Nop, Nop>>, <<"b3">>, FALSE, 1, 0)
                 @@ "b3" :> Blk(<<Nop, Nop, Nop>>, <<"b1", "b4">>, FALSE, 1, 0)
                 @@ "b4" :> Blk(<<Nop, Call("f0"), Nop>>, <<"b5">>, TRUE, 1, 0)
                 @@ "b5" :> Blk(<<Nop, Nop, Nop>>, <<"b6">>, FALSE, 1, 0)
                 @@ "b6" :> Blk(<<Nop, Nop, Nop>>, <<"b7">>, FALSE, 2, 0)
                 @@ "b7" :> Blk(<<Nop, Nop, Nop>>, <<"b5", "b8">>, FALSE, 2, 0)
                 @@ "b8" :> Blk(<<Nop, Nop, Nop>>, <<"b9">>, TRUE, 2, 0)
                 @@ "b9" :> Blk(<<Nop, Nop, Nop>>, None, FALSE, 2, 0))
 @@ "f0" :> Fn("b0" :> Blk(<<Nop, Nop, Nop>>, <<"b1">>, TRUE, 0, 0)
                 @@ "b1" :> Blk(<<Nop, Nop, Nop>>, <<"b2">>, FALSE, 0, 0)
                 @@ "b2" :> Blk(<<Nop, Nop, Nop>>, <<"b3">>, FALSE, 1, 0)
                 @@ "b3" :> Blk(<<Nop, Nop, Nop>>, <<"b1", "b4">>, FALSE, 1, 0)
                 @@ "b4" :> Blk(<<Nop, Nop, Nop>>, None, TRUE, 1, 0))
Input_b2a == [prog |-> Prog_b2a, p |-> {"main", "f0"}, start |-> "main"]

Prog_b3 ==
    "main" :> Fn("b0" :> Blk(<<Nop, Nop, Nop>>, <<"b1">>, TRUE, 0, 0)
                 @@ "b1" :> Blk(<<Nop, Call("f0"), Call("f0"), Nop>>, <<"b2">>, TRUE, 0, 0)
                 @@ "b2" :> Blk(<<Nop, Nop, Nop>>, None, FALSE, 0, 0))
 @@ "f0" :> Fn("b0" :> Blk(<<Nop, Nop, Nop>>, None, TRUE, 0, 0))
Input_b3 == [prog |-> Prog_b3, p |-> {"main", "f0"}, start |-> "main"]

Prog_b3a ==
    "main" :> Fn("b0" :> Blk(<<Nop, Nop, Nop>>, <<"b1">>, TRUE, 0, 0)
                 @@ "b1" :> Blk(<<Nop, Call("f0"), Call("f0")>>, <<"b2">>, TRUE, 0, 0)
                 @@ "b2" :> Blk(<<Nop, Nop, Nop>>, None, FALSE, 0, 0))
 @@ "f0" :> Fn("b0" :> Blk(<<Nop, Call("f1"), Nop>>, None, TRUE, 0, 0))
 @@ "f1" :> Fn("b0" :> Blk(<<Nop, Call("f0"), Nop>>, None, TRUE, 0, 0))
Input_b3a == [prog |-> Prog_b3a, p |-> {"main", "f0", "f1"}, start |-> "main"]

Prog_b3b ==
    "main" :> Fn("b0" :> Blk(<<Nop, Nop, Nop>>, <<"b1">>, TRUE, 0, 0)
                 @@ "b1" :> Blk(<<Nop, Call("f0"), Nop>>, <<"b2">>, TRUE, 0, 0)
                 @@ "b2" :> Blk(<<Nop, Call("f1"), Nop>>, None, FALSE, 0, 0))
 @@ "f0" :> Fn("b0" :> Blk(<<Nop, Call("f1"), Nop>>, None, TRUE, 0, 0))
 @@ "f1" :> Fn("b0" :> Blk(<<Nop, Nop, Nop>>, <<"b1">>, TRUE, 0, 0)
                 @@ "b1" :> Blk(<<Nop, Call("f2"), Nop>>, None, FALSE, 0, 0))
 @@ "f2" :> Fn("b0" :> Blk(<<Nop, Call("getopt"), Nop>>, <<"b1">>, TRUE, 0, 0)
                 @@ "b1" :> Blk(<<Nop, Call("f1"), Nop>>, None, FALSE, 0, 1))
 @@ "getopt" :> Fn("b0" :> Blk(<<Nop, Nop, Nop>>, None, TRUE, 0, 0))
Input_b3b == [prog |-> Prog_b3b, p |-> {"main", "f0", "f1", "f2"}, start |-> "main"]

Prog_b4 ==
    "main" :> Fn("b0" :> Blk(<<Nop, Nop, Nop>>, <<"b1">>, TRUE, 0, 0)
                 @@ "b1" :> Blk(<<Nop, Call("f0"), Nop>>, <<"b2">>, TRUE, 0, 0)
                 @@ "b2" :> Blk(<<Nop, Nop, Nop>>, None, FALSE, 0, 0))
 @@ "f0" :> Fn("b0" :> Blk(<<Nop, Call("f0"), Nop>>, None, TRUE, 0, 0))
Input_b4 == [prog |-> Prog_b4, p |-> {"main", "f0"}, start |-> "main"]

Prog_b5 ==
    "main" :> Fn("b0" :> Blk(<<Nop, Call("getopt"), Nop>>, <<"b1">>, TRUE, 0, 0)
                 @@ "b1" :> Blk(<<Nop, Call("f0"), Nop>>, <<"b2">>, TRUE, 0, 1)
                 @@ "b2" :> Blk(<<Nop, Call("f1"), Nop>>, <<"b3">>, TRUE, 0, 1)
                 @@ "b3" :> Blk(<<Nop, Nop, Nop>>, <<"b4">>, TRUE, 0, 1)
                 @@ "b4" :> Blk(<<Nop, Call("f0"), Nop, Call("f1")>>, <<"b5">>, TRUE, 0, 1)
                 @@ "b5" :> Blk(<<Nop, Nop, Nop>>, None, FALSE, 0, 1))
 @@ "f0" :> Fn("b0" :> Blk(<<Nop, Call("f1"), Nop>>, None, TRUE, 0, 0))
 @@ "f1" :> Fn("b0" :> Blk(<<Nop, Call("f0"), Nop>>, None, TRUE, 0, 0))
 @@ "getopt" :> Fn("b0" :> Blk(<<Nop, Nop, Nop>>, None, TRUE, 0, 0))
Input_b5 == [prog |-> Prog_b5, p |-> {"main", "f0", "f1"}, start |-> "main"]

Prog_b6 ==
    "main" :> Fn("b0" :> Blk(<<Nop, Nop, Nop>>, <<"b1">>, TRUE, 0, 0)
                 @@ "b1" :> Blk(<<Nop, Nop, Call("f0")>>, <<"b2">>, TRUE, 0, 0)
                 @@ "b2" :> Blk(<<Nop, Nop, Nop>>, None, FALSE, 0, 0))
 @@ "f0" :> Fn("b0" :> Blk(<<Nop, Nop, Call("f1")>>, None, TRUE, 0, 0))
 @@ "f1" :> Fn("b0" :> Blk(<<Nop, Nop, Call("f2")>>, None, TRUE, 0, 0))
 @@ "f2" :> Fn("b0" :> Blk(<<Nop, Nop, Call("f0")>>, None, TRUE, 0, 0))
Input_b6 == [prog |-> Prog_b6, p |-> {"main", "f0", "f1", "f2"}, start |-> "main"]

Prog_b7 ==
    "main" :> Fn("b0" :> Blk(<<Nop, Nop, Nop>>, <<"b1">>, TRUE, 0, 0)
                 @@ "b1" :> Blk(<<Nop, Call("f0"), Nop>>, <<"b2">>, TRUE, 0, 0)
                 @@ "b2" :> Blk(<<Nop, Nop, Nop>>, None, FALSE, 0, 0))
 @@ "f0" :> Fn("b0" :> Blk(<<Nop, Call("getopt"), Nop>>, None, TRUE, 0, 0))
 @@ "getopt" :> Fn("b0" :> Blk(<<Nop, Nop, Nop>>, None, TRUE, 0, 0))
Input_b7 == [prog |-> Prog_b7, p |-> {"main", "f0"}, start |-> "main"]

Prog_b8 ==
    "main" :> Fn("b0" :> Blk(<<Nop, Nop, Nop>>, <<"b1">>, TRUE, 0, 0)
                 @@ "b1" :> Blk(<<Nop, Nop, Nop>>, <<"b5", "b2">>, FALSE, 0, 0)
                 @@ "b2" :> Blk(<<Nop, Nop, Nop>>, <<"b3">>, FALSE, 0, 0)
                 @@ "b3" :> Blk(<<Nop, Call("f0"), Nop>>, <<"b4">>, TRUE, 0, 0)
                 @@ "b4" :> Blk(<<Nop, Nop, Nop>>, <<"b5", "b2">>, FALSE, 1, 0)
                 @@ "b5" :> Blk(<<Nop, Nop, Nop>>, <<"b6">>, TRUE, 1, 0)
                 @@ "b6" :> Blk(<<Nop, Nop, Nop>>, None, FALSE, 1, 0))
 @@ "f0" :> Fn("b0" :> Blk(<<Nop, Call("getopt"), Nop>>, <<"b1">>, TRUE, 0, 0)
                 @@ "b1" :> Blk(<<Nop, Call("getopt"), Nop>>, None, TRUE, 0, 1))
 @@ "getopt" :> Fn("b0" :> Blk(<<Nop, Nop, Nop>>, None, TRUE, 0, 0))
Input_b8 == [prog |-> Prog_b8, p |-> {"main", "f0"}, start |-> "main"]

Scenarios == {Input_b0, Input_b1, Input_b1a, Input_b1b, Input_b2, Input_b2a,
              Input_b3, Input_b3a, Input_b3b, Input_b4, Input_b5, Input_b6,
              Input_b7, Input_b8}

(***************************************************************************)
(* The generated family: functions main, f0, f1, each with blocks b0, b1,  *)
(* b2.  A function's successor shape is a straight line, a branch whose    *)
(* bypass edge reaches the leaf before the calling block, a loop, or a     *)
(* loop with no exit; block b1 holds the calls, framed by a call to the    *)
(* non-participating getopt and by an instruction whose last token names   *)
(* f0 without being a call.  b1 carries a succeeded GAF, the leaf b2 a     *)
(* succeeded loop head; b1's choke-point flag is the same in all three     *)
(* functions of a program.  main calls f0, alone or after f1; f0 calls     *)
(* nothing, main (recursion through the caller), itself, or f1; f1 calls  *)
(* nothing and forks into two exit blocks that both hold a succeeded loop  *)
(* head, so its exit-path summaries must be merged with max, not summed.   *)
(***************************************************************************)
FamFuncs == {"main", "f0", "f1"}
Line     == [b0 |-> <<"b1">>, b1 |-> <<"b2">>, b2 |-> None]
Branch   == [b0 |-> <<"b2", "b1">>, b1 |-> <<"b2">>, b2 |-> None]
Loop     == [b0 |-> <<"b1">>, b1 |-> <<"b0", "b2">>, b2 |-> None]
NoExit   == [b0 |-> <<"b1">>, b1 |-> <<"b0">>, b2 |-> None]
Shapes   == {Line, Branch, Loop, NoExit}
FamFn(shape, calls, cp) ==
    Fn(    "b0" :> Blk(<<Nop>>, shape.b0, TRUE, 0, 0)
        @@ "b1" :> Blk(<<Call("getopt")>> \o [i \in DOMAIN calls |-> Call(calls[i])]
                         \o <<[call |-> FALSE, last |-> "f0"]>>,
                       shape.b1, cp, 0, 1)
        @@ "b2" :> Blk(<<Nop>>, shape.b2, FALSE, 1, 0))
Fork ==
    Fn(    "b0" :> Blk(<<Nop>>, <<"b1", "b2">>, TRUE, 0, 0)
        @@ "b1" :> Blk(<<Nop>>, None, FALSE, 1, 1)
        @@ "b2" :> Blk(<<Nop>>, None, FALSE, 1, 0))
Family ==
    { [prog |-> "main" :> FamFn(shMain, clMain, cp)
                @@ "f0" :> FamFn(shF0, clF0, cp)
                @@ "f1" :> Fork,
       p |-> FamFuncs, start |-> "main"] :
        shMain \in Shapes, shF0 \in Shapes,
        clMain \in {<<"f0">>, <<"f1", "f0">>},
        clF0 \in {<<>>, <<"main">>, <<"f0">>, <<"f1">>},
        cp \in BOOLEAN }

MCInputs == Scenarios \cup Family

(***************************************************************************)
(* The "unit-test-data" of the programs test4 verifies: for each block,    *)
(* the expected complete path and complete-path summary of each visit, in *)
(* visit order.  A complete path is a sequence of <<func, steps>>; a step *)
(* is the (block, yield index, callee summary) triple of current_path.    *)
(***************************************************************************)
St(bb, idx, csum) == [bb |-> bb, idx |-> idx, csum |-> csum]
UT(path, summary) == [path |-> path, summary |-> summary]

\* reach.py 867-892: the unit-test-data of b0
UnitTest_b0 ==
       <<"main", "b0">> :>
       <<UT(<<<<"main", <<St("b0", None, EmptyTable)>>>>>>,
             [numSucceededGAF |-> 0, numSucceededLoopHeads |-> 0])>>

\* reach.py 902-976: the unit-test-data of b1
UnitTest_b1 ==
       <<"main", "b0">> :>
       <<UT(<<<<"main", <<St("b0", None, EmptyTable)>>>>>>,
             [numSucceededGAF |-> 0, numSucceededLoopHeads |-> 0])>>
    @@ <<"main", "b1">> :>
       <<UT(<<<<"main", <<St("b0", None, EmptyTable), St("b1", None, EmptyTable)>>>>>>,
             [numSucceededGAF |-> 0, numSucceededLoopHeads |-> 0])>>
    @@ <<"main", "b2">> :>
       <<UT(<<<<"main", <<St("b0", None, EmptyTable), St("b1", None, EmptyTable),
           St("b2", None, EmptyTable)>>>>>>,
             [numSucceededGAF |-> 0, numSucceededLoopHeads |-> 0])>>

\* reach.py 986-1089: the unit-test-data of b1a
UnitTest_b1a ==
       <<"main", "b0">> :>
       <<UT(<<<<"main", <<St("b0", None, EmptyTable)>>>>>>,
             [numSucceededGAF |-> 0, numSucceededLoopHeads |-> 0])>>
    @@ <<"main", "b1">> :>
       <<UT(<<<<"main", <<St("b0", None, EmptyTable), St("b1", None, EmptyTable)>>>>>>,
             [numSucceededGAF |-> 0, numSucceededLoopHeads |-> 0])>>
    @@ <<"main", "b2">> :>
       <<UT(<<<<"main", <<St("b0", None, EmptyTable), St("b1", None, EmptyTable),
           St("b2", None, EmptyTable)>>>>>>,
             [numSucceededGAF |-> 0, numSucceededLoopHeads |-> 0])>>
    @@ <<"main", "b3">> :>
       <<UT(<<<<"main", <<St("b0", None, EmptyTable), St("b1", None, EmptyTable),
           St("b2", None, EmptyTable), St("b3", None, EmptyTable)>>>>>>,
             [numSucceededGAF |-> 0, numSucceededLoopHeads |-> 0])>>

\* reach.py 1099-1499: the unit-test-data of b1b
UnitTest_b1b ==
       <<"main", "b0">> :>
       <<UT(<<<<"main", <<St("b0", None, EmptyTable)>>>>>>,
             [numSucceededGAF |-> 0, numSucceededLoopHeads |-> 0])>>
    @@ <<"main", "b1">> :>
       <<UT(<<<<"main", <<St("b0", None, EmptyTable), St("b1", None, EmptyTable)>>>>>>,
             [numSucceededGAF |-> 0, numSucceededLoopHeads |-> 0])>>
    @@ <<"main", "b2">> :>
       <<UT(<<<<"main", <<St("b0", None, EmptyTable), St("b1", None, EmptyTable),
           St("b2", None, EmptyTable)>>>>>>,
             [numSucceededGAF |-> 0, numSucceededLoopHeads |-> 0])>>
    @@ <<"main", "b3">> :>
       <<UT(<<<<"main", <<St("b0", None, EmptyTable), St("b1", None, EmptyTable),
           St("b2", None, EmptyTable), St("b3", None, EmptyTable)>>>>>>,
             [numSucceededGAF |-> 0, numSucceededLoopHeads |-> 1])>>
    @@ <<"main", "b4">> :>
       <<UT(<<<<"main", <<St("b0", None, EmptyTable), St("b1", None, EmptyTable),
           St("b2", None, EmptyTable), St("b3", None, EmptyTable),
           St("b4", None, EmptyTable)>>>>>>,
             [numSucceededGAF |-> 0, numSucceededLoopHeads |-> 1])>>
    @@ <<"main", "b5">> :>
       <<UT(<<<<"main", <<St("b0", None, EmptyTable), St("b1", None, EmptyTable),
           St("b2", None, EmptyTable), St("b3", None, EmptyTable),
           St("b4", None, EmptyTable), St("b5", None, EmptyTable)>>>>>>,
             [numSucceededGAF |-> 0, numSucceededLoopHeads |-> 1])>>
    @@ <<"main", "b6">> :>
       <<UT(<<<<"main", <<St("b0", None, EmptyTable), St("b1", None, EmptyTable),
           St("b2", None, EmptyTable), St("b3", None, EmptyTable),
           St("b4", None, EmptyTable), St("b6", None, EmptyTable)>>>>>>,
             [numSucceededGAF |-> 0, numSucceededLoopHeads |-> 1])>>
    @@ <<"main", "b7">> :>
       <<UT(<<<<"main", <<St("b0", None, EmptyTable), St("b1", None, EmptyTable),
           St("b2", None, EmptyTable), St("b3", None, EmptyTable),
           St("b4", None, EmptyTable), St("b6", None, EmptyTable),
           St("b7", None, EmptyTable)>>>>>>,
             [numSucceededGAF |-> 0, numSucceededLoopHeads |-> 1])>>
    @@ <<"main", "b8">> :>
       <<UT(<<<<"main", <<St("b0", None, EmptyTable), St("b1", None, EmptyTable),
           St("b2", None, EmptyTable), St("b3", None, EmptyTable),
           St("b4", None, EmptyTable), St("b6", None, EmptyTable),
           St("b7", None, EmptyTable), St("b8", None, EmptyTable)>>>>>>,
             [numSucceededGAF |-> 0, numSucceededLoopHeads |-> 2])>>
    @@ <<"main", "b9">> :>
       <<UT(<<<<"main", <<St("b0", None, EmptyTable), St("b1", None, EmptyTable),
           St("b2", None, EmptyTable), St("b3", None, EmptyTable),
           St("b4", None, EmptyTable), St("b6", None, EmptyTable),
           St("b7", None, EmptyTable), St("b8", None, EmptyTable),
           St("b9", None, EmptyTable)>>>>>>,
             [numSucceededGAF |-> 0, numSucceededLoopHeads |-> 2])>>
    @@ <<"main", "b10">> :>
       <<UT(<<<<"main", <<St("b0", None, EmptyTable), St("b1", None, EmptyTable),
           St("b2", None, EmptyTable), St("b3", None, EmptyTable),
           St("b4", None, EmptyTable), St("b6", None, EmptyTable),
           St("b7", None, EmptyTable), St("b8", None, EmptyTable),
           St("b9", None, EmptyTable), St("b10", None, EmptyTable)>>>>>>,
             [numSucceededGAF |-> 0, numSucceededLoopHeads |-> 2])>>
    @@ <<"main", "b11">> :>
       <<UT(<<<<"main", <<St("b0", None, EmptyTable), St("b1", None, EmptyTable),
           St("b2", None, EmptyTable), St("b3", None, EmptyTable),
           St("b4", None, EmptyTable), St("b6", None, EmptyTable),
           St("b7", None, EmptyTable), St("b8", None, EmptyTable),
           St("b9", None, EmptyTable), St("b11", None, EmptyTable)>>>>>>,
             [numSucceededGAF |-> 0, numSucceededLoopHeads |-> 2])>>
    @@ <<"main", "b12">> :>
       <<UT(<<<<"main", <<St("b0", None, EmptyTable), St("b1", None, EmptyTable),
           St("b2", None, EmptyTable), St("b3", None, EmptyTable),
           St("b4", None, EmptyTable), St("b6", None, EmptyTable),
           St("b7", None, EmptyTable), St("b8", None, EmptyTable),
           St("b9", None, EmptyTable), St("b11", None, EmptyTable),
           St("b12", None, EmptyTable)>>>>>>,
             [numSucceededGAF |-> 0, numSucceededLoopHeads |-> 2])>>

\* reach.py 1509-1617: the unit-test-data of b2
UnitTest_b2 ==
       <<"main", "b0">> :>
       <<UT(<<<<"main", <<St("b0", None, EmptyTable)>>>>>>,
             [numSucceededGAF |-> 0, numSucceededLoopHeads |-> 0])>>
    @@ <<"main", "b1">> :>
       <<UT(<<<<"main", <<St("b0", None, EmptyTable), St("b1", None, EmptyTable)>>>>>>,
             [numSucceededGAF |-> 0, numSucceededLoopHeads |-> 0])>>
    @@ <<"main", "b2">> :>
       <<UT(<<<<"main", <<St("b0", None, EmptyTable),
           St("b1", None, [numSucceededGAF |-> 0, numSucceededLoopHeads |-> 0]),
           St("b2", None, EmptyTable)>>>>>>,
             [numSucceededGAF |-> 0, numSucceededLoopHeads |-> 0])>>
    @@ <<"f0", "b0">> :>
       <<UT(<<<<"main", <<St("b0", None, EmptyTable),
           St("b1", 1, EmptyTable)>>>>, <<"f0", <<St("b0", None, EmptyTable)>>>>>>,
             [numSucceededGAF |-> 0, numSucceededLoopHeads |-> 0])>>

\* reach.py 1628-2149: the unit-test-data of b2a
UnitTest_b2a ==
       <<"main", "b0">> :>
       <<UT(<<<<"main", <<St("b0", None, EmptyTable)>>>>>>,
             [numSucceededGAF |-> 0, numSucceededLoopHeads |-> 0])>>
    @@ <<"main", "b1">> :>
       <<UT(<<<<"main", <<St("b0", None, EmptyTable), St("b1", None, EmptyTable)>>>>>>,
             [numSucceededGAF |-> 0, numSucceededLoopHeads |-> 0])>>
    @@ <<"main", "b2">> :>
       <<UT(<<<<"main", <<St("b0", None, EmptyTable), St("b1", None, EmptyTable),
           St("b2", None, EmptyTable)>>>>>>,
             [numSucceededGAF |-> 0, numSucceededLoopHeads |-> 1])>>
    @@ <<"main", "b3">> :>
       <<UT(<<<<"main", <<St("b0", None, EmptyTable), St("b1", None, EmptyTable),
           St("b2", None, EmptyTable), St("b3", None, EmptyTable)>>>>>>,
             [numSucceededGAF |-> 0, numSucceededLoopHeads |-> 1])>>
    @@ <<"main", "b4">> :>
       <<UT(<<<<"main", <<St("b0", None, EmptyTable), St("b1", None, EmptyTable),
           St("b2", None, EmptyTable), St("b3", None, EmptyTable),
           St("b4", None, EmptyTable)>>>>>>,
             [numSucceededGAF |-> 0, numSucceededLoopHeads |-> 1])>>
    @@ <<"main", "b5">> :>
       <<UT(<<<<"main", <<St("b0", None, EmptyTable), St("b1", None, EmptyTable),
           St("b2", None, EmptyTable), St("b3", None, EmptyTable),
           St("b4", None, [numSucceededGAF |-> 0, numSucceededLoopHeads |-> 1]),
           St("b5", None, EmptyTable)>>>>>>,
             [numSucceededGAF |-> 0, numSucceededLoopHeads |-> 2])>>
    @@ <<"main", "b6">> :>
       <<UT(<<<<"main", <<St("b0", None, EmptyTable), St("b1", None, EmptyTable),
           St("b2", None, EmptyTable), St("b3", None, EmptyTable),
           St("b4", None, [numSucceededGAF |-> 0, numSucceededLoopHeads |-> 1]),
           St("b5", None, EmptyTable), St("b6", None, EmptyTable)>>>>>>,
             [numSucceededGAF |-> 0, numSucceededLoopHeads |-> 3])>>
    @@ <<"main", "b7">> :>
       <<UT(<<<<"main", <<St("b0", None, EmptyTable), St("b1", None, EmptyTable),
           St("b2", None, EmptyTable), St("b3", None, EmptyTable),
           St("b4", None, [numSucceededGAF |-> 0, numSucceededLoopHeads |-> 1]),
           St("b5", None, EmptyTable), St("b6", None, EmptyTable),
           St("b7", None, EmptyTable)>>>>>>,
             [numSucceededGAF |-> 0, numSucceededLoopHeads |-> 3])>>
    @@ <<"main", "b8">> :>
       <<UT(<<<<"main", <<St("b0", None, EmptyTable), St("b1", None, EmptyTable),
           St("b2", None, EmptyTable), St("b3", None, EmptyTable),
           St("b4", None, [numSucceededGAF |-> 0, numSucceededLoopHeads |-> 1]),
           St("b5", None, EmptyTable), St("b6", None, EmptyTable),
           St("b7", None, EmptyTable), St("b8", None, EmptyTable)>>>>>>,
             [numSucceededGAF |-> 0, numSucceededLoopHeads |-> 3])>>
    @@ <<"main", "b9">> :>
       <<UT(<<<<"main", <<St("b0", None, EmptyTable), St("b1", None, EmptyTable),
           St("b2", None, EmptyTable), St("b3", None, EmptyTable),
           St("b4", None, [numSucceededGAF |-> 0, numSucceededLoopHeads |-> 1]),
           St("b5", None, EmptyTable), St("b6", None, EmptyTable),
           St("b7", None, EmptyTable), St("b8", None, EmptyTable),
           St("b9", None, EmptyTable)>>>>>>,
             [numSucceededGAF |-> 0, numSucceededLoopHeads |-> 3])>>
    @@ <<"f0", "b0">> :>
       <<UT(<<<<"main", <<St("b0", None, EmptyTable), St("b1", None, EmptyTable),
           St("b2", None, EmptyTable), St("b3", None, EmptyTable),
           St("b4", 1, EmptyTable)>>>>, <<"f0", <<St("b0", None, EmptyTable)>>>>>>,
             [numSucceededGAF |-> 0, numSucceededLoopHeads |-> 1])>>
    @@ <<"f0", "b1">> :>
       <<UT(<<<<"main", <<St("b0", None, EmptyTable), St("b1", None, EmptyTable),
           St("b2", None, EmptyTable), St("b3", None, EmptyTable),
           St("b4", 1, EmptyTable)>>>>, <<"f0", <<St("b0", None, EmptyTable),
           St("b1", None, EmptyTable)>>>>>>,
             [numSucceededGAF |-> 0, numSucceededLoopHeads |-> 1])>>
    @@ <<"f0", "b2">> :>
       <<UT(<<<<"main", <<St("b0", None, EmptyTable), St("b1", None, EmptyTable),
           St("b2", None, EmptyTable), St("b3", None, EmptyTable),
           St("b4", 1, EmptyTable)>>>>, <<"f0", <<St("b0", None, EmptyTable),
           St("b1", None, EmptyTable), St("b2", None, EmptyTable)>>>>>>,
             [numSucceededGAF |-> 0, numSucceededLoopHeads |-> 2])>>
    @@ <<"f0", "b3">> :>
       <<UT(<<<<"main", <<St("b0", None, EmptyTable), St("b1", None, EmptyTable),
           St("b2", None, EmptyTable), St("b3", None, EmptyTable),
           St("b4", 1, EmptyTable)>>>>, <<"f0", <<St("b0", None, EmptyTable),
           St("b1", None, EmptyTable), St("b2", None, EmptyTable),
           St("b3", None, EmptyTable)>>>>>>,
             [numSucceededGAF |-> 0, numSucceededLoopHeads |-> 2])>>
    @@ <<"f0", "b4">> :>
       <<UT(<<<<"main", <<St("b0", None, EmptyTable), St("b1", None, EmptyTable),
           St("b2", None, EmptyTable), St("b3", None, EmptyTable),
           St("b4", 1, EmptyTable)>>>>, <<"f0", <<St("b0", None, EmptyTable),
           St("b1", None, EmptyTable), St("b2", None, EmptyTable),
           St("b3", None, EmptyTable), St("b4", None, EmptyTable)>>>>>>,
             [numSucceededGAF |-> 0, numSucceededLoopHeads |-> 2])>>

\* reach.py 2159-2290: the unit-test-data of b3
UnitTest_b3 ==
       <<"main", "b0">> :>
       <<UT(<<<<"main", <<St("b0", None, EmptyTable)>>>>>>,
             [numSucceededGAF |-> 0, numSucceededLoopHeads |-> 0])>>
    @@ <<"main", "b1">> :>
       <<UT(<<<<"main", <<St("b0", None, EmptyTable), St("b1", None, EmptyTable)>>>>>>,
             [numSucceededGAF |-> 0, numSucceededLoopHeads |-> 0])>>
    @@ <<"main", "b2">> :>
       <<UT(<<<<"main", <<St("b0", None, EmptyTable),
           St("b1", None, [numSucceededGAF |-> 0, numSucceededLoopHeads |-> 0]),
           St("b2", None, EmptyTable)>>>>>>,
             [numSucceededGAF |-> 0, numSucceededLoopHeads |-> 0])>>
    @@ <<"f0", "b0">> :>
       <<UT(<<<<"main", <<St("b0", None, EmptyTable),
           St("b1", 1, EmptyTable)>>>>, <<"f0", <<St("b0", None, EmptyTable)>>>>>>,
             [numSucceededGAF |-> 0, numSucceededLoopHeads |-> 0]),
          UT(<<<<"main", <<St("b0", None, EmptyTable),
              St("b1", 2, [numSucceededGAF |-> 0, numSucceededLoopHeads |-> 0])>>>>,
                <<"f0", <<St("b0", None, EmptyTable)>>>>>>,
             [numSucceededGAF |-> 0, numSucceededLoopHeads |-> 0])>>

\* reach.py 2300-2482: the unit-test-data of b3a
UnitTest_b3a ==
       <<"main", "b0">> :>
       <<UT(<<<<"main", <<St("b0", None, EmptyTable)>>>>>>,
             [numSucceededGAF |-> 0, numSucceededLoopHeads |-> 0])>>
    @@ <<"main", "b1">> :>
       <<UT(<<<<"main", <<St("b0", None, EmptyTable), St("b1", None, EmptyTable)>>>>>>,
             [numSucceededGAF |-> 0, numSucceededLoopHeads |-> 0])>>
    @@ <<"main", "b2">> :>
       <<UT(<<<<"main", <<St("b0", None, EmptyTable),
           St("b1", None, [numSucceededGAF |-> 0, numSucceededLoopHeads |-> 0]),
           St("b2", None, EmptyTable)>>>>>>,
             [numSucceededGAF |-> 0, numSucceededLoopHeads |-> 0])>>
    @@ <<"f0", "b0">> :>
       <<UT(<<<<"main", <<St("b0", None, EmptyTable),
           St("b1", 1, EmptyTable)>>>>, <<"f0", <<St("b0", None, EmptyTable)>>>>>>,
             [numSucceededGAF |-> 0, numSucceededLoopHeads |-> 0]),
          UT(<<<<"main", <<St("b0", None, EmptyTable),
              St("b1", 2, [numSucceededGAF |-> 0, numSucceededLoopHeads |-> 0])>>>>,
                <<"f0", <<St("b0", None, EmptyTable)>>>>>>,
             [numSucceededGAF |-> 0, numSucceededLoopHeads |-> 0])>>
    @@ <<"f1", "b0">> :>
       <<UT(<<<<"main", <<St("b0", None, EmptyTable),
           St("b1", 1, EmptyTable)>>>>,
             <<"f0", <<St("b0", 1, EmptyTable)>>>>,
             <<"f1", <<St("b0", None, EmptyTable)>>>>>>,
             [numSucceededGAF |-> 0, numSucceededLoopHeads |-> 0]),
          UT(<<<<"main", <<St("b0", None, EmptyTable),
              St("b1", 2, [numSucceededGAF |-> 0, numSucceededLoopHeads |-> 0])>>>>,
                <<"f0", <<St("b0", 1, EmptyTable)>>>>,
                <<"f1", <<St("b0", None, EmptyTable)>>>>>>,
             [numSucceededGAF |-> 0, numSucceededLoopHeads |-> 0])>>

\* reach.py 2493-2818: the unit-test-data of b3b
UnitTest_b3b ==
       <<"main", "b0">> :>
       <<UT(<<<<"main", <<St("b0", None, EmptyTable)>>>>>>,
             [numSucceededGAF |-> 0, numSucceededLoopHeads |-> 0])>>
    @@ <<"main", "b1">> :>
       <<UT(<<<<"main", <<St("b0", None, EmptyTable), St("b1", None, EmptyTable)>>>>>>,
             [numSucceededGAF |-> 0, numSucceededLoopHeads |-> 0])>>
    @@ <<"main", "b2">> :>
       <<UT(<<<<"main", <<St("b0", None, EmptyTable),
           St("b1", None, [numSucceededGAF |-> 1, numSucceededLoopHeads |-> 0]),
           St("b2", None, EmptyTable)>>>>>>,
             [numSucceededGAF |-> 1, numSucceededLoopHeads |-> 0])>>
    @@ <<"f0", "b0">> :>
       <<UT(<<<<"main", <<St("b0", None, EmptyTable),
           St("b1", 1, EmptyTable)>>>>, <<"f0", <<St("b0", None, EmptyTable)>>>>>>,
             [numSucceededGAF |-> 0, numSucceededLoopHeads |-> 0])>>
    @@ <<"f1", "b0">> :>
       <<UT(<<<<"main", <<St("b0", None, EmptyTable),
           St("b1", 1, EmptyTable)>>>>,
             <<"f0", <<St("b0", 1, EmptyTable)>>>>,
             <<"f1", <<St("b0", None, EmptyTable)>>>>>>,
             [numSucceededGAF |-> 0, numSucceededLoopHeads |-> 0]),
          UT(<<<<"main", <<St("b0", None, EmptyTable),
              St("b1", None, [numSucceededGAF |-> 1, numSucceededLoopHeads |-> 0]),
              St("b2", 1, EmptyTable)>>>>, <<"f1", <<St("b0", None, EmptyTable)>>>>>>,
             [numSucceededGAF |-> 1, numSucceededLoopHeads |-> 0])>>
    @@ <<"f1", "b1">> :>
       <<UT(<<<<"main", <<St("b0", None, EmptyTable),
           St("b1", 1, EmptyTable)>>>>,
             <<"f0", <<St("b0", 1, EmptyTable)>>>>,
             <<"f1", <<St("b0", None, EmptyTable),
           St("b1", None, EmptyTable)>>>>>>,
             [numSucceededGAF |-> 0, numSucceededLoopHeads |-> 0]),
          UT(<<<<"main", <<St("b0", None, EmptyTable),
              St("b1", None, [numSucceededGAF |-> 1, numSucceededLoopHeads |-> 0]),
              St("b2", 1, EmptyTable)>>>>, <<"f1", <<St("b0", None, EmptyTable),
              St("b1", None, EmptyTable)>>>>>>,
             [numSucceededGAF |-> 1, numSucceededLoopHeads |-> 0])>>
    @@ <<"f2", "b0">> :>
       <<UT(<<<<"main", <<St("b0", None, EmptyTable),
           St("b1", 1, EmptyTable)>>>>,
             <<"f0", <<St("b0", 1, EmptyTable)>>>>,
             <<"f1", <<St("b0", None, EmptyTable),
           St("b1", 1, EmptyTable)>>>>, <<"f2", <<St("b0", None, EmptyTable)>>>>>>,
             [numSucceededGAF |-> 0, numSucceededLoopHeads |-> 0]),
          UT(<<<<"main", <<St("b0", None, EmptyTable),
              St("b1", None, [numSucceededGAF |-> 1, numSucceededLoopHeads |-> 0]),
              St("b2", 1, EmptyTable)>>>>, <<"f1", <<St("b0", None, EmptyTable),
              St("b1", 1, EmptyTable)>>>>, <<"f2", <<St("b0", None, EmptyTable)>>>>>>,
             [numSucceededGAF |-> 1, numSucceededLoopHeads |-> 0])>>
    @@ <<"f2", "b1">> :>
       <<UT(<<<<"main", <<St("b0", None, EmptyTable),
           St("b1", 1, EmptyTable)>>>>,
             <<"f0", <<St("b0", 1, EmptyTable)>>>>,
             <<"f1", <<St("b0", None, EmptyTable),
           St("b1", 1, EmptyTable)>>>>, <<"f2", <<St("b0", None, EmptyTable),
           St("b1", None, EmptyTable)>>>>>>,
             [numSucceededGAF |-> 1, numSucceededLoopHeads |-> 0]),
          UT(<<<<"main", <<St("b0", None, EmptyTable),
              St("b1", None, [numSucceededGAF |-> 1, numSucceededLoopHeads |-> 0]),
              St("b2", 1, EmptyTable)>>>>, <<"f1", <<St("b0", None, EmptyTable),
              St("b1", 1, EmptyTable)>>>>, <<"f2", <<St("b0", None, EmptyTable),
              St("b1", None, EmptyTable)>>>>>>,
             [numSucceededGAF |-> 2, numSucceededLoopHeads |-> 0])>>

\* reach.py 2828-2936: the unit-test-data of b4
UnitTest_b4 ==
       <<"main", "b0">> :>
       <<UT(<<<<"main", <<St("b0", None, EmptyTable)>>>>>>,
             [numSucceededGAF |-> 0, numSucceededLoopHeads |-> 0])>>
    @@ <<"main", "b1">> :>
       <<UT(<<<<"main", <<St("b0", None, EmptyTable), St("b1", None, EmptyTable)>>>>>>,
             [numSucceededGAF |-> 0, numSucceededLoopHeads |-> 0])>>
    @@ <<"main", "b2">> :>
       <<UT(<<<<"main", <<St("b0", None, EmptyTable),
           St("b1", None, [numSucceededGAF |-> 0, numSucceededLoopHeads |-> 0]),
           St("b2", None, EmptyTable)>>>>>>,
             [numSucceededGAF |-> 0, numSucceededLoopHeads |-> 0])>>
    @@ <<"f0", "b0">> :>
       <<UT(<<<<"main", <<St("b0", None, EmptyTable),
           St("b1", 1, EmptyTable)>>>>, <<"f0", <<St("b0", None, EmptyTable)>>>>>>,
             [numSucceededGAF |-> 0, numSucceededLoopHeads |-> 0])>>

\* reach.py 2947-3434: the unit-test-data of b5
UnitTest_b5 ==
       <<"main", "b0">> :>
       <<UT(<<<<"main", <<St("b0", None, EmptyTable)>>>>>>,
             [numSucceededGAF |-> 0, numSucceededLoopHeads |-> 0])>>
    @@ <<"main", "b1">> :>
       <<UT(<<<<"main", <<St("b0", None, EmptyTable), St("b1", None, EmptyTable)>>>>>>,
             [numSucceededGAF |-> 1, numSucceededLoopHeads |-> 0])>>
    @@ <<"main", "b2">> :>
       <<UT(<<<<"main", <<St("b0", None, EmptyTable),
           St("b1", None, [numSucceededGAF |-> 0, numSucceededLoopHeads |-> 0]),
           St("b2", None, EmptyTable)>>>>>>,
             [numSucceededGAF |-> 1, numSucceededLoopHeads |-> 0])>>
    @@ <<"main", "b3">> :>
       <<UT(<<<<"main", <<St("b0", None, EmptyTable),
           St("b1", None, [numSucceededGAF |-> 0, numSucceededLoopHeads |-> 0]),
           St("b2", None, [numSucceededGAF |-> 0, numSucceededLoopHeads |-> 0]),
           St("b3", None, EmptyTable)>>>>>>,
             [numSucceededGAF |-> 1, numSucceededLoopHeads |-> 0])>>
    @@ <<"main", "b4">> :>
       <<UT(<<<<"main", <<St("b0", None, EmptyTable),
           St("b1", None, [numSucceededGAF |-> 0, numSucceededLoopHeads |-> 0]),
           St("b2", None, [numSucceededGAF |-> 0, numSucceededLoopHeads |-> 0]),
           St("b3", None, EmptyTable), St("b4", None, EmptyTable)>>>>>>,
             [numSucceededGAF |-> 1, numSucceededLoopHeads |-> 0])>>
    @@ <<"main", "b5">> :>
       <<UT(<<<<"main", <<St("b0", None, EmptyTable),
           St("b1", None, [numSucceededGAF |-> 0, numSucceededLoopHeads |-> 0]),
           St("b2", None, [numSucceededGAF |-> 0, numSucceededLoopHeads |-> 0]),
           St("b3", None, EmptyTable),
           St("b4", None, [numSucceededGAF |-> 0, numSucceededLoopHeads |-> 0]),
           St("b5", None, EmptyTable)>>>>>>,
             [numSucceededGAF |-> 1, numSucceededLoopHeads |-> 0])>>
    @@ <<"f0", "b0">> :>
       <<UT(<<<<"main", <<St("b0", None, EmptyTable),
           St("b1", 1, EmptyTable)>>>>, <<"f0", <<St("b0", None, EmptyTable)>>>>>>,
             [numSucceededGAF |-> 1, numSucceededLoopHeads |-> 0]),
          UT(<<<<"main", <<St("b0", None, EmptyTable),
              St("b1", None, [numSucceededGAF |-> 0, numSucceededLoopHeads |-> 0]),
              St("b2", 1, EmptyTable)>>>>,
                <<"f1", <<St("b0", 1, EmptyTable)>>>>,
                <<"f0", <<St("b0", None, EmptyTable)>>>>>>,
             [numSucceededGAF |-> 1, numSucceededLoopHeads |-> 0]),
          UT(<<<<"main", <<St("b0", None, EmptyTable),
              St("b1", None, [numSucceededGAF |-> 0, numSucceededLoopHeads |-> 0]),
              St("b2", None, [numSucceededGAF |-> 0, numSucceededLoopHeads |-> 0]),
              St("b3", None, EmptyTable),
              St("b4", 1, EmptyTable)>>>>, <<"f0", <<St("b0", None, EmptyTable)>>>>>>,
             [numSucceededGAF |-> 1, numSucceededLoopHeads |-> 0]),
          UT(<<<<"main", <<St("b0", None, EmptyTable),
              St("b1", None, [numSucceededGAF |-> 0, numSucceededLoopHeads |-> 0]),
              St("b2", None, [numSucceededGAF |-> 0, numSucceededLoopHeads |-> 0]),
              St("b3", None, EmptyTable),
              St("b4", 3, [numSucceededGAF |-> 0, numSucceededLoopHeads |-> 0])>>>>,
                <<"f1", <<St("b0", 1, EmptyTable)>>>>,
                <<"f0", <<St("b0", None, EmptyTable)>>>>>>,
             [numSucceededGAF |-> 1, numSucceededLoopHeads |-> 0])>>
    @@ <<"f1", "b0">> :>
       <<UT(<<<<"main", <<St("b0", None, EmptyTable),
           St("b1", 1, EmptyTable)>>>>,
             <<"f0", <<St("b0", 1, EmptyTable)>>>>,
             <<"f1", <<St("b0", None, EmptyTable)>>>>>>,
             [numSucceededGAF |-> 1, numSucceededLoopHeads |-> 0]),
          UT(<<<<"main", <<St("b0", None, EmptyTable),
              St("b1", None, [numSucceededGAF |-> 0, numSucceededLoopHeads |-> 0]),
              St("b2", 1, EmptyTable)>>>>, <<"f1", <<St("b0", None, EmptyTable)>>>>>>,
             [numSucceededGAF |-> 1, numSucceededLoopHeads |-> 0]),
          UT(<<<<"main", <<St("b0", None, EmptyTable),
              St("b1", None, [numSucceededGAF |-> 0, numSucceededLoopHeads |-> 0]),
              St("b2", None, [numSucceededGAF |-> 0, numSucceededLoopHeads |-> 0]),
              St("b3", None, EmptyTable),
              St("b4", 1, EmptyTable)>>>>,
                <<"f0", <<St("b0", 1, EmptyTable)>>>>,
                <<"f1", <<St("b0", None, EmptyTable)>>>>>>,
             [numSucceededGAF |-> 1, numSucceededLoopHeads |-> 0]),
          UT(<<<<"main", <<St("b0", None, EmptyTable),
              St("b1", None, [numSucceededGAF |-> 0, numSucceededLoopHeads |-> 0]),
              St("b2", None, [numSucceededGAF |-> 0, numSucceededLoopHeads |-> 0]),
              St("b3", None, EmptyTable),
              St("b4", 3, [numSucceededGAF |-> 0, numSucceededLoopHeads |-> 0])>>>>,
                <<"f1", <<St("b0", None, EmptyTable)>>>>>>,
             [numSucceededGAF |-> 1, numSucceededLoopHeads |-> 0])>>

\* reach.py 3445-3610: the unit-test-data of b6
UnitTest_b6 ==
       <<"main", "b0">> :>
       <<UT(<<<<"main", <<St("b0", None, EmptyTable)>>>>>>,
             [numSucceededGAF |-> 0, numSucceededLoopHeads |-> 0])>>
    @@ <<"main", "b1">> :>
       <<UT(<<<<"main", <<St("b0", None, EmptyTable), St("b1", None, EmptyTable)>>>>>>,
             [numSucceededGAF |-> 0, numSucceededLoopHeads |-> 0])>>
    @@ <<"main", "b2">> :>
       <<UT(<<<<"main", <<St("b0", None, EmptyTable),
           St("b1", None, [numSucceededGAF |-> 0, numSucceededLoopHeads |-> 0]),
           St("b2", None, EmptyTable)>>>>>>,
             [numSucceededGAF |-> 0, numSucceededLoopHeads |-> 0])>>
    @@ <<"f0", "b0">> :>
       <<UT(<<<<"main", <<St("b0", None, EmptyTable),
           St("b1", 2, EmptyTable)>>>>, <<"f0", <<St("b0", None, EmptyTable)>>>>>>,
             [numSucceededGAF |-> 0, numSucceededLoopHeads |-> 0])>>
    @@ <<"f1", "b0">> :>
       <<UT(<<<<"main", <<St("b0", None, EmptyTable),
           St("b1", 2, EmptyTable)>>>>,
             <<"f0", <<St("b0", 2, EmptyTable)>>>>,
             <<"f1", <<St("b0", None, EmptyTable)>>>>>>,
             [numSucceededGAF |-> 0, numSucceededLoopHeads |-> 0])>>
    @@ <<"f2", "b0">> :>
       <<UT(<<<<"main", <<St("b0", None, EmptyTable),
           St("b1", 2, EmptyTable)>>>>,
             <<"f0", <<St("b0", 2, EmptyTable)>>>>,
             <<"f1", <<St("b0", 2, EmptyTable)>>>>,
             <<"f2", <<St("b0", None, EmptyTable)>>>>>>,
             [numSucceededGAF |-> 0, numSucceededLoopHeads |-> 0])>>

MCUnitTestData ==
       Input_b0 :> UnitTest_b0 @@ Input_b1 :> UnitTest_b1 @@ Input_b1a :> UnitTest_b1a
    @@ Input_b1b :> UnitTest_b1b @@ Input_b2 :> UnitTest_b2 @@ Input_b2a :> UnitTest_b2a
    @@ Input_b3 :> UnitTest_b3 @@ Input_b3a :> UnitTest_b3a @@ Input_b3b :> UnitTest_b3b
    @@ Input_b4 :> UnitTest_b4 @@ Input_b5 :> UnitTest_b5 @@ Input_b6 :> UnitTest_b6

\* The reference tables of NeckSearchSpec, evaluated once when TLC starts.
MCRefTable     == [in \in MCInputs |-> Abs!Reference(in)!Ref]
MCContribTable == [in \in MCInputs |-> Abs!Reference(in)!Contribs]
=============================================================================
