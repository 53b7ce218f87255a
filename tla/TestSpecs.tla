------------------------------ MODULE TestSpecs ------------------------------
(***************************************************************************)
(* The size-leeway part of the test-target specifications,                *)
(* src/utils/test-specs/lmcas_test_specs/__init__.py, with the Option     *)
(* helpers it uses from src/utils/utils/lmcas_utils/__init__.py.          *)
(*                                                                         *)
(* parse_targets_file_from_value walks the tests of a target in order and  *)
(* raises at the first one it rejects; lower_size_bound and               *)
(* upper_size_bound turn an accepted test's expected size and leeways      *)
(* into the interval the measured size must fall in.                       *)
(*                                                                         *)
(* Leeways are Python floats; here every leeway is an integer number of    *)
(* hundredths, so a relative leeway r stands for r/100 and an absolute     *)
(* leeway a for a/100 units.  Python's None is the constant None.          *)
(***************************************************************************)
EXTENDS Integers, Sequences, SequencesExt

CONSTANTS
    None,
    Kinds,          \* test kinds that occur in the inputs, valid or not
    SymbolNames,    \* symbol names
    Sizes,          \* expected sizes
    RelLeeways,     \* relative leeways, in hundredths
    AbsLeeways,     \* absolute leeways, in hundredths
    MaxTests        \* the most tests a target has

\* The test kinds parse_targets_file_from_value accepts.
ValidKinds == {"simple-run", "contains-symbol", "links-to-symbol",
               "text-section-size", "instruction-count",
               "instruction-count-of-function", "function-count",
               "rop-gadget-count"}

\* The kinds that require a symbol_name.
SymbolKinds == {"contains-symbol", "links-to-symbol", "instruction-count-of-function"}

\* The kinds whose tests carry an expected size and leeways.
SizeKinds == {"text-section-size", "instruction-count",
              "instruction-count-of-function", "function-count",
              "rop-gadget-count"}

\* A TestSpec, reduced to the fields the checks read; `broken_keyword' is
\* whether "broken" is among its keywords.
TestSpec ==
    [kind: Kinds,
     broken_keyword: BOOLEAN,
     symbol_name: SymbolNames \cup {None},
     expected_size_bloated: Sizes \cup {None},
     expected_size_debloated: Sizes \cup {None},
     size_leeway: RelLeeways \cup {None},
     pos_size_leeway: RelLeeways \cup {None},
     neg_size_leeway: RelLeeways \cup {None},
     abs_size_leeway: AbsLeeways \cup {None},
     pos_abs_size_leeway: AbsLeeways \cup {None},
     neg_abs_size_leeway: AbsLeeways \cup {None}]

\* lmcas_utils.unwrap_or
unwrap_or(x, if_none) == IF x = None THEN if_none ELSE x

\* lmcas_utils.fallback_list: reduce keeping the first value that is not None.
fallback_list(fallbacks) ==
    FoldLeft(LAMBDA cur, nxt : IF cur = None THEN nxt ELSE cur, None, fallbacks)

\* lmcas_utils.option_map, applied to the only lambda the bounds pass it,
\* `lambda t: t * size'.
option_map(opt, size) == IF opt = None THEN None ELSE opt * size

\* sum(0 if x is None else 1 for x in [...])
NumUsed(xs) == Len(SelectSeq(xs, LAMBDA x : x # None))

\* _valid_leeways: TRUE when it returns, FALSE when it raises TypeError.
\* The code counts both families but tests only the absolute count.
valid_leeways(ts) ==
    LET num_leeway_settings_used ==
            NumUsed(<<ts.size_leeway, ts.pos_size_leeway, ts.neg_size_leeway>>)
        num_abs_leeway_settings_used ==
            NumUsed(<<ts.abs_size_leeway, ts.pos_abs_size_leeway,
                      ts.neg_abs_size_leeway>>)
    IN  ~(num_abs_leeway_settings_used > 0 /\ num_abs_leeway_settings_used # 0)

\* Python's int() of the rational n/d: truncation toward zero.
Trunc(n, d) == IF n >= 0 THEN n \div d ELSE -((-n) \div d)

ExpectedSize(ts, is_bloated) ==
    IF is_bloated THEN ts.expected_size_bloated ELSE ts.expected_size_debloated

\* Mutant: the lower bound reads the positive-direction relative leeway.
lower_size_bound_pos(ts, is_bloated) ==
    LET size == ExpectedSize(ts, is_bloated)
        abs_leeway ==
            unwrap_or(fallback_list(<<ts.neg_abs_size_leeway, ts.abs_size_leeway,
                                      option_map(ts.pos_size_leeway, size),
                                      option_map(ts.size_leeway, size)>>),
                      0)
    IN  Trunc(100 * size - abs_leeway, 100)

\* lower_size_bound
lower_size_bound(ts, is_bloated) ==
    LET size == ExpectedSize(ts, is_bloated)
        abs_leeway ==
            unwrap_or(fallback_list(<<ts.neg_abs_size_leeway, ts.abs_size_leeway,
                                      option_map(ts.neg_size_leeway, size),
                                      option_map(ts.size_leeway, size)>>),
                      0)
    IN  Trunc(100 * size - abs_leeway, 100)

\* upper_size_bound (its fallback list ends in a literal 0)
upper_size_bound(ts, is_bloated) ==
    LET size == ExpectedSize(ts, is_bloated)
        abs_leeway ==
            unwrap_or(fallback_list(<<ts.pos_abs_size_leeway, ts.abs_size_leeway,
                                      option_map(ts.pos_size_leeway, size),
                                      option_map(ts.size_leeway, size),
                                      0>>),
                      0)
    IN  Trunc(100 * size + abs_leeway, 100)

-----------------------------------------------------------------------------
(* The per-test loop of parse_targets_file_from_value.                     *)

VARIABLES
    tests,      \* the target's tests, in dict order
    idx,        \* the test being checked
    outcome     \* "running", "parsed", or the exception raised

vars == <<tests, idx, outcome>>

\* The tests enumerated: fields a test's kind never reads are None, a test
\* of a size kind gives at least one expected size, and a "broken" keyword
\* is tried on tests of the other kinds only (its check comes before every
\* check that depends on the kind).
InputTests ==
    {ts \in TestSpec :
        /\ ts.kind \notin SymbolKinds => ts.symbol_name = None
        /\ ts.kind \in SizeKinds =>
              /\ ~ts.broken_keyword
              /\ None \notin {ts.expected_size_bloated, ts.expected_size_debloated}
                 \/ ts.expected_size_bloated # ts.expected_size_debloated
        /\ ts.kind \notin SizeKinds =>
              \A f \in {"expected_size_bloated", "expected_size_debloated",
                        "size_leeway", "pos_size_leeway", "neg_size_leeway",
                        "abs_size_leeway", "pos_abs_size_leeway",
                        "neg_abs_size_leeway"} : ts[f] = None}

Init ==
    /\ tests \in UNION {[1..n -> InputTests] : n \in 1..MaxTests}
    /\ idx = 1
    /\ outcome = "running"

\* The checks of one test, in the order the code raises: an invalid kind, a
\* "broken" keyword, a missing symbol_name, a missing expected size, and
\* _valid_leeways.
Rejected(ts) ==
    \/ ts.kind \notin ValidKinds
    \/ ts.broken_keyword
    \/ ts.kind \in SymbolKinds /\ ts.symbol_name = None
    \/ ts.kind \in SizeKinds /\ None \in {ts.expected_size_bloated,
                                          ts.expected_size_debloated}
    \/ ts.kind \in SizeKinds /\ ~valid_leeways(ts)

\* Mutant: the loop steps over the next test as well.
CheckTestSkip ==
    /\ outcome = "running"
    /\ idx <= Len(tests)
    /\ ~Rejected(tests[idx])
    /\ idx' = idx + 2
    /\ UNCHANGED <<tests, outcome>>

\* The test passes the checks; go on with the next one.
CheckTest ==
    /\ outcome = "running"
    /\ idx <= Len(tests)
    /\ ~Rejected(tests[idx])
    /\ idx' = idx + 1
    /\ UNCHANGED <<tests, outcome>>

\* The test fails a check: the exception ends the parse.
RejectTest ==
    /\ outcome = "running"
    /\ idx <= Len(tests)
    /\ Rejected(tests[idx])
    /\ outcome' = IF tests[idx].kind \in ValidKinds /\ tests[idx].broken_keyword
                  THEN "Exception" ELSE "TypeError"
    /\ UNCHANGED <<tests, idx>>

\* The loop ends and the target specs are returned.
Finish ==
    /\ outcome = "running"
    /\ idx > Len(tests)
    /\ outcome' = "parsed"
    /\ UNCHANGED <<tests, idx>>

Next == CheckTest \/ RejectTest \/ Finish

Spec == Init /\ [][Next]_vars

-----------------------------------------------------------------------------
TypeOK ==
    /\ \E n \in 1..MaxTests : tests \in [1..n -> TestSpec]
    /\ idx \in 1..Len(tests) + 1
    /\ outcome \in {"running", "parsed", "TypeError", "Exception"}

\* The bounds the TestSpec docstring describes: each direction takes its own
\* override, else the shared leeway, else 0; a relative leeway is a fraction
\* of the expected size, an absolute one an amount.
DocLeeway(ts, dirRel, dirAbs, size) ==
    CASE dirRel # None              -> dirRel * size
      [] ts.size_leeway # None      -> ts.size_leeway * size
      [] dirAbs # None              -> dirAbs
      [] ts.abs_size_leeway # None  -> ts.abs_size_leeway
      [] OTHER                      -> 0

DocLower(ts, b) ==
    Trunc(100 * ExpectedSize(ts, b)
          - DocLeeway(ts, ts.neg_size_leeway, ts.neg_abs_size_leeway, ExpectedSize(ts, b)),
          100)
DocUpper(ts, b) ==
    Trunc(100 * ExpectedSize(ts, b)
          + DocLeeway(ts, ts.pos_size_leeway, ts.pos_abs_size_leeway, ExpectedSize(ts, b)),
          100)

(***************************************************************************)
(* Every size test of a target that parses gets, for the bloated and the   *)
(* debloated binary, the lower and upper bounds the TestSpec docstring     *)
(* promises: lower_size_bound and upper_size_bound pick the override of    *)
(* their own direction through the fallback chain.                         *)
(***************************************************************************)
BoundsAsDocumented ==
    outcome = "parsed" =>
        \A i \in DOMAIN tests, b \in BOOLEAN :
            tests[i].kind \in SizeKinds /\ ExpectedSize(tests[i], b) # None =>
                /\ lower_size_bound(tests[i], b) = DocLower(tests[i], b)
                /\ upper_size_bound(tests[i], b) = DocUpper(tests[i], b)

(***************************************************************************)
(* The TestSpec docstring: only one of the relative and the absolute       *)
(* leeway families may be used.  So a size test that passes the kind,      *)
(* keyword and expected-size checks is rejected only when it sets a leeway *)
(* of both families.                                                       *)
(***************************************************************************)
Mixed(ts) ==
    /\ NumUsed(<<ts.size_leeway, ts.pos_size_leeway, ts.neg_size_leeway>>) > 0
    /\ NumUsed(<<ts.abs_size_leeway, ts.pos_abs_size_leeway, ts.neg_abs_size_leeway>>) > 0

LeewayCheckReached(ts) ==
    /\ ts.kind \in SizeKinds
    /\ ~ts.broken_keyword
    /\ None \notin {ts.expected_size_bloated, ts.expected_size_debloated}

RejectsOnlyMixedLeeways ==
    outcome = "TypeError" /\ LeewayCheckReached(tests[idx]) => Mixed(tests[idx])
=============================================================================
