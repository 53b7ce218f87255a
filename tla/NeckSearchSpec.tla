--------------------------- MODULE NeckSearchSpec ---------------------------
(***************************************************************************)
(* What the neck search promises its visitor: the reference stream of      *)
(* NeckReference for the input it was constructed with, emitted one visit  *)
(* at a time; Restart (reinit) starts it over.                             *)
(***************************************************************************)
EXTENDS Integers, Sequences

CONSTANTS
    None,
    Inputs,         \* set of [prog, p, start]
    RefTable,       \* input -> its reference stream
    ContribTable    \* input -> <<f, stk>> -> contribution table

VARIABLES
    input,
    log         \* the visits emitted since the last restart

Reference(in) == INSTANCE NeckReference WITH Prog <- in.prog, Part <- in.p, Start <- in.start

\* The reference stream and the callee contributions of every input, given
\* as constants so that TLC computes them once.
ASSUME RefTable = [in \in Inputs |-> Reference(in)!Ref]
ASSUME ContribTable = [in \in Inputs |-> Reference(in)!Contribs]

Ref == RefTable[input]

\* Property k of what exploring f hands back when the functions stk are on
\* the stack; a missing property counts as 0.
Val(t, k) == IF k \in DOMAIN t THEN t[k] ELSE 0
RefContrib(f, stk, k) == ContribTable[input][f, stk][k]

Init ==
    /\ input \in Inputs
    /\ log = <<>>

Emit ==
    /\ Len(log) < Len(Ref)
    /\ log' = Append(log, Ref[Len(log) + 1])
    /\ UNCHANGED input

Restart ==
    /\ log' = <<>>
    /\ UNCHANGED input

SafetySpec == Init /\ [][Emit \/ Restart]_<<input, log>>
Spec == SafetySpec /\ WF_<<input, log>>(Emit)
=============================================================================
