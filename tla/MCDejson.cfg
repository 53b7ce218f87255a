CONSTANT
    Inputs <- MCInputs

SPECIFICATION Spec

INVARIANTS
    DecodedValueConforms
    UnionTriesMembersInOrder

\* from_json returns or raises: after the one call there is nothing to do.
CHECK_DEADLOCK FALSE
