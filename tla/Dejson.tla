------------------------------- MODULE Dejson -------------------------------
(***************************************************************************)
(* lmcas_dejson, src/utils/dejson/lmcas_dejson/__init__.py: from_json      *)
(* turns a value returned by json.load (or toml.load) into an instance of  *)
(* a type annotation, dispatching on the annotation through a              *)
(* multimethod.overload.                                                   *)
(*                                                                         *)
(* The overload tries the registered functions last-registered first and  *)
(* calls the first whose predicate accepts `cls'; the undecorated          *)
(* from_json (no predicate) comes last.  from_json_union repeats this      *)
(* search itself in find_from_json_func, where the undecorated function    *)
(* also requires isinstance(value, cls).                                   *)
(*                                                                         *)
(* Python values are uniform records, so that TLC can compare any two:     *)
(*   k   the class: "none" "bool" "int" "float" "str" "list" "tuple"       *)
(*       "dict", and for decoded values "path" and "obj" (a dataclass);    *)
(*   n   a number in tenths (bool as 0/10), so that Python's == between    *)
(*       bool, int and float is equality of n;                             *)
(*   s   a string, or the dataclass name of an "obj";                      *)
(*   l   the items of a list or tuple;                                     *)
(*   d   the entries of a dict or the fields of an "obj", in order, as     *)
(*       <<key, value>> pairs.                                             *)
(* Type annotations are uniform records too: t is the kind of annotation,  *)
(* args its type arguments, lits the values of a Literal, fields the       *)
(* fields of a dataclass ([name, type, dflt]) and name its class name.     *)
(***************************************************************************)
EXTENDS Integers, Sequences, SequencesExt

CONSTANT Inputs     \* the [cls, value] pairs from_json is called with

Py(k, n, s, l, d) == [k |-> k, n |-> n, s |-> s, l |-> l, d |-> d]
PyNone == Py("none", 0, "", <<>>, <<>>)

Numeric == {"bool", "int", "float"}

Keys(v) == {e[1] : e \in Range(v.d)}
Lookup(v, key) == (CHOOSE e \in Range(v.d) : e[1] = key)[2]

\* Python's value == arg for the scalar arguments of a Literal.
PyEq(v, arg) ==
    IF v.k \in Numeric
    THEN arg.k \in Numeric /\ v.n = arg.n
    ELSE v.k = arg.k /\ v.k \in {"str", "none"} /\ v.s = arg.s

\* isinstance(value, cls) for the plain classes of the annotations.
IsInstance(v, cls) ==
    CASE cls.t = "int"      -> v.k \in {"int", "bool"}
      [] cls.t = "float"    -> v.k = "float"
      [] cls.t = "bool"     -> v.k = "bool"
      [] cls.t = "str"      -> v.k = "str"
      [] cls.t = "NoneType" -> v.k = "none"

\* is_optional: a Union of exactly two arguments, the second NoneType.
is_optional(cls) ==
    cls.t = "union" /\ Len(cls.args) = 2 /\ cls.args[2].t = "NoneType"

\* The predicate each registered function is annotated with.
Accepts(h, cls) ==
    CASE h = "path"      -> cls.t = "Path"
      [] h = "any"       -> cls.t = "Any"
      [] h = "optional"  -> is_optional(cls)
      [] h = "union"     -> cls.t = "union"
      [] h = "literal"   -> cls.t = "literal"
      [] h = "tuple"     -> cls.t = "tuple"
      [] h = "list"      -> cls.t = "list"
      [] h = "dict"      -> cls.t = "dict"
      [] h = "dataclass" -> cls.t = "dataclass"

\* The registered functions, last registered first.
Registered == <<"path", "any", "optional", "union", "literal",
                "tuple", "list", "dict", "dataclass">>

\* multimethod.overload.__call__: the first function whose predicate holds,
\* else the undecorated from_json.
Dispatch(cls) ==
    LET m == SelectSeq(Registered, LAMBDA h : Accepts(h, cls))
    IN  IF m = <<>> THEN "base" ELSE Head(m)

NoFunc == "no_func"

\* Mutant: the undecorated function is taken without the isinstance test.
find_from_json_func_noinstance(cls, value) == Dispatch(cls)

\* find_from_json_func: as the dispatch, but the undecorated function only
\* when isinstance(value, cls).
find_from_json_func(cls, value) ==
    IF Dispatch(cls) # "base" THEN Dispatch(cls)
    ELSE IF IsInstance(value, cls) THEN "base" ELSE NoFunc

Ok(v) == [ok |-> TRUE, val |-> v, err |-> ""]
Err(e) == [ok |-> FALSE, val |-> PyNone, err |-> e]

Errors == {"TypeError", "AssertionError", "DispatchError"}

RECURSIVE from_json(_, _), call(_, _, _), decode_items(_, _, _, _),
          decode_entries(_, _, _, _), decode_fields(_, _, _), union_loop(_, _)

\* Mutant: the undecorated from_json without its isinstance test.
from_json_base_unchecked(cls, value) == Ok(value)

\* The undecorated from_json (lines 72-85).
from_json_base(cls, value) ==
    IF IsInstance(value, cls) THEN Ok(value) ELSE Err("TypeError")

\* from_json_literal: the first argument equal to the value.
from_json_literal(cls, value) ==
    LET m == SelectSeq(cls.lits, LAMBDA a : PyEq(value, a))
    IN  IF m = <<>> THEN Err("TypeError") ELSE Ok(Head(m))

from_json_path(cls, value) ==
    IF value.k = "str" THEN Ok(Py("path", 0, value.s, <<>>, <<>>))
    ELSE Err("AssertionError")

from_json_optional(cls, value) ==
    IF value.k = "none" THEN Ok(PyNone) ELSE from_json(cls.args[1], value)

\* The items of a list or tuple, in order; the first failure propagates.
decode_items(kind, ty, items, done) ==
    IF items = <<>> THEN Ok(Py(kind, 0, "", done, <<>>))
    ELSE LET r == from_json(ty, Head(items))
         IN  IF r.ok THEN decode_items(kind, ty, Tail(items), Append(done, r.val))
             ELSE r

from_json_list(cls, value) ==
    IF value.k \in {"list", "tuple"}
    THEN decode_items("list", cls.args[1], value.l, <<>>)
    ELSE Err("AssertionError")

\* Only the first type argument is used, whatever the tuple's arity.
from_json_tuple(cls, value) ==
    IF value.k \in {"list", "tuple"}
    THEN decode_items("tuple", cls.args[1], value.l, <<>>)
    ELSE Err("AssertionError")

\* The dict comprehension: key first, then value, entry by entry.
decode_entries(kty, vty, entries, done) ==
    IF entries = <<>> THEN Ok(Py("dict", 0, "", <<>>, done))
    ELSE LET kr == from_json(kty, Py("str", 0, Head(entries)[1], <<>>, <<>>))
             vr == from_json(vty, Head(entries)[2])
         IN  CASE ~kr.ok -> kr
               [] ~vr.ok -> vr
               [] OTHER  -> decode_entries(kty, vty, Tail(entries),
                                           Append(done, <<kr.val.s, vr.val>>))

from_json_dict(cls, value) ==
    IF value.k = "dict"
    THEN decode_entries(cls.args[1], cls.args[2], value.d, <<>>)
    ELSE Err("AssertionError")

\* The fields of the dataclass in declaration order: a field given in the
\* value is decoded, a missing one is left out.  Keys that name no field are
\* ignored.
decode_fields(fields, value, done) ==
    IF fields = <<>> THEN Ok(Py("obj", 0, "", <<>>, done))
    ELSE LET f == Head(fields)
         IN  IF f.name \in Keys(value)
             THEN LET r == from_json(f.type, Lookup(value, f.name))
                  IN  IF r.ok THEN decode_fields(Tail(fields), value,
                                                 Append(done, <<f.name, r.val>>))
                      ELSE r
             ELSE decode_fields(Tail(fields), value, done)

\* cls(**fields) raises TypeError when a field without default is missing.
from_json_dataclass(cls, value) ==
    IF value.k = "dict"
    THEN LET r == decode_fields(cls.fields, value, <<>>)
         IN  CASE ~r.ok -> r
               [] \E f \in Range(cls.fields) : ~f.dflt /\ f.name \notin Keys(value)
                        -> Err("TypeError")
               [] OTHER -> Ok([r.val EXCEPT !.s = cls.name])
    ELSE Err("AssertionError")

\* from_json_union: the first argument find_from_json_func finds a function
\* for is decoded with that function, and its result or error is final.
union_loop(args, value) ==
    IF args = <<>> THEN Err("DispatchError")
    ELSE LET f == find_from_json_func(Head(args), value)
         IN  IF f = NoFunc THEN union_loop(Tail(args), value)
             ELSE call(f, Head(args), value)

from_json_union(cls, value) == union_loop(cls.args, value)

\* Calling a registered function by name.
call(h, cls, value) ==
    CASE h = "path"      -> from_json_path(cls, value)
      [] h = "any"       -> Ok(value)
      [] h = "optional"  -> from_json_optional(cls, value)
      [] h = "union"     -> from_json_union(cls, value)
      [] h = "literal"   -> from_json_literal(cls, value)
      [] h = "tuple"     -> from_json_tuple(cls, value)
      [] h = "list"      -> from_json_list(cls, value)
      [] h = "dict"      -> from_json_dict(cls, value)
      [] h = "dataclass" -> from_json_dataclass(cls, value)
      [] h = "base"      -> from_json_base(cls, value)

from_json(cls, value) == call(Dispatch(cls), cls, value)

-----------------------------------------------------------------------------
(* One call of from_json, as load_json and parse_targets_file_from_value  *)
(* make it on a parsed document.                                           *)

VARIABLES cls, value, result

vars == <<cls, value, result>>

Pending == [ok |-> FALSE, val |-> PyNone, err |-> "pending"]

Init ==
    \E i \in Inputs : /\ cls = i.cls
                      /\ value = i.value
                      /\ result = Pending

Decode ==
    /\ result = Pending
    /\ result' = from_json(cls, value)
    /\ UNCHANGED <<cls, value>>

Next == Decode

Spec == Init /\ [][Next]_vars

-----------------------------------------------------------------------------
Str(key) == Py("str", 0, key, <<>>, <<>>)

(***************************************************************************)
(* What a value of an annotation is, in the sense of PEP 484 and PEP 586:  *)
(* bool is a subclass of int, an int is accepted where a float is          *)
(* expected, and a Literal admits exactly its arguments.  With decoded     *)
(* FALSE it describes the JSON form of the annotation (a Path is a         *)
(* string, a dataclass an object with its required fields), with decoded   *)
(* TRUE the Python value from_json should produce.                         *)
(***************************************************************************)
RECURSIVE Typed(_, _, _)
Typed(ty, v, decoded) ==
    CASE ty.t = "int"       -> v.k \in {"int", "bool"}
      [] ty.t = "float"     -> v.k \in Numeric
      [] ty.t = "bool"      -> v.k = "bool"
      [] ty.t = "str"       -> v.k = "str"
      [] ty.t = "NoneType"  -> v.k = "none"
      [] ty.t = "Any"       -> TRUE
      [] ty.t = "Path"      -> v.k = (IF decoded THEN "path" ELSE "str")
      [] ty.t \in {"list", "tuple"} ->
            /\ v.k = (IF decoded THEN ty.t ELSE "list")
            /\ \A i \in DOMAIN v.l : Typed(ty.args[1], v.l[i], decoded)
      [] ty.t = "dict"      ->
            /\ v.k = "dict"
            /\ \A e \in Range(v.d) : /\ Typed(ty.args[1], Str(e[1]), decoded)
                                     /\ Typed(ty.args[2], e[2], decoded)
      [] ty.t = "union"     -> \E i \in DOMAIN ty.args : Typed(ty.args[i], v, decoded)
      [] ty.t = "literal"   -> v \in Range(ty.lits)
      [] ty.t = "dataclass" ->
            /\ v.k = (IF decoded THEN "obj" ELSE "dict")
            /\ decoded => v.s = ty.name
            /\ \A f \in Range(ty.fields) :
                  /\ f.name \in Keys(v) => Typed(f.type, Lookup(v, f.name), decoded)
                  /\ ~f.dflt => f.name \in Keys(v)

Decided == result # Pending

(***************************************************************************)
(* The module's promise to its callers (Spec, DifferenceOutputs,           *)
(* list[NeckLocation], the target specs): whatever from_json returns is a  *)
(* value of the annotation it was asked for, down to every nested field;   *)
(* the dispatch on annotations and the union search never hand back a      *)
(* value of another type.                                                  *)
(***************************************************************************)
DecodedValueConforms ==
    Decided /\ result.ok => Typed(cls, result.val, TRUE)

(***************************************************************************)
(* Every JSON value of an annotation decodes: from_json rejects only what  *)
(* is not of the annotated type.                                           *)
(***************************************************************************)
DecodesWellTyped ==
    Decided /\ Typed(cls, value, FALSE) => result.ok

(***************************************************************************)
(* A Union annotation decodes as its first member that decodes the value,  *)
(* in the order the members are written: from_json_union, which picks a    *)
(* member by its handler's predicate and not by the value, makes the same  *)
(* choice for the unions of this repository.                               *)
(***************************************************************************)
UnionTriesMembersInOrder ==
    Decided /\ cls.t = "union" /\ ~is_optional(cls) =>
        LET decoding == SelectSeq(cls.args, LAMBDA a : from_json(a, value).ok)
        IN  IF decoding = <<>> THEN ~result.ok
            ELSE result = from_json(Head(decoding), value)
====
