------------------------------ MODULE MCDejson ------------------------------
(***************************************************************************)
(* The annotations this repository decodes with lmcas_dejson, and for each *)
(* annotation and each annotation nested in it a small set of JSON values: *)
(* values of the annotation and values just off it.                        *)
(***************************************************************************)
EXTENDS Dejson

Ty(t) == [t |-> t, args |-> <<>>, lits |-> <<>>, fields |-> <<>>, name |-> ""]
Generic(t, args) == [Ty(t) EXCEPT !.args = args]
ListOf(x) == Generic("list", <<x>>)
DictOf(k, v) == Generic("dict", <<k, v>>)
Optional(x) == Generic("union", <<x, Ty("NoneType")>>)
LiteralOf(lits) == [Ty("literal") EXCEPT !.lits = lits]
Field(name, type, dflt) == [name |-> name, type |-> type, dflt |-> dflt]
Dataclass(name, fields) == [Ty("dataclass") EXCEPT !.name = name, !.fields = fields]

IntT == Ty("int")
FloatT == Ty("float")
BoolT == Ty("bool")
StrT == Ty("str")
PathT == Ty("Path")
AnyT == Ty("Any")

PyInt(i) == Py("int", 10 * i, "", <<>>, <<>>)
PyFloat(tenths) == Py("float", tenths, "", <<>>, <<>>)
PyBool(b) == Py("bool", IF b THEN 10 ELSE 0, "", <<>>, <<>>)
PyStr(s) == Py("str", 0, s, <<>>, <<>>)
PyList(items) == Py("list", 0, "", items, <<>>)
PyDict(entries) == Py("dict", 0, "", <<>>, entries)

\* driver/spec.py NeckLocation
NeckLocation ==
    Dataclass("NeckLocation", <<Field("basic_block_annotation_id", StrT, FALSE),
                                Field("insn_index", IntT, FALSE)>>)

\* driver/spec.py OptionConfig
OptionConfig ==
    Dataclass("OptionConfig", <<Field("args", ListOf(StrT), FALSE),
                                Field("env", DictOf(StrT, StrT), FALSE),
                                Field("cwd", PathT, FALSE),
                                Field("ignore_indexes", Optional(ListOf(IntT)), TRUE),
                                Field("syscall_mocks", DictOf(StrT, AnyT), TRUE)>>)

\* driver/neck_miner.py
NeckMinerTaintFunction ==
    Dataclass("NeckMinerTaintFunction", <<Field("name", StrT, FALSE),
                                          Field("params", DictOf(StrT, ListOf(IntT)), FALSE)>>)

NeckMinerTaintConfig ==
    Dataclass("NeckMinerTaintConfig", <<Field("name", StrT, FALSE),
                                        Field("version", FloatT, FALSE),
                                        Field("functions", ListOf(NeckMinerTaintFunction), FALSE)>>)

NeckMinerConfig ==
    Dataclass("NeckMinerConfig",
              <<Field("function_local_points_to_info_wo_globals", BoolT, FALSE),
                Field("use_simplified_dfa", BoolT, FALSE),
                Field("taint_config", NeckMinerTaintConfig, FALSE)>>)

\* driver/spec.py Spec, read by main() with load_json
SpecT ==
    Dataclass("Spec", <<Field("binary", PathT, FALSE),
                        Field("configs", ListOf(OptionConfig), FALSE),
                        Field("use_neck_miner", BoolT, TRUE),
                        Field("use_guiness", BoolT, TRUE),
                        Field("replace_sighup", BoolT, TRUE),
                        Field("neck_miner_config", Optional(NeckMinerConfig), TRUE),
                        Field("extra_neck_locations", ListOf(NeckLocation), TRUE)>>)

\* driver/robustness.py DifferenceOutputs
DifferenceOutputs ==
    Dataclass("DifferenceOutputs",
              <<Field("groups", ListOf(ListOf(StrT)), FALSE),
                Field("differences", ListOf(ListOf(Optional(IntT))), FALSE)>>)

Kinds == <<"simple-run", "contains-symbol", "links-to-symbol", "text-section-size",
           "instruction-count", "instruction-count-of-function", "function-count",
           "rop-gadget-count">>

StatusOrFalse == Generic("union", <<IntT, LiteralOf(<<PyBool(FALSE)>>)>>)
OutputOrFalse == Generic("union", <<StrT, LiteralOf(<<PyBool(FALSE)>>)>>)

\* lmcas_test_specs TestSpec
TestSpec ==
    Dataclass("TestSpec",
        <<Field("kind", LiteralOf([i \in DOMAIN Kinds |-> PyStr(Kinds[i])]), FALSE),
          Field("should_pass_bloated", BoolT, TRUE),
          Field("should_pass_debloated", BoolT, TRUE),
          Field("fixtures", Optional(ListOf(StrT)), TRUE),
          Field("keywords", Optional(ListOf(StrT)), TRUE),
          Field("broken", BoolT, TRUE),
          Field("argv0", Optional(StrT), TRUE),
          Field("args", Optional(ListOf(StrT)), TRUE),
          Field("env", Optional(DictOf(StrT, StrT)), TRUE),
          Field("stdin", StrT, TRUE),
          Field("expected_status", StatusOrFalse, TRUE),
          Field("is_stdout_regex", BoolT, TRUE),
          Field("expected_stdout", OutputOrFalse, TRUE),
          Field("is_stderr_regex", BoolT, TRUE),
          Field("expected_stderr", OutputOrFalse, TRUE),
          Field("symbol_name", Optional(StrT), TRUE),
          Field("expected_size_bloated", Optional(IntT), TRUE),
          Field("expected_size_debloated", Optional(IntT), TRUE),
          Field("size_leeway", Optional(FloatT), TRUE),
          Field("pos_size_leeway", Optional(FloatT), TRUE),
          Field("neg_size_leeway", Optional(FloatT), TRUE),
          Field("abs_size_leeway", Optional(FloatT), TRUE),
          Field("pos_abs_size_leeway", Optional(FloatT), TRUE),
          Field("neg_abs_size_leeway", Optional(FloatT), TRUE)>>)

\* lmcas_test_specs TargetSpec
TargetSpec ==
    Dataclass("TargetSpec", <<Field("tests", Optional(DictOf(StrT, TestSpec)), TRUE),
                              Field("bin_name", Optional(StrT), TRUE),
                              Field("input_binary", Optional(PathT), TRUE),
                              Field("spec", Optional(PathT), TRUE)>>)

\* The annotations from_json is called with.
Roots == {DictOf(StrT, TargetSpec), SpecT, ListOf(NeckLocation), DifferenceOutputs, AnyT}

RECURSIVE Nested(_)
Nested(ty) ==
    {ty} \cup UNION {Nested(ty.args[i]) : i \in DOMAIN ty.args}
         \cup UNION {Nested(ty.fields[i].type) : i \in DOMAIN ty.fields}

Annotations == UNION {Nested(r) : r \in Roots}

\* A value of the annotation.
RECURSIVE Canonical(_)
Canonical(ty) ==
    CASE ty.t = "int"       -> PyInt(1)
      [] ty.t = "float"     -> PyFloat(15)
      [] ty.t = "bool"      -> PyBool(TRUE)
      [] ty.t \in {"str", "Path"} -> PyStr("a")
      [] ty.t = "NoneType"  -> PyNone
      [] ty.t = "Any"       -> PyInt(1)
      [] ty.t = "list"      -> PyList(<<>>)
      [] ty.t = "dict"      -> PyDict(<<>>)
      [] ty.t = "union"     -> Canonical(ty.args[1])
      [] ty.t = "literal"   -> ty.lits[1]
      [] ty.t = "dataclass" ->
            PyDict(SelectSeq([i \in DOMAIN ty.fields |->
                                 <<ty.fields[i].name, Canonical(ty.fields[i].type)>>],
                             LAMBDA e : e[1] \in {f.name : f \in {g \in Range(ty.fields) : ~g.dflt}}))

\* The object with the required fields canonical and field j given v
\* (v = PyNone with `drop' leaves field j out).
Object(ty, j, v, drop) ==
    LET entry(i) == <<ty.fields[i].name,
                      IF i = j THEN v ELSE Canonical(ty.fields[i].type)>>
        given(i) == IF i = j THEN ~drop ELSE ~ty.fields[i].dflt
        order == SelectSeq([i \in DOMAIN ty.fields |-> i], given)
    IN  PyDict([k \in DOMAIN order |-> entry(order[k])])

\* JSON values of the annotation and next to it.
RECURSIVE Samples(_)
Samples(ty) ==
    CASE ty.t = "int"       -> {PyInt(0), PyInt(1), PyBool(TRUE), PyStr("x")}
      [] ty.t = "float"     -> {PyFloat(15), PyInt(1)}
      [] ty.t = "bool"      -> {PyBool(FALSE), PyBool(TRUE), PyInt(1)}
      [] ty.t = "str"       -> {PyStr("a"), PyInt(0)}
      [] ty.t = "Path"      -> {PyStr("a"), PyInt(0)}
      [] ty.t = "NoneType"  -> {PyNone}
      [] ty.t = "Any"       -> {PyInt(1)}
      [] ty.t = "list"      -> {PyList(<<>>), PyStr("x")}
                                 \cup {PyList(<<x>>) : x \in Samples(ty.args[1])}
      [] ty.t = "dict"      -> {PyDict(<<>>), PyList(<<>>)}
                                 \cup {PyDict(<<<<"k", x>>>>) : x \in Samples(ty.args[2])}
      [] ty.t = "union"     -> UNION {Samples(ty.args[i]) : i \in DOMAIN ty.args}
      [] ty.t = "literal"   -> {ty.lits[1], PyInt(0), PyStr("x")}
      [] ty.t = "dataclass" ->
            {Canonical(ty), PyList(<<>>),
             PyDict(Append(Canonical(ty).d, <<"extra", PyInt(1)>>))}
              \cup UNION {{Object(ty, j, x, FALSE) : x \in Samples(ty.fields[j].type)}
                            : j \in DOMAIN ty.fields}
              \cup {Object(ty, j, PyNone, TRUE) : j \in DOMAIN ty.fields}

MCInputs == UNION {{[cls |-> a, value |-> v] : v \in Samples(a)} : a \in Annotations}
====
