---------------------------- MODULE MCRobustness ----------------------------
(***************************************************************************)
(* Inputs of the robustness checker for TLC: a few programs, given by how  *)
(* the tape they record depends on the value a syscall returns, and two    *)
(* lists of option configs.                                                *)
(***************************************************************************)
EXTENDS Robustness

\* The values perturbate_specs can give a field: the defaults and the
\* random values.
Values == {0, 1} \cup RandomValues

\* A tape element is a syscall and its argument.
Flat   == <<<<"read", 0>>, <<"write", 0>>, <<"exit", 0>>>>
Branch == <<<<"read", 0>>, <<"open", 0>>, <<"exit", 0>>>>
Late   == <<<<"read", 0>>, <<"write", 0>>, <<"open", 0>>>>

\* How the recorded tape can depend on the value of one field.
Behaviours(f) ==
    { \* the value is never used before the neck
      [v \in Values |-> Flat],
      \* a test against the default value, e.g. `getuid() == 0'
      [v \in Values |-> IF v = Default(f) THEN Branch ELSE Flat],
      \* the value is passed to the first syscall, e.g. a pid file name
      [v \in Values |-> [Flat EXCEPT ![1] = <<"write", v>>]],
      \* the value is passed to the last syscall before the neck
      [v \in Values |-> [Flat EXCEPT ![3] = <<"exit", v>>]],
      \* each value leads to its own branch, at two depths
      [v \in Values |-> IF v = Default(f) THEN Flat
                        ELSE IF v = 1001 THEN Branch ELSE Late],
      \* one random value changes the first syscall, the other the last
      [v \in Values |-> IF v = Default(f) THEN Flat
                        ELSE IF v = 1001 THEN [Flat EXCEPT ![1] = <<"stat", 0>>]
                        ELSE Late] }

\* uid and pid are unmocked in the first config, gid in the second.
CfgUidPid == {"sys_getgid", "sys_geteuid", "sys_getppid"}
CfgGid    == {"sys_getuid", "sys_geteuid", "sys_getpid", "sys_getppid"}

MCConfigLists == { <<CfgUidPid>>, <<CfgGid, CfgUidPid>> }

MCPrograms ==
    { [f \in Fields |-> IF f = "uid" THEN u ELSE IF f = "pid" THEN p
                        ELSE IF f = "gid" THEN g ELSE [v \in Values |-> Flat]]
      : u \in Behaviours("uid"), p \in Behaviours("pid"), g \in Behaviours("gid") }
=============================================================================
