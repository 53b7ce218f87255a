---------------------------- MODULE MCFixBitcode ----------------------------
(***************************************************************************)
(* An OUT_DIR with a program, two shared objects, a static library and a      *)
(* file that is neither ELF nor ar.  Two bitcode files outside OUT_DIR     *)
(* share the base name u.bc and differ in contents; two others share their *)
(* contents; one bitcode file already lies in OUT_DIR.  The library has    *)
(* two members named m.o, as `ar' stores objects of the same base name     *)
(* from different directories.  In the second tree one bitcode file is     *)
(* gone, so runs raise part-way.                                           *)
(***************************************************************************)
EXTENDS FixBitcode

XU   == [dir |-> "/src/x", name |-> "u.bc"]
YU   == [dir |-> "/src/y", name |-> "u.bc"]
XV   == [dir |-> "/src/x", name |-> "v.bc"]
OA   == [dir |-> OutDir,   name |-> "a.bc"]
Gone == [dir |-> "/src/x", name |-> "gone.bc"]

MCSourceContent == [p \in {XU, YU, XV, OA, Gone} |->
                      CASE p = XU -> "C1" [] p = XV -> "C1"
                        [] p = YU -> "C2" [] p = OA -> "C3"
                        [] p = Gone -> Missing]

Elf(sec) == [kind |-> "elf", sec |-> sec, members |-> <<>>]
Ar(ms)   == [kind |-> "ar", sec |-> <<>>, members |-> ms]
Other    == [kind |-> "other", sec |-> <<>>, members |-> <<>>]
Member(n, sec) == [name |-> n, sec |-> sec]

Clean ==
    [f \in {"prog", "libfoo.so", "libbaz.so", "libbar.a", "README"} |->
        CASE f = "prog"      -> Elf(<<XU, OA>>)
          [] f = "libfoo.so" -> Elf(<<YU>>)
          [] f = "libbaz.so" -> Elf(<<XV, YU>>)
          [] f = "libbar.a"  -> Ar(<<Member("m.o", <<XV>>), Member("m.o", <<YU>>),
                                   Member("n.o", <<>>)>>)
          [] f = "README"    -> Other]

Broken ==
    [Clean EXCEPT !["libfoo.so"] = Elf(<<YU, Gone>>),
                  !["libbar.a"].members[3].sec = <<Gone>>]

MCTrees == {Clean, Broken}
====
