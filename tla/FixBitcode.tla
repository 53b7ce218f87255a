----------------------------- MODULE FixBitcode -----------------------------
(***************************************************************************)
(* fix-bitcode-paths (src/utils/fix-bitcode-paths/fix_bitcode_paths).      *)
(*                                                                         *)
(* GLLVM leaves in the .llvm_bc section of every object the paths of the   *)
(* bitcode files it was compiled from.  The tool walks OUT_DIR, and for    *)
(* every ELF file, and every member of every ar archive, rewrites the      *)
(* paths that lie outside OUT_DIR to a copy of the file under              *)
(* OUT_DIR/.lmcas-bitcode named by the sha256 of its contents.             *)
(*                                                                         *)
(* The tree is a function from file to node.  A path is a record          *)
(* [dir, name]; the contents of the bitcode files outside the tree are the *)
(* constant SourceContent, and the copies made so far are `bc', a function *)
(* from file name under .lmcas-bitcode to contents.  sha256 is modelled as *)
(* the identity on contents (collision-free).  One step visits one file,   *)
(* in any order, as os.walk's order is the file system's.                  *)
(***************************************************************************)
EXTENDS Integers, Sequences, SequencesExt, TLC

CONSTANTS
    Trees,          \* the OUT_DIR trees a run may start from
    SourceContent,  \* path -> contents of the bitcode file, or Missing
    Missing,        \* an unreadable (absent) file
    MaxRuns         \* how many times the tool is run on the same OUT_DIR

OutDir == "out"
BitcodeDir == ".lmcas-bitcode"   \* out_dir / ".lmcas-bitcode"

VARIABLES
    tree,     \* file -> [kind, sec, members]: the files under OUT_DIR
    bc,       \* name -> contents: the files under OUT_DIR/.lmcas-bitcode
    phase,    \* "idle", "running", "done" (exit 0) or "failed" (raised)
    todo,     \* files find_files has still to yield in this run
    runs,     \* runs started
    first,    \* <<tree, bc>> after the first run that completed, or <<>>
    orig      \* the tree before the first run (history, for the properties)

vars == <<tree, bc, phase, todo, runs, first, orig>>

(* Path.is_relative_to(out_dir): the copies live under OUT_DIR too.        *)
UnderOutDir(p) == p.dir \in {OutDir, BitcodeDir}

(* path.open("rb").read() *)
Read(p, store) ==
    IF p.dir = BitcodeDir
    THEN IF p.name \in DOMAIN store THEN store[p.name] ELSE Missing
    ELSE SourceContent[p]

(* Mutant: the copy named after the original file's base name. *)
BitcodeName_basename(p, c) == p.name

(* f"{bitcode_hash}.bc" with bitcode_hash the sha256 of the contents. *)
BitcodeName(p, c) == c

(* Mutant: do_fixup_path without the is_relative_to early return. *)
do_fixup_path_unguarded(p, store) ==
    LET c   == Read(p, store)
        out == [dir |-> BitcodeDir, name |-> BitcodeName(p, c)]
    IN  IF c = Missing \/ out = p
        THEN [ok |-> FALSE, paths |-> <<>>, bc |-> store]
        ELSE [ok |-> TRUE, paths |-> <<out>>, bc |-> (out.name :> c) @@ store]

(* do_fixup_path, as [ok, paths, bc]: paths is <<the new path>>.  A file   *)
(* that cannot be opened raises; copyfile raises SameFileError when the    *)
(* copy would be the file itself.                                          *)
do_fixup_path(p, store) ==
    IF UnderOutDir(p) THEN [ok |-> TRUE, paths |-> <<p>>, bc |-> store]
    ELSE LET c   == Read(p, store)
             out == [dir |-> BitcodeDir, name |-> BitcodeName(p, c)]
         IN  IF c = Missing \/ out = p
             THEN [ok |-> FALSE, paths |-> <<>>, bc |-> store]
             ELSE [ok |-> TRUE, paths |-> <<out>>, bc |-> (out.name :> c) @@ store]

(* [do_fixup_path(path) for path in paths], stopping at the first raise;   *)
(* the copies made before it stay.                                         *)
RECURSIVE FixPaths(_, _)
FixPaths(ps, store) ==
    IF ps = <<>> THEN [ok |-> TRUE, paths |-> <<>>, bc |-> store]
    ELSE LET r == do_fixup_path(Head(ps), store)
         IN  IF ~r.ok THEN r
             ELSE LET rest == FixPaths(Tail(ps), r.bc)
                  IN  [rest EXCEPT !.paths = r.paths \o @]

(* find_files: the files whose first bytes are an ar or ELF signature. *)
find_files(t) == {f \in DOMAIN t : t[f].kind \in {"ar", "elf"}}

(* `ar x` into one directory: a later member overwrites an earlier one of  *)
(* the same name.  The walk then lists each name once; its order is the    *)
(* file system's, taken here as the order of first appearance (the         *)
(* properties compare archives without regard to member order).            *)
ExtractAr(ms) ==
    LET firstAt(i) == SelectInSeq(ms, LAMBDA m : m.name = ms[i].name) = i
        lastOf(i)  == ms[SelectLastInSeq(ms, LAMBDA m : m.name = ms[i].name)]
    IN  [k \in 1..Len(SelectSeq([i \in DOMAIN ms |-> i], firstAt)) |->
            lastOf(SelectSeq([i \in DOMAIN ms |-> i], firstAt)[k])]

(* transform_elf over the extracted members, stopping at the first raise. *)
RECURSIVE FixMembers(_, _)
FixMembers(ms, store) ==
    IF ms = <<>> THEN [ok |-> TRUE, members |-> <<>>, bc |-> store]
    ELSE LET r == FixPaths(Head(ms).sec, store)
         IN  IF ~r.ok THEN [ok |-> FALSE, members |-> <<>>, bc |-> r.bc]
             ELSE LET rest == FixMembers(Tail(ms), r.bc)
                  IN  [rest EXCEPT !.members =
                           <<[Head(ms) EXCEPT !.sec = r.paths]>> \o @]

(* fixup_files's except clause: log, then re-raise out of main. *)
Raise(store) ==
    /\ bc' = store
    /\ phase' = "failed"
    /\ UNCHANGED <<tree, todo, runs, first, orig>>

(* main(out_dir): a new process over the same OUT_DIR. *)
Start ==
    /\ phase /= "running"
    /\ runs < MaxRuns
    /\ phase' = "running"
    /\ todo' = find_files(tree)
    /\ runs' = runs + 1
    /\ UNCHANGED <<tree, bc, first, orig>>

(* fixup_elf: objcopy out .llvm_bc, fix every path, and write the section *)
(* back unless nothing changed.                                           *)
FixupElf(f) ==
    /\ phase = "running"
    /\ f \in todo
    /\ tree[f].kind = "elf"
    /\ LET r == FixPaths(tree[f].sec, bc)
       IN  IF r.ok
           THEN /\ tree' = [tree EXCEPT ![f].sec = r.paths]
                /\ bc' = r.bc
                /\ todo' = todo \ {f}
                /\ UNCHANGED <<phase, runs, first, orig>>
           ELSE Raise(r.bc)

(* fixup_ar: extract, transform every member, re-archive and move the new *)
(* archive over the old one; a raise leaves the old archive in place.     *)
FixupAr(f) ==
    /\ phase = "running"
    /\ f \in todo
    /\ tree[f].kind = "ar"
    /\ LET r == FixMembers(ExtractAr(tree[f].members), bc)
       IN  IF r.ok
           THEN /\ tree' = [tree EXCEPT ![f].members = r.members]
                /\ bc' = r.bc
                /\ todo' = todo \ {f}
                /\ UNCHANGED <<phase, runs, first, orig>>
           ELSE Raise(r.bc)

(* The walk is exhausted: main returns and the process exits 0. *)
Finish ==
    /\ phase = "running"
    /\ todo = {}
    /\ phase' = "done"
    /\ first' = IF first = <<>> THEN <<tree, bc>> ELSE first
    /\ UNCHANGED <<tree, bc, todo, runs, orig>>

Init ==
    /\ tree \in Trees
    /\ bc = <<>>
    /\ phase = "idle"
    /\ todo = {}
    /\ runs = 0
    /\ first = <<>>
    /\ orig = tree

Next ==
    \/ Start
    \/ \E f \in todo : FixupElf(f) \/ FixupAr(f)
    \/ Finish

Spec == Init /\ [][Next]_vars

-----------------------------------------------------------------------------
(* The contents a path names now: a copy under .lmcas-bitcode, or the file *)
(* it was compiled from.                                                   *)
Resolve(p) ==
    IF p.dir = BitcodeDir
    THEN IF p.name \in DOMAIN bc THEN bc[p.name] ELSE Missing
    ELSE SourceContent[p]

Resolved(sec) == [i \in DOMAIN sec |-> Resolve(sec[i])]

(* What an archive holds: the bag of its members' names and the bitcode    *)
(* their paths name.                                                       *)
MemberBag(ms) == ToBag([i \in DOMAIN ms |-> [name |-> ms[i].name,
                                             bits |-> Resolved(ms[i].sec)]])

(* The rewrite never changes what an object's bitcode is: after any run,  *)
(* completed or raised part-way, every path in every ELF file names the    *)
(* same contents as the path GLLVM wrote, and so does every member of an   *)
(* archive as some member of that name had.  do_fixup_path's sha256 file   *)
(* names are what keeps two different bitcode files apart.                 *)
ReferencesPreserved ==
    \A f \in DOMAIN tree :
        /\ tree[f].kind = "elf" => Resolved(tree[f].sec) = Resolved(orig[f].sec)
        /\ tree[f].kind = "ar" =>
              \A m \in Range(tree[f].members) :
                  \E o \in Range(orig[f].members) :
                      o.name = m.name /\ Resolved(m.sec) = Resolved(o.sec)

(* main's docstring: "This should be idempotent."  Once a run has         *)
(* completed, running the tool again on OUT_DIR never raises and, when it *)
(* completes, leaves the tree and the copies as the first run left them.   *)
Idempotent ==
    first /= <<>> =>
        /\ phase /= "failed"
        /\ phase = "done" => <<tree, bc>> = first

(* fixup_ar rewrites an archive without losing or changing a member: the  *)
(* repacked archive holds the same members, by name and bitcode, as the    *)
(* original.                                                               *)
ArchiveMembersPreserved ==
    \A f \in DOMAIN tree :
        tree[f].kind = "ar" => MemberBag(tree[f].members) = MemberBag(orig[f].members)
====
