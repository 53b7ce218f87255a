------------------------- MODULE MCMakeExternalList -------------------------
(***************************************************************************)
(* The files the driver hands make-external-list (drive.py's specialize): *)
(* crt objects, an archive of libc assembly objects with a symbol table    *)
(* and a long-name table, compiler-rt, and two files main() cannot read.  *)
(* Every command line of one to three distinct files is tried.            *)
(***************************************************************************)
EXTENDS MakeExternalList

\* The string table every object shares: st_name is the index of the name.
NameList == <<"", "crt1.c", "_start", "main", "__libc_start_main", "_init",
              "memcpy", "__set_thread_area", "errno_v", "__udivti3", "abort">>
Strtab == [i \in 0..Len(NameList) - 1 |-> NameList[i + 1]]
Idx(nm) == CHOOSE i \in DOMAIN Strtab : Strtab[i] = nm

\* st_info = (binding << 4) | type; st_shndx 0 is SHN_UNDEF, 0xFFF1 SHN_ABS,
\* 0xFFF2 SHN_COMMON.
Sym(nm, bind, type, shndx) ==
    [name |-> Idx(nm), info |-> bind * 16 + type, shndx |-> shndx,
     sname |-> nm, bind |-> bind]

\* Every symbol table starts with the null symbol.
Obj(size, syms) ==
    [magic |-> "ELF", kind |-> "object", size |-> size, strtab |-> Strtab,
     symtab |-> <<Sym("", 0, 0, 0)>> \o syms]

\* Data that is not an ELF object: ar's symbol index, its long-name table,
\* an empty file, a linker script.
Blob(kind, size) == [magic |-> "", kind |-> kind, size |-> size]

Entry(ident, data) == [ident |-> ident, data |-> data]

\* GNU ar's layout from offset off: per entry a 60-byte header, the data,
\* and a "\n" after data of odd size.
RECURSIVE Layout(_, _)
Layout(es, off) ==
    IF es = <<>> THEN [size |-> off, hdr |-> <<>>, pad |-> {}, data |-> <<>>]
    ELSE LET e    == Head(es)
             end  == off + HeaderSize + e.data.size
             odd  == end % 2 /= 0
             rest == Layout(Tail(es), IF odd THEN end + 1 ELSE end)
         IN  [size |-> rest.size,
              hdr  |-> (off :> [ident |-> e.ident, size |-> e.data.size]) @@ rest.hdr,
              pad  |-> IF odd THEN {end} \cup rest.pad ELSE rest.pad,
              data |-> (off + HeaderSize :> e.data) @@ rest.data]

\* An archive: the 8-byte "!<arch>\n" magic, then the entries.
Ar(es) ==
    LET l == Layout(es, 8)
    IN  [magic |-> "!<arch>\n", kind |-> "archive", size |-> l.size,
         hdr |-> l.hdr, pad |-> l.pad, data |-> l.data,
         members |-> [k \in 1..Len(SelectSeq(es, LAMBDA e : e.ident \notin {"/", "//"})) |->
                        SelectSeq(es, LAMBDA e : e.ident \notin {"/", "//"})[k].data]]

Crt1 == Obj(1201, <<Sym("crt1.c", 0, 4, 65521), Sym("_start", 1, 2, 1),
                    Sym("main", 1, 0, 0), Sym("__libc_start_main", 1, 0, 0),
                    Sym("_init", 2, 0, 0)>>)
Crti == Obj(800, <<Sym("_init", 1, 2, 1)>>)

AsmObjects ==
    Ar(<<Entry("/", Blob("symtab", 33)),
         Entry("//", Blob("names", 42)),
         Entry("/0", Obj(901, <<Sym("memcpy", 1, 2, 1)>>)),
         Entry("tls.o/", Obj(1001, <<Sym("__set_thread_area", 1, 2, 1),
                                     Sym("errno_v", 1, 1, 65522),
                                     Sym("__libc_start_main", 1, 0, 0)>>))>>)

CompilerRt ==
    Ar(<<Entry("udivti3.o/", Obj(700, <<Sym("__udivti3", 1, 2, 1),
                                       Sym("abort", 1, 0, 0),
                                       Sym("memcpy", 1, 0, 0)>>))>>)

\* Archives with an empty member inside and at the end, and a linker script.
WithEmpty ==
    Ar(<<Entry("memcpy.o/", Obj(901, <<Sym("memcpy", 1, 2, 1)>>)),
         Entry("empty.o/", Blob("empty", 0)),
         Entry("abort.o/", Obj(600, <<Sym("abort", 1, 2, 1)>>))>>)
EmptyLast == Ar(<<Entry("empty.o/", Blob("empty", 0))>>)
Script == Blob("script", 40)

Pool == {Crt1, Crti, AsmObjects, CompilerRt, WithEmpty, EmptyLast, Script}

MCArgvs == {s \in UNION {[1..n -> Pool] : n \in 1..3} : IsInjective(s)}
====
