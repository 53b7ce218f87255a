-------------------------- MODULE MakeExternalList --------------------------
(***************************************************************************)
(* make-external-list (src/make-external-list/make_external_list).         *)
(*                                                                         *)
(* main() reads the object files and ar archives named on its command line *)
(* (the driver passes the crt objects, the libc assembly objects and       *)
(* compiler-rt), and prints, comma-separated, the global symbols they      *)
(* reference and none of them defines: the functions the specialization    *)
(* pass must not internalize.                                              *)
(*                                                                         *)
(* A file is a record.  An ELF object keeps its size, its string table (a  *)
(* function from st_name to name) and its symbol table; a symbol keeps     *)
(* st_name, the st_info byte and st_shndx.  An archive keeps the layout    *)
(* ar wrote: its size, the 60-byte header at each offset where one starts, *)
(* the offsets of "\n" padding bytes, and the data after each header.      *)
(* The fields `kind', `members', `sname' and `bind' say what a file, an    *)
(* archive or a symbol is; only the properties read them.                  *)
(***************************************************************************)
EXTENDS Integers, Sequences, SequencesExt

CONSTANTS
    Argvs,   \* the command lines main() may be given: sequences of files
    None

STB_GLOBAL == 1
SHN_UNDEF == 0
HeaderSize == 60

VARIABLES
    argv,      \* sys.argv[1:]
    argi,      \* the path symbols() is reading
    phase,     \* "open", "archive", "symbols", "done" or "failed" (raised)
    pos,       \* Archive.from_bytes's offset i
    files,     \* Archive.from_bytes's files
    strsec,    \* string_section is not None
    elves,     \* the ELF objects of the path whose symbols are still to come
    wanted,    \* find_unresolved's wanted, as its keys in insertion order
    defined,   \* find_unresolved's defined
    output     \* the names printed

vars == <<argv, argi, phase, pos, files, strsec, elves, wanted, defined, output>>

cur == argv[argi]

(* Archive.is_from_bytes and ELF.is_from_bytes: the leading magic bytes. *)
Archive_is_from_bytes(f) == f.magic = "!<arch>\n"
ELF_is_from_bytes(f) == f.magic = "ELF"   \* b"\x7fELF"

(* FileHeader.from_bytes(contents, offset): the header ar wrote there, or  *)
(* None where it raises: the header would run to the end of the contents,  *)
(* or the bytes there are no header (int() or the `\n check fails).        *)
FileHeader_from_bytes(ar, offset) ==
    IF offset + HeaderSize < ar.size /\ offset \in DOMAIN ar.hdr
    THEN ar.hdr[offset] ELSE None

(* Mutant: the padding byte checked but not skipped. *)
padded_end_noskip(end) == end

(* The offset of the next header: odd-sized data is followed by a "\n". *)
padded_end(end) == IF end % 2 /= 0 THEN end + 1 ELSE end

(* File.from_bytes's asserts: longer than the ELF header, 64-bit LE ELF. *)
ELF_from_bytes_ok(f) == ELF_is_from_bytes(f) /\ f.size > 64

(* Mutant: the type nibble read as the binding. *)
Symbol_binding_lownibble(info) == info % 16

(* Symbol.from_bytes: binding = (info & 0xF0) >> 4 of the st_info byte. *)
Symbol_binding(info) == info \div 16

(* ELF.string_from_section(symbol.name, symbol.strtab_index). *)
string_from_section(elf, n) == elf.strtab[n]

(* Mutant: wanted kept as a list, a name appended at every reference. *)
find_unresolved_step_list(elf, acc, sym) ==
    LET name == string_from_section(elf, sym.name)
    IN  IF Symbol_binding(sym.info) /= STB_GLOBAL THEN acc
        ELSE IF sym.shndx = SHN_UNDEF
             THEN [acc EXCEPT !.wanted = Append(@, name)]
             ELSE [acc EXCEPT !.defined = @ \cup {name}]

(* find_unresolved's loop body for one symbol, behind main()'s filter on *)
(* STB_GLOBAL.                                                            *)
find_unresolved_step(elf, acc, sym) ==
    LET name == string_from_section(elf, sym.name)
    IN  IF Symbol_binding(sym.info) /= STB_GLOBAL THEN acc
        ELSE IF sym.shndx = SHN_UNDEF
             THEN [acc EXCEPT !.wanted = IF name \in ToSet(@) THEN @ ELSE Append(@, name)]
             ELSE [acc EXCEPT !.defined = @ \cup {name}]

Fail ==
    /\ phase' = "failed"
    /\ UNCHANGED <<argv, argi, pos, files, strsec, elves, wanted, defined, output>>

(* symbols(path): an archive is parsed, an ELF file read whole; anything  *)
(* else raises "Could not recognize".                                      *)
OpenPath ==
    /\ phase = "open"
    /\ argi <= Len(argv)
    /\ CASE Archive_is_from_bytes(cur) ->
              /\ phase' = "archive"
              /\ pos' = 8
              /\ files' = <<>>
              /\ strsec' = FALSE
              /\ UNCHANGED <<argv, argi, elves, wanted, defined, output>>
         [] ELF_is_from_bytes(cur) /\ ELF_from_bytes_ok(cur) ->
              /\ phase' = "symbols"
              /\ elves' = <<cur>>
              /\ UNCHANGED <<argv, argi, pos, files, strsec, wanted, defined, output>>
         [] OTHER -> Fail

(* One iteration of Archive.from_bytes's loop: read the header, take the  *)
(* data, skip the padding byte after odd-sized data, and keep the member  *)
(* unless it is the symbol table "/" or the long-name table "//".         *)
ArchiveMember ==
    /\ phase = "archive"
    /\ pos < cur.size
    /\ LET h    == FileHeader_from_bytes(cur, pos)
           end  == pos + HeaderSize + h.size
       IN  IF \/ h = None
              \/ end % 2 /= 0 /\ end \notin cur.pad
              \/ h.ident = "//" /\ strsec
           THEN Fail
           ELSE /\ pos' = padded_end(end)
                /\ strsec' = (strsec \/ h.ident = "//")
                /\ files' = IF h.ident \in {"/", "//"} THEN files
                            ELSE Append(files, cur.data[pos + HeaderSize])
                /\ UNCHANGED <<argv, argi, phase, elves, wanted, defined, output>>

(* The loop is done: symbols() builds ELF.from_bytes of every member      *)
(* before the first symbol is read.                                        *)
ArchiveEnd ==
    /\ phase = "archive"
    /\ pos >= cur.size
    /\ IF \A k \in DOMAIN files : ELF_from_bytes_ok(files[k])
       THEN /\ phase' = "symbols"
            /\ elves' = files
            /\ UNCHANGED <<argv, argi, pos, files, strsec, wanted, defined, output>>
       ELSE Fail

(* find_unresolved consumes the symbols of the next ELF object. *)
ConsumeElf ==
    /\ phase = "symbols"
    /\ elves /= <<>>
    /\ LET r == FoldLeft(LAMBDA acc, sym : find_unresolved_step(Head(elves), acc, sym),
                         [wanted |-> wanted, defined |-> defined], Head(elves).symtab)
       IN  /\ wanted' = r.wanted
           /\ defined' = r.defined
    /\ elves' = Tail(elves)
    /\ UNCHANGED <<argv, argi, phase, pos, files, strsec, output>>

(* The path's symbols are exhausted: main()'s generator moves on. *)
NextPath ==
    /\ phase = "symbols"
    /\ elves = <<>>
    /\ argi' = argi + 1
    /\ phase' = "open"
    /\ UNCHANGED <<argv, pos, files, strsec, elves, wanted, defined, output>>

(* find_unresolved returns the wanted names no file defines, and main()   *)
(* prints them joined by commas.                                           *)
PrintList ==
    /\ phase = "open"
    /\ argi > Len(argv)
    /\ output' = SelectSeq(wanted, LAMBDA n : n \notin defined)
    /\ phase' = "done"
    /\ UNCHANGED <<argv, argi, pos, files, strsec, elves, wanted, defined>>

Init ==
    /\ argv \in Argvs
    /\ argi = 1
    /\ phase = "open"
    /\ pos = 0
    /\ files = <<>>
    /\ strsec = FALSE
    /\ elves = <<>>
    /\ wanted = <<>>
    /\ defined = {}
    /\ output = <<>>

Next == OpenPath \/ ArchiveMember \/ ArchiveEnd \/ ConsumeElf \/ NextPath \/ PrintList

Spec == Init /\ [][Next]_vars

-----------------------------------------------------------------------------
(* The state has its types; wanted, a dict, holds each name once. *)
TypeOK ==
    /\ phase \in {"open", "archive", "symbols", "done", "failed"}
    /\ argi \in 1..Len(argv) + 1
    /\ pos \in Nat
    /\ strsec \in BOOLEAN
    /\ IsInjective(wanted)
    /\ output \in Seq(ToSet(wanted))

(* The objects a file holds, as ar or the compiler wrote them. *)
Objects(f) == IF f.kind = "archive" THEN f.members ELSE <<f>>

Syms == UNION {ToSet(o.symtab) :
                   o \in {o \in UNION {ToSet(Objects(argv[i])) : i \in DOMAIN argv} :
                             o.kind = "object"}}

(* A file main() cannot read: neither an archive nor an ELF object, or an *)
(* archive with a member that is no ELF object.                            *)
Foreign(f) ==
    \/ f.kind \notin {"archive", "object"}
    \/ f.kind = "archive" /\ \E k \in DOMAIN f.members : f.members[k].kind /= "object"

(* The symbols the program must provide: referenced as global by one of  *)
(* the objects and defined as global by none.                              *)
Unresolved ==
    {s.sname : s \in {s \in Syms : s.bind = STB_GLOBAL /\ s.shndx = SHN_UNDEF}}
        \ {s.sname : s \in {s \in Syms : s.bind = STB_GLOBAL /\ s.shndx /= SHN_UNDEF}}

(* The printed list names each global symbol that the objects of every    *)
(* archive member and object file reference and none of them defines,     *)
(* once: Archive.from_bytes's offset walk reaches every member, and the   *)
(* st_info decoding and st_shndx test tell references from definitions.   *)
ExternalListExact ==
    phase = "done" => ToSet(output) = Unresolved /\ IsInjective(output)

(* main() raises exactly when a file is foreign: every archive ar writes,  *)
(* symbol and long-name tables and odd-sized members included, is parsed.  *)
RejectsExactlyForeign ==
    /\ phase = "failed" => \E i \in DOMAIN argv : Foreign(argv[i])
    /\ phase = "done" => \A i \in DOMAIN argv : ~Foreign(argv[i])
====
