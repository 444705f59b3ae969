------------------------------ MODULE MCReloc -------------------------------
(***************************************************************************)
(* Instances of Reloc for TLC: a program and two libraries, with or        *)
(* without rtld.so in front of them, which define and use a variable x and *)
(* functions f and g in every combination.                                 *)
(***************************************************************************)
EXTENDS Reloc, SequencesExt

(***************************************************************************)
(* Offsets in an object: x at 1 (and 2), its pointer to x at 3, a table    *)
(* with the address of f at 4, the PLT words of f and g at 5 and 6, the    *)
(* code of f and g at 7 and 8.                                             *)
(***************************************************************************)
Entry(type, offset, sym, addend) ==
    [type |-> type, offset |-> offset, sym |-> sym, addend |-> addend]

Relative == Entry("RELATIVE", 1, "x", 8)
Copy     == Entry("COPY", 1, "x", 0)
GlobDat  == Entry("GLOB_DAT", 3, "x", 0)
Table64  == Entry("64", 4, "f", 0)
Inside64 == Entry("64", 4, "f", 2)
Other    == Entry("other", 4, "f", 0)
SlotF    == Entry("JUMP_SLOT", 5, "f", 0)
SlotG    == Entry("JUMP_SLOT", 6, "g", 0)

(* Before relocation: x is 70, 71 where it is no relocation's business; the PLT follows the code. *)
Words(init) == [off \in 1 .. 8 |->
    CASE off = 1 -> init [] off = 2 -> 71 [] off = 5 -> 10 [] off = 6 -> 11 [] OTHER -> 0]

Defs(names) ==
    [n \in {"x", "f", "g"} |->
        IF n \notin names THEN 0 ELSE CASE n = "x" -> 1 [] n = "f" -> 7 [] n = "g" -> 8]

Object(names, init, rel, plt) ==
    [l_addr |-> 0, image |-> Words(init), defs |-> Defs(names), rela |-> rel,
     jmprel |-> plt, pltgot |-> plt # <<>>, hash |-> TRUE, tables |-> TRUE]

(* A program has a copy of x, to be filled, or a pointer to x, or no x. *)
ProgramObjects ==
    {[Object({"x"} \cup names, 0, <<Copy>> \o rel, plt) EXCEPT !.image[2] = 0] :
        names \in {{}, {"f"}}, rel \in {<<>>, <<Table64>>}, plt \in {<<SlotF>>, <<SlotF, SlotG>>}}
    \cup {Object(names, 70, rel, <<SlotG>>) : names \in {{}, {"f"}}, rel \in {<<>>, <<GlobDat>>}}

(***************************************************************************)
(* In one kind of library x holds an address, in the other a number.  Link *)
(* editors differ: some leave a word of a RELATIVE entry 0, some put the   *)
(* addend there too.  The address in the table is that of f or of a place  *)
(* inside it.                                                              *)
(***************************************************************************)
PointerLibraries ==
    {Object({"x"} \cup names, init, <<Relative, GlobDat, entry>>, <<SlotG, SlotF>>) :
        names \in {{}, {"f", "g"}}, init \in {0, Relative.addend}, entry \in {Table64, Inside64}}
    \cup {Object({"x"} \cup names, 0, <<Relative, GlobDat, Table64>>, <<SlotG, SlotF>>) :
             names \in {{"f"}, {"g"}}}
NumberLibraries ==
    {Object(names, 70, <<GlobDat>>, <<SlotF>>) : names \in SUBSET {"x", "f", "g"}}
    \cup {Object({"f", "g"}, 70, <<>>, <<>>)}
LibraryObjects == PointerLibraries \cup NumberLibraries

(* Objects the linker gives up on: an unknown type, no DT_HASH, no DT_SYMTAB. *)
BadObjects ==
    {Object({}, 0, <<Other>>, <<>>),
     [Object({"g"}, 0, <<>>, <<SlotF>>) EXCEPT !.hash = FALSE],
     [Object({}, 0, <<>>, <<>>) EXCEPT !.tables = FALSE],
     [Object({}, 0, <<>>, <<SlotF>>) EXCEPT !.tables = FALSE]}

RtldObject == Object({}, 0, <<Relative>>, <<>>)

(* Object i of a namespace is mapped at 100 * i. *)
Mapped(ns) == [i \in DOMAIN ns |-> [ns[i] EXCEPT !.l_addr = 100 * i]]

AllNamespaces ==
    {Mapped(front \o <<p, a, b>>) :
        front \in {<<>>, <<RtldObject>>}, p \in ProgramObjects, a \in LibraryObjects,
        b \in BadObjects \cup LibraryObjects}

WideNamespaces ==
    {Mapped(<<p, a>>) : p \in ProgramObjects, a \in LibraryObjects}

OneWord == [n \in {"x", "f", "g"} |-> 1]
TwoWords == [OneWord EXCEPT !["x"] = 2]

(* These objects are what link editors make. *)
ASSUME Conventions == PointersEmpty /\ CopyInFront
=============================================================================
