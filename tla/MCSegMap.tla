------------------------------ MODULE MCSegMap ------------------------------
(***************************************************************************)
(* Instances of SegMap for TLC: pages of four bytes, a text segment with   *)
(* the headers, a segment in the middle or none, and a data segment with   *)
(* zeros behind it, of several sizes and at several offsets in a page.      *)
(***************************************************************************)
EXTENDS SegMap

Load(vaddr, offset, filesz, memsz, flags) ==
    [p_vaddr |-> vaddr, p_offset |-> offset, p_filesz |-> filesz, p_memsz |-> memsz,
     p_align |-> 4, p_flags |-> flags]

Texts == {Load(0, 0, n, n, {"R", "X"}) : n \in {3, 6}}
         \cup {Load(0, 0, 5, m, {"R"}) : m \in {8, 9}}

(* At page 3: a segment of the second page of the file, or no segment. *)
Middles ==
    {<<>>} \cup {<<Load(12 + off, 4 + off, n, n + z, flags)>> :
                    off \in 0 .. 1, n \in {0, 3}, z \in {0, 3}, flags \in {{"R"}, {"R", "W"}}}

(* At page 5; the last two are no sound headers. *)
Datas == {Load(20 + off, 8 + off, n, n + z, {"R", "W"}) :
             off \in {0, 3}, n \in {0, 1, 4}, z \in {0, 1, 6}}
         \cup {[Load(20, 9, 1, 1, {"R"}) EXCEPT !.p_align = al] : al \in {2, 4}}

(* Executables have a PT_PHDR, shared objects need not. *)
HeadersOf(type, pt_phdr) ==
    {[e_type |-> type, load |-> <<t>> \o m \o <<d>>, e_phoff |-> 1, phdrs |-> 2,
      pt_phdr |-> pt_phdr] :
        t \in Texts, m \in Middles, d \in Datas}

(* The last one is no executable and no shared object. *)
AllHeaders ==
    HeadersOf("DYN", 0) \cup HeadersOf("EXEC", 1)
    \cup {[e_type |-> "REL", load |-> <<Load(0, 0, 3, 3, {"R"})>>, e_phoff |-> 1,
            phdrs |-> 2, pt_phdr |-> 0]}
=============================================================================
