------------------------------ MODULE MCCrack ------------------------------
(***************************************************************************)
(* Executable files for TLC, as a link editor lays them out: header,       *)
(* program headers, text, data, then what only section headers tell of,    *)
(* the section headers, and now and then more bytes behind them.           *)
(***************************************************************************)
EXTENDS Crack

Segment(type, offset, vaddr, filesz, memsz) ==
    [p_type |-> type, p_offset |-> offset, p_vaddr |-> vaddr,
     p_filesz |-> filesz, p_memsz |-> memsz]
Section(offset, size) == [sh_offset |-> offset, sh_size |-> size]

Executable(base, static, text, data, bss, syms, stripped, trailing) ==
    LET n      == IF static THEN 3 ELSE 4
        start  == EhdrSize + e_phentsize * n
        dataAt == start + text
        symsAt == dataAt + data
        phdrsz == e_phentsize * n
        shdrs  == IF stripped THEN <<>>
                  ELSE <<Section(0, 0), Section(start, text), Section(dataAt, data),
                         Section(symsAt, bss), Section(symsAt, syms)>>
        shoff  == symsAt + syms
    IN  [size    |-> (IF stripped THEN symsAt ELSE shoff + e_shentsize * 5) + trailing,
         e_entry |-> base + start,
         e_phoff |-> EhdrSize,
         e_shoff |-> IF stripped THEN 0 ELSE shoff,
         phdrs   |-> (IF static THEN <<>>
                      ELSE <<Segment("PHDR", EhdrSize, base + EhdrSize, phdrsz, phdrsz)>>)
                     \o <<Segment("LOAD", 0, base, dataAt, dataAt),
                          Segment("LOAD", dataAt, base + 2 * PageSize + dataAt, data, data + bss),
                          Segment("STACK", 0, 0, 0, 0)>>,
         shdrs   |-> shdrs]

(* Ends of text and data on either side of every boundary; a long file; one at a high address. *)
SomeFiles ==
    {Executable(64, static, text, data, bss, syms, stripped, trailing) :
        static \in BOOLEAN, text \in 1 .. 3, data \in {1, 2}, bss \in {0, 5, 40},
        syms \in {1, 6}, stripped \in BOOLEAN, trailing \in {0, 3, 60}}
    \cup {Executable(base, static, text, 2, 3, 3, FALSE, 0) :
             base \in {0, 64, 960}, static \in BOOLEAN, text \in {4, 50}}
=============================================================================
