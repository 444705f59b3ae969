-------------------------------- MODULE Crack --------------------------------
(***************************************************************************)
(* elf-clack/crack: a copy of an executable file with one more segment,    *)
(* which is entered first, prints a message and goes on at the program's   *)
(* own entry point (crack.c, with startup and emalloc of utils.c and       *)
(* analyze of analyze.c).                                                  *)
(*                                                                         *)
(* The new file is a shared mapping that is filled by memcpys that overlap *)
(* on purpose, so the model keeps it byte by byte: a byte is the place it  *)
(* was copied from.  "old" bytes come from the private mapping of the      *)
(* input, in which crack changes the ELF header and the PT_PHDR entry;     *)
(* "seg" and "phdr" bytes from the new segment and its header; "heap" is   *)
(* what follows the new segment in the memory of crack itself; "zero" is   *)
(* what ftruncate leaves.  What the headers say when they are copied is    *)
(* kept in result.  What is printed, and the names and segments that       *)
(* analyze finds for the sections in order to print them, are left out.    *)
(*                                                                         *)
(* A definition X_Something before a definition X is not part of the       *)
(* specification: it is what X would be with a plausible mistake, kept to  *)
(* show that the properties notice it.                                     *)
(***************************************************************************)
EXTENDS Integers, Sequences

CONSTANTS
    EhdrSize,     \* sizeof (Elf64_Ehdr), 64
    e_phentsize,  \* 56
    e_shentsize,  \* 64
    SegmentSize,  \* new_size of main, 1024
    MessageSize,  \* sizeof (MESSAGE), 13
    Gap,          \* 0x200, the unit to which the new segment's offset is rounded
    Align,        \* 0x200000, its alignment in memory
    PageSize,     \* 4096
    Half,         \* 2^31: the operand of a mov is sign-extended from here
    Files         \* the input files under consideration

Phdr == [p_type : {"LOAD", "PHDR", "STACK", "other"},
         p_offset : Nat, p_vaddr : Nat, p_filesz : Nat, p_memsz : Nat]
Shdr == [sh_offset : Nat, sh_size : Nat]

(***************************************************************************)
(* A file: its size, what its header says, its program headers, of which   *)
(* one segment holds the entry point and at most one is of the type PHDR,  *)
(* and its section headers.                                                *)
(***************************************************************************)
IsFile(f) ==
    /\ f.phdrs \in Seq(Phdr) /\ f.shdrs \in Seq(Shdr)
    /\ f.size \in Nat /\ f.e_entry \in Nat /\ f.e_phoff \in Nat /\ f.e_shoff \in Nat
    /\ \E i \in DOMAIN f.phdrs :
          f.e_entry \in f.phdrs[i].p_vaddr .. f.phdrs[i].p_vaddr + f.phdrs[i].p_memsz - 1
    /\ \A i, j \in DOMAIN f.phdrs :
          f.phdrs[i].p_type = "PHDR" /\ f.phdrs[j].p_type = "PHDR" => i = j
    /\ \A i \in DOMAIN f.phdrs : f.phdrs[i].p_offset + f.phdrs[i].p_filesz <= f.size
    /\ f.e_phoff >= EhdrSize
    /\ f.e_phoff + e_phentsize * Len(f.phdrs) <= f.size
    /\ f.shdrs = <<>> \/ f.e_shoff + e_shentsize * Len(f.shdrs) <= f.size

ASSUME CrackAssumption ==
    /\ \A n \in {EhdrSize, e_phentsize, e_shentsize, SegmentSize, MessageSize, Gap,
                 PageSize, Align, Half} : n \in Nat \ {0}
    /\ MessageSize < SegmentSize /\ EhdrSize <= Gap
    /\ Align % PageSize = 0 /\ PageSize % Gap = 0
    /\ \A f \in Files : IsFile(f)

VARIABLES
    file,    \* the input
    pc,      \* the next step, "done", "exited", "killed" (by a signal) or "overrun"
    ehdr,    \* the ELF header in the private mapping
    phdrs,   \* the program headers there
    newseg,  \* the header of the new segment
    code,    \* the addresses the new code is given: of _start and of the message
    out,     \* the bytes of the new file
    result   \* the headers as they are in the new file

vars == <<file, pc, ehdr, phdrs, newseg, code, out, result>>

RoundUp(n, unit) == n + ((-n) % unit)
(* The tool always moves on, even from a multiple. *)
NextMultiple(n, unit) == n + unit - (n % unit)

Largest(S) == CHOOSE n \in S : \A m \in S : m <= n

(* The size of the table of section headers. *)
ShdrSize == e_shentsize * Len(file.shdrs)

Init ==
    /\ file \in Files
    /\ pc = "startup"
    /\ ehdr = [e_entry |-> file.e_entry, e_phoff |-> file.e_phoff,
               e_phnum |-> Len(file.phdrs), e_shoff |-> file.e_shoff]
    /\ phdrs = file.phdrs
    /\ newseg = <<>>
    /\ code = <<>>
    /\ out = <<>>
    /\ result = [ehdr |-> <<>>, phdrs |-> <<>>, newseg |-> <<>>]

-----------------------------------------------------------------------------

(* startup: open, fstat and mmap, each of which may fail. *)
startup ==
    /\ pc = "startup"
    /\ pc' \in {"add_new_segment", "exited"}
    /\ UNCHANGED <<file, ehdr, phdrs, newseg, code, out, result>>

(***************************************************************************)
(* add_new_segment: behind every segment and section of the file, and      *)
(* behind every segment in memory.  emalloc may fail.                      *)
(***************************************************************************)
new_addr == Largest({0} \cup {phdrs[i].p_vaddr + phdrs[i].p_memsz : i \in DOMAIN phdrs})

new_offset_SegmentsOnly ==
    Largest({0} \cup {phdrs[i].p_offset + phdrs[i].p_filesz : i \in DOMAIN phdrs})
new_offset ==
    Largest({0} \cup {phdrs[i].p_offset + phdrs[i].p_filesz : i \in DOMAIN phdrs}
                \cup {file.shdrs[i].sh_offset + file.shdrs[i].sh_size : i \in DOMAIN file.shdrs})

new_vaddr_NotAligned == new_addr + NextMultiple(new_offset, Gap)
new_vaddr == NextMultiple(new_addr, Align) + NextMultiple(new_offset, Gap)

add_new_segment ==
    /\ pc = "add_new_segment"
    /\ \/ /\ newseg' = [p_type |-> "LOAD",
                        p_offset |-> NextMultiple(new_offset, Gap),
                        p_vaddr  |-> new_vaddr,
                        p_filesz |-> SegmentSize,
                        p_memsz  |-> SegmentSize]
          /\ ehdr' = [ehdr EXCEPT !.e_phnum = @ + 1]
          /\ pc' = "do_crack"
       \/ /\ pc' = "exited"
          /\ UNCHANGED <<newseg, ehdr>>
    /\ UNCHANGED <<file, phdrs, code, out, result>>

(* The value a mov instruction loads from the 32 bits of its operand. *)
Operand(n) == ((n + Half) % (2 * Half)) - Half

(***************************************************************************)
(* do_crack: the code in the new segment gets the address of the message,  *)
(* which is at the end of the segment, and the address to go on at; then   *)
(* the file is entered at the new segment.                                 *)
(***************************************************************************)
do_crack_EntryFirst ==
    /\ pc = "do_crack"
    /\ code' = [start   |-> Operand(newseg.p_vaddr),
                message |-> Operand(newseg.p_vaddr + newseg.p_filesz - MessageSize)]
    /\ ehdr' = [ehdr EXCEPT !.e_entry = newseg.p_vaddr]
    /\ pc' = "create_exe"
    /\ UNCHANGED <<file, phdrs, newseg, out, result>>
do_crack ==
    /\ pc = "do_crack"
    /\ code' = [start   |-> Operand(ehdr.e_entry),
                message |-> Operand(newseg.p_vaddr + newseg.p_filesz - MessageSize)]
    /\ ehdr' = [ehdr EXCEPT !.e_entry = newseg.p_vaddr]
    /\ pc' = "create_exe"
    /\ UNCHANGED <<file, phdrs, newseg, out, result>>

(***************************************************************************)
(* create_exe: open, ftruncate and mmap of the new file; a failure of one  *)
(* of them ends the work, with no file, an empty one or one of zeros.      *)
(***************************************************************************)
length ==
    newseg.p_offset + newseg.p_filesz
        + ShdrSize + e_phentsize * ehdr.e_phnum + e_shentsize

Zeros == [o \in 0 .. length - 1 |-> <<"zero", 0>>]

create_exe ==
    /\ pc = "create_exe"
    /\ \/ pc' = "dump_elf" /\ out' = Zeros
       \/ pc' = "done" /\ out' \in {<<>>, Zeros}
    /\ UNCHANGED <<file, ehdr, phdrs, newseg, code, result>>

-----------------------------------------------------------------------------
(***************************************************************************)
(* dump_elf.  First the header is made to point to the new places of the   *)
(* tables, and so is the PT_PHDR entry, if there is one.  phdr_addr and    *)
(* shdr_addr, saved before, are where file says.                           *)
(***************************************************************************)
phoff_BeforeShdr == newseg.p_offset + newseg.p_filesz
phoff == newseg.p_offset + newseg.p_filesz + ShdrSize

PhdrEntry(phdr) ==
    [phdr EXCEPT !.p_vaddr  = newseg.p_vaddr - newseg.p_offset + (phoff % Align),
                 !.p_filesz = e_phentsize * ehdr.e_phnum,
                 !.p_memsz  = e_phentsize * ehdr.e_phnum,
                 !.p_offset = phoff]

(* find_segment_by_type: the first of the list. *)
IsFirst(i, type) ==
    phdrs[i].p_type = type /\ \A j \in 1 .. i - 1 : phdrs[j].p_type # type

dump_elf ==
    /\ pc = "dump_elf"
    /\ ehdr' = [ehdr EXCEPT !.e_shoff = newseg.p_offset + newseg.p_filesz, !.e_phoff = phoff]
    /\ phdrs' = [i \in DOMAIN phdrs |->
                    IF IsFirst(i, "PHDR") THEN PhdrEntry(phdrs[i]) ELSE phdrs[i]]
    /\ pc' = "copy old"
    /\ UNCHANGED <<file, newseg, code, out, result>>

(***************************************************************************)
(* memcpy to the shared mapping.  What goes behind the end of the file is  *)
(* lost in its last page.  Behind that page it kills the process, or it    *)
(* overwrites what is mapped there, as a rule the private mapping of the   *)
(* input that is being copied: "overrun", after which nothing is known of  *)
(* the headers the next steps go by, and the model says no more.           *)
(***************************************************************************)
Byte(mem, k) == IF mem = "seg" /\ k >= SegmentSize THEN <<"heap", 0>> ELSE <<mem, k>>

(* size bytes of mem, from the byte k on, are copied to dst. *)
Copied(dst, mem, k, size) ==
    [o \in DOMAIN out |-> IF dst <= o /\ o < dst + size THEN Byte(mem, k + o - dst) ELSE out[o]]

CopyOld ==
    /\ pc = "copy old"
    /\ IF file.size <= RoundUp(length, PageSize)
       THEN /\ out' = Copied(0, "old", 0, file.size)
            /\ result' = [result EXCEPT !.ehdr = ehdr]
            /\ pc' = "newseg"
       ELSE /\ pc' \in {"killed", "overrun"}
            /\ UNCHANGED <<out, result>>
    /\ UNCHANGED <<file, ehdr, phdrs, newseg, code>>

(* The new segment grows, to map the tables too, and is copied as if they were in it. *)
CopyNewseg ==
    /\ pc = "newseg"
    /\ LET total == newseg.p_filesz + e_phentsize * ehdr.e_phnum + ShdrSize IN
          /\ newseg' = [newseg EXCEPT !.p_filesz = total, !.p_memsz = total]
          /\ out' = Copied(newseg.p_offset, "seg", 0, total)
    /\ pc' = "new EHDR"
    /\ UNCHANGED <<file, ehdr, phdrs, code, result>>

CopyEhdr ==
    /\ pc = "new EHDR"
    /\ out' = Copied(0, "old", 0, EhdrSize)
    /\ result' = [result EXCEPT !.ehdr = ehdr]
    /\ pc' = "move SHDR"
    /\ UNCHANGED <<file, ehdr, phdrs, newseg, code>>

MoveShdr ==
    /\ pc = "move SHDR"
    /\ out' = Copied(ehdr.e_shoff, "old", file.e_shoff, ShdrSize)
    /\ pc' = "move PHDR"
    /\ UNCHANGED <<file, ehdr, phdrs, newseg, code, result>>

MovePhdr ==
    /\ pc = "move PHDR"
    /\ out' = Copied(ehdr.e_phoff, "old", file.e_phoff, e_phentsize * (ehdr.e_phnum - 1))
    /\ result' = [result EXCEPT !.phdrs = phdrs]
    /\ pc' = "newseg's PHDR"
    /\ UNCHANGED <<file, ehdr, phdrs, newseg, code>>

CopyNewsegPhdr ==
    /\ pc = "newseg's PHDR"
    /\ out' = Copied(ehdr.e_phoff + e_phentsize * (ehdr.e_phnum - 1), "phdr", 0, e_phentsize)
    /\ result' = [result EXCEPT !.newseg = newseg]
    /\ pc' = "done"
    /\ UNCHANGED <<file, ehdr, phdrs, newseg, code>>

(* main returns after endup, or the process is gone, or out of the model's sight. *)
Ended == pc \in {"done", "exited", "killed", "overrun"} /\ UNCHANGED vars

Next ==
    \/ startup \/ add_new_segment \/ do_crack \/ create_exe
    \/ dump_elf \/ CopyOld \/ CopyNewseg \/ CopyEhdr
    \/ MoveShdr \/ MovePhdr \/ CopyNewsegPhdr
    \/ Ended

Spec == Init /\ [][Next]_vars

-----------------------------------------------------------------------------

(* The file is complete. *)
Complete == result.newseg # <<>>

Covers(start, size, o) == start <= o /\ o < start + size

(* The bytes of the input that some segment or section has. *)
InUse(o) ==
    \/ \E i \in DOMAIN file.phdrs : Covers(file.phdrs[i].p_offset, file.phdrs[i].p_filesz, o)
    \/ \E i \in DOMAIN file.shdrs : Covers(file.shdrs[i].sh_offset, file.shdrs[i].sh_size, o)

(***************************************************************************)
(* "Original Segments & Sections" stay where they are: neither the new     *)
(* segment nor the moved tables are written over them, wherever the file   *)
(* has its sections and its tables.                                        *)
(***************************************************************************)
ContentsKept ==
    Complete => \A o \in 0 .. file.size - 1 : InUse(o) => out[o] = <<"old", o>>

(***************************************************************************)
(* The layout dump_elf draws: where the new header says, the file has the  *)
(* section headers, the program headers and the new one behind them, none  *)
(* of them cut off, and the new segment is whole.  The bytes that were     *)
(* read from behind the new segment in crack's own memory are all gone.    *)
(***************************************************************************)
TablesMoved ==
    Complete =>
        LET h == result.ehdr
            last == h.e_phoff + e_phentsize * Len(file.phdrs)
            Has(start, size, src(_)) ==
                \A k \in 0 .. size - 1 : start + k \in DOMAIN out /\ out[start + k] = src(k)
        IN  /\ h.e_phnum = Len(file.phdrs) + 1
            /\ Has(h.e_shoff, ShdrSize, LAMBDA k : <<"old", file.e_shoff + k>>)
            /\ Has(h.e_phoff, e_phentsize * Len(file.phdrs), LAMBDA k : <<"old", file.e_phoff + k>>)
            /\ Has(last, e_phentsize, LAMBDA k : <<"phdr", k>>)
            /\ Has(result.newseg.p_offset, SegmentSize, LAMBDA k : <<"seg", k>>)
            /\ \A o \in DOMAIN out : out[o] # <<"heap", 0>>

PagesOf(p) == p.p_vaddr \div PageSize .. (p.p_vaddr + p.p_memsz - 1) \div PageSize

(***************************************************************************)
(* The new file can be mapped: the new segment, grown to hold the tables,  *)
(* is at an address that goes with its offset and shares no page with the  *)
(* others, and PT_PHDR gives the address at which it maps the program      *)
(* headers (as long as they are in the first Align bytes of the file: the  *)
(* remainder that is taken of their offset is wrong behind them).          *)
(***************************************************************************)
LoadedApart ==
    Complete =>
        LET new == result.newseg
            h   == result.ehdr
        IN  /\ new.p_vaddr % Align = new.p_offset % Align
            /\ \A i \in DOMAIN result.phdrs :
                  result.phdrs[i].p_type = "LOAD" => PagesOf(result.phdrs[i]) \cap PagesOf(new) = {}
            /\ h.e_phoff + e_phentsize * h.e_phnum <= new.p_offset + new.p_filesz
            /\ \A i \in DOMAIN result.phdrs :
                  (result.phdrs[i].p_type = "PHDR" /\ h.e_phoff < Align) =>
                      result.phdrs[i].p_vaddr = new.p_vaddr + (h.e_phoff - new.p_offset)

(***************************************************************************)
(* The new code is chained in front of the program: the new file is        *)
(* entered at the new segment, the address its code jumps to is the entry  *)
(* point of the input, and the address its code writes from is that of the *)
(* bytes do_crack put at the end of the segment, although the segment has  *)
(* grown since (for addresses below 2^31, that a mov can load).            *)
(*                                                                         *)
(* This is about the file and not about the run of the program behind the  *)
(* jump.  The tool's README says that only "mini" can be cracked and run,  *)
(* and that cracked programs with the C library cannot run: those look at  *)
(* what the kernel hands them (the address of the moved program headers    *)
(* among it), which is outside this module.                                *)
(***************************************************************************)
EntryChained ==
    (Complete /\ result.newseg.p_vaddr + SegmentSize < Half) =>
        LET new == result.newseg
            at  == code.message - new.p_vaddr + new.p_offset
        IN  /\ result.ehdr.e_entry = new.p_vaddr
            /\ code.start = file.e_entry
            /\ \A k \in 0 .. MessageSize - 1 :
                  out[at + k] = <<"seg", SegmentSize - MessageSize + k>>
=============================================================================
