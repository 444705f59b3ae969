------------------------------- MODULE SegMap -------------------------------
(***************************************************************************)
(* How rtld.so maps the segments of one object: map_object_fd, parse_phdr  *)
(* and map_object_loadcmd (elf-loader/rtld/load.c).                        *)
(*                                                                         *)
(* A shared object (ET_DYN) is first mapped whole, from offset 0 of the    *)
(* file and with the protection of its first segment, wherever the kernel  *)
(* likes; holes between segments lose all access; then every segment but   *)
(* the first is mapped over that.  An executable (ET_EXEC) has all its     *)
(* segments mapped where they want to be.  Behind the file's bytes of a    *)
(* segment its last page is cleared, and pages of zeros follow.            *)
(*                                                                         *)
(* Memory is modelled byte by byte: a byte is the byte of the file at some *)
(* offset, or zero.                                                        *)
(*                                                                         *)
(* A definition X_Something before a definition X is not part of the       *)
(* specification: it is what X would be with a plausible mistake, kept to  *)
(* show that the properties notice it.                                     *)
(***************************************************************************)
EXTENDS Integers, Sequences

CONSTANTS
    PageSize,    \* GLRO(dl_pagesize)
    FileSize,    \* the length of the file
    Limit,       \* bound: addresses are below this
    Headers,     \* the ELF headers under consideration
    Bases,       \* the addresses mmap may choose for a shared object
    Outcomes     \* whether mmap with a fixed address succeeds: may hold FALSE

Flag == {"R", "W", "X"}
Segment == [p_vaddr : Nat, p_offset : Nat, p_filesz : Nat, p_memsz : Nat,
            p_align : Nat \ {0}, p_flags : SUBSET Flag]
Header == [e_type : {"DYN", "EXEC", "REL"}, load : Seq(Segment), e_phoff : Nat, phdrs : Nat,
           pt_phdr : Nat]  \* the address in PT_PHDR, 0 without one

PageDown(a) == a - (a % PageSize)
PageUp(a) == PageDown(a + PageSize - 1)

(***************************************************************************)
(* What a link editor takes care of: a segment has room for its bytes of   *)
(* the file, segments are in the order of their addresses and share no     *)
(* page, and the first one holds the program headers, behind the ELF       *)
(* header.  A shared object is mapped from offset 0 of the file, so its    *)
(* first segment has to begin in the first page of the file.               *)
(***************************************************************************)
WellFormed(h) ==
    LET first == h.load[1] IN
    /\ Len(h.load) > 0
    /\ \A i \in DOMAIN h.load : h.load[i].p_filesz <= h.load[i].p_memsz
    /\ \A i, j \in DOMAIN h.load :
          i < j => PageUp(h.load[i].p_vaddr + h.load[i].p_memsz) <= PageDown(h.load[j].p_vaddr)
    /\ h.e_type = "DYN" => first.p_offset < PageSize
    /\ first.p_offset < h.e_phoff /\ h.e_phoff + h.phdrs <= first.p_offset + first.p_filesz
    /\ h.pt_phdr \in {0, first.p_vaddr + (h.e_phoff - first.p_offset)}

(* The object ends below Limit if it is mapped at base. *)
Fits(h, base) ==
    LET last == h.load[Len(h.load)] IN
    (base - PageDown(h.load[1].p_vaddr)) + last.p_vaddr + last.p_memsz <= Limit

ASSUME SegMapAssumption ==
    /\ PageSize \in Nat \ {0}
    /\ FileSize \in Nat /\ Limit \in Nat
    /\ Headers \subseteq Header
    /\ \A h \in Headers : WellFormed(h)
    /\ \A b \in Bases : b \in Nat /\ b % PageSize = 0
    /\ \A h \in Headers : \A b \in Bases \cup {PageDown(h.load[1].p_vaddr)} : Fits(h, b)
    /\ Outcomes \subseteq BOOLEAN

Address == 0 .. Limit - 1

(* A byte: not mapped, beyond the end of the file, zero, or of the file at offset n - 1. *)
Unmapped == -1
BeyondFile == -2
Zero == 0
FileByte(offset) ==
    IF offset < FileSize THEN offset + 1
    ELSE IF offset < PageUp(FileSize) THEN Zero ELSE BeyondFile

VARIABLES
    header,      \* the headers read from the file
    pc,          \* "read", "map" (in map_object_loadcmd), "done", "dead", "crashed"
    c,           \* the loadcmd map_object_loadcmd is at
    byte,        \* memory
    prot,        \* the protection of each byte's page
    refused,     \* whether mmap has failed (history)
    l_addr, l_map_start, l_map_end, l_contiguous, l_text_end, l_phdr

vars == <<header, pc, c, byte, prot, refused, l_addr, l_map_start, l_map_end,
          l_contiguous, l_text_end, l_phdr>>

Init ==
    /\ header \in Headers
    /\ pc = "read"
    /\ c = 1
    /\ byte = [a \in Address |-> Unmapped]
    /\ prot = [a \in Address |-> {}]
    /\ refused = FALSE
    /\ l_addr = 0
    /\ l_map_start = Limit  \* ~0: behind every address
    /\ l_map_end = 0
    /\ l_contiguous = FALSE
    /\ l_text_end = 0
    /\ l_phdr = 0

-----------------------------------------------------------------------------
(***************************************************************************)
(* parse_phdr: the loadcmd of a PT_LOAD header, what it asserts of one,    *)
(* and whether there are holes.                                            *)
(***************************************************************************)
loadcmd(ph) ==
    [mapstart |-> PageDown(ph.p_vaddr), mapend |-> PageUp(ph.p_vaddr + ph.p_filesz),
     dataend  |-> ph.p_vaddr + ph.p_filesz, allocend |-> ph.p_vaddr + ph.p_memsz,
     mapoff   |-> PageDown(ph.p_offset), prot |-> ph.p_flags]

Sound(ph) ==
    /\ ph.p_align % PageSize = 0
    /\ (ph.p_vaddr - ph.p_offset) % ph.p_align = 0

loadcmds == [i \in DOMAIN header.load |-> loadcmd(header.load[i])]
Last == loadcmds[Len(loadcmds)]

has_holes_Ignored == FALSE
has_holes == \E i \in 2 .. Len(loadcmds) : loadcmds[i - 1].mapend # loadcmds[i].mapstart

maplength == Last.allocend - loadcmds[1].mapstart

(* mmap and mprotect act on whole pages. *)
InPages(a, start, end) == PageDown(start) <= a /\ a < PageUp(end)

-----------------------------------------------------------------------------

(* "Unsupported ELF type", or an assertion of parse_phdr that does not hold. *)
Rejected ==
    /\ pc = "read"
    /\ \/ header.e_type \notin {"DYN", "EXEC"}
       \/ \E i \in DOMAIN header.load : ~Sound(header.load[i])
    /\ pc' = "dead"
    /\ UNCHANGED <<header, c, byte, prot, refused, l_addr, l_map_start, l_map_end,
                   l_contiguous, l_text_end, l_phdr>>

(* map_object_fd for a shared object that the kernel maps at base. *)
MapWhole(base) ==
    /\ pc = "read"
    /\ header.e_type = "DYN"
    /\ \A i \in DOMAIN header.load : Sound(header.load[i])
    /\ l_map_start' = base
    /\ l_map_end' = base + maplength
    /\ l_addr' = base - loadcmds[1].mapstart
    /\ byte' = [a \in Address |-> IF InPages(a, base, base + maplength)
                                  THEN FileByte(a - base) ELSE byte[a]]
    /\ prot' = [a \in Address |->
                  IF has_holes /\ InPages(a, l_addr' + loadcmds[1].mapend, l_addr' + Last.mapstart)
                  THEN {}
                  ELSE IF InPages(a, base, base + maplength) THEN loadcmds[1].prot ELSE prot[a]]
    /\ l_contiguous' = TRUE
    /\ l_phdr' = header.pt_phdr
    /\ pc' = "map"
    /\ UNCHANGED <<header, c, refused, l_text_end>>

(* map_object_loadcmd before its loop, for an executable. *)
StartExec ==
    /\ pc = "read"
    /\ header.e_type = "EXEC"
    /\ \A i \in DOMAIN header.load : Sound(header.load[i])
    /\ l_map_start' = loadcmds[1].mapstart
    /\ l_map_end' = loadcmds[1].mapstart + maplength
    /\ l_contiguous' = ~has_holes
    /\ l_phdr' = header.pt_phdr
    /\ pc' = "map"
    /\ UNCHANGED <<header, c, byte, prot, refused, l_addr, l_text_end>>

(***************************************************************************)
(* The memory after the mmap of a loadcmd.  The first one of a shared      *)
(* object is mapped already.  When mmap fails it returns a negative errno, *)
(* which is not MAP_FAILED, and the loop goes on.                          *)
(***************************************************************************)
MapsFile(lc) == lc.mapend > lc.mapstart /\ ~(header.e_type = "DYN" /\ c = 1)

Mapped(lc, ok) ==
    LET start == l_addr + lc.mapstart
        here(a) == MapsFile(lc) /\ ok /\ InPages(a, start, l_addr + lc.mapend)
    IN  [byte |-> [a \in Address |-> IF here(a) THEN FileByte(lc.mapoff + (a - start)) ELSE byte[a]],
         prot |-> [a \in Address |-> IF here(a) THEN lc.prot ELSE prot[a]]]

(***************************************************************************)
(* Clearing up to zeroend: from zero to the end of its page by memset,     *)
(* with the page made writable meanwhile, and pages of zeros from there.   *)
(***************************************************************************)
zero(lc) == l_addr + lc.dataend
zeroend(lc) == l_addr + lc.allocend
zeropage(lc) == IF zeroend(lc) < PageUp(zero(lc)) THEN zeroend(lc) ELSE PageUp(zero(lc))

HasBss(lc) == lc.allocend > lc.dataend
MapsZeros(lc) == HasBss(lc) /\ zeroend(lc) > zeropage(lc)

Cleared_MemsetOnly(m, lc, ok) ==
    LET set(a) == HasBss(lc) /\ zero(lc) <= a /\ a < zeropage(lc)
    IN  [byte |-> [a \in Address |-> IF set(a) THEN Zero ELSE m.byte[a]], prot |-> m.prot]
Cleared_LeftWritable(m, lc, ok) ==
    LET set(a)  == HasBss(lc) /\ zero(lc) <= a /\ a < zeropage(lc)
        anon(a) == MapsZeros(lc) /\ ok /\ InPages(a, zeropage(lc), zeroend(lc))
        page(a) == HasBss(lc) /\ zeropage(lc) > zero(lc) /\ PageDown(a) = PageDown(zero(lc))
    IN  [byte |-> [a \in Address |-> IF set(a) \/ anon(a) THEN Zero ELSE m.byte[a]],
         prot |-> [a \in Address |-> IF page(a) THEN lc.prot \cup {"W"}
                                     ELSE IF anon(a) THEN lc.prot ELSE m.prot[a]]]
Cleared(m, lc, ok) ==
    LET set(a)  == HasBss(lc) /\ zero(lc) <= a /\ a < zeropage(lc)
        anon(a) == MapsZeros(lc) /\ ok /\ InPages(a, zeropage(lc), zeroend(lc))
        page(a) == /\ HasBss(lc) /\ zeropage(lc) > zero(lc)
                   /\ "W" \notin lc.prot
                   /\ PageDown(a) = PageDown(zero(lc))
    IN  [byte |-> [a \in Address |-> IF set(a) \/ anon(a) THEN Zero ELSE m.byte[a]],
         prot |-> [a \in Address |-> IF page(a) \/ anon(a) THEN lc.prot ELSE m.prot[a]]]

(* mprotect finds no page to make writable. *)
MprotectFails(m, lc) ==
    /\ HasBss(lc) /\ zeropage(lc) > zero(lc)
    /\ "W" \notin lc.prot
    /\ m.byte[zero(lc)] = Unmapped

(* memset touches memory that is not there, not there any more in the file, or not writable. *)
MemsetFaults(m, lc) ==
    /\ HasBss(lc)
    /\ \E a \in zero(lc) .. zeropage(lc) - 1 :
          m.byte[a] < 0 \/ ("W" \in lc.prot /\ "W" \notin m.prot[a])

(* Whether the program headers are in the segment, where no PT_PHDR said so. *)
FindsPhdr(lc) ==
    /\ l_phdr = 0
    /\ lc.mapoff <= header.e_phoff
    /\ lc.mapend - lc.mapstart + lc.mapoff >= header.e_phoff + header.phdrs

(* One round of the loop: file_ok and zero_ok tell whether its two mmaps succeed. *)
MapSegment(file_ok, zero_ok) ==
    /\ pc = "map"
    /\ c \in DOMAIN loadcmds
    /\ LET lc == loadcmds[c]
           m  == Mapped(lc, file_ok) IN
       /\ l_text_end' = IF "X" \in lc.prot THEN l_addr + lc.mapend ELSE l_text_end
       /\ l_phdr' = IF FindsPhdr(lc) THEN lc.mapstart + header.e_phoff - lc.mapoff ELSE l_phdr
       /\ IF MemsetFaults(m, lc)
          THEN /\ pc' = IF MprotectFails(m, lc) THEN "dead" ELSE "crashed"
               /\ byte' = m.byte /\ prot' = m.prot
          ELSE /\ pc' = pc
               /\ byte' = Cleared(m, lc, zero_ok).byte
               /\ prot' = Cleared(m, lc, zero_ok).prot
       /\ refused' = (refused \/ (MapsFile(lc) /\ ~file_ok) \/ (MapsZeros(lc) /\ ~zero_ok))
       /\ c' = c + 1
    /\ UNCHANGED <<header, l_addr, l_map_start, l_map_end, l_contiguous>>

(* l_phdr is an address from here on. *)
FinishMap_NotMoved ==
    /\ pc = "map"
    /\ c \notin DOMAIN loadcmds
    /\ pc' = "done"
    /\ UNCHANGED <<header, c, byte, prot, refused, l_addr, l_map_start, l_map_end,
                   l_contiguous, l_text_end, l_phdr>>
FinishMap ==
    /\ pc = "map"
    /\ c \notin DOMAIN loadcmds
    /\ pc' = "done"
    /\ l_phdr' = IF l_phdr # 0 THEN l_phdr + l_addr ELSE 0
    /\ UNCHANGED <<header, c, byte, prot, refused, l_addr, l_map_start, l_map_end,
                   l_contiguous, l_text_end>>

Finished == pc \in {"done", "dead", "crashed"} /\ UNCHANGED vars

Next ==
    \/ Rejected
    \/ \E base \in Bases : MapWhole(base)
    \/ StartExec
    \/ \E file_ok, zero_ok \in Outcomes : MapSegment(file_ok, zero_ok)
    \/ FinishMap
    \/ Finished

Spec == Init /\ [][Next]_vars

-----------------------------------------------------------------------------

(* The addresses a segment takes up, and the pages. *)
InSegment(ph, a) == l_addr + ph.p_vaddr <= a /\ a < l_addr + ph.p_vaddr + ph.p_memsz
OnPages(ph, a) == InPages(a, l_addr + ph.p_vaddr, l_addr + ph.p_vaddr + ph.p_memsz)

(***************************************************************************)
(* A mapped object looks as its headers say: each segment holds its bytes  *)
(* of the file and zeros behind them, whatever was mapped there before and *)
(* whatever its neighbours have cleared; unless mmap has failed, which the *)
(* linker does not notice.                                                 *)
(***************************************************************************)
ImageAsAsked ==
    (pc = "done" /\ ~refused) =>
        \A i \in DOMAIN header.load : \A a \in Address :
            LET ph == header.load[i]
                n  == a - (l_addr + ph.p_vaddr) IN
            InSegment(ph, a) =>
                byte[a] = IF n < ph.p_filesz THEN FileByte(ph.p_offset + n) ELSE Zero

(***************************************************************************)
(* Each page of a segment has the protection of the segment: what was made *)
(* writable to be cleared is writable no more, unless mmap has failed.     *)
(***************************************************************************)
ProtectedAsAsked ==
    (pc = "done" /\ ~refused) =>
        \A i \in DOMAIN header.load : \A a \in Address :
            OnPages(header.load[i], a) => prot[a] = header.load[i].p_flags

(***************************************************************************)
(* l_contiguous (link.h): holes between segments are protected from all    *)
(* access, or there are none, even where mmap of a segment has failed.     *)
(***************************************************************************)
HolesClosed ==
    (pc = "done" /\ l_contiguous) =>
        \A a \in l_map_start .. l_map_end - 1 :
            (\A i \in DOMAIN header.load : ~OnPages(header.load[i], a)) => prot[a] = {}

(* l_phdr leads to the program headers in memory, unless mmap has failed. *)
PhdrFound ==
    (pc = "done" /\ ~refused /\ l_phdr # 0) =>
        \A n \in 0 .. header.phdrs - 1 : byte[l_phdr + n] = FileByte(header.e_phoff + n)
=============================================================================
