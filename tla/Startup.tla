------------------------------ MODULE Startup -------------------------------
(***************************************************************************)
(* How rtld.so comes to life: _start (elf-loader/rtld/base.S),             *)
(* loader_start, parse_params, parse_auxv and the frame of loader_main     *)
(* (elf-loader/rtld/rtld.c).                                               *)
(*                                                                         *)
(* The kernel leaves the arguments, the environment and the auxiliary      *)
(* vector on the stack.  From these the linker learns where the program    *)
(* headers of the object are that the kernel has mapped - a program with   *)
(* rtld.so as its PT_INTERP, or rtld.so itself when it is run by hand -    *)
(* and reads from them where the object lies.  In between it maps and      *)
(* relocates what Loader, SegMap and Reloc describe; in the end it jumps   *)
(* to the entry point of the program.                                      *)
(*                                                                         *)
(* The stack is a sequence of words; a pointer to a string is any word but *)
(* 0.  Memory is what the headers of the object and of the vDSO say.       *)
(*                                                                         *)
(* A definition X_Something before a definition X is not part of the       *)
(* specification: it is what X would be with a plausible mistake, kept to  *)
(* show that the properties notice it.                                     *)
(***************************************************************************)
EXTENDS Integers, Sequences

CONSTANTS
    PageSize,     \* what AT_PAGESZ says
    PhdrSize,     \* sizeof (Elf64_Phdr)
    Highest,      \* ~0, an address above all others
    Boots,        \* the objects the kernel may have mapped, and how
    Mains,        \* the programs argv[1] may name when rtld.so is run by hand
    Orders,       \* the orders the auxiliary vector may have
    ArgCounts,    \* argc
    EnvCounts     \* the number of environment strings

Flag == {"R", "W", "X"}
PhdrType == {"PHDR", "DYNAMIC", "LOAD", "TLS", "GNU_STACK", "GNU_RELRO", "INTERP", "NOTE"}
Phdr == [p_type : PhdrType, p_vaddr : Nat, p_memsz : Nat, p_flags : SUBSET Flag]

(***************************************************************************)
(* An object in memory: its address is bias plus that of its headers.  The *)
(* symbols _begin and _start of rtld.so have the values 0 and e_entry.     *)
(***************************************************************************)
Boot == [mode : {"interp", "direct"}, bias : Nat, e_entry : Nat \ {0},
         phvaddr : Nat \ {0}, phdrs : Seq(Phdr)]
Main == [l_addr : Nat, e_entry : Nat \ {0}]

(* elf.h and linux/auxvec.h. *)
AT_NULL == 0
AT_PHDR == 3
AT_PHENT == 4
AT_PHNUM == 5
AT_PAGESZ == 6
AT_ENTRY == 9
AT_SYSINFO_EHDR == 33
AuxType == {AT_PHDR, AT_PHENT, AT_PHNUM, AT_PAGESZ, AT_ENTRY, AT_SYSINFO_EHDR}

(* Where the kernel maps the vDSO, and where that has its program headers. *)
VdsoAddr == Highest \div 2
VdsoPhoff == 64

(***************************************************************************)
(* What link editors and the kernel see to.  PT_PHDR is the first header   *)
(* and has the address of the table; a program that the kernel has moved   *)
(* has one.  There is some code and at most one dynamic section.  The      *)
(* object lies below Highest, and its headers are not those of the vDSO.   *)
(***************************************************************************)
WellMade(b) ==
    /\ \A i \in DOMAIN b.phdrs :
          b.phdrs[i].p_type = "PHDR" => i = 1 /\ b.phdrs[i].p_vaddr = b.phvaddr
    /\ (b.mode = "interp" /\ b.bias # 0) => b.phdrs[1].p_type = "PHDR"
    /\ \A i, j \in DOMAIN b.phdrs :
          b.phdrs[i].p_type = "DYNAMIC" /\ b.phdrs[j].p_type = "DYNAMIC" => i = j
    /\ \E i \in DOMAIN b.phdrs : b.phdrs[i].p_type = "LOAD" /\ "X" \in b.phdrs[i].p_flags
    /\ \A i \in DOMAIN b.phdrs :
          b.phdrs[i].p_type = "LOAD" => b.bias + b.phdrs[i].p_vaddr + b.phdrs[i].p_memsz < Highest
    /\ b.bias + b.e_entry < Highest
    /\ b.bias + b.phvaddr # VdsoAddr + VdsoPhoff

(* A vector tells all that is needed to find the headers, or nothing of any headers. *)
Told(order) == {order[i] : i \in DOMAIN order}
Tells(order) ==
    \/ {AT_PHDR, AT_PHNUM, AT_PAGESZ, AT_ENTRY} \subseteq Told(order)
    \/ {AT_PHDR, AT_SYSINFO_EHDR} \cap Told(order) = {}

ASSUME StartupAssumption ==
    /\ PageSize \in Nat \ {0} /\ PhdrSize \in Nat \ {0} /\ Highest \in Nat
    /\ Boots \subseteq Boot /\ Mains \subseteq Main
    /\ Orders \subseteq Seq(AuxType)
    /\ ArgCounts \subseteq Nat \ {0} /\ EnvCounts \subseteq Nat
    /\ \A b \in Boots : WellMade(b)
    /\ \A order \in Orders : Tells(order)

VARIABLES
    boot,       \* what the kernel has mapped, fixed
    stack,      \* the words from the stack pointer on, fixed
    pc,         \* "params", "auxv", "phdr", "link", "entered" or "dead"
    auxv,       \* the entry of the auxiliary vector parse_auxv is at
    pi,         \* struct program_info
    pagesize,   \* GLRO(dl_pagesize)
    dl_stack_flags,  \* GL(dl_stack_flags)
    ph,         \* the program header loader_main is at, counted from 1
    rtld_map,   \* the link map of the object
    main_map,   \* the link map of the program run by hand
    entry       \* what loader_start returns: _start jumps there

vars == <<boot, stack, pc, auxv, pi, pagesize, dl_stack_flags, ph, rtld_map,
          main_map, entry>>

PageDown(a) == a - (a % PageSize)

(* The vDSO, an object the kernel maps for every process, has headers of its own. *)
VdsoPhdrs == <<[p_type |-> "LOAD", p_vaddr |-> 0, p_memsz |-> 1, p_flags |-> {"R", "X"}],
               [p_type |-> "DYNAMIC", p_vaddr |-> 1, p_memsz |-> 1, p_flags |-> {"R"}]>>

(* What the kernel puts on the stack. *)
AuxValue(b, type) ==
    CASE type = AT_PHDR         -> b.bias + b.phvaddr
      [] type = AT_PHENT        -> PhdrSize
      [] type = AT_PHNUM        -> Len(b.phdrs)
      [] type = AT_PAGESZ       -> PageSize
      [] type = AT_ENTRY        -> b.bias + b.e_entry
      [] type = AT_SYSINFO_EHDR -> VdsoAddr

Strings(n) == [i \in 1 .. n |-> Highest]

AuxWords(b, order) ==
    [i \in 1 .. 2 * Len(order) |->
        IF i % 2 = 1 THEN order[(i + 1) \div 2] ELSE AuxValue(b, order[i \div 2])]

InitialStack(b, argc, envc, order) ==
    <<argc>> \o Strings(argc) \o <<0>> \o Strings(envc) \o <<0>>
             \o AuxWords(b, order) \o <<AT_NULL, 0>>

(* The program headers one finds at an address. *)
PhdrsAt(a) == IF a = VdsoAddr + VdsoPhoff THEN VdsoPhdrs ELSE boot.phdrs

(* _start in rtld.so, as the linker computes it: meaningful when rtld.so was run by hand. *)
OwnStart == IF boot.mode = "direct" THEN boot.bias + boot.e_entry ELSE Highest
_begin == boot.bias

-----------------------------------------------------------------------------

(* loader_start: phnum is 16 bits wide and starts as 0xffff, entry as _start. *)
Init ==
    /\ boot \in Boots
    /\ \E argc \in ArgCounts, envc \in EnvCounts, order \in Orders :
          stack = InitialStack(boot, argc, envc, order)
    /\ pc = "params"
    /\ auxv = 0
    /\ pi = [argc |-> -1, argv |-> 0, envp |-> 0, entry |-> OwnStart,
             phdr |-> 0, ehdr |-> 0, phnum |-> 65535]
    /\ pagesize = 0
    /\ dl_stack_flags = {}
    /\ ph = 0
    /\ rtld_map = [l_addr |-> 0, l_ld |-> 0, l_phdr |-> 0, l_phnum |-> 0, l_entry |-> 0,
                   l_map_start |-> Highest, l_map_end |-> 0, l_text_end |-> 0,
                   l_relro_addr |-> 0, l_relro_size |-> 0]
    /\ main_map = [l_addr |-> 0, l_entry |-> 0]
    /\ entry = 0

(***************************************************************************)
(* parse_params: the environment follows argv and its NULL, the auxiliary  *)
(* vector follows the environment and its NULL.                            *)
(***************************************************************************)
penvp == 2 + stack[1] + 1

parse_params ==
    /\ pc = "params"
    /\ \E null \in penvp .. Len(stack) :
          /\ stack[null] = 0
          /\ \A i \in penvp .. null - 1 : stack[i] # 0
          /\ auxv' = null + 1
    /\ pi' = [pi EXCEPT !.argc = stack[1], !.argv = 2, !.envp = penvp]
    /\ pc' = "auxv"
    /\ UNCHANGED <<boot, stack, pagesize, dl_stack_flags, ph, rtld_map, main_map, entry>>

(* The entries of the auxiliary vector that program_info remembers. *)
WithAux_Latest(p, type, val) ==
    CASE type = AT_ENTRY -> [p EXCEPT !.entry = val]
      [] type = AT_SYSINFO_EHDR -> [p EXCEPT !.ehdr = val, !.phdr = val + VdsoPhoff]
      [] type = AT_PHDR -> [p EXCEPT !.phdr = val]
      [] type = AT_PHNUM -> [p EXCEPT !.phnum = val]
      [] OTHER -> p
WithAux(p, type, val) ==
    CASE type = AT_ENTRY -> [p EXCEPT !.entry = val]
      [] type = AT_SYSINFO_EHDR ->
            [p EXCEPT !.ehdr = val,
                      !.phdr = IF p.phdr = 0 THEN val + VdsoPhoff ELSE p.phdr]
      [] type = AT_PHDR -> [p EXCEPT !.phdr = val]
      [] type = AT_PHNUM -> [p EXCEPT !.phnum = val]
      [] OTHER -> p

parse_auxv ==
    /\ pc = "auxv"
    /\ stack[auxv] # AT_NULL
    /\ pi' = WithAux(pi, stack[auxv], stack[auxv + 1])
    /\ pagesize' = IF stack[auxv] = AT_PAGESZ THEN stack[auxv + 1] ELSE pagesize
    /\ auxv' = auxv + 2
    /\ UNCHANGED <<boot, stack, pc, dl_stack_flags, ph, rtld_map, main_map, entry>>

(***************************************************************************)
(* The assertions of loader_start (that on phnum compares 16 bits with -1  *)
(* and always holds), and loader_main before its loop.                     *)
(***************************************************************************)
loader_main ==
    /\ pc = "auxv"
    /\ stack[auxv] = AT_NULL
    /\ IF pi.phdr = 0 \/ pi.entry = 0
       THEN pc' = "dead" /\ UNCHANGED <<ph, rtld_map>>
       ELSE /\ pc' = "phdr"
            /\ ph' = 1
            /\ rtld_map' = [rtld_map EXCEPT
                              !.l_addr  = IF pi.entry = OwnStart THEN _begin ELSE 0,
                              !.l_phdr  = pi.phdr,
                              !.l_phnum = pi.phnum,
                              !.l_entry = pi.entry]
    /\ UNCHANGED <<boot, stack, auxv, pi, pagesize, dl_stack_flags, main_map, entry>>

(***************************************************************************)
(* What a program header says of the object.  The address of PT_PHDR is    *)
(* compared with that of the header itself, the i-th of the table.         *)
(***************************************************************************)
WithLoad_FirstOnly(m, h) ==
    [m EXCEPT
       !.l_map_start = IF m.l_map_end = 0 THEN m.l_addr + PageDown(h.p_vaddr) ELSE m.l_map_start,
       !.l_map_end   = IF m.l_map_end = 0 THEN m.l_addr + h.p_vaddr + h.p_memsz ELSE m.l_map_end,
       !.l_text_end  = IF "X" \in h.p_flags THEN m.l_addr + h.p_vaddr + h.p_memsz ELSE m.l_text_end]
WithLoad(m, h) ==
    LET mapstart == m.l_addr + (h.p_vaddr - (h.p_vaddr % pagesize))
        allocend == m.l_addr + h.p_vaddr + h.p_memsz
    IN  [m EXCEPT
           !.l_map_start = IF m.l_map_start > mapstart THEN mapstart ELSE m.l_map_start,
           !.l_map_end   = IF m.l_map_end < allocend THEN allocend ELSE m.l_map_end,
           !.l_text_end  = IF "X" \in h.p_flags /\ allocend > m.l_text_end
                           THEN allocend ELSE m.l_text_end]

WithPhdr(m, h, i) ==
    CASE h.p_type = "PHDR" ->
            [m EXCEPT !.l_addr = pi.phdr + (i - 1) * PhdrSize - h.p_vaddr]
      [] h.p_type = "DYNAMIC" -> [m EXCEPT !.l_ld = m.l_addr + h.p_vaddr]
      [] h.p_type = "LOAD" -> WithLoad(m, h)
      [] h.p_type = "GNU_RELRO" ->
            [m EXCEPT !.l_relro_addr = h.p_vaddr, !.l_relro_size = h.p_memsz]
      [] OTHER -> m

ParsePhdr ==
    /\ pc = "phdr"
    /\ ph <= pi.phnum
    /\ LET h == PhdrsAt(pi.phdr)[ph] IN
       IF h.p_type = "TLS"
       THEN pc' = "dead" /\ UNCHANGED <<ph, rtld_map, dl_stack_flags>>
       ELSE /\ dl_stack_flags' = IF h.p_type = "GNU_STACK" THEN h.p_flags ELSE dl_stack_flags
            /\ rtld_map' = WithPhdr(rtld_map, h, ph)
            /\ ph' = ph + 1
            /\ UNCHANGED pc
    /\ UNCHANGED <<boot, stack, auxv, pi, pagesize, main_map, entry>>

(***************************************************************************)
(* Behind the loop: rtld.so run by hand maps argv[1] (Loader and SegMap;   *)
(* l_entry is e_entry of its file).  Without an argument argv[1] is NULL,  *)
(* and the library "(NULL)" is not found.                                  *)
(***************************************************************************)
MapMain(main) ==
    /\ pc = "phdr"
    /\ ph > pi.phnum
    /\ pi.entry = OwnStart
    /\ stack[pi.argv + 1] # 0
    /\ main_map' = [l_addr |-> main.l_addr, l_entry |-> main.e_entry]
    /\ pc' = "link"
    /\ UNCHANGED <<boot, stack, auxv, pi, pagesize, dl_stack_flags, ph, rtld_map, entry>>

NoArgument ==
    /\ pc = "phdr"
    /\ ph > pi.phnum
    /\ pi.entry = OwnStart
    /\ stack[pi.argv + 1] = 0
    /\ pc' = "dead"
    /\ UNCHANGED <<boot, stack, auxv, pi, pagesize, dl_stack_flags, ph, rtld_map, main_map, entry>>

MainProgram ==
    /\ pc = "phdr"
    /\ ph > pi.phnum
    /\ pi.entry # OwnStart
    /\ pc' = "link"
    /\ UNCHANGED <<boot, stack, auxv, pi, pagesize, dl_stack_flags, ph, rtld_map, main_map, entry>>

(* map_object_deps and reloc_all have returned: the jump to the entry point. *)
Enter_NotMoved ==
    /\ pc = "link"
    /\ entry' = IF pi.entry = OwnStart THEN main_map.l_entry ELSE rtld_map.l_entry
    /\ pc' = "entered"
    /\ UNCHANGED <<boot, stack, auxv, pi, pagesize, dl_stack_flags, ph, rtld_map, main_map>>
Enter ==
    /\ pc = "link"
    /\ entry' = IF pi.entry = OwnStart THEN main_map.l_addr + main_map.l_entry
                                       ELSE rtld_map.l_addr + rtld_map.l_entry
    /\ pc' = "entered"
    /\ UNCHANGED <<boot, stack, auxv, pi, pagesize, dl_stack_flags, ph, rtld_map, main_map>>

Finished == pc \in {"entered", "dead"} /\ UNCHANGED vars

Next ==
    \/ parse_params
    \/ parse_auxv
    \/ loader_main
    \/ ParsePhdr
    \/ \E main \in Mains : MapMain(main)
    \/ NoArgument
    \/ MainProgram
    \/ Enter
    \/ Finished

Spec == Init /\ [][Next]_vars

-----------------------------------------------------------------------------

(***************************************************************************)
(* The stack is read for what it is: whatever the number of arguments and  *)
(* environment strings and the order of the auxiliary vector, with the     *)
(* vDSO's entry before or behind the others, program_info describes the    *)
(* object the kernel has mapped.                                           *)
(***************************************************************************)
BootRead ==
    pc \notin {"params", "auxv", "dead"} =>
        /\ pi.phdr = boot.bias + boot.phvaddr
        /\ pi.phnum = Len(boot.phdrs)
        /\ pi.entry = boot.bias + boot.e_entry
        /\ pagesize = PageSize
        /\ pi.entry = OwnStart <=> boot.mode = "direct"
        /\ pi.argc = 1 <=> stack[pi.argv + 1] = 0

HeadersDone == pc \in {"link", "entered"}

(***************************************************************************)
(* The link map of the object the kernel has mapped describes it: l_addr   *)
(* is the address it was loaded at (the kernel's bias for a program, known *)
(* from a PT_PHDR that is the first header, and rtld.so's own address for  *)
(* rtld.so, which has none), l_ld is where its dynamic section is, and     *)
(* l_map_start, l_map_end and l_text_end enclose its segments, none more.  *)
(***************************************************************************)
ObjectDescribed ==
    HeadersDone =>
        LET loads == {i \in DOMAIN boot.phdrs : boot.phdrs[i].p_type = "LOAD"}
            start(i) == boot.bias + PageDown(boot.phdrs[i].p_vaddr)
            end(i) == boot.bias + boot.phdrs[i].p_vaddr + boot.phdrs[i].p_memsz
            text == {i \in loads : "X" \in boot.phdrs[i].p_flags}
        IN  /\ rtld_map.l_addr = boot.bias
            /\ \A i \in DOMAIN boot.phdrs :
                  boot.phdrs[i].p_type = "DYNAMIC" =>
                      rtld_map.l_ld = boot.bias + boot.phdrs[i].p_vaddr
            /\ \A i \in loads : start(i) >= rtld_map.l_map_start /\ end(i) <= rtld_map.l_map_end
            /\ \E i, j \in loads : start(i) = rtld_map.l_map_start /\ end(j) = rtld_map.l_map_end
            /\ \A i \in text : end(i) <= rtld_map.l_text_end
            /\ \E i \in text : end(i) = rtld_map.l_text_end

(***************************************************************************)
(* Control goes to the entry point of the program, e_entry of its header   *)
(* moved to where the program was loaded: for a program run by hand, moved *)
(* or not, and for one the kernel has started that lies where it was       *)
(* linked to lie.  (For one that the kernel has moved, AT_ENTRY is moved   *)
(* already, and l_addr is added a second time.)                            *)
(***************************************************************************)
EntersUnlessMoved ==
    (pc = "entered" /\ (boot.mode = "direct" \/ boot.bias = 0)) =>
        IF boot.mode = "direct"
        THEN \E main \in Mains : main.l_addr = main_map.l_addr /\ entry = main.l_addr + main.e_entry
        ELSE entry = boot.e_entry
=============================================================================
