----------------------------- MODULE MCStartup ------------------------------
(***************************************************************************)
(* Instances of Startup for TLC: a program linked to a fixed address, one  *)
(* that the kernel has moved, and rtld.so itself, with the headers the     *)
(* link editor gives them, and the auxiliary vector in every order.        *)
(***************************************************************************)
EXTENDS Startup

H(type, vaddr, memsz, flags) ==
    [p_type |-> type, p_vaddr |-> vaddr, p_memsz |-> memsz, p_flags |-> flags]

RX == {"R", "X"}
RW == {"R", "W"}

(* The headers of a program whose text is at base; its data may lie before its text. *)
ProgramPhdrs(base, data) ==
    <<H("PHDR", base + 4, 40, RX), H("INTERP", base + 44, 4, {"R"}),
      H("LOAD", base, 70, RX), H("LOAD", base + data, 21, RW),
      H("DYNAMIC", base + data + 3, 8, RW), H("GNU_STACK", 0, 0, RW)>>

RtldPhdrs == <<H("LOAD", 0, 50, RX), H("LOAD", 70, 13, RW), H("DYNAMIC", 71, 6, RW),
               H("NOTE", 45, 2, {"R"}), H("GNU_RELRO", 70, 6, {"R"})>>

Interp(bias, phvaddr, phdrs) ==
    [mode |-> "interp", bias |-> bias, e_entry |-> phvaddr + 50, phvaddr |-> phvaddr, phdrs |-> phdrs]

Fixed(data) == Interp(0, 68, ProgramPhdrs(64, data))
Moved == Interp(96, 4, ProgramPhdrs(0, 83))
WithTls == Interp(0, 68, ProgramPhdrs(64, 83) \o <<H("TLS", 80, 4, RW)>>)
ByHand == [mode |-> "direct", bias |-> 160, e_entry |-> 33, phvaddr |-> 4, phdrs |-> RtldPhdrs]

AllBoots == {Fixed(83), Fixed(-40), Moved, WithTls, ByHand}

SomeMains == {[l_addr |-> 0, e_entry |-> 90], [l_addr |-> 320, e_entry |-> 7]}

(* All orders, with AT_PHENT in front; and a vector that says nothing of headers. *)
Five == AuxType \ {AT_PHENT}
AllOrders ==
    {<<AT_PHENT>> \o o : o \in {f \in [1 .. 5 -> Five] : {f[i] : i \in 1 .. 5} = Five}}
    \cup {<<AT_PAGESZ, AT_ENTRY>>}
=============================================================================
