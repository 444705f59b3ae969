------------------------------- MODULE Reloc --------------------------------
(***************************************************************************)
(* The linking half of rtld.so: reloc_all, relocate_object, reloc_rela and *)
(* the lazy binding of calls, runtime_resolve and got_fixup                *)
(* (elf-loader/rtld/reloc.c, trampoline.S), over lookup_symbol (lookup.c). *)
(*                                                                         *)
(* Loader leaves a namespace of mapped objects behind, in the order in     *)
(* which symbols are looked up.  reloc_all walks it back to front and      *)
(* applies the relocations of each object, one step per entry; then the    *)
(* program runs, and every first call through an entry of a procedure      *)
(* linkage table (PLT) comes back to the linker to be bound.               *)
(*                                                                         *)
(* What is abstracted: memory is a function from addresses to words, and   *)
(* an object brings the words the linker reads or writes; a symbol table   *)
(* with its hash table is what Scope makes of it.                          *)
(*                                                                         *)
(* A definition X_Something before a definition X is not part of the       *)
(* specification: it is what X would be with a plausible mistake, kept to  *)
(* show that the properties notice it.                                     *)
(***************************************************************************)
EXTENDS Scope

CONSTANTS
    Name,        \* symbol names
    Width,       \* st_size of the variable of a name, in words
    Namespaces   \* the namespaces under consideration, in the order of l_next

(***************************************************************************)
(* A relocation entry; the symbol of a RELATIVE one is of no interest.     *)
(***************************************************************************)
RelocType == {"RELATIVE", "64", "JUMP_SLOT", "GLOB_DAT", "COPY", "other"}
Rela == [type : RelocType, offset : Nat, sym : Name, addend : Nat]

(***************************************************************************)
(* A mapped object: its load address, the words at some offsets in it, its *)
(* definitions, the tables DT_RELA and DT_JMPREL, and whether it has a     *)
(* DT_PLTGOT, a DT_HASH, and both DT_SYMTAB and DT_STRTAB.                 *)
(***************************************************************************)
IsObject(o) ==
    /\ o.l_addr \in Nat
    /\ DOMAIN o.image \subseteq Nat
    /\ \A off \in DOMAIN o.image : o.image[off] \in Nat
    /\ o.defs \in [Name -> Nat]
    /\ o.rela \in Seq(Rela) /\ o.jmprel \in Seq(Rela)
    /\ o.pltgot \in BOOLEAN /\ o.hash \in BOOLEAN /\ o.tables \in BOOLEAN

(* The addresses an object occupies, and the entries it has. *)
Addresses(o) == {o.l_addr + off : off \in DOMAIN o.image}
EntriesOf(s) == {s[i] : i \in DOMAIN s}
Entries(o) == EntriesOf(o.rela) \cup EntriesOf(o.jmprel)

(* No word has two entries. *)
OnePerWord(o) ==
    /\ \A j, k \in DOMAIN o.rela : o.rela[j].offset = o.rela[k].offset => j = k
    /\ \A j, k \in DOMAIN o.jmprel : o.jmprel[j].offset = o.jmprel[k].offset => j = k
    /\ \A e \in EntriesOf(o.rela), f \in EntriesOf(o.jmprel) : e.offset # f.offset

(***************************************************************************)
(* What link editors and mmap guarantee: objects do not overlap; DT_JMPREL *)
(* holds the JUMP_SLOT entries and comes with a DT_PLTGOT; no word is      *)
(* relocated twice; a definition is in its object.  And what load.c has    *)
(* asserted: with a DT_RELA there are the tables its entries refer to.     *)
(***************************************************************************)
ASSUME RelocAssumption ==
    /\ Width \in [Name -> Nat \ {0}]
    /\ \A ns \in Namespaces :
          /\ ns \in Seq({ns[i] : i \in DOMAIN ns}) /\ Len(ns) > 0
          /\ \A i \in DOMAIN ns :
                /\ IsObject(ns[i])
                /\ \A j \in DOMAIN ns : i # j => Addresses(ns[i]) \cap Addresses(ns[j]) = {}
                /\ \A e \in Entries(ns[i]) : e.offset \in DOMAIN ns[i].image
                /\ \A e \in EntriesOf(ns[i].jmprel) : e.type = "JUMP_SLOT"
                /\ \A e \in EntriesOf(ns[i].rela) : e.type # "JUMP_SLOT"
                /\ OnePerWord(ns[i])
                /\ ~ns[i].pltgot => ns[i].jmprel = <<>>
                /\ ~ns[i].tables => ns[i].rela = <<>>
                /\ \A n \in Name : ns[i].defs[n] # 0 =>
                      \A w \in 0 .. Width[n] - 1 : ns[i].defs[n] + w \in DOMAIN ns[i].image

VARIABLES
    namespace,   \* the mapped objects, fixed after loading
    pc,          \* "reloc", "run", "dead" (exited with a message), "crashed"
    l,           \* the object reloc_all is at
    table,       \* where in relocate_object: "enter", "rela", "plt"
    rela,        \* the entry of that table reloc_rela is at
    mem,         \* memory
    l_relocated, \* the objects whose l_relocated is set
    got          \* got[1] of each object: the link map runtime_resolve is given

vars == <<namespace, pc, l, table, rela, mem, l_relocated, got>>

Image(ns) ==
    [a \in UNION {Addresses(ns[i]) : i \in DOMAIN ns} |->
        LET i == CHOOSE i \in DOMAIN ns : a \in Addresses(ns[i])
        IN  ns[i].image[a - ns[i].l_addr]]

Init ==
    /\ namespace \in Namespaces
    /\ pc = "reloc"
    /\ l = Len(namespace)
    /\ table = "enter"
    /\ rela = 1
    /\ mem = Image(namespace)
    /\ l_relocated = {}
    /\ got = [i \in DOMAIN namespace |-> 0]

-----------------------------------------------------------------------------
(* symval.m->l_addr + symval.s->st_value *)
SymbolAddr(m, name) == namespace[m].l_addr + namespace[m].defs[name]

Stop(how) ==
    /\ pc' = how
    /\ UNCHANGED <<namespace, l, table, rela, mem, l_relocated, got>>

-----------------------------------------------------------------------------
(***************************************************************************)
(* relocate_object and the loop of reloc_rela.                             *)
(***************************************************************************)
Table == IF table = "rela" THEN namespace[l].rela ELSE namespace[l].jmprel
Place(o, e) == namespace[o].l_addr + e.offset

EnterObject ==
    /\ pc = "reloc" /\ l > 0 /\ table = "enter"
    /\ IF l \in l_relocated
       THEN l' = l - 1 /\ UNCHANGED <<table, rela>>
       ELSE table' = "rela" /\ rela' = 1 /\ UNCHANGED l
    /\ UNCHANGED <<namespace, pc, mem, l_relocated, got>>

At(e) ==
    /\ pc = "reloc" /\ l > 0 /\ table # "enter"
    /\ rela \in DOMAIN Table
    /\ e = Table[rela]

(* *reloc += value *)
AddTo(a, value) == mem' = [mem EXCEPT ![a] = @ + value]

NextEntry ==
    /\ rela' = rela + 1
    /\ UNCHANGED <<namespace, pc, l, table, l_relocated, got>>

RelocRelative(e) ==
    /\ At(e) /\ e.type = "RELATIVE"
    /\ AddTo(Place(l, e), namespace[l].l_addr + e.addend)
    /\ NextEntry

RelocJumpSlot(e) ==
    /\ At(e) /\ e.type = "JUMP_SLOT"
    /\ AddTo(Place(l, e), namespace[l].l_addr)
    /\ NextEntry

(* The addend of an R_X86_64_64 entry is not looked at. *)
RelocSymbol_NotOwn(e, m) ==
    /\ At(e) /\ e.type \in {"64", "GLOB_DAT"}
    /\ Found(namespace, l, e.sym, m)
    /\ AddTo(Place(l, e), SymbolAddr(m, e.sym))
    /\ NextEntry
RelocSymbol(e, m) ==
    /\ At(e) /\ e.type \in {"64", "GLOB_DAT"}
    /\ Found(namespace, 0, e.sym, m)
    /\ AddTo(Place(l, e), SymbolAddr(m, e.sym))
    /\ NextEntry

(* The symbol is looked for in all objects but this one, one word is copied. *)
RelocCopy_Own(e, m) ==
    /\ At(e) /\ e.type = "COPY"
    /\ Found(namespace, 0, e.sym, m)
    /\ mem' = [mem EXCEPT ![Place(l, e)] = mem[SymbolAddr(m, e.sym)]]
    /\ NextEntry
RelocCopy_SameAgain(e, m) ==
    /\ At(e) /\ e.type = "COPY"
    /\ Found(namespace, l, e.sym, m)
    /\ mem' = [mem EXCEPT ![Place(l, e)] = mem[SymbolAddr(m, e.sym)]]
    /\ UNCHANGED <<namespace, pc, l, table, rela, l_relocated, got>>
RelocCopy(e, m) ==
    /\ At(e) /\ e.type = "COPY"
    /\ Found(namespace, l, e.sym, m)
    /\ mem' = [mem EXCEPT ![Place(l, e)] = mem[SymbolAddr(m, e.sym)]]
    /\ NextEntry

Skip(e) == IF e.type = "COPY" THEN l ELSE 0
NeedsSymbol(e) == e.type \in {"64", "GLOB_DAT", "COPY"}

RelocFails(e) ==
    /\ At(e)
    /\ \/ e.type = "other" /\ Stop("dead")
       \/ NeedsSymbol(e) /\ Missing(namespace, Skip(e), e.sym) /\ Stop("dead")
       \/ NeedsSymbol(e) /\ Killed(namespace, Skip(e), e.sym) /\ Stop("crashed")

(***************************************************************************)
(* DT_RELA is done: on to the PLT.  reloc_rela starts by looking up the    *)
(* addresses of both tables, which nobody has asked for if there is no     *)
(* DT_RELA.                                                                *)
(***************************************************************************)
RelaDone ==
    /\ pc = "reloc" /\ l > 0 /\ table = "rela"
    /\ rela \notin DOMAIN Table

EnterPltFails == RelaDone /\ namespace[l].pltgot /\ ~namespace[l].tables /\ Stop("crashed")

EnterPlt ==
    /\ RelaDone
    /\ namespace[l].pltgot => namespace[l].tables
    /\ table' = "plt"
    /\ rela' = 1
    /\ UNCHANGED <<namespace, pc, l, mem, l_relocated, got>>

(* got[1] = l; got[2] = &runtime_resolve; l->l_relocated = 1; l = l->l_prev *)
FinishObject_NoGot ==
    /\ pc = "reloc" /\ l > 0 /\ table = "plt"
    /\ rela \notin DOMAIN Table
    /\ l_relocated' = l_relocated \cup {l}
    /\ l' = l - 1
    /\ table' = "enter"
    /\ rela' = 1
    /\ UNCHANGED <<namespace, pc, mem, got>>
FinishObject ==
    /\ pc = "reloc" /\ l > 0 /\ table = "plt"
    /\ rela \notin DOMAIN Table
    /\ got' = IF namespace[l].pltgot THEN [got EXCEPT ![l] = l] ELSE got
    /\ l_relocated' = l_relocated \cup {l}
    /\ l' = l - 1
    /\ table' = "enter"
    /\ rela' = 1
    /\ UNCHANGED <<namespace, pc, mem>>

(* reloc_all returns, and _start jumps to the program. *)
StartProgram ==
    /\ pc = "reloc" /\ l = 0
    /\ pc' = "run"
    /\ UNCHANGED <<namespace, l, table, rela, mem, l_relocated, got>>

-----------------------------------------------------------------------------
(***************************************************************************)
(* The program calls the function of entry k of the PLT of object o.  If   *)
(* the word still leads to the PLT, got[1] and k are pushed and            *)
(* runtime_resolve calls got_fixup(got[1], k); otherwise the call goes     *)
(* straight to the address in the word and changes nothing.                *)
(***************************************************************************)
Stub(o, e) == namespace[o].l_addr + namespace[o].image[e.offset]

Calls(o, k, e) ==
    /\ pc = "run"
    /\ o \in DOMAIN namespace
    /\ k \in DOMAIN namespace[o].jmprel
    /\ e = namespace[o].jmprel[k]
    /\ mem[Place(o, e)] = Stub(o, e)

got_fixup_WrongTable(o, k, e, m) ==
    /\ Calls(o, k, e)
    /\ k \in DOMAIN namespace[got[o]].rela
    /\ LET map == got[o]
           ent == namespace[map].rela[k] IN
       /\ Found(namespace, 0, ent.sym, m)
       /\ mem' = [mem EXCEPT ![Place(map, ent)] = SymbolAddr(m, ent.sym)]
    /\ UNCHANGED <<namespace, pc, l, table, rela, l_relocated, got>>
got_fixup(o, k, e, m) ==
    /\ Calls(o, k, e)
    /\ LET map == got[o]
           ent == namespace[map].jmprel[k] IN
       /\ Found(namespace, 0, ent.sym, m)
       /\ mem' = [mem EXCEPT ![Place(map, ent)] = SymbolAddr(m, ent.sym)]
    /\ UNCHANGED <<namespace, pc, l, table, rela, l_relocated, got>>

got_fixup_fails(o, k, e) ==
    /\ Calls(o, k, e)
    /\ \/ Missing(namespace, 0, namespace[got[o]].jmprel[k].sym) /\ Stop("dead")
       \/ Killed(namespace, 0, namespace[got[o]].jmprel[k].sym) /\ Stop("crashed")

Running == pc # "reloc" /\ UNCHANGED vars

Linking ==
    \/ EnterObject
    \/ \E e \in UNION {Entries(namespace[i]) : i \in DOMAIN namespace} :
          \/ RelocRelative(e) \/ RelocJumpSlot(e) \/ RelocFails(e)
          \/ \E m \in DOMAIN namespace : RelocSymbol(e, m) \/ RelocCopy(e, m)
    \/ EnterPlt \/ EnterPltFails
    \/ FinishObject
    \/ StartProgram

LazyBinding ==
    \E o \in DOMAIN namespace : \E k \in DOMAIN namespace[o].jmprel :
        LET e == namespace[o].jmprel[k] IN
        \/ \E m \in DOMAIN namespace : got_fixup(o, k, e, m)
        \/ got_fixup_fails(o, k, e)

Next == Linking \/ LazyBinding \/ Running

Spec == Init /\ [][Next]_vars

(* The linker runs until it hands over; whether the program calls is its own affair. *)
FairSpec == Spec /\ WF_vars(Linking)

-----------------------------------------------------------------------------

(***************************************************************************)
(* Conventions that reloc_rela relies on and does not check.  A pointer    *)
(* that is to be filled, in the global offset table, is 0 in the file; a   *)
(* variable that is copied belongs to the object that has the copy, which  *)
(* is what no object in front of it defines; and no variable is a word of  *)
(* the PLT.                                                                *)
(***************************************************************************)
PointersEmpty ==
    \A ns \in Namespaces : \A i \in DOMAIN ns : \A e \in EntriesOf(ns[i].rela) :
        e.type = "GLOB_DAT" => ns[i].image[e.offset] = 0

CopyInFront ==
    \A ns \in Namespaces : \A i \in DOMAIN ns : \A e \in EntriesOf(ns[i].rela) :
        e.type = "COPY" =>
            /\ Defines(ns, i, e.sym) /\ ns[i].defs[e.sym] = e.offset
            /\ \A j \in 1 .. i - 1 : ~Defines(ns, j, e.sym)
            /\ \A m \in DOMAIN ns : \A f \in EntriesOf(ns[m].jmprel) :
                  ns[m].defs[e.sym] # f.offset

(* The object a symbol belongs to: the first of the namespace that defines it. *)
Owner(name) ==
    CHOOSE m \in DOMAIN namespace :
        Defines(namespace, m, name) /\ \A j \in 1 .. m - 1 : ~Defines(namespace, j, name)

(***************************************************************************)
(* What a data word is to be increased by, its contents in the file and    *)
(* the addend of an R_X86_64_64 entry aside.                               *)
(***************************************************************************)
DataType == {"RELATIVE", "64", "GLOB_DAT"}

Displacement(o, e) ==
    IF e.type = "RELATIVE" THEN namespace[o].l_addr + e.addend
    ELSE SymbolAddr(Owner(e.sym), e.sym)

(***************************************************************************)
(* Each data word has been increased once, by the load address of its own  *)
(* object and the addend or by the address of the first definition of its  *)
(* symbol, whatever was in the word, which reloc_rela adds to instead of   *)
(* setting it.                                                             *)
(***************************************************************************)
IncreasedOnce(o, e) == mem[Place(o, e)] = namespace[o].image[e.offset] + Displacement(o, e)

(***************************************************************************)
(* The value the x86-64 ABI asks for in the word of a relocation, with the *)
(* word's contents before relocation irrelevant: B + A, S + A and S.       *)
(***************************************************************************)
AbiValue(o, e) ==
    CASE e.type = "RELATIVE" -> namespace[o].l_addr + e.addend
      [] e.type = "64"       -> SymbolAddr(Owner(e.sym), e.sym) + e.addend
      [] e.type = "GLOB_DAT" -> SymbolAddr(Owner(e.sym), e.sym)

(* What has to be in a word of the file for its value to be right after relocation. *)
InPlace(e) == IF e.type = "64" THEN e.addend ELSE 0

AbiExactlyIfInPlace(o, e) ==
    mem[Place(o, e)] = AbiValue(o, e) <=> namespace[o].image[e.offset] = InPlace(e)

(***************************************************************************)
(* When the program starts, and ever after, each data word has been        *)
(* increased once, whatever entries there are besides and whatever the     *)
(* program has called.  So these have the value the ABI asks for: words of *)
(* R_X86_64_RELATIVE and R_X86_64_GLOB_DAT entries that are 0 in the file, *)
(* words of R_X86_64_64 entries that hold their addend in the file, and no *)
(* others.  GNU ld puts the addend of a RELATIVE entry into the word as    *)
(* well, where the code adds it again, and that of a 64 entry into the     *)
(* entry alone, where the code does not look: what the comment there       *)
(* (reloc.c:95) is not sure of is wrong for each addend but 0.             *)
(***************************************************************************)
Relocated ==
    pc = "run" =>
        \A o \in DOMAIN namespace : \A e \in EntriesOf(namespace[o].rela) :
            e.type \in DataType => IncreasedOnce(o, e) /\ AbiExactlyIfInPlace(o, e)

(* Object m is the one the COPY entry of object o copies from. *)
IsSource(o, name, m) ==
    /\ m # o /\ Defines(namespace, m, name)
    /\ \A j \in 1 .. m - 1 : j = o \/ ~Defines(namespace, j, name)

(***************************************************************************)
(* A variable the program has a copy of starts with the value it has in    *)
(* its library, all of it, and with that value's own relocation applied.   *)
(***************************************************************************)
CopiedWhole ==
    pc = "run" =>
        \A o \in DOMAIN namespace : \A e \in EntriesOf(namespace[o].rela) :
            e.type = "COPY" =>
                \E m \in DOMAIN namespace :
                    /\ IsSource(o, e.sym, m)
                    /\ \A w \in 0 .. Width[e.sym] - 1 :
                          mem[Place(o, e) + w] = mem[SymbolAddr(m, e.sym) + w]

(***************************************************************************)
(* The program and its libraries refer to one variable at one address: the *)
(* pointer a library has to a variable that the program has a copy of      *)
(* leads to the copy (sample/mini.c tests this by hand).                   *)
(***************************************************************************)
OneVariable ==
    pc = "run" =>
        \A p, o \in DOMAIN namespace :
            \A c \in EntriesOf(namespace[p].rela), e \in EntriesOf(namespace[o].rela) :
                (c.type = "COPY" /\ e.type = "GLOB_DAT" /\ c.sym = e.sym)
                    => mem[Place(o, e)] = Place(p, c)

(***************************************************************************)
(* While the program runs, the word of every PLT entry leads back into the *)
(* entry's own object, to be bound with that object's got[1], or to the    *)
(* function the name stands for.                                           *)
(***************************************************************************)
CallsLand ==
    pc = "run" =>
        \A o \in DOMAIN namespace : \A e \in EntriesOf(namespace[o].jmprel) :
            \/ mem[Place(o, e)] = Stub(o, e) /\ got[o] = o
            \/ mem[Place(o, e)] = SymbolAddr(Owner(e.sym), e.sym)

(***************************************************************************)
(* Binding is final: while the program runs the linker writes to no word   *)
(* but an unbound one, and so binds each at most once.                     *)
(***************************************************************************)
BoundOnce ==
    [][pc = "run" =>
          \A a \in DOMAIN mem : mem'[a] # mem[a] =>
              \E o \in DOMAIN namespace : \E e \in EntriesOf(namespace[o].jmprel) :
                  a = Place(o, e) /\ mem[a] = Stub(o, e)]_vars

(* The linker hands over to the program or gives up. *)
Handover == <>(pc # "reloc")
=============================================================================
