---------------------------- MODULE RelocProofs -----------------------------
(***************************************************************************)
(* Proofs about Reloc, for every namespace of objects that link editors    *)
(* and mmap can produce, and about Lookup, whose outcome Reloc takes from  *)
(* Scope, for every name and every well-made hash table.                   *)
(*                                                                         *)
(* The argument about Reloc is about words.  An entry is done once         *)
(* reloc_rela has gone past it; the invariant says what is in the word of  *)
(* each entry that is done, and that all other words are as they are in    *)
(* the file.                                                               *)
(***************************************************************************)
EXTENDS Reloc, Lookup, TLAPS

TableOf(o, t) == IF t = "rela" THEN namespace[o].rela ELSE namespace[o].jmprel

(* Entry k of table t of object o has been applied. *)
Done(o, t, k) ==
    \/ l < o
    \/ o = l /\ table = "plt" /\ t = "rela"
    \/ o = l /\ table = t /\ k < rela

Tables == {"rela", "plt"}

(* reloc_all has come to object l, and the ones behind it can bind their calls. *)
Progress ==
    /\ namespace \in Namespaces
    /\ l \in 0 .. Len(namespace)
    /\ table \in Tables \cup {"enter"}
    /\ l = 0 => table = "enter"
    /\ pc = "run" => l = 0
    /\ rela \in Nat \ {0}
    /\ l_relocated = l + 1 .. Len(namespace)
    /\ DOMAIN got = DOMAIN namespace
    /\ \A o \in DOMAIN namespace : (l < o /\ namespace[o].pltgot) => got[o] = o
    /\ DOMAIN mem = UNION {Addresses(namespace[i]) : i \in DOMAIN namespace}

(* A word that no entry done so far is about is as it is in the file. *)
Pristine ==
    \A o \in DOMAIN namespace : \A off \in DOMAIN namespace[o].image :
        (\A t \in Tables : \A k \in DOMAIN TableOf(o, t) :
            Done(o, t, k) => TableOf(o, t)[k].offset # off)
        => mem[namespace[o].l_addr + off] = namespace[o].image[off]

(* The word of a PLT entry leads to the PLT or to the function. *)
Slots ==
    \A o \in DOMAIN namespace : \A k \in DOMAIN namespace[o].jmprel :
        Done(o, "plt", k) =>
            LET e == namespace[o].jmprel[k] IN
            mem[Place(o, e)] \in {Stub(o, e), SymbolAddr(Owner(e.sym), e.sym)}

(* What was in the word of a data entry, and what was added. *)
Sum(o, e) ==
    /\ e.type = "RELATIVE" =>
          mem[Place(o, e)] = namespace[o].image[e.offset] + (namespace[o].l_addr + e.addend)
    /\ e.type \in {"64", "GLOB_DAT"} =>
          /\ Owner(e.sym) \in DOMAIN namespace /\ Defines(namespace, Owner(e.sym), e.sym)
          /\ mem[Place(o, e)] = namespace[o].image[e.offset] + SymbolAddr(Owner(e.sym), e.sym)

Data ==
    \A o \in DOMAIN namespace : \A k \in DOMAIN namespace[o].rela :
        Done(o, "rela", k) => Sum(o, namespace[o].rela[k])

RelocInv == Progress /\ Pristine /\ Slots /\ Data

-----------------------------------------------------------------------------

(* What the assumption says of the objects of a namespace. *)
LEMMA ObjectFacts ==
    ASSUME NEW ns \in Namespaces
    PROVE  /\ Len(ns) \in Nat \ {0} /\ DOMAIN ns = 1 .. Len(ns)
           /\ \A i \in DOMAIN ns :
                 /\ ns[i].l_addr \in Nat /\ DOMAIN ns[i].image \subseteq Nat
                 /\ \A off \in DOMAIN ns[i].image : ns[i].image[off] \in Nat
                 /\ ns[i].defs \in [Name -> Nat]
                 /\ ns[i].rela \in Seq(Rela) /\ ns[i].jmprel \in Seq(Rela)
                 /\ OnePerWord(ns[i])
  <1> DEFINE S == {ns[i] : i \in DOMAIN ns}
  <1>1. ns \in Seq(S) /\ Len(ns) > 0
    BY RelocAssumption
  <1>2. Len(ns) \in Nat \ {0} /\ DOMAIN ns = 1 .. Len(ns)
    <2> HIDE DEF S
    <2> QED BY <1>1
  <1>3. \A i \in DOMAIN ns : IsObject(ns[i]) /\ OnePerWord(ns[i])
    BY RelocAssumption
  <1> QED BY <1>2, <1>3 DEF IsObject

(* Entries have their types and are about words of their object. *)
LEMMA EntryFacts ==
    ASSUME NEW ns \in Namespaces, NEW i \in DOMAIN ns
    PROVE  /\ \A k \in DOMAIN ns[i].rela :
                 LET e == ns[i].rela[k] IN
                 /\ e \in Rela /\ e.type \in RelocType /\ e.offset \in Nat
                 /\ e.addend \in Nat /\ e.sym \in Name
                 /\ e.offset \in DOMAIN ns[i].image /\ e.type # "JUMP_SLOT"
           /\ \A k \in DOMAIN ns[i].jmprel :
                 LET e == ns[i].jmprel[k] IN
                 /\ e \in Rela /\ e.offset \in Nat /\ e.sym \in Name
                 /\ e.offset \in DOMAIN ns[i].image /\ e.type = "JUMP_SLOT"
                 /\ ns[i].pltgot
  <1>1. /\ ns[i].rela \in Seq(Rela) /\ ns[i].jmprel \in Seq(Rela)
        /\ DOMAIN ns[i].rela = 1 .. Len(ns[i].rela)
        /\ DOMAIN ns[i].jmprel = 1 .. Len(ns[i].jmprel)
    BY ObjectFacts
  <1>2. ASSUME NEW k \in DOMAIN ns[i].rela
        PROVE  /\ ns[i].rela[k] \in Rela
               /\ ns[i].rela[k] \in EntriesOf(ns[i].rela)
               /\ ns[i].rela[k] \in Entries(ns[i])
    BY <1>1 DEF EntriesOf, Entries
  <1>3. ASSUME NEW k \in DOMAIN ns[i].jmprel
        PROVE  /\ ns[i].jmprel[k] \in Rela
               /\ ns[i].jmprel[k] \in EntriesOf(ns[i].jmprel)
               /\ ns[i].jmprel[k] \in Entries(ns[i])
               /\ ns[i].jmprel # <<>>
    BY <1>1 DEF EntriesOf, Entries
  <1>4. ASSUME NEW e \in Rela
        PROVE  e.type \in RelocType /\ e.offset \in Nat /\ e.sym \in Name /\ e.addend \in Nat
    BY DEF Rela
  <1>5. /\ \A e \in Entries(ns[i]) : e.offset \in DOMAIN ns[i].image
        /\ \A e \in EntriesOf(ns[i].jmprel) : e.type = "JUMP_SLOT"
        /\ \A e \in EntriesOf(ns[i].rela) : e.type # "JUMP_SLOT"
        /\ ~ns[i].pltgot => ns[i].jmprel = <<>>
    BY RelocAssumption
  <1>6. ns[i].pltgot \in BOOLEAN
    BY RelocAssumption DEF IsObject
  <1> QED BY <1>2, <1>3, <1>4, <1>5, <1>6

(* An address belongs to one object, and there to one offset. *)
LEMMA WordsApart ==
    ASSUME NEW ns \in Namespaces, NEW i \in DOMAIN ns, NEW j \in DOMAIN ns,
           NEW x \in DOMAIN ns[i].image, NEW y \in DOMAIN ns[j].image,
           ns[i].l_addr + x = ns[j].l_addr + y
    PROVE  i = j /\ x = y
  <1>1. ns[i].l_addr + x \in Addresses(ns[i]) /\ ns[j].l_addr + y \in Addresses(ns[j])
    BY DEF Addresses
  <1>2. i # j => Addresses(ns[i]) \cap Addresses(ns[j]) = {}
    BY RelocAssumption
  <1>3. i = j
    BY <1>1, <1>2
  <1>4. ns[i].l_addr \in Nat /\ x \in Nat /\ y \in Nat
    BY <1>3, ObjectFacts
  <1> QED BY <1>3, <1>4

(* Memory at first. *)
LEMMA ImageWords ==
    ASSUME NEW ns \in Namespaces, NEW i \in DOMAIN ns, NEW off \in DOMAIN ns[i].image
    PROVE  /\ ns[i].l_addr + off \in DOMAIN Image(ns)
           /\ Image(ns)[ns[i].l_addr + off] = ns[i].image[off]
  <1> DEFINE a == ns[i].l_addr + off
             c == CHOOSE j \in DOMAIN ns : a \in Addresses(ns[j])
  <1>1. a \in Addresses(ns[i])
    BY DEF Addresses
  <1>2. c \in DOMAIN ns /\ a \in Addresses(ns[c])
    BY <1>1
  <1>3. c = i
    BY <1>1, <1>2, RelocAssumption
  <1>4. Image(ns)[a] = ns[c].image[a - ns[c].l_addr] /\ a \in DOMAIN Image(ns)
    BY <1>1 DEF Image
  <1>5. a - ns[i].l_addr = off
    BY ObjectFacts
  <1> QED BY <1>3, <1>4, <1>5
(* Lookup finds the owner of a name. *)
LEMMA FoundOwner ==
    ASSUME NEW name, NEW m \in DOMAIN namespace, namespace \in Namespaces,
           Found(namespace, 0, name, m)
    PROVE  Owner(name) = m /\ Defines(namespace, m, name)
  <1>1. DOMAIN namespace = 1 .. Len(namespace) /\ Len(namespace) \in Nat
    BY ObjectFacts
  <1> DEFINE Is(c) == Defines(namespace, c, name) /\ \A j \in 1 .. c - 1 : ~Defines(namespace, j, name)
  <1>2. Is(m)
    BY <1>1 DEF Found, PassedOver
  <1>3. ASSUME NEW c \in DOMAIN namespace, Is(c) PROVE c = m
    <2>1. c \in Nat \ {0} /\ m \in Nat \ {0}
      BY <1>1
    <2>2. ~(c < m)
      BY <1>2, <1>3, <2>1
    <2>3. ~(m < c)
      BY <1>2, <1>3, <2>1
    <2> QED BY <2>1, <2>2, <2>3
  <1>4. Owner(name) = CHOOSE c \in DOMAIN namespace : Is(c)
    BY DEF Owner
  <1> HIDE DEF Is
  <1> QED BY <1>2, <1>3, <1>4 DEF Found

(* The word of an entry is a word of its object, and no other entry's. *)
LEMMA PlacesApart ==
    ASSUME namespace \in Namespaces,
           NEW o \in DOMAIN namespace, NEW t \in Tables, NEW k \in DOMAIN TableOf(o, t),
           NEW p \in DOMAIN namespace, NEW u \in Tables, NEW j \in DOMAIN TableOf(p, u),
           Place(o, TableOf(o, t)[k]) = Place(p, TableOf(p, u)[j])
    PROVE  o = p /\ t = u /\ k = j
  <1>1. /\ TableOf(o, t)[k].offset \in DOMAIN namespace[o].image
        /\ TableOf(p, u)[j].offset \in DOMAIN namespace[p].image
    BY EntryFacts DEF TableOf, Tables
  <1>2. o = p /\ TableOf(o, t)[k].offset = TableOf(p, u)[j].offset
    BY <1>1, WordsApart DEF Place
  <1>3. OnePerWord(namespace[o])
    BY ObjectFacts
  <1>4. t = u
    BY <1>2, <1>3 DEF OnePerWord, TableOf, Tables, EntriesOf
  <1> QED BY <1>2, <1>3, <1>4 DEF OnePerWord, TableOf, Tables

(* The entry reloc_rela is at. *)
LEMMA AtFacts ==
    ASSUME Progress, NEW e, At(e)
    PROVE  /\ l \in DOMAIN namespace /\ table \in Tables /\ table # "enter"
           /\ Table = TableOf(l, table) /\ rela \in DOMAIN TableOf(l, table)
           /\ e = TableOf(l, table)[rela]
           /\ e.offset \in DOMAIN namespace[l].image /\ e.offset \in Nat
           /\ e.sym \in Name /\ pc = "reloc"
           /\ namespace[l].l_addr \in Nat /\ Place(l, e) \in DOMAIN mem
           /\ table = "plt" <=> e.type = "JUMP_SLOT"
           /\ ~Done(l, table, rela)
  <1>1. l \in DOMAIN namespace
    BY ObjectFacts DEF Progress, At
  <1>2. /\ table \in Tables /\ table # "enter" /\ Table = TableOf(l, table)
        /\ rela \in DOMAIN TableOf(l, table) /\ e = TableOf(l, table)[rela] /\ pc = "reloc"
    BY DEF At, Table, TableOf, Progress, Tables
  <1>3. namespace \in Namespaces
    BY DEF Progress
  <1>4. /\ e.offset \in DOMAIN namespace[l].image /\ e.offset \in Nat /\ e.sym \in Name
        /\ table = "plt" <=> e.type = "JUMP_SLOT"
    BY <1>1, <1>2, <1>3, EntryFacts DEF TableOf, Tables
  <1>5. Place(l, e) \in Addresses(namespace[l])
    BY <1>4 DEF Place, Addresses
  <1>6. Place(l, e) \in DOMAIN mem
    BY <1>1, <1>5 DEF Progress
  <1>7. namespace[l].l_addr \in Nat
    BY <1>1, <1>3, ObjectFacts
  <1>8. ~Done(l, table, rela)
    BY DEF Done, Progress, At
  <1> QED BY <1>1, <1>2, <1>4, <1>6, <1>7, <1>8

(* It is added to a word that no other entry has changed. *)
LEMMA AtPristine ==
    ASSUME RelocInv, NEW e, At(e)
    PROVE  mem[Place(l, e)] = namespace[l].image[e.offset]
  <1> USE AtFacts DEF RelocInv
  <1>1. ASSUME NEW t \in Tables, NEW k \in DOMAIN TableOf(l, t), Done(l, t, k),
               TableOf(l, t)[k].offset = e.offset
        PROVE  FALSE
    <2>1. Place(l, TableOf(l, t)[k]) = Place(l, TableOf(l, table)[rela])
      BY <1>1 DEF Place
    <2>2. t = table /\ k = rela
      BY <2>1, PlacesApart DEF Progress
    <2> QED BY <1>1, <2>2
  <1> QED BY <1>1 DEF Pristine, Place


(* The namespace stays as it is, and with it all that is defined by it. *)
LEMMA SameNamespace ==
    ASSUME namespace' = namespace
    PROVE  /\ \A name : Owner(name)' = Owner(name)
           /\ \A o, e : Place(o, e)' = Place(o, e) /\ Stub(o, e)' = Stub(o, e)
           /\ \A m, name : SymbolAddr(m, name)' = SymbolAddr(m, name)
           /\ \A o, t : TableOf(o, t)' = TableOf(o, t)
  BY DEF Owner, Place, Stub, SymbolAddr, TableOf

(* A data word that is not written keeps its value. *)
LEMMA SumStable ==
    ASSUME namespace' = namespace, NEW o, NEW e, Sum(o, e),
           mem'[Place(o, e)] = mem[Place(o, e)]
    PROVE  Sum(o, e)'
  BY SameNamespace DEF Sum, Defines

(* Of all words, and of the words of all entries, only the one of this entry is written. *)
WroteOnly(o, t, k, v) ==
    LET e == TableOf(o, t)[k] IN
    /\ DOMAIN mem' = DOMAIN mem
    /\ mem'[Place(o, e)] = v
    /\ \A p \in DOMAIN namespace : \A off \in DOMAIN namespace[p].image :
          (p # o \/ off # e.offset) =>
              mem'[namespace[p].l_addr + off] = mem[namespace[p].l_addr + off]
    /\ \A p \in DOMAIN namespace : \A u \in Tables : \A j \in DOMAIN TableOf(p, u) :
          (p # o \/ u # t \/ j # k) =>
              mem'[Place(p, TableOf(p, u)[j])] = mem[Place(p, TableOf(p, u)[j])]

(* An assignment to the word of an entry touches no other word. *)
LEMMA WriteOne ==
    ASSUME Progress, namespace' = namespace,
           NEW o \in DOMAIN namespace, NEW t \in Tables, NEW k \in DOMAIN TableOf(o, t),
           NEW v, mem' = [mem EXCEPT ![Place(o, TableOf(o, t)[k])] = v]
    PROVE  WroteOnly(o, t, k, v)
  <1> DEFINE a == Place(o, TableOf(o, t)[k])
  <1>1. namespace \in Namespaces
    BY DEF Progress
  <1>2. ASSUME NEW p \in DOMAIN namespace, NEW off \in DOMAIN namespace[p].image
        PROVE  namespace[p].l_addr + off \in DOMAIN mem
    <2>1. namespace[p].l_addr + off \in Addresses(namespace[p])
      BY DEF Addresses
    <2> QED BY <2>1 DEF Progress
  <1>3. ASSUME NEW p \in DOMAIN namespace, NEW u \in Tables, NEW j \in DOMAIN TableOf(p, u)
        PROVE  TableOf(p, u)[j].offset \in DOMAIN namespace[p].image
    BY <1>1, EntryFacts DEF TableOf, Tables
  <1>4. ASSUME NEW p \in DOMAIN namespace, NEW u \in Tables, NEW j \in DOMAIN TableOf(p, u)
        PROVE  Place(p, TableOf(p, u)[j]) \in DOMAIN mem
    BY <1>2, <1>3 DEF Place
  <1>5. a \in DOMAIN mem
    BY <1>4
  <1>6. ASSUME NEW p \in DOMAIN namespace, NEW off \in DOMAIN namespace[p].image,
               p # o \/ off # TableOf(o, t)[k].offset
        PROVE  namespace[p].l_addr + off # a
    BY <1>1, <1>3, <1>6, WordsApart DEF Place
  <1>7. ASSUME NEW p \in DOMAIN namespace, NEW u \in Tables, NEW j \in DOMAIN TableOf(p, u),
               p # o \/ u # t \/ j # k
        PROVE  Place(p, TableOf(p, u)[j]) # a
    BY <1>1, <1>7, PlacesApart
  <1>8. ASSUME NEW b \in DOMAIN mem, b # a PROVE mem'[b] = mem[b]
    BY <1>8
  <1> QED BY <1>2, <1>4, <1>5, <1>6, <1>7, <1>8 DEF WroteOnly

(***************************************************************************)
(* reloc_rela goes on to the next entry, with the right value in the word  *)
(* of the one it was at.                                                   *)
(***************************************************************************)
LEMMA EntryStep ==
    ASSUME RelocInv, NEW e, At(e), NextEntry,
           NEW v, mem' = [mem EXCEPT ![Place(l, e)] = v],
           table = "plt" => v = Stub(l, e),
           mem'[Place(l, e)] = v => (table = "rela" => Sum(l, e)')
    PROVE  RelocInv'
  <1> USE DEF RelocInv
  <1>1. /\ l \in DOMAIN namespace /\ table \in Tables /\ table # "enter"
        /\ rela \in DOMAIN TableOf(l, table) /\ e = TableOf(l, table)[rela]
        /\ e.offset \in DOMAIN namespace[l].image
    BY AtFacts
  <1>2. /\ namespace' = namespace /\ l' = l /\ table' = table /\ rela' = rela + 1
        /\ pc' = pc /\ l_relocated' = l_relocated /\ got' = got
    BY DEF NextEntry
  <1>3. /\ DOMAIN mem' = DOMAIN mem
        /\ mem'[Place(l, e)] = v
        /\ \A p \in DOMAIN namespace : \A off \in DOMAIN namespace[p].image :
              (p # l \/ off # e.offset) =>
                  mem'[namespace[p].l_addr + off] = mem[namespace[p].l_addr + off]
        /\ \A p \in DOMAIN namespace : \A u \in Tables : \A j \in DOMAIN TableOf(p, u) :
              (p # l \/ u # table \/ j # rela) =>
                  mem'[Place(p, TableOf(p, u)[j])] = mem[Place(p, TableOf(p, u)[j])]
    <2>1. mem' = [mem EXCEPT ![Place(l, TableOf(l, table)[rela])] = v]
      BY <1>1
    <2>2. WroteOnly(l, table, rela, v)
      BY <1>1, <1>2, <2>1, WriteOne
    <2> QED BY <1>1, <2>2 DEF WroteOnly
  <1>4. Progress'
    BY <1>2, <1>3 DEF Progress
  <1>5. ASSUME NEW p \in DOMAIN namespace, NEW u \in Tables, NEW j \in DOMAIN TableOf(p, u)
        PROVE  Done(p, u, j)' <=> Done(p, u, j) \/ (p = l /\ u = table /\ j = rela)
    <2>1. namespace[p].rela \in Seq(Rela) /\ namespace[p].jmprel \in Seq(Rela)
      BY ObjectFacts DEF Progress
    <2>2. j \in Nat /\ rela \in Nat
      BY <2>1 DEF TableOf, Progress
    <2> QED BY <1>1, <1>2, <2>2 DEF Done
  <1>6. Pristine'
    <2> SUFFICES ASSUME NEW p \in DOMAIN namespace, NEW off \in DOMAIN namespace[p].image,
                        \A u \in Tables : \A j \in DOMAIN TableOf(p, u) :
                            Done(p, u, j)' => TableOf(p, u)[j].offset # off
                 PROVE  mem'[namespace[p].l_addr + off] = namespace[p].image[off]
      BY <1>2, SameNamespace DEF Pristine
    <2>1. mem[namespace[p].l_addr + off] = namespace[p].image[off]
      BY <1>5 DEF Pristine
    <2>2. p # l \/ off # e.offset
      BY <1>1, <1>5
    <2> QED BY <1>3, <2>1, <2>2
  <1>7. Slots'
    <2> SUFFICES ASSUME NEW p \in DOMAIN namespace, NEW j \in DOMAIN TableOf(p, "plt"),
                        Done(p, "plt", j)'
                 PROVE  LET f == TableOf(p, "plt")[j] IN
                        mem'[Place(p, f)] \in {Stub(p, f), SymbolAddr(Owner(f.sym), f.sym)}
      BY <1>2, SameNamespace DEF Slots, TableOf
    <2>1. CASE p = l /\ table = "plt" /\ j = rela
      BY <1>1, <1>3, <2>1
    <2>2. CASE ~(p = l /\ table = "plt" /\ j = rela)
      <3>1. Done(p, "plt", j)
        BY <1>5, <2>2 DEF Tables
      <3>2. mem'[Place(p, TableOf(p, "plt")[j])] = mem[Place(p, TableOf(p, "plt")[j])]
        BY <1>3, <2>2 DEF Tables
      <3> QED BY <3>1, <3>2 DEF Slots, TableOf
    <2> QED BY <2>1, <2>2
  <1>8. Data'
    <2> SUFFICES ASSUME NEW p \in DOMAIN namespace, NEW j \in DOMAIN TableOf(p, "rela"),
                        Done(p, "rela", j)', NEW f, f = TableOf(p, "rela")[j]
                 PROVE  Sum(p, f)'
      BY <1>2, SameNamespace DEF Data, TableOf
    <2>1. CASE p = l /\ table = "rela" /\ j = rela
      BY <1>1, <1>2, <1>3, <2>1, SameNamespace
    <2>2. CASE ~(p = l /\ table = "rela" /\ j = rela)
      <3>1. Done(p, "rela", j)
        BY <1>5, <2>2 DEF Tables
      <3>2. mem'[Place(p, f)] = mem[Place(p, f)]
        BY <1>3, <2>2 DEF Tables
      <3>3. Sum(p, f)
        BY <3>1 DEF Data, TableOf
      <3> QED BY <1>2, <3>2, <3>3, SumStable
    <2> QED BY <2>1, <2>2
  <1> QED BY <1>4, <1>6, <1>7, <1>8

(* A step that writes to no word, and after which the same entries are done ... *)
Quiet ==
    /\ Progress'
    /\ namespace' = namespace /\ mem' = mem
    /\ \A p \in DOMAIN namespace : \A u \in Tables : \A j \in DOMAIN TableOf(p, u) :
          Done(p, u, j)' <=> Done(p, u, j)

(* ... keeps the invariant. *)
LEMMA QuietStep ==
    ASSUME RelocInv, Quiet
    PROVE  RelocInv'
  <1> USE DEF RelocInv, Quiet
  <1>1. Pristine'
    BY SameNamespace DEF Pristine
  <1>2. Slots'
    BY SameNamespace DEF Slots, TableOf, Tables
  <1>3. Data'
    <2> SUFFICES ASSUME NEW p \in DOMAIN namespace, NEW j \in DOMAIN TableOf(p, "rela"),
                        Done(p, "rela", j)', NEW f, f = TableOf(p, "rela")[j]
                 PROVE  Sum(p, f)'
      BY SameNamespace DEF Data, TableOf
    <2>1. Sum(p, f)
      BY DEF Data, TableOf, Tables
    <2> QED BY <2>1, SumStable
  <1> QED BY <1>1, <1>2, <1>3

(* The tables of an object, and where reloc_rela may be in them. *)
LEMMA TableFacts ==
    ASSUME Progress
    PROVE  /\ Len(namespace) \in Nat \ {0} /\ DOMAIN namespace = 1 .. Len(namespace)
           /\ l \in Nat /\ rela \in Nat \ {0}
           /\ \A p \in DOMAIN namespace : \A u \in Tables :
                 /\ Len(TableOf(p, u)) \in Nat
                 /\ DOMAIN TableOf(p, u) = 1 .. Len(TableOf(p, u))
  <1>1. Len(namespace) \in Nat \ {0} /\ DOMAIN namespace = 1 .. Len(namespace)
    BY ObjectFacts DEF Progress
  <1>2. \A p \in DOMAIN namespace : \A u \in Tables : TableOf(p, u) \in Seq(Rela)
    BY ObjectFacts DEF Progress, TableOf
  <1> QED BY <1>1, <1>2 DEF Progress

(* The steps from one table, and from one object, to the next. *)
LEMMA WalkSteps ==
    ASSUME RelocInv, EnterObject \/ EnterPlt \/ FinishObject \/ StartProgram
    PROVE  Quiet
  <1> USE TableFacts DEF RelocInv
  <1>1. CASE EnterObject
    <2>1. /\ l \notin l_relocated /\ table = "enter" /\ l \in DOMAIN namespace
      BY <1>1 DEF EnterObject, Progress
    <2>2. /\ table' = "rela" /\ rela' = 1 /\ l' = l /\ pc' = pc /\ pc = "reloc" /\ l > 0
          /\ UNCHANGED <<namespace, mem, l_relocated, got>>
      BY <1>1, <2>1 DEF EnterObject
    <2>3. Progress'
      BY <2>2 DEF Progress, Tables
    <2>4. ASSUME NEW p \in DOMAIN namespace, NEW u \in Tables, NEW j \in DOMAIN TableOf(p, u)
          PROVE  Done(p, u, j)' <=> Done(p, u, j)
      BY <2>1, <2>2 DEF Done, Tables
    <2> QED BY <2>2, <2>3, <2>4 DEF Quiet
  <1>2. CASE EnterPlt
    <2>1. /\ table = "rela" /\ l \in DOMAIN namespace /\ rela \notin DOMAIN TableOf(l, "rela")
      BY <1>2 DEF EnterPlt, RelaDone, Progress, Table, TableOf
    <2>2. /\ table' = "plt" /\ rela' = 1 /\ l' = l /\ pc' = pc /\ l > 0
          /\ UNCHANGED <<namespace, mem, l_relocated, got>>
      BY <1>2 DEF EnterPlt, RelaDone
    <2>3. Progress'
      BY <2>2 DEF Progress, Tables
    <2>4. ASSUME NEW p \in DOMAIN namespace, NEW u \in Tables, NEW j \in DOMAIN TableOf(p, u)
          PROVE  Done(p, u, j)' <=> Done(p, u, j)
      <3>1. (p = l /\ u = "rela") => j < rela
        BY <2>1 DEF Tables
      <3> QED BY <2>1, <2>2, <3>1 DEF Done, Tables
    <2> QED BY <2>2, <2>3, <2>4 DEF Quiet
  <1>3. CASE FinishObject
    <2>1. /\ table = "plt" /\ l \in DOMAIN namespace /\ rela \notin DOMAIN TableOf(l, "plt")
      BY <1>3 DEF FinishObject, Progress, Table, TableOf
    <2>2. /\ table' = "enter" /\ rela' = 1 /\ l' = l - 1 /\ pc' = pc /\ pc = "reloc" /\ l > 0
          /\ l_relocated' = l_relocated \cup {l}
          /\ got' = IF namespace[l].pltgot THEN [got EXCEPT ![l] = l] ELSE got
          /\ UNCHANGED <<namespace, mem>>
      BY <1>3 DEF FinishObject
    <2>3. Progress'
      <3>1. DOMAIN got' = DOMAIN namespace
        BY <2>2 DEF Progress
      <3>2. \A o \in DOMAIN namespace : (l' < o /\ namespace[o].pltgot) => got'[o] = o
        BY <2>1, <2>2 DEF Progress
      <3>3. l_relocated' = l' + 1 .. Len(namespace)
        BY <2>1, <2>2 DEF Progress
      <3> QED BY <2>1, <2>2, <3>1, <3>2, <3>3 DEF Progress
    <2>4. ASSUME NEW p \in DOMAIN namespace, NEW u \in Tables, NEW j \in DOMAIN TableOf(p, u)
          PROVE  Done(p, u, j)' <=> Done(p, u, j)
      <3>1. (p = l /\ u = "plt") => j < rela
        BY <2>1 DEF Tables
      <3>2. l' < p <=> l < p \/ p = l
        BY <2>2
      <3> QED BY <2>1, <2>2, <3>1, <3>2 DEF Done, Tables
    <2> QED BY <2>2, <2>3, <2>4 DEF Quiet
  <1>4. CASE StartProgram
    <2>1. /\ UNCHANGED <<namespace, l, table, rela, mem, l_relocated, got>> /\ l = 0
      BY <1>4 DEF StartProgram
    <2>2. Progress'
      BY <2>1 DEF Progress
    <2> QED BY <2>1, <2>2 DEF Quiet, Done
  <1> QED BY <1>1, <1>2, <1>3, <1>4

(* The linker gives up. *)
LEMMA StopSteps ==
    ASSUME RelocInv, NEW how \in {"dead", "crashed"}, Stop(how)
    PROVE  Quiet
  <1>1. UNCHANGED <<namespace, l, table, rela, mem, l_relocated, got>> /\ pc' = how
    BY DEF Stop
  <1>2. Progress'
    BY <1>1 DEF Progress, RelocInv
  <1> QED BY <1>1, <1>2 DEF Quiet, Done

(* The entries of each type. *)
LEMMA RelocSteps ==
    ASSUME RelocInv, NEW e,
           \/ RelocRelative(e) \/ RelocJumpSlot(e) \/ RelocFails(e)
           \/ \E m \in DOMAIN namespace : RelocSymbol(e, m) \/ RelocCopy(e, m)
    PROVE  RelocInv'
  <1>1. At(e)
    BY DEF RelocRelative, RelocJumpSlot, RelocFails, RelocSymbol, RelocCopy
  <1>2. /\ table = "plt" <=> e.type = "JUMP_SLOT"
        /\ Place(l, e) \in DOMAIN mem
        /\ l \in DOMAIN namespace /\ namespace \in Namespaces
    BY <1>1, AtFacts DEF RelocInv, Progress
  <1>3. mem[Place(l, e)] = namespace[l].image[e.offset]
    BY <1>1, AtPristine
  <1>4. ASSUME NextEntry PROVE namespace' = namespace /\ l' = l
    BY <1>4 DEF NextEntry
  <1>5. CASE RelocRelative(e)
    <2> DEFINE v == namespace[l].image[e.offset] + (namespace[l].l_addr + e.addend)
    <2>1. /\ NextEntry /\ e.type = "RELATIVE"
          /\ mem' = [mem EXCEPT ![Place(l, e)] = v]
      BY <1>2, <1>3, <1>5 DEF RelocRelative, AddTo
    <2>2. ASSUME mem'[Place(l, e)] = v PROVE Sum(l, e)'
      BY <1>4, <2>1, <2>2, SameNamespace DEF Sum
    <2> HIDE DEF v
    <2> QED BY <1>1, <1>2, <2>1, <2>2, EntryStep
  <1>6. CASE RelocJumpSlot(e)
    <2>0. namespace[l].image[e.offset] \in Nat /\ namespace[l].l_addr \in Nat
      BY <1>1, <1>2, AtFacts, ObjectFacts DEF RelocInv
    <2>1. mem[Place(l, e)] + namespace[l].l_addr = Stub(l, e)
      BY <1>3, <2>0 DEF Stub
    <2>2. /\ NextEntry /\ e.type = "JUMP_SLOT"
          /\ mem' = [mem EXCEPT ![Place(l, e)] = mem[Place(l, e)] + namespace[l].l_addr]
      BY <1>2, <1>6 DEF RelocJumpSlot, AddTo
    <2> QED BY <1>1, <1>2, <2>1, <2>2, EntryStep
  <1>7. CASE RelocFails(e)
    BY <1>7, StopSteps, QuietStep DEF RelocFails
  <1>8. ASSUME NEW m \in DOMAIN namespace, RelocSymbol(e, m) PROVE RelocInv'
    <2> DEFINE v == namespace[l].image[e.offset] + SymbolAddr(m, e.sym)
    <2>1. /\ NextEntry /\ e.type \in {"64", "GLOB_DAT"} /\ Found(namespace, 0, e.sym, m)
          /\ mem' = [mem EXCEPT ![Place(l, e)] = v]
      BY <1>2, <1>3, <1>8 DEF RelocSymbol, AddTo
    <2>2. Owner(e.sym) = m /\ Defines(namespace, m, e.sym)
      BY <1>2, <2>1, FoundOwner
    <2>3. ASSUME mem'[Place(l, e)] = v PROVE Sum(l, e)'
      BY <1>4, <2>1, <2>2, <2>3, SameNamespace DEF Sum, Defines
    <2> HIDE DEF v
    <2> QED BY <1>1, <1>2, <2>1, <2>3, EntryStep
  <1>9. ASSUME NEW m \in DOMAIN namespace, RelocCopy(e, m) PROVE RelocInv'
    <2> DEFINE v == mem[SymbolAddr(m, e.sym)]
    <2>1. /\ NextEntry /\ e.type = "COPY"
          /\ mem' = [mem EXCEPT ![Place(l, e)] = v]
      BY <1>9 DEF RelocCopy
    <2>2. Sum(l, e)'
      BY <2>1 DEF Sum
    <2> HIDE DEF v
    <2> QED BY <1>1, <1>2, <2>1, <2>2, EntryStep
  <1> QED BY <1>5, <1>6, <1>7, <1>8, <1>9

(* The word got_fixup writes is the one of the call it was called for. *)
LEMMA FixupFacts ==
    ASSUME RelocInv, NEW o, NEW k, NEW e, Calls(o, k, e)
    PROVE  /\ pc = "run" /\ l = 0 /\ o \in DOMAIN namespace /\ got[o] = o
           /\ k \in DOMAIN TableOf(o, "plt") /\ e = TableOf(o, "plt")[k]
           /\ e = namespace[got[o]].jmprel[k]
           /\ Done(o, "plt", k)
  <1>1. /\ pc = "run" /\ o \in DOMAIN namespace /\ k \in DOMAIN namespace[o].jmprel
        /\ e = namespace[o].jmprel[k]
    BY DEF Calls
  <1>2. namespace \in Namespaces /\ l = 0
    BY <1>1 DEF RelocInv, Progress
  <1>3. namespace[o].pltgot /\ 0 < o
    BY <1>1, <1>2, EntryFacts, ObjectFacts
  <1>4. got[o] = o
    BY <1>1, <1>2, <1>3 DEF RelocInv, Progress
  <1> QED BY <1>1, <1>2, <1>3, <1>4 DEF TableOf, Done

(* What got_fixup changes. *)
LEMMA FixupWrites ==
    ASSUME RelocInv, NEW o, NEW k, NEW e, NEW m \in DOMAIN namespace, got_fixup(o, k, e, m)
    PROVE  /\ UNCHANGED <<namespace, pc, l, table, rela, l_relocated, got>>
           /\ mem' = [mem EXCEPT ![Place(o, TableOf(o, "plt")[k])] = SymbolAddr(m, e.sym)]
           /\ Owner(e.sym) = m
           /\ WroteOnly(o, "plt", k, SymbolAddr(m, e.sym))
  <1>1. /\ o \in DOMAIN namespace /\ got[o] = o
        /\ k \in DOMAIN TableOf(o, "plt") /\ e = TableOf(o, "plt")[k]
        /\ e = namespace[got[o]].jmprel[k]
    BY FixupFacts DEF got_fixup
  <1>2. /\ UNCHANGED <<namespace, pc, l, table, rela, l_relocated, got>>
        /\ Found(namespace, 0, e.sym, m)
        /\ mem' = [mem EXCEPT ![Place(o, TableOf(o, "plt")[k])] = SymbolAddr(m, e.sym)]
    BY <1>1 DEF got_fixup
  <1>3. namespace \in Namespaces
    BY DEF RelocInv, Progress
  <1>4. Owner(e.sym) = m
    BY <1>2, <1>3, FoundOwner
  <1>5. WroteOnly(o, "plt", k, SymbolAddr(m, e.sym))
    BY <1>1, <1>2, WriteOne DEF RelocInv, Tables
  <1> QED BY <1>2, <1>4, <1>5

(* A call is bound. *)
LEMMA FixupStep ==
    ASSUME RelocInv, NEW o, NEW k, NEW e, NEW m \in DOMAIN namespace, got_fixup(o, k, e, m)
    PROVE  RelocInv'
  <1> USE DEF RelocInv
  <1> DEFINE v == SymbolAddr(m, e.sym)
  <1>1. /\ pc = "run" /\ l = 0 /\ o \in DOMAIN namespace
        /\ k \in DOMAIN TableOf(o, "plt") /\ e = TableOf(o, "plt")[k]
        /\ Done(o, "plt", k)
    BY FixupFacts DEF got_fixup
  <1>2. /\ UNCHANGED <<namespace, pc, l, table, rela, l_relocated, got>>
        /\ Owner(e.sym) = m
        /\ WroteOnly(o, "plt", k, v)
    BY FixupWrites
  <1> HIDE DEF v
  <1>3. Progress'
    BY <1>2 DEF Progress, WroteOnly
  <1>4. \A p, u, j : Done(p, u, j)' <=> Done(p, u, j)
    BY <1>2 DEF Done
  <1>5. Pristine'
    <2> SUFFICES ASSUME NEW p \in DOMAIN namespace, NEW off \in DOMAIN namespace[p].image,
                        \A u \in Tables : \A j \in DOMAIN TableOf(p, u) :
                            Done(p, u, j) => TableOf(p, u)[j].offset # off
                 PROVE  mem'[namespace[p].l_addr + off] = namespace[p].image[off]
      BY <1>2, <1>4, SameNamespace DEF Pristine
    <2>1. mem[namespace[p].l_addr + off] = namespace[p].image[off]
      BY DEF Pristine
    <2>2. p # o \/ off # e.offset
      BY <1>1 DEF Tables
    <2> QED BY <1>1, <1>2, <2>1, <2>2 DEF WroteOnly
  <1>6. Slots'
    <2> SUFFICES ASSUME NEW p \in DOMAIN namespace, NEW j \in DOMAIN TableOf(p, "plt"),
                        Done(p, "plt", j)
                 PROVE  LET f == TableOf(p, "plt")[j] IN
                        mem'[Place(p, f)] \in {Stub(p, f), SymbolAddr(Owner(f.sym), f.sym)}
      BY <1>2, <1>4, SameNamespace DEF Slots, TableOf
    <2>1. CASE p = o /\ j = k
      BY <1>1, <1>2, <2>1 DEF WroteOnly, v
    <2>2. CASE ~(p = o /\ j = k)
      <3>1. mem'[Place(p, TableOf(p, "plt")[j])] = mem[Place(p, TableOf(p, "plt")[j])]
        BY <1>1, <1>2, <2>2 DEF Tables, WroteOnly
      <3> QED BY <3>1 DEF Slots, TableOf
    <2> QED BY <2>1, <2>2
  <1>7. Data'
    <2> SUFFICES ASSUME NEW p \in DOMAIN namespace, NEW j \in DOMAIN TableOf(p, "rela"),
                        Done(p, "rela", j), NEW f, f = TableOf(p, "rela")[j]
                 PROVE  Sum(p, f)'
      BY <1>2, <1>4, SameNamespace DEF Data, TableOf
    <2>1. mem'[Place(p, f)] = mem[Place(p, f)]
      BY <1>1, <1>2 DEF Tables, WroteOnly
    <2>2. Sum(p, f)
      BY DEF Data, TableOf
    <2> QED BY <1>2, <2>1, <2>2, SumStable
  <1> QED BY <1>3, <1>5, <1>6, <1>7

-----------------------------------------------------------------------------

(* The invariant holds before the first entry. *)
LEMMA InitReloc == Init => RelocInv
  <1> SUFFICES ASSUME Init PROVE RelocInv
    OBVIOUS
  <1>1. /\ namespace \in Namespaces /\ pc = "reloc" /\ l = Len(namespace) /\ table = "enter"
        /\ rela = 1 /\ mem = Image(namespace) /\ l_relocated = {}
        /\ got = [i \in DOMAIN namespace |-> 0]
    BY DEF Init
  <1>2. Len(namespace) \in Nat \ {0} /\ DOMAIN namespace = 1 .. Len(namespace)
    BY <1>1, ObjectFacts
  <1>3. DOMAIN mem = UNION {Addresses(namespace[i]) : i \in DOMAIN namespace}
    BY <1>1 DEF Image
  <1>4. Progress
    BY <1>1, <1>2, <1>3 DEF Progress
  <1>5. ASSUME NEW o \in DOMAIN namespace, NEW t \in Tables, NEW k PROVE ~Done(o, t, k)
    BY <1>1, <1>2 DEF Done, Tables
  <1>6. Pristine
    BY <1>1, ImageWords DEF Pristine
  <1> QED BY <1>4, <1>5, <1>6 DEF RelocInv, Slots, Data, Tables

(* Every step keeps the invariant. *)
LEMMA StepReloc == RelocInv /\ [Next]_vars => RelocInv'
  <1> SUFFICES ASSUME RelocInv, [Next]_vars PROVE RelocInv'
    OBVIOUS
  <1>1. CASE Linking
    <2>1. CASE EnterPltFails
      BY <2>1, StopSteps, QuietStep DEF EnterPltFails
    <2> QED BY <1>1, <2>1, WalkSteps, QuietStep, RelocSteps DEF Linking
  <1>2. CASE LazyBinding
    <2>1. PICK o, k, e : \/ \E m \in DOMAIN namespace : got_fixup(o, k, e, m)
                         \/ got_fixup_fails(o, k, e)
      BY <1>2 DEF LazyBinding
    <2>2. ASSUME NEW m \in DOMAIN namespace, got_fixup(o, k, e, m)
          PROVE  RelocInv'
      BY <2>2, FixupStep
    <2>3. CASE got_fixup_fails(o, k, e)
      BY <2>3, StopSteps, QuietStep DEF got_fixup_fails
    <2> QED BY <2>1, <2>2, <2>3
  <1>3. CASE UNCHANGED vars
    <2>1. Progress'
      BY <1>3 DEF vars, RelocInv, Progress
    <2> QED BY <1>3, <2>1, QuietStep DEF Quiet, vars, Done
  <1> QED BY <1>1, <1>2, <1>3 DEF Next, Running

(***************************************************************************)
(* At every moment of the linking, and of the lazy binding after it, every *)
(* word holds what the entries done so far make of it.                     *)
(***************************************************************************)
THEOREM WordByWord == Spec => []RelocInv
  BY InitReloc, StepReloc, PTL DEF Spec

-----------------------------------------------------------------------------

(* When the program runs, every entry of every table is done. *)
LEMMA AllDone ==
    ASSUME RelocInv, pc = "run", NEW o \in DOMAIN namespace, NEW t, NEW k
    PROVE  Done(o, t, k) /\ namespace \in Namespaces
  <1>1. l = 0 /\ namespace \in Namespaces
    BY DEF RelocInv, Progress
  <1>2. 0 < o
    BY <1>1, ObjectFacts
  <1> QED BY <1>1, <1>2 DEF Done

(***************************************************************************)
(* Every call of the program through a PLT arrives: at the function, or at *)
(* runtime_resolve with the link map of the object that calls.             *)
(***************************************************************************)
THEOREM EveryCallLands == Spec => []CallsLand
  <1>1. RelocInv => CallsLand
    <2> SUFFICES ASSUME RelocInv, pc = "run", NEW o \in DOMAIN namespace,
                        NEW k \in DOMAIN namespace[o].jmprel,
                        NEW e, e = namespace[o].jmprel[k]
                 PROVE  \/ mem[Place(o, e)] = Stub(o, e) /\ got[o] = o
                        \/ mem[Place(o, e)] = SymbolAddr(Owner(e.sym), e.sym)
      BY DEF CallsLand, EntriesOf
    <2>1. Done(o, "plt", k) /\ namespace \in Namespaces
      BY AllDone
    <2>2. mem[Place(o, e)] \in {Stub(o, e), SymbolAddr(Owner(e.sym), e.sym)}
      BY <2>1 DEF RelocInv, Slots
    <2>3. namespace[o].pltgot /\ l < o
      <3>1. l = 0 /\ 0 < o
        BY <2>1, ObjectFacts DEF RelocInv, Progress
      <3> QED BY <2>1, <3>1, EntryFacts
    <2>4. got[o] = o
      BY <2>3 DEF RelocInv, Progress
    <2> QED BY <2>2, <2>4
  <1> QED BY <1>1, WordByWord, PTL

(***************************************************************************)
(* While the program runs, got_fixup writes to unbound PLT words only: it  *)
(* changes no data, and no call that is bound.                             *)
(***************************************************************************)
THEOREM BindingIsFinal == Spec => BoundOnce
  <1> DEFINE OnlyUnbound ==
                 pc = "run" =>
                     \A a \in DOMAIN mem : mem'[a] # mem[a] =>
                         \E o \in DOMAIN namespace : \E e \in EntriesOf(namespace[o].jmprel) :
                             a = Place(o, e) /\ mem[a] = Stub(o, e)
  <1>1. RelocInv /\ [Next]_vars => [OnlyUnbound]_vars
    <2> SUFFICES ASSUME RelocInv, Next, pc = "run", NEW a \in DOMAIN mem, mem'[a] # mem[a]
                 PROVE  \E o \in DOMAIN namespace : \E e \in EntriesOf(namespace[o].jmprel) :
                            a = Place(o, e) /\ mem[a] = Stub(o, e)
      OBVIOUS
    <2>1. CASE Linking
      BY <2>1 DEF Linking, EnterObject, RelocRelative, RelocJumpSlot, RelocFails, RelocSymbol,
                  RelocCopy, At, RelaDone, EnterPlt, EnterPltFails, FinishObject, StartProgram
    <2>2. CASE LazyBinding
      <3>1. PICK o, k, e : \/ \E m \in DOMAIN namespace : got_fixup(o, k, e, m)
                           \/ got_fixup_fails(o, k, e)
        BY <2>2 DEF LazyBinding
      <3>2. ~got_fixup_fails(o, k, e)
        BY DEF got_fixup_fails, Stop
      <3>3. PICK m \in DOMAIN namespace : got_fixup(o, k, e, m)
        BY <3>1, <3>2
      <3>4. /\ o \in DOMAIN namespace /\ e \in EntriesOf(namespace[o].jmprel)
            /\ mem[Place(o, e)] = Stub(o, e) /\ e = TableOf(o, "plt")[k]
        BY <3>3 DEF got_fixup, Calls, EntriesOf, TableOf
      <3>5. mem' = [mem EXCEPT ![Place(o, e)] = SymbolAddr(m, e.sym)]
        BY <3>3, <3>4, FixupWrites
      <3>6. a = Place(o, e)
        BY <3>5
      <3> QED BY <3>4, <3>6
    <2>3. CASE Running
      BY <2>3 DEF Running, vars
    <2> QED BY <2>1, <2>2, <2>3 DEF Next
  <1>2. BoundOnce <=> [][OnlyUnbound]_vars
    BY DEF BoundOnce
  <1> HIDE DEF OnlyUnbound
  <1> QED BY <1>1, <1>2, WordByWord, PTL DEF Spec

(* What the sums are when all entries are done. *)
LEMMA DataWords ==
    ASSUME RelocInv, pc = "run", NEW o \in DOMAIN namespace,
           NEW e \in EntriesOf(namespace[o].rela), e.type \in DataType
    PROVE  /\ mem[Place(o, e)] = namespace[o].image[e.offset] + Displacement(o, e)
           /\ namespace[o].image[e.offset] \in Nat /\ Displacement(o, e) \in Nat
           /\ e.addend \in Nat
  <1>1. PICK k \in DOMAIN namespace[o].rela : e = namespace[o].rela[k]
    BY DEF EntriesOf
  <1>2. Done(o, "rela", k) /\ namespace \in Namespaces
    BY AllDone
  <1>3. Sum(o, e)
    BY <1>1, <1>2 DEF RelocInv, Data
  <1>4. /\ namespace[o].l_addr \in Nat /\ e.addend \in Nat /\ e.sym \in Name
        /\ e.offset \in DOMAIN namespace[o].image
    BY <1>1, <1>2, ObjectFacts, EntryFacts
  <1>5. namespace[o].image[e.offset] \in Nat
    BY <1>2, <1>4, ObjectFacts
  <1>6. CASE e.type = "RELATIVE"
    BY <1>3, <1>4, <1>5, <1>6 DEF Sum, Displacement
  <1>7. CASE e.type \in {"64", "GLOB_DAT"}
    <2>1. /\ Owner(e.sym) \in DOMAIN namespace
          /\ mem[Place(o, e)] = namespace[o].image[e.offset] + SymbolAddr(Owner(e.sym), e.sym)
      BY <1>3, <1>7 DEF Sum
    <2>2. SymbolAddr(Owner(e.sym), e.sym) \in Nat
      BY <1>2, <1>4, <2>1, ObjectFacts DEF SymbolAddr
    <2> QED BY <1>4, <1>5, <1>7, <2>1, <2>2 DEF Displacement
  <1> QED BY <1>6, <1>7 DEF DataType

(* The sum is what the ABI asks for just if the right thing was in the word before. *)
LEMMA DataWordsInAbi ==
    ASSUME RelocInv, pc = "run", NEW o \in DOMAIN namespace,
           NEW e \in EntriesOf(namespace[o].rela), e.type \in DataType
    PROVE  AbiExactlyIfInPlace(o, e)
  <1> DEFINE w == namespace[o].image[e.offset]
             d == Displacement(o, e)
  <1>1. mem[Place(o, e)] = w + d /\ w \in Nat /\ d \in Nat /\ e.addend \in Nat
    BY DataWords
  <1>2. AbiValue(o, e) = IF e.type = "64" THEN d + e.addend ELSE d
    BY DEF AbiValue, Displacement, DataType
  <1> HIDE DEF w, d
  <1>3. mem[Place(o, e)] = AbiValue(o, e) <=> w = InPlace(e)
    BY <1>1, <1>2 DEF InPlace
  <1> QED BY <1>3 DEF AbiExactlyIfInPlace, w

(***************************************************************************)
(* Every data word of every object has been increased once, and by the     *)
(* right amount, when the program starts and ever after: no entry is       *)
(* missed or applied again, none disturbs the word of another, and lazy    *)
(* binding leaves them alone.  Nothing is assumed of what was in the word  *)
(* or of the addends.  The value is the one the ABI asks for if, and only  *)
(* if, the word is 0 in the file or, for R_X86_64_64, the addend.  So      *)
(* reloc_rela is wrong about each word of the first kind that the link     *)
(* editor has filled in, and about each of the second with an addend that  *)
(* is in the entry alone.                                                  *)
(***************************************************************************)
THEOREM DataRelocated == Spec => []Relocated
  <1>1. RelocInv => Relocated
    BY DataWords, DataWordsInAbi DEF Relocated, IncreasedOnce
  <1> QED BY <1>1, WordByWord, PTL

(***************************************************************************)
(* Given that pointers are 0 in the file, and that a copy comes in front   *)
(* of what it is a copy of, the program and its libraries see one          *)
(* variable.                                                               *)
(***************************************************************************)
THEOREM OneVariableForAll ==
    ASSUME PointersEmpty, CopyInFront
    PROVE  Spec => []OneVariable
  <1>1. RelocInv => OneVariable
    <2> SUFFICES ASSUME RelocInv, pc = "run", NEW p \in DOMAIN namespace, NEW o \in DOMAIN namespace,
                        NEW c \in EntriesOf(namespace[p].rela), NEW e \in EntriesOf(namespace[o].rela),
                        c.type = "COPY", e.type = "GLOB_DAT", c.sym = e.sym
                 PROVE  mem[Place(o, e)] = Place(p, c)
      BY DEF OneVariable
    <2>1. namespace \in Namespaces
      BY DEF RelocInv, Progress
    <2>2. /\ Defines(namespace, p, c.sym) /\ namespace[p].defs[c.sym] = c.offset
          /\ \A j \in 1 .. p - 1 : ~Defines(namespace, j, c.sym)
      BY <2>1 DEF CopyInFront
    <2>3. mem[Place(o, e)] = SymbolAddr(Owner(e.sym), e.sym)
      <3>1. namespace[o].image[e.offset] = 0
        BY <2>1 DEF PointersEmpty
      <3>2. /\ mem[Place(o, e)] = 0 + Displacement(o, e) /\ Displacement(o, e) \in Nat
            /\ Displacement(o, e) = SymbolAddr(Owner(e.sym), e.sym)
        BY <3>1, DataWords DEF Displacement, DataType
      <3> QED BY <3>2
    <2>4. Owner(c.sym) = p
      <3> DEFINE Is(m) == /\ Defines(namespace, m, c.sym)
                          /\ \A j \in 1 .. m - 1 : ~Defines(namespace, j, c.sym)
      <3>1. \A m \in DOMAIN namespace : Is(m) => m = p
        BY <2>1, <2>2, ObjectFacts
      <3>2. Owner(c.sym) = CHOOSE m \in DOMAIN namespace : Is(m)
        BY DEF Owner
      <3>3. Is(p)
        BY <2>2
      <3> HIDE DEF Is
      <3> QED BY <3>1, <3>2, <3>3
    <2> QED BY <2>2, <2>3, <2>4 DEF SymbolAddr, Place
  <1> QED BY <1>1, WordByWord, PTL

-----------------------------------------------------------------------------
(***************************************************************************)
(* Copies.  The source of a copy is in an object behind it, which has been *)
(* relocated before; and it is no word of the PLT, so that it stays as it  *)
(* was copied.                                                             *)
(***************************************************************************)
CopyOf(o, e, m) ==
    /\ m \in DOMAIN namespace /\ o < m
    /\ IsSource(o, e.sym, m)
    /\ mem[Place(o, e)] = mem[SymbolAddr(m, e.sym)]

Copies ==
    \A o \in DOMAIN namespace : \A k \in DOMAIN TableOf(o, "rela") :
        (Done(o, "rela", k) /\ TableOf(o, "rela")[k].type = "COPY") =>
            \E m : CopyOf(o, TableOf(o, "rela")[k], m)

(* The source is a word of its object. *)
LEMMA SourceWord ==
    ASSUME NEW ns \in Namespaces, NEW m \in DOMAIN ns, NEW name \in Name, Defines(ns, m, name)
    PROVE  ns[m].defs[name] \in DOMAIN ns[m].image
  <1>1. Width[name] \in Nat \ {0} /\ ns[m].defs[name] \in Nat
    BY RelocAssumption, ObjectFacts
  <1>2. 0 \in 0 .. Width[name] - 1 /\ ns[m].defs[name] + 0 = ns[m].defs[name]
    BY <1>1
  <1>3. ns[m].defs[name] # 0
    BY DEF Defines
  <1>4. ns[m].defs[name] + 0 \in DOMAIN ns[m].image
    BY <1>2, <1>3, RelocAssumption
  <1> QED BY <1>2, <1>4

(* A copy outlives the writing of a word that is neither it nor its source. *)
LEMMA CopyKept ==
    ASSUME Progress, namespace' = namespace, NEW p, NEW t, NEW j, NEW v, WroteOnly(p, t, j, v),
           NEW o \in DOMAIN namespace, NEW k \in DOMAIN TableOf(o, "rela"),
           NEW e, e = TableOf(o, "rela")[k], NEW m, CopyOf(o, e, m),
           p # o \/ t # "rela" \/ j # k,
           p # m \/ namespace[m].defs[e.sym] # TableOf(p, t)[j].offset
    PROVE  CopyOf(o, e, m)'
  <1>1. namespace \in Namespaces /\ m \in DOMAIN namespace /\ Defines(namespace, m, e.sym)
    BY DEF Progress, CopyOf, IsSource
  <1>2. e.sym \in Name
    BY <1>1, EntryFacts DEF TableOf
  <1>3. mem'[Place(o, e)] = mem[Place(o, e)]
    BY DEF WroteOnly, Tables
  <1>4. mem'[SymbolAddr(m, e.sym)] = mem[SymbolAddr(m, e.sym)]
    BY <1>1, <1>2, SourceWord DEF WroteOnly, SymbolAddr
  <1> QED BY <1>3, <1>4, SameNamespace DEF CopyOf, IsSource, Defines

(* The next entry: if it is a copy, its source is behind it. *)
LEMMA CopyEntryStep ==
    ASSUME CopyInFront, RelocInv, Copies, NEW e, At(e), NextEntry,
           NEW v, mem' = [mem EXCEPT ![Place(l, e)] = v],
           e.type = "COPY" => \E m \in DOMAIN namespace :
                                  /\ Found(namespace, l, e.sym, m)
                                  /\ v = mem[SymbolAddr(m, e.sym)]
    PROVE  Copies'
  <1>1. /\ l \in DOMAIN namespace /\ table \in Tables /\ rela \in DOMAIN TableOf(l, table)
        /\ e = TableOf(l, table)[rela] /\ e.sym \in Name /\ namespace \in Namespaces
        /\ table = "plt" <=> e.type = "JUMP_SLOT"
    BY AtFacts DEF RelocInv, Progress
  <1>2. /\ namespace' = namespace /\ l' = l /\ table' = table /\ rela' = rela + 1
    BY DEF NextEntry
  <1>3. mem' = [mem EXCEPT ![Place(l, TableOf(l, table)[rela])] = v]
    BY <1>1
  <1>4. WroteOnly(l, table, rela, v)
    BY <1>1, <1>2, <1>3, WriteOne DEF RelocInv
  <1>5. ASSUME NEW o \in DOMAIN namespace, NEW k \in DOMAIN TableOf(o, "rela"),
               Done(o, "rela", k)', ~(o = l /\ table = "rela" /\ k = rela)
        PROVE  Done(o, "rela", k) /\ l <= o
    <2>1. o \in Nat /\ k \in Nat /\ l \in Nat /\ rela \in Nat
      BY TableFacts DEF RelocInv, Tables
    <2> QED BY <1>2, <1>5, <2>1 DEF Done
  <1> SUFFICES ASSUME NEW o \in DOMAIN namespace, NEW k \in DOMAIN TableOf(o, "rela"),
                      NEW f, f = TableOf(o, "rela")[k], Done(o, "rela", k)', f.type = "COPY"
               PROVE  \E m : CopyOf(o, f, m)'
    BY <1>2, SameNamespace DEF Copies
  <1>6. CASE o = l /\ table = "rela" /\ k = rela
    <2>1. f = e
      BY <1>1, <1>6
    <2>2. PICK m \in DOMAIN namespace : /\ Found(namespace, l, e.sym, m)
                                        /\ v = mem[SymbolAddr(m, e.sym)]
      BY <2>1
    <2>3. Defines(namespace, m, e.sym) /\ m # l
      BY <2>2 DEF Found
    <2>4. \A j \in 1 .. l - 1 : ~Defines(namespace, j, e.sym)
      <3>1. e \in EntriesOf(namespace[l].rela)
        BY <1>1, <1>6 DEF EntriesOf, TableOf
      <3> QED BY <1>1, <2>1, <3>1 DEF CopyInFront
    <2>5. l < m
      BY <1>1, <2>3, <2>4, TableFacts DEF RelocInv
    <2>6. IsSource(l, e.sym, m)
      BY <2>2, <2>3 DEF Found, PassedOver, IsSource
    <2>7. mem'[Place(l, e)] = v
      BY <1>1, <1>4 DEF WroteOnly
    <2>8. mem'[SymbolAddr(m, e.sym)] = mem[SymbolAddr(m, e.sym)]
      BY <1>1, <1>4, <2>3, SourceWord DEF WroteOnly, SymbolAddr
    <2>9. CopyOf(l, e, m)'
      BY <1>2, <2>2, <2>5, <2>6, <2>7, <2>8, SameNamespace DEF CopyOf, IsSource, Defines
    <2> QED BY <1>2, <1>6, <2>1, <2>9
  <1>7. CASE ~(o = l /\ table = "rela" /\ k = rela)
    <2>1. Done(o, "rela", k) /\ l <= o
      BY <1>5, <1>7
    <2>2. PICK m : CopyOf(o, f, m)
      BY <2>1 DEF Copies
    <2>3. l # m
      BY <2>1, <2>2, TableFacts DEF CopyOf, RelocInv
    <2>4. CopyOf(o, f, m)'
      BY <1>2, <1>4, <1>7, <2>2, <2>3, CopyKept DEF RelocInv
    <2> QED BY <2>4
  <1> QED BY <1>6, <1>7

(* A call that is bound is no source of a copy. *)
LEMMA CopyFixupStep ==
    ASSUME CopyInFront, RelocInv, Copies,
           NEW p, NEW j, NEW e, NEW s \in DOMAIN namespace, got_fixup(p, j, e, s)
    PROVE  Copies'
  <1>1. /\ p \in DOMAIN namespace /\ j \in DOMAIN TableOf(p, "plt") /\ e = TableOf(p, "plt")[j]
        /\ namespace \in Namespaces
    BY FixupFacts DEF got_fixup, RelocInv, Progress
  <1>2. /\ UNCHANGED <<namespace, l, table, rela>>
        /\ WroteOnly(p, "plt", j, SymbolAddr(s, e.sym))
    BY FixupWrites
  <1>3. \A o, t, k : Done(o, t, k)' <=> Done(o, t, k)
    BY <1>2 DEF Done
  <1> SUFFICES ASSUME NEW o \in DOMAIN namespace, NEW k \in DOMAIN TableOf(o, "rela"),
                      NEW f, f = TableOf(o, "rela")[k], Done(o, "rela", k), f.type = "COPY"
               PROVE  \E m : CopyOf(o, f, m)'
    BY <1>2, <1>3, SameNamespace DEF Copies
  <1>4. PICK m : CopyOf(o, f, m)
    BY DEF Copies
  <1>5. f \in EntriesOf(namespace[o].rela) /\ e \in EntriesOf(namespace[p].jmprel)
    BY <1>1 DEF EntriesOf, TableOf
  <1>6. p = m => namespace[m].defs[f.sym] # e.offset
    BY <1>1, <1>5 DEF CopyInFront
  <1>7. CopyOf(o, f, m)'
    BY <1>1, <1>2, <1>4, <1>6, CopyKept DEF RelocInv
  <1> QED BY <1>7

(***************************************************************************)
(* Variables of one word are copied whole, with their own relocation       *)
(* applied, for the objects behind are relocated first.  (Of a wider       *)
(* variable only one word is copied: the run reloc_copy shows it.)         *)
(***************************************************************************)
THEOREM WordsCopied ==
    ASSUME CopyInFront, \A name \in Name : Width[name] = 1
    PROVE  Spec => []CopiedWhole
  <1>1. Init => Copies
    <2> SUFFICES ASSUME Init PROVE Copies
      OBVIOUS
    <2>1. l = Len(namespace) /\ table = "enter" /\ namespace \in Namespaces
      BY DEF Init
    <2>2. \A o \in DOMAIN namespace : ~(l < o)
      BY <2>1, ObjectFacts
    <2> QED BY <2>1, <2>2 DEF Copies, Done
  <1>2. RelocInv /\ Copies /\ [Next]_vars => Copies'
    <2> SUFFICES ASSUME RelocInv, Copies, [Next]_vars PROVE Copies'
      OBVIOUS
    <2>1. ASSUME Quiet PROVE Copies'
      <3>1. namespace' = namespace /\ mem' = mem
        BY <2>1 DEF Quiet
      <3>2. \A o, e, m : CopyOf(o, e, m)' <=> CopyOf(o, e, m)
        BY <3>1, SameNamespace DEF CopyOf, IsSource, Defines
      <3> QED BY <2>1, <3>1, <3>2, SameNamespace DEF Quiet, Copies, Tables
    <2>2. ASSUME NEW e, RelocRelative(e) PROVE Copies'
      BY <2>2, CopyEntryStep DEF RelocRelative, AddTo
    <2>3. ASSUME NEW e, RelocJumpSlot(e) PROVE Copies'
      BY <2>3, CopyEntryStep DEF RelocJumpSlot, AddTo
    <2>4. ASSUME NEW e, NEW m \in DOMAIN namespace, RelocSymbol(e, m) PROVE Copies'
      BY <2>4, CopyEntryStep DEF RelocSymbol, AddTo
    <2>5. ASSUME NEW e, NEW m \in DOMAIN namespace, RelocCopy(e, m) PROVE Copies'
      BY <2>5, CopyEntryStep DEF RelocCopy
    <2>6. ASSUME NEW e, RelocFails(e) PROVE Copies'
      BY <2>1, <2>6, StopSteps DEF RelocFails
    <2>7. CASE Linking
      <3>1. CASE EnterPltFails
        BY <2>1, <3>1, StopSteps DEF EnterPltFails
      <3> QED BY <2>1, <2>2, <2>3, <2>4, <2>5, <2>6, <2>7, <3>1, WalkSteps DEF Linking
    <2>8. CASE LazyBinding
      <3>1. PICK o, k, e : \/ \E m \in DOMAIN namespace : got_fixup(o, k, e, m)
                           \/ got_fixup_fails(o, k, e)
        BY <2>8 DEF LazyBinding
      <3>2. CASE got_fixup_fails(o, k, e)
        BY <2>1, <3>2, StopSteps DEF got_fixup_fails
      <3> QED BY <3>1, <3>2, CopyFixupStep
    <2>9. CASE UNCHANGED vars
      <3>1. Progress'
        BY <2>9 DEF vars, RelocInv, Progress
      <3> QED BY <2>1, <2>9, <3>1 DEF Quiet, vars, Done
    <2> QED BY <2>7, <2>8, <2>9 DEF Next, Running
  <1>3. RelocInv /\ Copies => CopiedWhole
    <2> SUFFICES ASSUME RelocInv, Copies, pc = "run", NEW o \in DOMAIN namespace,
                        NEW k \in DOMAIN namespace[o].rela,
                        NEW e, e = namespace[o].rela[k], e.type = "COPY"
                 PROVE  \E m \in DOMAIN namespace :
                            /\ IsSource(o, e.sym, m)
                            /\ \A w \in 0 .. Width[e.sym] - 1 :
                                  mem[Place(o, e) + w] = mem[SymbolAddr(m, e.sym) + w]
      BY DEF CopiedWhole, EntriesOf
    <2>1. Done(o, "rela", k) /\ namespace \in Namespaces
      BY AllDone
    <2>2. PICK m : CopyOf(o, e, m)
      BY <2>1 DEF Copies, TableOf
    <2>3. m \in DOMAIN namespace /\ IsSource(o, e.sym, m)
          /\ mem[Place(o, e)] = mem[SymbolAddr(m, e.sym)]
      BY <2>2 DEF CopyOf
    <2>4. e.sym \in Name /\ e.offset \in Nat
      BY <2>1, EntryFacts
    <2>5. Place(o, e) \in Nat /\ SymbolAddr(m, e.sym) \in Nat
      <3>1. namespace[o].l_addr \in Nat /\ namespace[m].l_addr \in Nat
        BY <2>1, <2>3, ObjectFacts
      <3>2. namespace[m].defs[e.sym] \in Nat
        BY <2>1, <2>3, <2>4, ObjectFacts
      <3> QED BY <2>4, <3>1, <3>2 DEF Place, SymbolAddr
    <2>6. 0 .. Width[e.sym] - 1 = {0}
      BY <2>4
    <2> QED BY <2>3, <2>5, <2>6
  <1>4. Spec => []Copies
    BY <1>1, <1>2, WordByWord, PTL DEF Spec
  <1> QED BY <1>3, <1>4, WordByWord, PTL

-----------------------------------------------------------------------------
(***************************************************************************)
(* Lookup.  The units of a number: elf_hash computes in an unsigned long   *)
(* and the ABI in an unsigned int, and both change two units by one rule.  *)
(***************************************************************************)
(* Quotient and remainder. *)
LEMMA DivMod ==
    ASSUME NEW x \in Int, NEW m \in Nat \ {0}
    PROVE  /\ x \div m \in Int /\ x % m \in 0 .. m - 1
           /\ x = (x \div m) * m + (x % m)
  OBVIOUS

(* A greater multiple is greater by at least one. *)
LEMMA Multiples ==
    ASSUME NEW q \in Int, NEW p \in Int, NEW m \in Nat \ {0}, q < p
    PROVE  q * m + m <= p * m
  <1>1. (p - q - 1) * m >= 0
    OBVIOUS
  <1>2. (p - q - 1) * m = p * m - (q * m + m)
    OBVIOUS
  <1>3. p * m \in Int /\ q * m \in Int
    OBVIOUS
  <1> QED BY <1>1, <1>2, <1>3

(* There is no other quotient and remainder. *)
LEMMA DivModUnique ==
    ASSUME NEW q \in Int, NEW m \in Nat \ {0}, NEW r \in 0 .. m - 1
    PROVE  (q * m + r) \div m = q /\ (q * m + r) % m = r
  <1> DEFINE x == q * m + r
             p == x \div m
             s == x % m
  <1>1. x \in Int /\ q * m \in Int
    OBVIOUS
  <1>2. p \in Int /\ s \in 0 .. m - 1 /\ x = p * m + s
    BY <1>1, DivMod
  <1>3. p * m \in Int
    BY <1>2
  <1> HIDE DEF p, s
  <1>4. ~(q < p)
    BY <1>1, <1>2, <1>3, Multiples
  <1>5. ~(p < q)
    BY <1>1, <1>2, <1>3, Multiples
  <1>6. p = q
    BY <1>2, <1>4, <1>5
  <1>7. s = r
    BY <1>1, <1>2, <1>6
  <1> QED BY <1>6, <1>7 DEF p, s

(* The weight of the sixth unit: how many values the units between the second and eighth have. *)
Middle == Base * Base * Base * Base * Base

(* The numbers of values are multiples of one another. *)
LEMMA Weights ==
    /\ Base \in Nat \ {0, 1} /\ Middle \in Nat \ {0} /\ Base * Base \in Nat \ {0}
    /\ High \in Nat \ {0} /\ UInt \in Nat \ {0} /\ ULong \in Nat \ {0}
    /\ High = Middle * (Base * Base) /\ UInt = High * Base /\ ULong = UInt * UInt
  <1>1. Base \in Nat \ {0, 1}
    BY LookupAssumption
  <1>2. \A a, b \in Nat \ {0} : a * b \in Nat \ {0}
    OBVIOUS
  <1>3. Base * Base \in Nat \ {0}
    BY <1>1
  <1>4. Base * Base * Base * Base \in Nat \ {0}
    BY <1>1, <1>2, <1>3
  <1>5. Middle \in Nat \ {0}
    BY <1>1, <1>2, <1>4 DEF Middle
  <1>6. High = Middle * (Base * Base)
    BY <1>1 DEF High, Middle
  <1>7. High \in Nat \ {0}
    BY <1>2, <1>3, <1>5, <1>6
  <1>8. UInt \in Nat \ {0}
    BY <1>1, <1>2, <1>7 DEF UInt
  <1>9. ULong \in Nat \ {0}
    BY <1>2, <1>8 DEF ULong
  <1> QED BY <1>1, <1>3, <1>5, <1>6, <1>7, <1>8, <1>9 DEF UInt, ULong

(* The values of a unit. *)
Digit == 0 .. Base - 1

(* A number below High, by its lowest two units and the ones above them. *)
Low(t, n, d) == t * (Base * Base) + n * Base + d

(* Such a number does not reach the eighth unit. *)
LEMMA LowBelowHigh ==
    ASSUME NEW t \in 0 .. Middle - 1, NEW n \in Digit, NEW d \in Digit
    PROVE  Low(t, n, d) \in 0 .. High - 1
  <1> USE Weights
  <1> DEFINE BB == Base * Base
  <1>1. BB \in Nat \ {0} /\ t \in Nat /\ n \in Nat /\ d \in Nat /\ d < Base /\ n < Base
    BY DEF Digit
  <1>2. n * Base + Base <= BB /\ n * Base \in Nat
    BY <1>1, Multiples
  <1>3. t * BB + BB <= Middle * BB /\ t * BB \in Nat
    <2>1. t < Middle /\ t \in Int /\ Middle \in Int
      OBVIOUS
    <2> HIDE DEF BB
    <2> QED BY <1>1, <2>1, Multiples
  <1> HIDE DEF BB
  <1>4. t * BB + n * Base + d < Middle * BB /\ 0 <= t * BB + n * Base + d
    BY <1>1, <1>2, <1>3
  <1>5. t * BB + n * Base + d \in Int
    BY <1>1, <1>2, <1>3
  <1> QED BY <1>4, <1>5 DEF BB, Low

(* The eighth and the second unit of a number. *)
LEMMA UnitsOf ==
    ASSUME NEW k \in Int, NEW g \in Digit, NEW t \in 0 .. Middle - 1, NEW n \in Digit, NEW d \in Digit
    PROVE  LET x == k * UInt + g * High + Low(t, n, d) IN
           x \in Int /\ Unit(x, High) = g /\ Unit(x, Base) = n
  <1> USE Weights
  <1> DEFINE x == k * UInt + g * High + Low(t, n, d)
             r == Low(t, n, d)
  <1>1. r \in 0 .. High - 1
    BY LowBelowHigh
  <1>2. x = (k * Base + g) * High + r /\ k * Base + g \in Int
    <2>1. k * UInt = (k * Base) * High
      OBVIOUS
    <2>2. k * Base \in Int /\ g \in Int /\ r \in Int
      BY <1>1 DEF Digit
    <2> HIDE DEF r
    <2>3. (k * Base + g) * High = (k * Base) * High + g * High
      BY <2>2
    <2> QED BY <2>1, <2>2, <2>3 DEF r
  <1>3. x \div High = k * Base + g
    BY <1>1, <1>2, DivModUnique
  <1>4. Unit(x, High) = g
    <2>1. (k * Base + g) % Base = g
      BY DivModUnique DEF Digit
    <2> HIDE DEF x
    <2> QED BY <1>3, <2>1 DEF Unit
  <1> DEFINE y == k * (Middle * Base) + g * Middle + t
  <1>5. y \in Int /\ y * Base + n \in Int /\ n \in Int /\ d \in Int /\ g \in Int /\ t \in Int
    BY DEF Digit
  <1>6. x = (y * Base + n) * Base + d
    BY <1>5 DEF Low
  <1>7. x \div Base = y * Base + n
    <2> HIDE DEF x, y
    <2> QED BY <1>5, <1>6, DivModUnique DEF Digit
  <1>8. Unit(x, Base) = n
    <2> HIDE DEF x, y
    <2>1. (y * Base + n) % Base = n
      BY <1>5, DivModUnique DEF Digit
    <2> QED BY <1>7, <2>1 DEF Unit
  <1>9. x \in Int
    BY <1>5, <1>6
  <1> QED BY <1>4, <1>8, <1>9
(* A number below p times m, by its quotient and remainder. *)
LEMMA DivBound ==
    ASSUME NEW p \in Nat, NEW m \in Nat \ {0}, NEW x \in 0 .. p * m - 1
    PROVE  x \div m \in 0 .. p - 1 /\ x % m \in 0 .. m - 1 /\ x = (x \div m) * m + (x % m)
  <1> DEFINE q == x \div m
             r == x % m
  <1>1. q \in Int /\ r \in 0 .. m - 1 /\ x = q * m + r
    BY DivMod
  <1>2. p * m \in Int /\ q * m \in Int
    BY <1>1
  <1> HIDE DEF q, r
  <1>3. 0 <= q
    <2> SUFFICES ASSUME q < 0 PROVE FALSE
      BY <1>1
    <2>1. q * m + m <= 0 * m
      BY <1>1, Multiples
    <2> QED BY <1>1, <1>2, <2>1
  <1>4. q < p
    <2> SUFFICES ASSUME p <= q PROVE FALSE
      BY <1>1
    <2>1. p * m <= q * m
      <3>1. CASE p = q
        BY <1>2, <3>1
      <3>2. CASE p < q
        BY <1>1, <1>2, <3>2, Multiples
      <3> QED BY <1>1, <3>1, <3>2
    <2> QED BY <1>1, <1>2, <2>1
  <1> QED BY <1>1, <1>3, <1>4 DEF q, r

(* Every unsigned int has these units. *)
LEMMA Decomposed ==
    ASSUME NEW x \in 0 .. UInt - 1
    PROVE  \E g, n, d \in Digit, t \in 0 .. Middle - 1 : x = g * High + Low(t, n, d)
  <1> USE Weights
  <1> DEFINE g == x \div High
             r == x % High
             t == r \div (Base * Base)
             s == r % (Base * Base)
             n == s \div Base
             d == s % Base
  <1>1. g \in Digit /\ r \in 0 .. High - 1 /\ x = g * High + r
    <2>1. x \in 0 .. Base * High - 1
      OBVIOUS
    <2> QED BY <2>1, DivBound, ZenonT(30) DEF Digit
  <1> HIDE DEF g, r
  <1>2. t \in 0 .. Middle - 1 /\ s \in 0 .. Base * Base - 1 /\ r = t * (Base * Base) + s
    BY <1>1, DivBound
  <1> HIDE DEF t, s
  <1>3. n \in Digit /\ d \in Digit /\ s = n * Base + d
    BY <1>2, DivBound DEF Digit
  <1> HIDE DEF n, d
  <1>4. r = Low(t, n, d)
    <2>1. t * (Base * Base) \in Int /\ n * Base \in Int /\ d \in Int
      BY <1>2, <1>3 DEF Digit
    <2> QED BY <1>2, <1>3, <2>1 DEF Low
  <1> QED BY <1>1, <1>2, <1>3, <1>4

(* The exclusive or stays within a unit; what it does with hi and with zero. *)
LEMMA XorDigit ==
    ASSUME NEW n \in Digit, NEW g \in Digit
    PROVE  ExOr(n, g) \in Digit /\ ExOr(g, g) = 0 /\ ExOr(n, 0) = n /\ 0 \in Digit
  BY LookupAssumption, Weights DEF Digit

(* Replacing the eighth or the second unit leaves the others alone. *)
LEMMA MovedUnit ==
    ASSUME NEW k \in Int, NEW g \in Digit, NEW t \in 0 .. Middle - 1, NEW n \in Digit, NEW d \in Digit,
           NEW m \in Digit
    PROVE  /\ WithUnit(k * UInt + g * High + Low(t, n, d), High, m) = k * UInt + m * High + Low(t, n, d)
           /\ WithUnit(k * UInt + g * High + Low(t, n, d), Base, m) = k * UInt + g * High + Low(t, m, d)
  <1> USE Weights
  <1> DEFINE x == k * UInt + g * High + Low(t, n, d)
  <1>1. Unit(x, High) = g /\ Unit(x, Base) = n
    BY UnitsOf
  <1>2. k * UInt \in Int /\ g * High \in Int /\ m * High \in Int /\ n * Base \in Int /\ m * Base \in Int
        /\ t * (Base * Base) \in Int /\ d \in Int
    BY DEF Digit
  <1>3. (m - g) * High = m * High - g * High /\ (m - n) * Base = m * Base - n * Base
    BY DEF Digit
  <1>4. WithUnit(x, High, m) = x + (m * High - g * High) /\ WithUnit(x, Base, m) = x + (m * Base - n * Base)
    BY <1>1, <1>3 DEF WithUnit
  <1> QED BY <1>2, <1>4 DEF Low

(* The step of the ABI, in units. *)
LEMMA AbiStepUnits ==
    ASSUME NEW h \in Nat, NEW c \in Nat,
           NEW g \in Digit, NEW t \in 0 .. Middle - 1, NEW n \in Digit, NEW d \in Digit,
           (h * Base + c) % UInt = g * High + Low(t, n, d)
    PROVE  AbiStep(h, c) = Low(t, ExOr(n, g), d)
  <1> DEFINE z == 0
             sum == z * UInt + g * High + Low(t, n, d)
             mixed == z * UInt + g * High + Low(t, ExOr(n, g), d)
             final == z * UInt + z * High + Low(t, ExOr(n, g), d)
  <1>1. z \in Int /\ z \in Digit /\ ExOr(n, g) \in Digit /\ ExOr(n, 0) = n
    BY XorDigit
  <1>2. \A v \in Digit : /\ z * UInt + g * High + Low(t, v, d) = g * High + Low(t, v, d)
                         /\ z * UInt + z * High + Low(t, v, d) = Low(t, v, d)
    <2>1. \A v \in Digit : Low(t, v, d) \in Int
      BY LowBelowHigh, Weights
    <2>2. g * High \in Int /\ z * UInt = 0 /\ z * High = 0
      BY Weights DEF Digit
    <2> HIDE DEF z
    <2> QED BY <2>1, <2>2
  <1> HIDE DEF z
  <1>3. Unit(sum, High) = g /\ Unit(sum, Base) = n
    BY <1>1, UnitsOf
  <1>4. WithUnit(sum, Base, ExOr(n, g)) = mixed /\ WithUnit(mixed, High, z) = final
    <2> DEFINE v == ExOr(n, g)
    <2>1. v \in Digit
      BY <1>1
    <2> HIDE DEF v
    <2>2. WithUnit(z * UInt + g * High + Low(t, n, d), Base, v) = z * UInt + g * High + Low(t, v, d)
      BY <1>1, <2>1, MovedUnit
    <2>3. WithUnit(z * UInt + g * High + Low(t, v, d), High, z) = z * UInt + z * High + Low(t, v, d)
      BY <1>1, <2>1, MovedUnit
    <2> QED BY <2>2, <2>3 DEF v
  <1>5. g = 0 => sum = mixed
    BY <1>1
  <1>6. (h * Base + c) % UInt = sum /\ final = Low(t, ExOr(n, g), d)
    BY <1>1, <1>2
  <1> HIDE DEF sum, mixed, final
  <1> QED BY <1>3, <1>4, <1>5, <1>6 DEF AbiStep, z

(* The step of elf_hash, in units: what is above an unsigned int stays there. *)
LEMMA HashStepUnits ==
    ASSUME NEW h \in Nat, NEW c \in Nat, NEW k \in Int,
           NEW g \in Digit, NEW t \in 0 .. Middle - 1, NEW n \in Digit, NEW d \in Digit,
           (h * Base + c) % ULong = k * UInt + g * High + Low(t, n, d)
    PROVE  HashStep(h, c) = k * UInt + Low(t, ExOr(n, g), d)
  <1> DEFINE z == 0
             sum == k * UInt + g * High + Low(t, n, d)
             cleared == k * UInt + z * High + Low(t, n, d)
             final == k * UInt + z * High + Low(t, ExOr(n, g), d)
  <1>1. z \in Digit /\ ExOr(n, g) \in Digit /\ ExOr(g, g) = z
    BY XorDigit
  <1>2. final = k * UInt + Low(t, ExOr(n, g), d)
    <2>1. k * UInt \in Int /\ z * High = 0 /\ Low(t, ExOr(n, g), d) \in Int
      BY <1>1, LowBelowHigh, Weights
    <2> HIDE DEF z
    <2> QED BY <2>1
  <1> HIDE DEF z
  <1>3. Unit(sum, High) = g
    BY UnitsOf
  <1>4. WithUnit(sum, High, z) = cleared
    BY <1>1, MovedUnit
  <1>5. Unit(cleared, Base) = n
    BY <1>1, UnitsOf
  <1>6. WithUnit(cleared, Base, ExOr(n, g)) = final
    BY <1>1, MovedUnit
  <1> HIDE DEF cleared, final
  <1> QED BY <1>1, <1>2, <1>3, <1>4, <1>5, <1>6 DEF HashStep

(* The sums of both agree in the lower half of the long, whatever is above it. *)
LEMMA SumsAgree ==
    ASSUME NEW h \in Nat, NEW c \in Nat
    PROVE  /\ (h * Base + c) % ULong \in Nat
           /\ ((h * Base + c) % ULong) % UInt = ((h % UInt) * Base + c) % UInt
  <1> USE Weights
  <1> DEFINE q == h \div UInt
             a == h % UInt
             X == h * Base + c
             Y == a * Base + c
             p == Y \div UInt
             s == Y % UInt
             z == X \div ULong
             w == X % ULong
  <1>1. q \in Int /\ a \in 0 .. UInt - 1 /\ h = q * UInt + a
    <2>1. h \in Int
      OBVIOUS
    <2> QED BY <2>1, DivMod
  <1> HIDE DEF q, a
  <1>2. X \in Int /\ Y \in Int
    BY <1>1
  <1>3. X = (q * Base) * UInt + Y
    BY <1>1
  <1> HIDE DEF X, Y
  <1>4. p \in Int /\ s \in 0 .. UInt - 1 /\ Y = p * UInt + s
    BY <1>2, DivMod
  <1>5. z \in Int /\ w \in 0 .. ULong - 1 /\ X = z * ULong + w
    BY <1>2, DivMod, ZenonT(60)
  <1> HIDE DEF p, s, z, w
  <1>6. w = (q * Base + p - z * UInt) * UInt + s
    <2>1. z * ULong = (z * UInt) * UInt
      BY <1>5
    <2>2. w = (q * Base) * UInt + p * UInt + s - (z * UInt) * UInt
      BY <1>1, <1>3, <1>4, <1>5, <2>1
    <2>3. q * Base \in Int /\ p \in Int /\ z * UInt \in Int
      BY <1>1, <1>4, <1>5
    <2> QED BY <1>4, <2>2, <2>3
  <1>7. q * Base + p - z * UInt \in Int
    BY <1>1, <1>4, <1>5
  <1>8. w % UInt = s
    BY <1>4, <1>6, <1>7, DivModUnique
  <1> QED BY <1>5, <1>8 DEF X, Y, a, s, w

(* One character: elf_hash in an unsigned long and the ABI in an unsigned int. *)
LEMMA HashStepAgrees ==
    ASSUME NEW h \in Nat, NEW c \in Nat
    PROVE  HashStep(h, c) \in Nat /\ HashStep(h, c) % UInt = AbiStep(h % UInt, c)
  <1> USE Weights
  <1> DEFINE sum == (h * Base + c) % ULong
             x == ((h % UInt) * Base + c) % UInt
             k == sum \div UInt
  <1>1. sum \in Nat /\ sum % UInt = x
    BY SumsAgree
  <1>2. h % UInt \in Nat
    BY DivMod
  <1> HIDE DEF sum, x
  <1>3. k \in Int /\ x \in 0 .. UInt - 1 /\ sum = k * UInt + x
    <2>1. sum \in Int
      BY <1>1
    <2> QED BY <1>1, <2>1, DivMod
  <1>4. k \in Nat
    <2> SUFFICES ASSUME k < 0 PROVE FALSE
      BY <1>3
    <2>1. k * UInt + UInt <= 0 * UInt
      BY <1>3, Multiples
    <2>2. k * UInt \in Int
      BY <1>3
    <2> HIDE DEF k
    <2> QED BY <1>1, <1>3, <2>1, <2>2
  <1> HIDE DEF k
  <1>5. PICK g, n, d \in Digit, t \in 0 .. Middle - 1 : x = g * High + Low(t, n, d)
    BY <1>3, Decomposed
  <1> DEFINE low == Low(t, ExOr(n, g), d)
  <1>6. low \in 0 .. High - 1
    BY LowBelowHigh, XorDigit
  <1>7. AbiStep(h % UInt, c) = low
    BY <1>2, <1>5, AbiStepUnits DEF x
  <1>8. HashStep(h, c) = k * UInt + low
    <2>1. sum = k * UInt + g * High + Low(t, n, d)
      <3>1. k * UInt \in Int /\ g * High \in Int /\ Low(t, n, d) \in Int
        BY <1>4, LowBelowHigh DEF Digit
      <3> QED BY <1>3, <1>5, <3>1
    <2> QED BY <1>4, <2>1, HashStepUnits DEF sum
  <1> HIDE DEF low
  <1>9. High <= UInt
    BY Multiples
  <1>10. low \in 0 .. UInt - 1
    BY <1>6, <1>9
  <1>11. (k * UInt + low) % UInt = low
    BY <1>3, <1>10, DivModUnique, ZenonT(60)
  <1>12. k * UInt + low \in Nat
    BY <1>4, <1>10
  <1> QED BY <1>7, <1>8, <1>11, <1>12
-----------------------------------------------------------------------------
(* The value the ABI gives the name that is looked up. *)
AbiValueOf(name) == AbiHash[name][Len(name)]

(* The objects in front of map do not decide the search. *)
FrontPassed ==
    \A j \in 1 .. map - 1 :
        j \in DOMAIN call.ns /\ PassedOver(Scoped, j, call.skip, call.name)

(* A definition of this object is still to come on the chain. *)
Ahead ==
    /\ map \in DOMAIN call.ns /\ Searched /\ LinkMap.l_nbuckets > 0
    /\ symidx \in DOMAIN LinkMap.symtab \cup {0}
    /\ \A i \in Accepted(LinkMap) : Follows(LinkMap, symidx, i)

LookupInv ==
    /\ call \in Cases
    /\ map \in Nat \ {0} /\ pos \in 0 .. Len(call.name) /\ hash \in Nat
    /\ stage \in {"hash", "object", "chain", "found", "missing", "killed"}
    /\ IF stage = "hash" THEN hash % UInt = AbiHash[call.name][pos] ELSE hash = AbiValueOf(call.name)
    /\ FrontPassed
    /\ stage = "chain" => Ahead
    /\ FirstDefinition

(* What is known of the arguments. *)
LEMMA CaseFacts ==
    ASSUME call \in Cases
    PROVE  /\ IsCase(call) /\ DOMAIN call.ns = 1 .. Len(call.ns) /\ Len(call.ns) \in Nat
           /\ Len(call.name) \in Nat
           /\ \A i \in 1 .. Len(call.name) : call.name[i] \in Nat
  <1>1. IsCase(call)
    BY LookupAssumption
  <1>2. DOMAIN call.ns = 1 .. Len(call.ns) /\ Len(call.ns) \in Nat
    BY <1>1 DEF IsCase
  <1>3. UChar \in Nat
    BY LookupAssumption DEF UChar
  <1>4. Len(call.name) \in Nat /\ \A i \in 1 .. Len(call.name) : call.name[i] \in Nat
    <2>1. call.name \in Seq(0 .. UChar - 1)
      BY <1>1 DEF IsCase
    <2> HIDE DEF UChar
    <2> QED BY <1>3, <2>1
  <1> QED BY <1>1, <1>2, <1>3, <1>4

(* What Scope sees of an object. *)
LEMMA ScopedObject ==
    ASSUME call \in Cases, NEW m \in DOMAIN call.ns
    PROVE  /\ Scoped[m].tables = call.ns[m].tables
           /\ Scoped[m].hash = (call.ns[m].l_nbuckets > 0)
           /\ Accepted(call.ns[m]) = {} => Scoped[m].defs[call.name] = 0
           /\ \A i \in Accepted(call.ns[m]) :
                 /\ Scoped[m].defs[call.name] = call.ns[m].symtab[i].st_value
                 /\ Scoped[m].defs[call.name] # 0
           /\ DOMAIN Scoped = DOMAIN call.ns
  <1> DEFINE o == call.ns[m]
             chosen == CHOOSE i \in Accepted(o) : TRUE
  <1>1. IsSearchable(o)
    BY CaseFacts DEF IsCase
  <1>2. Scoped[m] = View(o) /\ DOMAIN Scoped = DOMAIN call.ns
    BY DEF Scoped
  <1>3. /\ View(o).tables = o.tables /\ View(o).hash = (o.l_nbuckets > 0)
        /\ View(o).defs[call.name] = IF Accepted(o) = {} THEN 0 ELSE o.symtab[chosen].st_value
    BY DEF View
  <1>4. ASSUME NEW i \in Accepted(o)
        PROVE  chosen = i /\ o.symtab[i].st_value # 0
    <2>1. chosen \in Accepted(o)
      OBVIOUS
    <2>2. /\ i \in DOMAIN o.symtab /\ check_match(o.symtab[i], call.name)
          /\ chosen \in DOMAIN o.symtab /\ check_match(o.symtab[chosen], call.name)
      BY <2>1 DEF Accepted
    <2>3. o.symtab[i].st_name = call.name
      BY <2>2 DEF check_match
    <2> HIDE DEF chosen, o
    <2> QED BY <1>1, <2>2, <2>3 DEF IsSearchable, check_match
  <1> HIDE DEF chosen
  <1> QED BY <1>2, <1>3, <1>4

(* Scope's view depends on the call alone. *)
LEMMA SameScope ==
    ASSUME call' = call
    PROVE  /\ Scoped' = Scoped
           /\ map' = map => LinkMap' = LinkMap /\ Searched' = Searched
           /\ \A o : Accepted(o)' = Accepted(o)
  BY DEF Scoped, View, Accepted, LinkMap, Searched

(* A search that is not at its end has found nothing yet. *)
LEMMA Unfinished ==
    ASSUME stage' \in {"hash", "object", "chain"}
    PROVE  FirstDefinition'
  BY DEF FirstDefinition

(* The walk goes on to the next object when this one is passed over. *)
LEMMA NextObjectPassed ==
    ASSUME LookupInv, map \in DOMAIN call.ns, PassedOver(Scoped, map, call.skip, call.name),
           call' = call, map' = map + 1
    PROVE  FrontPassed'
  <1>1. Scoped' = Scoped
    BY SameScope
  <1>2. map \in Nat \ {0}
    BY DEF LookupInv
  <1>3. FrontPassed
    BY DEF LookupInv
  <1> SUFFICES ASSUME NEW j \in 1 .. map' - 1
               PROVE  j \in DOMAIN call.ns /\ PassedOver(Scoped, j, call.skip, call.name)
    BY <1>1 DEF FrontPassed
  <1>4. j = map \/ j \in 1 .. map - 1
    BY <1>2
  <1> QED BY <1>3, <1>4 DEF FrontPassed

(* A chain without its first symbol, which was not the one. *)
LEMMA FollowOn ==
    ASSUME NEW o, IsSearchable(o), NEW at \in DOMAIN o.symtab, NEW i \in DOMAIN o.symtab, i # at,
           Follows(o, at, i)
    PROVE  Follows(o, o.l_chain[at], i)
  <1> SUFFICES ASSUME NEW S \in SUBSET (DOMAIN o.symtab \cup {0}),
                      o.l_chain[at] \in S, \A j \in S \ {0} : o.l_chain[j] \in S
               PROVE  i \in S
    BY DEF Follows
  <1> DEFINE T == S \cup {at}
  <1>1. T \in SUBSET (DOMAIN o.symtab \cup {0}) /\ at \in T /\ \A j \in T \ {0} : o.l_chain[j] \in T
    OBVIOUS
  <1>2. i \in T
    BY <1>1 DEF Follows
  <1> QED BY <1>2

(* Nothing follows the end of a chain. *)
LEMMA NothingBehindEnd ==
    ASSUME NEW o, IsSearchable(o), NEW i \in DOMAIN o.symtab
    PROVE  ~Follows(o, 0, i)
  <1>1. {0} \in SUBSET (DOMAIN o.symtab \cup {0}) /\ 0 \in {0} /\ \A j \in {0} \ {0} : o.l_chain[j] \in {0}
    OBVIOUS
  <1>2. i # 0
    BY DEF IsSearchable
  <1> QED BY <1>1, <1>2 DEF Follows

(* Before the first character nothing is computed and nothing passed over. *)
LEMMA LookupInitOK == LookupInit => LookupInv
  <1> SUFFICES ASSUME LookupInit PROVE LookupInv
    OBVIOUS
  <1>1. call \in Cases /\ stage = "hash" /\ pos = 0 /\ hash = 0 /\ map = 1
    BY DEF LookupInit
  <1>2. 0 % UInt = 0
    <2>1. 0 \in 0 .. UInt - 1 /\ 0 * UInt + 0 = 0
      BY Weights
    <2> QED BY <2>1, Weights, DivModUnique
  <1>3. AbiHash[call.name][0] = 0
    BY <1>1, CaseFacts DEF IsCase, IsAbiHash
  <1>4. FrontPassed
    BY <1>1 DEF FrontPassed
  <1>5. FirstDefinition
    BY <1>1 DEF FirstDefinition
  <1> QED BY <1>1, <1>2, <1>3, <1>4, <1>5, CaseFacts DEF LookupInv

(* Each step of elf_hash and of the walk keeps the invariant. *)
LEMMA LookupStepOK == LookupInv /\ [LookupNext]_lookup_vars => LookupInv'
  <1> SUFFICES ASSUME LookupInv, [LookupNext]_lookup_vars PROVE LookupInv'
    OBVIOUS
  <1>1. /\ call \in Cases /\ map \in Nat \ {0} /\ pos \in 0 .. Len(call.name) /\ hash \in Nat
        /\ FrontPassed /\ FirstDefinition /\ (stage = "chain" => Ahead)
        /\ IF stage = "hash" THEN hash % UInt = AbiHash[call.name][pos] ELSE hash = AbiValueOf(call.name)
        /\ stage \in {"hash", "object", "chain", "found", "missing", "killed"}
    BY DEF LookupInv
  <1>2. /\ IsCase(call) /\ DOMAIN call.ns = 1 .. Len(call.ns) /\ Len(call.ns) \in Nat
        /\ Len(call.name) \in Nat /\ \A i \in 1 .. Len(call.name) : call.name[i] \in Nat
    BY <1>1, CaseFacts
  <1>3. CASE elf_hash
    <2>1. stage = "hash" /\ pos + 1 \in 1 .. Len(call.name)
      BY <1>1, <1>2, <1>3 DEF elf_hash
    <2>2. /\ hash' \in Nat /\ hash' % UInt = AbiStep(hash % UInt, call.name[pos + 1])
          /\ call' = call /\ pos' = pos + 1 /\ stage' = stage /\ map' = map
      BY <1>1, <1>2, <1>3, <2>1, HashStepAgrees DEF elf_hash
    <2>3. AbiHash[call.name][pos + 1] = AbiStep(AbiHash[call.name][pos], call.name[pos + 1])
      <3>1. \A i \in 1 .. Len(call.name) :
               AbiHash[call.name][i] = AbiStep(AbiHash[call.name][i - 1], call.name[i])
        BY <1>2 DEF IsCase, IsAbiHash
      <3>2. (pos + 1) - 1 = pos
        BY <1>1
      <3> QED BY <2>1, <3>1, <3>2
    <2>4. FrontPassed'
      BY <1>1, <2>2, SameScope DEF FrontPassed
    <2>5. FirstDefinition'
      BY <2>1, <2>2, Unfinished
    <2> QED BY <1>1, <1>2, <2>1, <2>2, <2>3, <2>4, <2>5 DEF LookupInv
  <1>4. CASE elf_hash_returns
    <2>1. /\ stage = "hash" /\ stage' = "object" /\ pos = Len(call.name) /\ hash' = hash % UInt
          /\ call' = call /\ pos' = pos /\ map' = map
      BY <1>4 DEF elf_hash_returns
    <2>2. hash' = AbiValueOf(call.name) /\ hash' \in Nat
      <3>1. hash % UInt = AbiHash[call.name][Len(call.name)]
        BY <1>1, <2>1
      <3>2. AbiHash[call.name] \in [0 .. Len(call.name) -> Nat]
        BY <1>2 DEF IsCase, IsAbiHash
      <3> QED BY <1>2, <2>1, <3>1, <3>2 DEF AbiValueOf
    <2>3. FrontPassed'
      BY <1>1, <2>1, SameScope DEF FrontPassed
    <2>4. FirstDefinition'
      BY <2>1, Unfinished
    <2> QED BY <1>1, <2>1, <2>2, <2>3, <2>4 DEF LookupInv, AbiValueOf
  <1>5. CASE SkipObject
    <2>1. /\ stage = "object" /\ stage' = "object" /\ map \in DOMAIN call.ns
          /\ map = call.skip /\ LinkMap.tables
          /\ call' = call /\ pos' = pos /\ map' = map + 1 /\ hash' = hash
      BY <1>5 DEF SkipObject, AtObject
    <2>2. PassedOver(Scoped, map, call.skip, call.name)
      BY <1>1, <2>1, ScopedObject DEF PassedOver, LinkMap
    <2>3. FrontPassed'
      BY <2>1, <2>2, NextObjectPassed
    <2>4. FirstDefinition'
      BY <2>1, Unfinished
    <2> QED BY <1>1, <2>1, <2>3, <2>4 DEF LookupInv, AbiValueOf
  <1>6. CASE DivideByZero
    <2>1. /\ stage = "object" /\ stage' = "killed" /\ map \in DOMAIN call.ns /\ Searched
          /\ LinkMap.l_nbuckets = 0
          /\ call' = call /\ pos' = pos /\ map' = map /\ hash' = hash
      BY <1>6 DEF DivideByZero, AtObject
    <2>2. FrontPassed' /\ Scoped' = Scoped
      BY <1>1, <2>1, SameScope DEF FrontPassed
    <2>3. Killed(Scoped, call.skip, call.name)
      <3>1. map \in DOMAIN Scoped /\ map # call.skip /\ ~(LinkMap.l_nbuckets > 0)
        BY <2>1, <1>1, ScopedObject DEF Searched
      <3>2. Scoped[map].hash = (LinkMap.l_nbuckets > 0)
        BY <1>1, <2>1, ScopedObject DEF LinkMap
      <3>3. Deadly(Scoped, map, call.skip)
        BY <3>1, <3>2 DEF Deadly
      <3> QED BY <1>1, <3>1, <3>3 DEF Killed, FrontPassed
    <2>4. FirstDefinition'
      BY <2>1, <2>2, <2>3 DEF FirstDefinition
    <2> QED BY <1>1, <2>1, <2>2, <2>4 DEF LookupInv, AbiValueOf
  <1>13. CASE NullDereference
    <2>1. /\ stage = "object" /\ stage' = "killed" /\ map \in DOMAIN call.ns /\ ~LinkMap.tables
          /\ call' = call /\ pos' = pos /\ map' = map /\ hash' = hash
      BY <1>13 DEF NullDereference, AtObject
    <2>2. FrontPassed' /\ Scoped' = Scoped
      BY <1>1, <2>1, SameScope DEF FrontPassed
    <2>3. Killed(Scoped, call.skip, call.name)
      <3>1. map \in DOMAIN Scoped /\ Deadly(Scoped, map, call.skip)
        BY <1>1, <2>1, ScopedObject DEF Deadly, LinkMap
      <3> QED BY <1>1, <3>1 DEF Killed, FrontPassed
    <2>4. FirstDefinition'
      BY <2>1, <2>2, <2>3 DEF FirstDefinition
    <2> QED BY <1>1, <2>1, <2>2, <2>4 DEF LookupInv, AbiValueOf
  <1>7. CASE EnterChain
    <2>1. /\ stage = "object" /\ stage' = "chain" /\ map \in DOMAIN call.ns /\ Searched
          /\ LinkMap.l_nbuckets > 0 /\ symidx' = LinkMap.l_buckets[hash % LinkMap.l_nbuckets]
          /\ call' = call /\ pos' = pos /\ map' = map /\ hash' = hash
      BY <1>7 DEF EnterChain, AtObject
    <2>2. FrontPassed' /\ LinkMap' = LinkMap /\ Searched' = Searched /\ Accepted(LinkMap)' = Accepted(LinkMap)
      BY <1>1, <2>1, SameScope DEF FrontPassed, Accepted
    <2>3. IsSearchable(LinkMap) /\ \A i \in DOMAIN LinkMap.symtab : OnChain(LinkMap, i)
      BY <1>2, <2>1 DEF IsCase, LinkMap
    <2>4. hash = AbiValueOf(call.name) /\ LinkMap.l_nbuckets \in Nat \ {0}
      BY <1>1, <2>1, <2>3 DEF IsSearchable
    <2>5. symidx' \in DOMAIN LinkMap.symtab \cup {0}
      <3>1. hash % LinkMap.l_nbuckets \in 0 .. LinkMap.l_nbuckets - 1
        BY <1>1, <2>4
      <3> QED BY <2>1, <2>3, <3>1 DEF IsSearchable
    <2>6. \A i \in Accepted(LinkMap) : Follows(LinkMap, symidx', i)
      <3> SUFFICES ASSUME NEW i \in Accepted(LinkMap) PROVE Follows(LinkMap, symidx', i)
        OBVIOUS
      <3>1. i \in DOMAIN LinkMap.symtab /\ LinkMap.symtab[i].st_name = call.name
        BY DEF Accepted, check_match
      <3>2. OnChain(LinkMap, i)
        BY <2>3, <3>1
      <3> QED BY <2>1, <2>4, <3>1, <3>2 DEF OnChain, AbiValueOf
    <2>7. Ahead'
      BY <2>1, <2>2, <2>5, <2>6 DEF Ahead
    <2>8. FirstDefinition'
      BY <2>1, Unfinished
    <2> QED BY <1>1, <2>1, <2>2, <2>7, <2>8 DEF LookupInv, AbiValueOf
  <1>8. CASE Match
    <2>1. /\ stage = "chain" /\ stage' = "found" /\ symidx # 0 /\ Ahead
          /\ check_match(LinkMap.symtab[symidx], call.name)
          /\ call' = call /\ pos' = pos /\ map' = map /\ hash' = hash /\ symidx' = symidx
      BY <1>1, <1>8 DEF Match
    <2>2. FrontPassed' /\ LinkMap' = LinkMap /\ Scoped' = Scoped
      BY <1>1, <2>1, SameScope DEF FrontPassed
    <2>3. symidx \in Accepted(LinkMap) /\ map \in DOMAIN call.ns /\ map # call.skip /\ LinkMap.tables
          /\ LinkMap.l_nbuckets > 0
      BY <2>1 DEF Ahead, Accepted, Searched
    <2>4. /\ Scoped[map].tables /\ Scoped[map].hash /\ Scoped[map].defs[call.name] # 0
          /\ Scoped[map].defs[call.name] = LinkMap.symtab[symidx].st_value
      BY <1>1, <2>3, ScopedObject DEF LinkMap
    <2>5. Found(Scoped, call.skip, call.name, map)
      BY <1>1, <2>3, <2>4 DEF Found, Defines, FrontPassed
    <2>6. FirstDefinition'
      BY <2>1, <2>2, <2>4, <2>5 DEF FirstDefinition
    <2> QED BY <1>1, <2>1, <2>2, <2>6 DEF LookupInv, AbiValueOf
  <1>9. CASE FollowChain
    <2>1. /\ stage = "chain" /\ stage' = "chain" /\ symidx # 0 /\ Ahead
          /\ ~check_match(LinkMap.symtab[symidx], call.name)
          /\ symidx' = LinkMap.l_chain[symidx]
          /\ call' = call /\ pos' = pos /\ map' = map /\ hash' = hash
      BY <1>1, <1>9 DEF FollowChain
    <2>2. FrontPassed' /\ LinkMap' = LinkMap /\ Searched' = Searched /\ Accepted(LinkMap)' = Accepted(LinkMap)
      BY <1>1, <2>1, SameScope DEF FrontPassed, Accepted
    <2>3. IsSearchable(LinkMap) /\ symidx \in DOMAIN LinkMap.symtab
      BY <1>2, <2>1 DEF IsCase, LinkMap, Ahead
    <2>4. symidx' \in DOMAIN LinkMap.symtab \cup {0}
      BY <2>1, <2>3 DEF IsSearchable
    <2>5. \A i \in Accepted(LinkMap) : Follows(LinkMap, symidx', i)
      <3> SUFFICES ASSUME NEW i \in Accepted(LinkMap) PROVE Follows(LinkMap, symidx', i)
        OBVIOUS
      <3>1. i \in DOMAIN LinkMap.symtab /\ i # symidx /\ Follows(LinkMap, symidx, i)
        BY <2>1 DEF Ahead, Accepted
      <3> QED BY <2>1, <2>3, <3>1, FollowOn
    <2>6. Ahead'
      BY <2>1, <2>2, <2>4, <2>5 DEF Ahead
    <2>7. FirstDefinition'
      BY <2>1, Unfinished
    <2> QED BY <1>1, <2>1, <2>2, <2>6, <2>7 DEF LookupInv, AbiValueOf
  <1>10. CASE EndOfChain
    <2>1. /\ stage = "chain" /\ stage' = "object" /\ symidx = 0 /\ Ahead
          /\ call' = call /\ pos' = pos /\ map' = map + 1 /\ hash' = hash
      BY <1>1, <1>10 DEF EndOfChain
    <2>2. IsSearchable(LinkMap) /\ map \in DOMAIN call.ns
      BY <1>2, <2>1 DEF IsCase, LinkMap, Ahead
    <2>3. Accepted(LinkMap) = {}
      BY <2>1, <2>2, NothingBehindEnd DEF Ahead, Accepted
    <2>4. PassedOver(Scoped, map, call.skip, call.name)
      <3>1. Scoped[map].tables /\ Scoped[map].hash /\ Scoped[map].defs[call.name] = 0
        BY <1>1, <2>1, <2>2, <2>3, ScopedObject DEF LinkMap, Ahead, Searched
      <3> QED BY <3>1 DEF PassedOver, Defines
    <2>5. FrontPassed'
      BY <2>1, <2>2, <2>4, NextObjectPassed
    <2>6. FirstDefinition'
      BY <2>1, Unfinished
    <2> QED BY <1>1, <2>1, <2>5, <2>6 DEF LookupInv, AbiValueOf
  <1>11. CASE EndOfNamespace
    <2>1. /\ stage = "object" /\ stage' = "missing" /\ map \notin DOMAIN call.ns
          /\ call' = call /\ pos' = pos /\ map' = map /\ hash' = hash
      BY <1>11 DEF EndOfNamespace
    <2>2. FrontPassed' /\ Scoped' = Scoped
      BY <1>1, <2>1, SameScope DEF FrontPassed
    <2>3. Missing(Scoped, call.skip, call.name)
      <3> SUFFICES ASSUME NEW m \in DOMAIN call.ns
                   PROVE  PassedOver(Scoped, m, call.skip, call.name)
        BY DEF Missing, Scoped
      <3>1. m \in 1 .. map - 1
        BY <1>1, <1>2, <2>1
      <3> QED BY <1>1, <3>1 DEF FrontPassed
    <2>4. FirstDefinition'
      BY <2>1, <2>2, <2>3 DEF FirstDefinition
    <2> QED BY <1>1, <2>1, <2>2, <2>4 DEF LookupInv, AbiValueOf
  <1>12. CASE UNCHANGED lookup_vars
    BY <1>12, ZenonT(30) DEF lookup_vars, LookupInv, AbiValueOf, FrontPassed, Ahead, FirstDefinition, Scoped, View,
       Accepted, LinkMap, Searched
  <1> QED BY <1>3, <1>4, <1>5, <1>6, <1>7, <1>8, <1>9, <1>10, <1>11, <1>12, <1>13
      DEF LookupNext, LookupStep

(***************************************************************************)
(* elf_hash returns what the hash function of the ABI, by which the table  *)
(* was made, gives for the name: the comment in lookup.c that its form is  *)
(* equivalent holds, for names of any length and in an unsigned long.      *)
(***************************************************************************)
THEOREM HashAsInAbi == LookupSpec => [](stage # "hash" => hash = AbiValueOf(call.name))
  <1>1. LookupInv => (stage # "hash" => hash = AbiValueOf(call.name))
    BY DEF LookupInv
  <1> QED BY <1>1, LookupInitOK, LookupStepOK, PTL DEF LookupSpec

(***************************************************************************)
(* lookup_symbol returns the definition in the first object that has one,  *)
(* fails only if none has, and is killed only by an object it meets before *)
(* a definition that has no symbol or string table, or that it searches    *)
(* and that has no hash table: what Scope says, and Reloc builds on.       *)
(***************************************************************************)
THEOREM DefinitionFound == LookupSpec => []FirstDefinition
  <1>1. LookupInv => FirstDefinition
    BY DEF LookupInv
  <1> QED BY <1>1, LookupInitOK, LookupStepOK, PTL DEF LookupSpec
=============================================================================
