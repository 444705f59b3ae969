------------------------------ MODULE MCLookup ------------------------------
(***************************************************************************)
(* Calls of lookup_symbol for TLC, with units of one bit.                  *)
(***************************************************************************)
EXTENDS Lookup, SequencesExt, Bitwise

UnitXor(a, b) == a ^^ b

Symbol(name, value, shndx, type) ==
    [st_name |-> name, st_value |-> value, st_shndx |-> shndx, st_type |-> type]

Defined(name, i)   == Symbol(name, 10 + i, "section", "FUNC")
Undefined(name, i) == Symbol(name, 0, "SHN_UNDEF", "FUNC")
Stub(name, i)      == Symbol(name, 10 + i, "SHN_UNDEF", "FUNC")
Thread(name, i)    == Symbol(name, 10 + i, "section", "TLS")

(* Two names with one hash, one whose hash has wrapped around, every one of up to ten of two characters. *)
SomeNames == {<<1, 3>>, <<2, 1>>, <<3, 1, 2, 3, 3, 1, 3, 2, 3>>}
LongNames == UNION {[1 .. n -> {1, 3}] : n \in 1 .. 10}

HashOf(name) == FoldLeft(AbiStep, 0, name)
HashValues ==
    [name \in SomeNames \cup LongNames |-> [i \in 0 .. Len(name) |-> HashOf(SubSeq(name, 1, i))]]

(* An object with a table of that many buckets; later symbols are in front of earlier ones. *)
WithTable(symtab, nbuckets) ==
    LET bucket(i) == HashOf(symtab[i].st_name) % nbuckets
        last(S)   == IF S = {} THEN 0 ELSE CHOOSE i \in S : \A j \in S : j <= i
    IN  [tables     |-> TRUE,
         symtab     |-> symtab,
         l_nbuckets |-> nbuckets,
         l_buckets  |-> [b \in 0 .. nbuckets - 1 |-> last({i \in DOMAIN symtab : bucket(i) = b})],
         l_chain    |-> [i \in DOMAIN symtab |->
                           last({j \in 1 .. i - 1 : bucket(j) = bucket(i)})]]

NoTables(o) == [o EXCEPT !.tables = FALSE]
NoHash(o)   == [o EXCEPT !.l_nbuckets = 0, !.l_buckets = [b \in {} |-> 0]]

Kinds(name, i) == {Defined(name, i), Undefined(name, i), Stub(name, i), Thread(name, i)}
Tables ==
    {<<a, b, c>> : a \in Kinds(<<1, 3>>, 1), b \in Kinds(<<2, 1>>, 2),
                   c \in Kinds(<<3, 1, 2, 3, 3, 1, 3, 2, 3>>, 3)}
Full  == {WithTable(t, n) : t \in Tables, n \in {1, 2, 3}}
Few   == {WithTable(<<Defined(n, 1)>>, 2) : n \in SomeNames}
Empty == WithTable(<<>>, 1)

ShortNamespaces ==
    {<<a, b>> : a \in Full \cup {NoTables(o) : o \in Few} \cup {NoHash(o) : o \in Few},
                b \in Few \cup {Empty, NoTables(Empty)}}

(* Short namespaces, and each long name defined in an object of its own. *)
AllCases ==
    {[ns |-> ns, skip |-> skip, name |-> name] :
        ns \in ShortNamespaces, skip \in 0 .. 2, name \in SomeNames}
    \cup {[ns |-> <<Empty, WithTable(<<Defined(name, 1)>>, 7)>>, skip |-> 0, name |-> name] :
             name \in LongNames}
=============================================================================
