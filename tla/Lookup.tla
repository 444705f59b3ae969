------------------------------- MODULE Lookup -------------------------------
(***************************************************************************)
(* lookup_symbol of rtld.so (elf-loader/rtld/lookup.c): elf_hash, the walk *)
(* of the namespace and, in each object, of one chain of its hash table,   *)
(* which the link editor has built with the hash function of the ELF ABI.  *)
(*                                                                         *)
(* A name is the sequence of its characters.  The hash function works in   *)
(* units of 4 bits: it shifts by one unit, a character has two, an         *)
(* unsigned int has eight and an unsigned long sixteen.  Here a unit has   *)
(* Base values.  The state machine and its variables have names that Reloc *)
(* does not have, so that one module can extend both; map is the variable  *)
(* l of the code.                                                          *)
(*                                                                         *)
(* A definition X_Something before a definition X is not part of the       *)
(* specification: it is what X would be with a plausible mistake, kept to  *)
(* show that the properties notice it.                                     *)
(***************************************************************************)
EXTENDS Scope

CONSTANTS
    Base,        \* the number of values of a unit: 16 in the code
    ExOr(_, _),  \* the exclusive or of two units
    AbiHash,     \* of each name: its hash as the ABI defines it, character by character
    Cases        \* the calls under consideration: [ns, skip, name]

(* The weight of the eighth unit; the numbers of values of the types of C. *)
High == Base * Base * Base * Base * Base * Base * Base
UChar == Base * Base
UInt == High * Base
ULong == UInt * UInt

(* The unit of weight w of a number, and the number with another one in its place. *)
Unit(x, w) == (x \div w) % Base
WithUnit(x, w, unit) == x + (unit - Unit(x, w)) * w

(***************************************************************************)
(* The hash function of the ELF ABI, in an unsigned int, by which the link *)
(* editor makes the table (lookup.c quotes it): hi goes to the second unit *)
(* if it is not zero, and is cleared.                                      *)
(***************************************************************************)
AbiStep(h, c) ==
    LET sum   == (h * Base + c) % UInt
        hi    == Unit(sum, High)
        mixed == IF hi = 0 THEN sum ELSE WithUnit(sum, Base, ExOr(Unit(sum, Base), hi))
    IN  WithUnit(mixed, High, 0)

IsAbiHash(name, h) ==
    /\ h \in [0 .. Len(name) -> Nat]
    /\ h[0] = 0
    /\ \A i \in 1 .. Len(name) : h[i] = AbiStep(h[i - 1], name[i])

(* check_match: a definition of code or data with that name. *)
check_match(sym, name) ==
    /\ sym.st_value # 0
    /\ sym.st_shndx # "SHN_UNDEF"
    /\ sym.st_type \in {"NOTYPE", "OBJECT", "FUNC", "COMMON"}
    /\ sym.st_name = name

(***************************************************************************)
(* A symbol of DT_SYMTAB; an object: whether it has DT_SYMTAB and          *)
(* DT_STRTAB, its symbols and its hash table.  STN_UNDEF is 0.  An object  *)
(* has one definition of a name (the linker knows no symbol versions).     *)
(***************************************************************************)
IsSymbol(s) ==
    /\ s.st_value \in Nat
    /\ s.st_shndx \in {"SHN_UNDEF", "section"}
    /\ s.st_type \in {"NOTYPE", "OBJECT", "FUNC", "COMMON", "SECTION", "TLS"}

IsSearchable(o) ==
    LET syms == DOMAIN o.symtab IN
    /\ o.tables \in BOOLEAN
    /\ o.l_nbuckets \in Nat
    /\ syms \subseteq Nat \ {0}
    /\ \A i \in syms : IsSymbol(o.symtab[i])
    /\ \A i, j \in syms : LET name == o.symtab[j].st_name IN
          (check_match(o.symtab[i], name) /\ check_match(o.symtab[j], name)) => i = j
    /\ o.l_buckets \in [0 .. o.l_nbuckets - 1 -> syms \cup {0}]
    /\ o.l_chain \in [syms -> syms \cup {0}]

(***************************************************************************)
(* The link editor has put a symbol on the chain of its bucket: it is in   *)
(* every set that has the start of the chain and that l_chain stays in.    *)
(***************************************************************************)
Follows(o, start, i) ==
    \A S \in SUBSET (DOMAIN o.symtab \cup {0}) :
        (start \in S /\ \A j \in S \ {0} : o.l_chain[j] \in S) => i \in S

OnChain(o, i) ==
    LET name == o.symtab[i].st_name IN
    Follows(o, o.l_buckets[AbiHash[name][Len(name)] % o.l_nbuckets], i)

IsCase(c) ==
    /\ c.ns \in Seq({c.ns[m] : m \in DOMAIN c.ns})
    /\ c.name \in Seq(0 .. UChar - 1) /\ IsAbiHash(c.name, AbiHash[c.name])
    /\ \A m \in DOMAIN c.ns :
          /\ IsSearchable(c.ns[m])
          /\ c.ns[m].l_nbuckets > 0 => \A i \in DOMAIN c.ns[m].symtab : OnChain(c.ns[m], i)

ASSUME LookupAssumption ==
    /\ Base \in Nat \ {0, 1}
    /\ \A a, b \in 0 .. Base - 1 : ExOr(a, b) \in 0 .. Base - 1
    /\ \A a \in 0 .. Base - 1 : ExOr(a, a) = 0 /\ ExOr(a, 0) = a
    /\ \A c \in Cases : IsCase(c)

VARIABLES
    call,    \* the arguments and the namespace
    stage,   \* "hash", "object", "chain", "found", "missing", "killed" (by a signal)
    pos,     \* the characters elf_hash has read
    hash,    \* the hash value of the name
    map,     \* the object the walk is at
    symidx   \* the symbol it is at

lookup_vars == <<call, stage, pos, hash, map, symidx>>

LinkMap == call.ns[map]

-----------------------------------------------------------------------------

LookupInit ==
    /\ call \in Cases
    /\ stage = "hash"
    /\ pos = 0
    /\ hash = 0
    /\ map = 1
    /\ symidx = 0

(***************************************************************************)
(* elf_hash: the sum is an unsigned long, and hi is taken out of it and    *)
(* mixed into it with exclusive ors, without a condition.                  *)
(***************************************************************************)
HashStep_HighKept(h, c) ==
    LET sum == (h * Base + c) % ULong
    IN  WithUnit(sum, Base, ExOr(Unit(sum, Base), Unit(sum, High)))
HashStep(h, c) ==
    LET sum     == (h * Base + c) % ULong
        hi      == Unit(sum, High)
        cleared == WithUnit(sum, High, ExOr(hi, hi))
    IN  WithUnit(cleared, Base, ExOr(Unit(cleared, Base), hi))

elf_hash ==
    /\ stage = "hash"
    /\ pos < Len(call.name)
    /\ hash' = HashStep(hash, call.name[pos + 1])
    /\ pos' = pos + 1
    /\ UNCHANGED <<call, stage, map, symidx>>

(* The result is an unsigned int. *)
elf_hash_returns ==
    /\ stage = "hash"
    /\ pos = Len(call.name)
    /\ hash' = hash % UInt
    /\ stage' = "object"
    /\ UNCHANGED <<call, pos, map, symidx>>

AtObject == stage = "object" /\ map \in DOMAIN call.ns
Searched == map # call.skip /\ LinkMap.tables

(***************************************************************************)
(* symtab and strtab are computed first, before l is compared with skip:   *)
(* D_PTR looks into an entry of the dynamic section that is not there.     *)
(* The test of both for NULL comes after it.                               *)
(***************************************************************************)
NullDereference ==
    /\ AtObject
    /\ ~LinkMap.tables
    /\ stage' = "killed"
    /\ UNCHANGED <<call, pos, hash, map, symidx>>

SkipObject ==
    /\ AtObject
    /\ map = call.skip /\ LinkMap.tables
    /\ map' = map + 1
    /\ UNCHANGED <<call, stage, pos, hash, symidx>>

(* hash % l_nbuckets *)
DivideByZero ==
    /\ AtObject
    /\ Searched
    /\ LinkMap.l_nbuckets = 0
    /\ stage' = "killed"
    /\ UNCHANGED <<call, pos, hash, map, symidx>>

EnterChain ==
    /\ AtObject
    /\ Searched
    /\ LinkMap.l_nbuckets > 0
    /\ symidx' = LinkMap.l_buckets[hash % LinkMap.l_nbuckets]
    /\ stage' = "chain"
    /\ UNCHANGED <<call, pos, hash, map>>

Match ==
    /\ stage = "chain"
    /\ symidx # 0
    /\ check_match(LinkMap.symtab[symidx], call.name)
    /\ stage' = "found"
    /\ UNCHANGED <<call, pos, hash, map, symidx>>

FollowChain_BucketAgain ==
    /\ stage = "chain"
    /\ symidx # 0
    /\ ~check_match(LinkMap.symtab[symidx], call.name)
    /\ symidx' = LinkMap.l_buckets[hash % LinkMap.l_nbuckets]
    /\ UNCHANGED <<call, stage, pos, hash, map>>
FollowChain ==
    /\ stage = "chain"
    /\ symidx # 0
    /\ ~check_match(LinkMap.symtab[symidx], call.name)
    /\ symidx' = LinkMap.l_chain[symidx]
    /\ UNCHANGED <<call, stage, pos, hash, map>>

EndOfChain ==
    /\ stage = "chain"
    /\ symidx = 0
    /\ map' = map + 1
    /\ stage' = "object"
    /\ UNCHANGED <<call, pos, hash, symidx>>

EndOfNamespace ==
    /\ stage = "object"
    /\ map \notin DOMAIN call.ns
    /\ stage' = "missing"
    /\ UNCHANGED <<call, pos, hash, map, symidx>>

LookupStep ==
    \/ elf_hash \/ elf_hash_returns
    \/ NullDereference \/ SkipObject \/ DivideByZero \/ EnterChain
    \/ Match \/ FollowChain \/ EndOfChain \/ EndOfNamespace

Returned == stage \in {"found", "missing", "killed"}

LookupNext == LookupStep \/ (Returned /\ UNCHANGED lookup_vars)

LookupSpec == LookupInit /\ [][LookupNext]_lookup_vars

(* The linker does not stop before the call returns. *)
FairLookupSpec == LookupSpec /\ WF_lookup_vars(LookupStep)

-----------------------------------------------------------------------------

(* The object as Scope sees it, for the name that is looked up. *)
Accepted(o) == {i \in DOMAIN o.symtab : check_match(o.symtab[i], call.name)}
View(o) ==
    [tables |-> o.tables,
     hash   |-> o.l_nbuckets > 0,
     defs   |-> [name \in {call.name} |->
                    IF Accepted(o) = {} THEN 0
                    ELSE o.symtab[CHOOSE i \in Accepted(o) : TRUE].st_value]]

Scoped == [m \in DOMAIN call.ns |-> View(call.ns[m])]

(***************************************************************************)
(* The hash function, which computes with other operations and twice the   *)
(* width, agrees with the link editor's, and the walk passes over symbols  *)
(* that share the chain, so that lookup_symbol returns the definition in   *)
(* the first object that has one, whatever else is in the tables.  It      *)
(* fails only if no object has one, and is killed only by an object that   *)
(* lacks a table and that it meets before a definition.                    *)
(***************************************************************************)
FirstDefinition ==
    /\ stage = "found" =>
          /\ Found(Scoped, call.skip, call.name, map)
          /\ LinkMap.symtab[symidx].st_value = Scoped[map].defs[call.name]
    /\ stage = "missing" => Missing(Scoped, call.skip, call.name)
    /\ stage = "killed" => Killed(Scoped, call.skip, call.name)

(***************************************************************************)
(* Neither a chain that symbols of several names share nor an object that  *)
(* is passed over keeps the walk from coming to an end, good or bad.       *)
(***************************************************************************)
Returns == <>Returned
=============================================================================
