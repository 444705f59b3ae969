-------------------------------- MODULE Scope --------------------------------
(***************************************************************************)
(* The outcome of lookup_symbol (elf-loader/rtld/lookup.c) in a namespace  *)
(* ns, a sequence of objects in the order of l_next.  Of an object only    *)
(* three things matter: tables, whether it has a symbol table and a string *)
(* table (DT_SYMTAB, DT_STRTAB); hash, whether it has a hash table         *)
(* (DT_HASH); and defs, the values of the definitions that check_match     *)
(* accepts, 0 where there is none.  Reloc uses these outcomes; Lookup      *)
(* shows that the walk of the hash tables arrives at them.                 *)
(*                                                                         *)
(* A definition X_Something before a definition X is not part of the       *)
(* specification: it is what X would be with a plausible mistake, kept to  *)
(* show that the properties notice it.                                     *)
(***************************************************************************)
EXTENDS Integers, Sequences

Defines(ns, m, name) == ns[m].tables /\ ns[m].hash /\ ns[m].defs[name] # 0

PassedOver(ns, m, skip, name) ==
    /\ ns[m].tables
    /\ m = skip \/ (ns[m].hash /\ ~Defines(ns, m, name))

(* The first object other than skip that defines the name. *)
Found_NotFirst(ns, skip, name, m) == m # skip /\ Defines(ns, m, name)
Found(ns, skip, name, m) ==
    /\ m # skip /\ Defines(ns, m, name)
    /\ \A j \in 1 .. m - 1 : PassedOver(ns, j, skip, name)

Missing(ns, skip, name) == \A m \in DOMAIN ns : PassedOver(ns, m, skip, name)

(***************************************************************************)
(* Objects that kill the process.  D_PTR reads l_info[DT_SYMTAB] through a *)
(* null pointer if there is no such entry, for the object to be skipped    *)
(* too; and the remainder by l_nbuckets, which is 0 without a DT_HASH, is  *)
(* a division by zero.                                                     *)
(***************************************************************************)
Deadly(ns, m, skip) == ~ns[m].tables \/ (m # skip /\ ~ns[m].hash)

Killed(ns, skip, name) ==
    \E m \in DOMAIN ns :
        /\ Deadly(ns, m, skip)
        /\ \A j \in 1 .. m - 1 : PassedOver(ns, j, skip, name)
=============================================================================
