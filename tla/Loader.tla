------------------------------- MODULE Loader -------------------------------
(***************************************************************************)
(* The loading half of the run-time linker rtld.so: loader_start and       *)
(* loader_main (elf-loader/rtld/rtld.c) up to the call of reloc_all, and   *)
(* open_path, parse_dynamic, map_object, append_to_namespace and           *)
(* map_object_deps (elf-loader/rtld/load.c).                               *)
(*                                                                         *)
(* The linker runs in one thread before the program starts.  It is handed  *)
(* an object by the kernel, maps the libraries that object needs, the      *)
(* libraries those need, and so on breadth first, and threads every mapped *)
(* object on one list, the namespace, in which symbols are looked up front *)
(* to back and objects are relocated back to front.                        *)
(*                                                                         *)
(* What is abstracted: a path name is the pair <<directory, file name>>    *)
(* open_path joins; an object file is what the loader reads of its dynamic *)
(* section; the mapping of its segments is left to a model of its own.  A  *)
(* link map is its position in maps, in order of creation; a null pointer  *)
(* is 0.  The chain of l_next pointers is the sequence namespace, while    *)
(* the l_prev pointers are kept as they are written.                       *)
(*                                                                         *)
(* A definition X_Something before a definition X is not part of the       *)
(* specification: it is what X would be with a plausible mistake, kept to  *)
(* show that the properties below notice it.                               *)
(***************************************************************************)
EXTENDS Integers, Sequences, FiniteSets

CONSTANTS
    Dir,           \* directories
    Soname,        \* names of object files, as DT_NEEDED and argv[1] give them
    InitialPath,   \* the directories loader_start puts in GL(rpath)
    MAX_PATH,      \* the number of directories GL(rpath) has room for
    NoPath,        \* no directory: an object without DT_RPATH
    Absent,        \* what open() finds where there is no file
    FileSystems,   \* the file systems under consideration
    Programs,      \* the programs the kernel may start, with rtld.so as PT_INTERP
    Arguments      \* the arguments argv[1] when rtld.so is run by hand

Path == Dir \X Soname

(***************************************************************************)
(* An object file: its DT_NEEDED entries in order, its DT_RPATH (link      *)
(* editors emit at most one) and whether it passes the checks that the     *)
(* loader makes while it maps it.                                          *)
(***************************************************************************)
ObjectFile == [needed : Seq(Soname), rpath : Dir \cup {NoPath}, sane : BOOLEAN]

(* The names loader_main gives the object the kernel has mapped. *)
RTLD        == <<NoPath, "RTLD">>
MainProgram == <<NoPath, "main-program">>

(* rtld.so itself: linked with -nostdlib, it needs nothing. *)
RtldFile == [needed |-> <<>>, rpath |-> NoPath, sane |-> TRUE]

ASSUME LoaderAssumption ==
    /\ InitialPath \in Seq(Dir)
    /\ \A i, j \in DOMAIN InitialPath : InitialPath[i] = InitialPath[j] => i = j
    /\ MAX_PATH \in Nat
    /\ NoPath \notin Dir
    /\ Absent \notin ObjectFile
    /\ FileSystems \subseteq [Path -> ObjectFile \cup {Absent}]
    /\ Programs \subseteq ObjectFile
    /\ Arguments \subseteq Soname

VARIABLES
    fs,          \* the file system, fixed while the linker runs
    mode,        \* "interp": started by the kernel as PT_INTERP; "direct": by hand
    pc,          \* "start", "deps" (in map_object_deps), "mapped", "dead" (exited)
    rpath,       \* GL(rpath) up to its NULL
    maps,        \* the link maps: l_name and what l_ld points to
    namespace,   \* the chain GL(namespace), l_next, ... as indices of maps
    l_prev,      \* the l_prev pointer of each link map
    l_reserved,  \* the link maps whose l_reserved is set
    runlist,     \* the work queue of map_object_deps
    runp,        \* the entry of runlist being worked on
    dyn,         \* the DT_NEEDED entry of that object being worked on
    nlist,       \* the counter nlist of map_object_deps
    searchlist   \* root_map->l_searchlist

vars == <<fs, mode, pc, rpath, maps, namespace, l_prev, l_reserved, runlist,
          runp, dyn, nlist, searchlist>>

Elements(s) == {s[i] : i \in DOMAIN s}

(***************************************************************************)
(* open_path: the first directory of GL(rpath) that has a file of that     *)
(* name decides.                                                           *)
(***************************************************************************)
Resolves(rp, soname, p) ==
    \E i \in DOMAIN rp :
        /\ p = <<rp[i], soname>>
        /\ fs[p] # Absent
        /\ \A j \in 1 .. i - 1 : fs[<<rp[j], soname>>] = Absent

NotFound(rp, soname) == \A i \in DOMAIN rp : fs[<<rp[i], soname>>] = Absent

(* parse_dynamic: the object's DT_RPATH joins GL(rpath) unless it is there. *)
parse_dynamic_InFront(rp, file) ==
    IF file.rpath \in Elements(rp) \cup {NoPath} THEN rp ELSE <<file.rpath>> \o rp
parse_dynamic_Always(rp, file) ==
    IF file.rpath = NoPath THEN rp ELSE Append(rp, file.rpath)
parse_dynamic(rp, file) ==
    IF file.rpath \in Elements(rp) \cup {NoPath} THEN rp ELSE Append(rp, file.rpath)

(* The object map_object_deps starts from: the second map when there are two at the start. *)
Root == IF mode = "direct" THEN 2 ELSE 1

-----------------------------------------------------------------------------

Init ==
    /\ fs \in FileSystems
    /\ mode \in {"interp", "direct"}
    /\ pc = "start"
    /\ rpath = InitialPath
    /\ maps = <<>>
    /\ namespace = <<>>
    /\ l_prev = <<>>
    /\ l_reserved = {}
    /\ runlist = <<>>
    /\ runp = 1
    /\ dyn = 1
    /\ nlist = 0
    /\ searchlist = [r_nlist |-> 0, r_list |-> <<>>]

(* dputs_die, dprintf_die and a failed assert all leave through exit. *)
Die ==
    /\ pc' = "dead"
    /\ UNCHANGED <<fs, mode, rpath, maps, namespace, l_prev, l_reserved,
                   runlist, runp, dyn, nlist, searchlist>>

(***************************************************************************)
(* Entry into map_object_deps with the namespace loader_main has built;    *)
(* chain_runlist puts the root on the work queue.                          *)
(***************************************************************************)
EnterDeps ==
    /\ pc' = "deps"
    /\ runlist' = <<Root>>
    /\ UNCHANGED <<fs, mode, l_reserved, runp, dyn, nlist, searchlist>>

(* loader_main when AT_ENTRY is not rtld.so's own _start. *)
StartInterp(program) ==
    /\ pc = "start"
    /\ mode = "interp"
    /\ IF program.sane
       THEN /\ maps' = <<[name |-> MainProgram, file |-> program]>>
            /\ namespace' = <<1>>
            /\ l_prev' = <<0>>
            /\ rpath' = parse_dynamic(rpath, program)
            /\ EnterDeps
       ELSE Die

(***************************************************************************)
(* loader_main when rtld.so was run by hand: argv[1] is mapped like a      *)
(* library and linked behind rtld.so.                                      *)
(***************************************************************************)
StartDirect(argv1, p) ==
    /\ pc = "start"
    /\ mode = "direct"
    /\ Resolves(rpath, argv1, p)
    /\ IF fs[p].sane
       THEN /\ maps' = <<[name |-> RTLD, file |-> RtldFile],
                         [name |-> p, file |-> fs[p]]>>
            /\ namespace' = <<1, 2>>
            /\ l_prev' = <<0, 1>>
            /\ rpath' = parse_dynamic(parse_dynamic(rpath, fs[p]), RtldFile)
            /\ EnterDeps
       ELSE Die

StartNotFound(argv1) ==
    /\ pc = "start"
    /\ mode = "direct"
    /\ NotFound(rpath, argv1)
    /\ Die

-----------------------------------------------------------------------------
(***************************************************************************)
(* map_object_deps.  One step handles one DT_NEEDED entry: map_object,     *)
(* then the reservation on the work queue, then append_to_namespace.       *)
(***************************************************************************)
Needed(r) == maps[runlist[r]].file.needed

AtNeeded(soname) ==
    /\ pc = "deps"
    /\ runp \in DOMAIN runlist
    /\ dyn \in DOMAIN Needed(runp)
    /\ soname = Needed(runp)[dyn]

(* if (!new->l_reserved) { ...; nlist++; chain_runlist(new) } *)
Reserve_Unchained(new) ==
    IF new \in l_reserved
    THEN UNCHANGED <<l_reserved, nlist, runlist>>
    ELSE /\ l_reserved' = l_reserved \cup {new}
         /\ nlist' = nlist + 1
         /\ UNCHANGED runlist
Reserve_DepthFirst(new) ==
    IF new \in l_reserved
    THEN UNCHANGED <<l_reserved, nlist, runlist>>
    ELSE /\ l_reserved' = l_reserved \cup {new}
         /\ nlist' = nlist + 1
         /\ runlist' = SubSeq(runlist, 1, runp) \o <<new>> \o SubSeq(runlist, runp + 1, Len(runlist))
Reserve(new) ==
    IF new \in l_reserved
    THEN UNCHANGED <<l_reserved, nlist, runlist>>
    ELSE /\ l_reserved' = l_reserved \cup {new}
         /\ nlist' = nlist + 1
         /\ runlist' = Append(runlist, new)

(***************************************************************************)
(* map_object finds an object of that name in the namespace and returns    *)
(* it; append_to_namespace meets it on its walk and returns.               *)
(***************************************************************************)
FindLoaded(soname, new) ==
    /\ AtNeeded(soname)
    /\ new \in Elements(namespace)
    /\ Resolves(rpath, soname, maps[new].name)
    /\ Reserve(new)
    /\ dyn' = dyn + 1
    /\ UNCHANGED <<fs, mode, pc, rpath, maps, namespace, l_prev, runp, searchlist>>

(* The walk of map_object: no object in the namespace has the name. *)
NotLoaded_LastMissed(p) ==
    \A i \in 1 .. Len(namespace) - 1 : maps[namespace[i]].name # p
NotLoaded(p) == \A l \in Elements(namespace) : maps[l].name # p

(* append_to_namespace for an object that is not in the namespace yet. *)
append_to_namespace_FromHead(new) ==
    /\ namespace' = Append(namespace, new)
    /\ l_prev' = Append(l_prev, namespace[1])
append_to_namespace_OneEarly(new) ==
    /\ namespace' = Append(SubSeq(namespace, 1, Len(namespace) - 1), new)
    /\ l_prev' = Append(l_prev, namespace[Len(namespace)])
append_to_namespace(new) ==
    /\ namespace' = Append(namespace, new)
    /\ l_prev' = Append(l_prev, namespace[Len(namespace)])

(***************************************************************************)
(* No object of that name is in the namespace: map_object_fd maps the file *)
(* and reads its dynamic section, append_to_namespace links it at the end. *)
(***************************************************************************)
MapNew(soname, p) ==
    /\ AtNeeded(soname)
    /\ Resolves(rpath, soname, p)
    /\ NotLoaded(p)
    /\ IF fs[p].sane
       THEN LET new == Len(maps) + 1 IN
            /\ maps' = Append(maps, [name |-> p, file |-> fs[p]])
            /\ rpath' = parse_dynamic(rpath, fs[p])
            /\ Reserve(new)
            /\ append_to_namespace(new)
            /\ dyn' = dyn + 1
            /\ UNCHANGED <<fs, mode, pc, runp, searchlist>>
       ELSE Die

(* "Library not found." *)
LibraryNotFound(soname) ==
    /\ AtNeeded(soname)
    /\ NotFound(rpath, soname)
    /\ Die

(* DT_NULL: on to the next object of the work queue. *)
NextObject_DynFromZero ==
    /\ pc = "deps"
    /\ runp \in DOMAIN runlist
    /\ dyn \notin DOMAIN Needed(runp)
    /\ runp' = runp + 1
    /\ dyn' = 0
    /\ UNCHANGED <<fs, mode, pc, rpath, maps, namespace, l_prev, l_reserved,
                   runlist, nlist, searchlist>>
NextObject_SameAgain ==
    /\ pc = "deps"
    /\ runp \in DOMAIN runlist
    /\ dyn \notin DOMAIN Needed(runp)
    /\ dyn' = 1
    /\ UNCHANGED <<fs, mode, pc, rpath, maps, namespace, l_prev, l_reserved,
                   runlist, runp, nlist, searchlist>>
NextObject ==
    /\ pc = "deps"
    /\ runp \in DOMAIN runlist
    /\ dyn \notin DOMAIN Needed(runp)
    /\ runp' = runp + 1
    /\ dyn' = 1
    /\ UNCHANGED <<fs, mode, pc, rpath, maps, namespace, l_prev, l_reserved,
                   runlist, nlist, searchlist>>

(***************************************************************************)
(* The work queue is done: the search list gets room for nlist objects and *)
(* every object of the queue but the root.  print_namespace, called last,  *)
(* changes nothing; what it asserts is BackLinks below.                    *)
(***************************************************************************)
FinishDeps ==
    /\ pc = "deps"
    /\ runp \notin DOMAIN runlist
    /\ pc' = "mapped"
    /\ searchlist' = IF nlist > 0
                     THEN [r_nlist |-> nlist,
                           r_list  |-> SelectSeq(runlist, LAMBDA l : l # Root)]
                     ELSE searchlist
    /\ UNCHANGED <<fs, mode, rpath, maps, namespace, l_prev, l_reserved,
                   runlist, runp, dyn, nlist>>

-----------------------------------------------------------------------------

Finished == pc \in {"mapped", "dead"} /\ UNCHANGED vars

Step ==
    \/ \E program \in Programs : StartInterp(program)
    \/ \E argv1 \in Arguments :
          \/ \E p \in Path : StartDirect(argv1, p)
          \/ StartNotFound(argv1)
    \/ \E soname \in Soname :
          \/ \E new \in DOMAIN maps : FindLoaded(soname, new)
          \/ \E p \in Path : MapNew(soname, p)
          \/ LibraryNotFound(soname)
    \/ NextObject
    \/ FinishDeps

Next == Step \/ Finished

Spec == Init /\ [][Next]_vars

(* One thread, never blocked: the linker keeps running until it is done. *)
FairSpec == Spec /\ WF_vars(Step)

-----------------------------------------------------------------------------

(* Every variable has its type; indices into maps are valid, and each map has its l_prev. *)
TypeOK ==
    /\ fs \in [Path -> ObjectFile \cup {Absent}]
    /\ mode \in {"interp", "direct"}
    /\ pc \in {"start", "deps", "mapped", "dead"}
    /\ rpath \in Seq(Dir)
    /\ maps \in Seq([name : Path \cup {RTLD, MainProgram}, file : ObjectFile])
    /\ namespace \in Seq(DOMAIN maps)
    /\ l_prev \in Seq(0 .. Len(maps))
    /\ Len(l_prev) = Len(maps)
    /\ l_reserved \subseteq DOMAIN maps
    /\ runlist \in Seq(DOMAIN maps)
    /\ runp \in Nat \ {0}
    /\ dyn \in Nat \ {0}
    /\ nlist \in Nat
    /\ searchlist.r_nlist \in Nat

(***************************************************************************)
(* No file is mapped twice: map_object's walk of the namespace meets every *)
(* object mapped so far, so two link maps never have one name.             *)
(***************************************************************************)
MappedOnce ==
    \A i, j \in DOMAIN maps : maps[i].name = maps[j].name => i = j

(***************************************************************************)
(* The namespace holds every mapped object once, and l_prev leads back     *)
(* along it from the last object to the first: reloc_all, which walks      *)
(* l_prev, reaches each object exactly once, and the assertion of          *)
(* print_namespace holds.                                                  *)
(***************************************************************************)
BackLinks ==
    /\ Elements(namespace) = DOMAIN maps
    /\ \A i, j \in DOMAIN namespace : namespace[i] = namespace[j] => i = j
    /\ \A i \in DOMAIN namespace :
          l_prev[namespace[i]] = IF i = 1 THEN 0 ELSE namespace[i - 1]

(* The entries of the work queue map_object_deps has dealt with. *)
Handled(r, d) == r < runp \/ (r = runp /\ d < dyn)

(***************************************************************************)
(* A dependency once resolved stays resolved to the same object, although  *)
(* GL(rpath) grows while the graph is explored: searching for it again     *)
(* with the directories known now finds an object of the namespace.        *)
(***************************************************************************)
DependenciesMapped ==
    \A r \in DOMAIN runlist : \A d \in DOMAIN Needed(r) :
        Handled(r, d) =>
            \E l \in Elements(namespace) : Resolves(rpath, Needed(r)[d], maps[l].name)

(***************************************************************************)
(* When map_object_deps returns, the namespace is closed under             *)
(* dependencies: every object in it (rtld.so, which needs nothing, is not  *)
(* on the work queue) was worked on.                                       *)
(***************************************************************************)
Closed ==
    pc = "mapped" =>
        \A i \in Elements(namespace) : \A d \in DOMAIN maps[i].file.needed :
            \E l \in Elements(namespace) :
                Resolves(rpath, maps[i].file.needed[d], maps[l].name)

(***************************************************************************)
(* The entry d of the object at place i of the namespace leads to the      *)
(* object at place k; entry e of the object at place h is read before it.  *)
(***************************************************************************)
Entries(i) == DOMAIN maps[namespace[i]].file.needed
Meets(i, d, k) ==
    Resolves(rpath, maps[namespace[i]].file.needed[d], maps[namespace[k]].name)
Before(h, e, i, d) == h < i \/ (h = i /\ e < d)

(***************************************************************************)
(* The namespace, in which symbols are looked up front to back, is in      *)
(* breadth-first order from the root, as if all directories had been known *)
(* from the start: who reads the dependencies of its objects from front to *)
(* back meets each behind the root through an object in front of it, and   *)
(* meets it for the first time before any that is behind it.               *)
(***************************************************************************)
BreadthFirst ==
    pc = "mapped" =>
        /\ namespace[Root] = Root
        /\ \A k \in Root + 1 .. Len(namespace) :
              /\ \E i \in 1 .. k - 1 : \E d \in Entries(i) : Meets(i, d, k)
              /\ \A j \in Root + 1 .. k - 1, i \in DOMAIN namespace : \A d \in Entries(i) :
                    Meets(i, d, k) =>
                        \E h \in 1 .. i : \E e \in Entries(h) :
                            Meets(h, e, j) /\ Before(h, e, i, d)

(***************************************************************************)
(* GL(rpath), an array with room for MAX_PATH directories (ldsodefs.h)     *)
(* that parse_dynamic extends without a look at its size, overflows only   *)
(* when there are more different directories than that: neither the many   *)
(* objects of one directory nor an object parsed again takes a place.      *)
(***************************************************************************)
RpathFits ==
    (IsFiniteSet(Dir) /\ Cardinality(Dir) <= MAX_PATH) => Len(rpath) <= MAX_PATH

(* The linker finishes, whatever cycles the dependencies have. *)
Termination == <>(pc \in {"mapped", "dead"})

(***************************************************************************)
(* The work queue, the reservations and the chains of pointers implement   *)
(* Closure: what is in the namespace was needed, nothing in it is dropped, *)
(* and the linker goes on only when nothing that is needed is missing.     *)
(***************************************************************************)
Abstract == INSTANCE Closure WITH
    Main   <- MainProgram,
    Itself <- [name |-> RTLD, file |-> RtldFile],
    status <- CASE pc = "start"  -> "start"
                [] pc = "deps"   -> "loading"
                [] pc = "mapped" -> "closed"
                [] pc = "dead"   -> "failed",
    loaded <- {maps[l] : l \in Elements(namespace)}

Implements == Abstract!Spec
=============================================================================
