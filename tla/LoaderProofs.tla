---------------------------- MODULE LoaderProofs ----------------------------
(***************************************************************************)
(* Proofs about Loader, for every set of directories and object files and  *)
(* every dependency graph: no file is mapped twice, the namespace and its  *)
(* back links agree and are in breadth-first order, and what has been      *)
(* resolved stays resolved.                                                *)
(* At the end, proofs about Format, by which the names of the files are    *)
(* spelled, for every format, all arguments and every size of the buffer.  *)
(***************************************************************************)
EXTENDS Loader, Format, SequenceTheorems, FiniteSetTheorems, TLAPS

(***************************************************************************)
(* What the three invariants rest on.  Link maps are threaded on the       *)
(* namespace in the order they are created, so the walk of map_object      *)
(* meets all of them; every one from the root on has been put on the work  *)
(* queue; and nothing has happened before loader_main.                     *)
(***************************************************************************)
Threaded ==
    /\ Len(namespace) = Len(maps)
    /\ \A i \in DOMAIN maps : namespace[i] = i /\ l_prev[i] = i - 1

Queued ==
    /\ pc = "start" => maps = <<>> /\ runlist = <<>> /\ runp = 1 /\ dyn = 1
    /\ pc \in {"deps", "mapped"} =>
          /\ Root \in DOMAIN maps
          /\ \A i \in Root .. Len(maps) : i \in Elements(runlist)
          /\ mode = "direct" => maps[1].file = RtldFile
    /\ pc = "mapped" => runp \notin DOMAIN runlist

LoaderInv == TypeOK /\ Threaded /\ Queued /\ MappedOnce /\ DependenciesMapped

Names == Path \cup {RTLD, MainProgram}
LinkMap == [name : Names, file : ObjectFile]

-----------------------------------------------------------------------------
(* Appending to a sequence keeps what is in it and adds one element. *)
LEMMA AppendFacts ==
    ASSUME NEW S, NEW s \in Seq(S), NEW e \in S
    PROVE  /\ Append(s, e) \in Seq(S)
           /\ Len(Append(s, e)) = Len(s) + 1
           /\ DOMAIN Append(s, e) = 1 .. Len(s) + 1
           /\ DOMAIN s = 1 .. Len(s)
           /\ \A i \in 1 .. Len(s) : Append(s, e)[i] = s[i]
           /\ Append(s, e)[Len(s) + 1] = e
  OBVIOUS

(***************************************************************************)
(* open_path is stable: a name that resolves in a list of directories      *)
(* resolves to the same file when directories are added behind them.       *)
(***************************************************************************)
LEMMA ResolvesStable ==
    ASSUME NEW rp \in Seq(Dir), NEW d \in Dir, NEW soname, NEW p,
           Resolves(rp, soname, p)
    PROVE  Resolves(Append(rp, d), soname, p)
  <1>1. PICK i \in DOMAIN rp : /\ p = <<rp[i], soname>>
                               /\ fs[p] # Absent
                               /\ \A j \in 1 .. i - 1 : fs[<<rp[j], soname>>] = Absent
    BY DEF Resolves
  <1>2. i \in DOMAIN Append(rp, d) /\ Append(rp, d)[i] = rp[i]
    BY AppendFacts
  <1>3. \A j \in 1 .. i - 1 : Append(rp, d)[j] = rp[j]
    BY AppendFacts
  <1> QED BY <1>1, <1>2, <1>3 DEF Resolves

(* parse_dynamic keeps the directories there are and their order. *)
LEMMA ParseDynamic ==
    ASSUME NEW rp \in Seq(Dir), NEW file \in ObjectFile
    PROVE  /\ parse_dynamic(rp, file) \in Seq(Dir)
           /\ \A soname, p : Resolves(rp, soname, p) =>
                                Resolves(parse_dynamic(rp, file), soname, p)
  <1>1. CASE file.rpath \in Elements(rp) \cup {NoPath}
    BY <1>1 DEF parse_dynamic
  <1>2. CASE file.rpath \notin Elements(rp) \cup {NoPath}
    <2>1. file.rpath \in Dir
      BY <1>2 DEF ObjectFile
    <2>2. parse_dynamic(rp, file) = Append(rp, file.rpath)
      BY <1>2 DEF parse_dynamic
    <2> QED BY <2>1, <2>2, ResolvesStable, AppendFacts
  <1> QED BY <1>1, <1>2

(* Both names loader_main makes up, and rtld.so, have their types. *)
LEMMA RtldTyped == RtldFile \in ObjectFile /\ RTLD \in Names /\ MainProgram \in Names
  BY EmptySeq DEF RtldFile, ObjectFile, Names

-----------------------------------------------------------------------------

(* The invariant holds before anything is loaded. *)
LEMMA InitInv == Init => LoaderInv
  <1> SUFFICES ASSUME Init PROVE LoaderInv
    OBVIOUS
  <1> USE LoaderAssumption, EmptySeq DEF Init
  <1>1. TypeOK
    BY DEF TypeOK
  <1>2. Threaded /\ Queued
    BY DEF Threaded, Queued
  <1>3. MappedOnce
    BY DEF MappedOnce
  <1>4. DependenciesMapped
    BY DEF DependenciesMapped
  <1> QED BY <1>1, <1>2, <1>3, <1>4 DEF LoaderInv

(* The namespace chains link maps. *)
LEMMA ElementsTyped == TypeOK => Elements(namespace) \subseteq DOMAIN maps
  <1>1. TypeOK => namespace \in Seq(DOMAIN maps)
    BY DEF TypeOK
  <1>2. namespace \in Seq(DOMAIN maps) => Elements(namespace) \subseteq DOMAIN maps
    BY DEF Elements
  <1> QED BY <1>1, <1>2

(* The DT_NEEDED entries of a link map are names of object files. *)
LEMMA NeededTyped ==
    ASSUME TypeOK, NEW l \in DOMAIN maps
    PROVE  maps[l].file.needed \in Seq(Soname)
  <1>1. maps \in Seq(LinkMap)
    BY DEF TypeOK, LinkMap, Names
  <1>2. maps[l] \in LinkMap
    BY <1>1
  <1> QED BY <1>2 DEF LinkMap, ObjectFile

(***************************************************************************)
(* A step that keeps the file system, the link maps there are, the         *)
(* namespace, the work queue and the meaning of GL(rpath), and may add to  *)
(* them, keeps every dependency that was mapped.                           *)
(***************************************************************************)
LEMMA DependenciesKept ==
    ASSUME TypeOK, DependenciesMapped, fs' = fs,
           \A soname, p : Resolves(rpath, soname, p) => Resolves(rpath', soname, p),
           \A i \in DOMAIN maps : maps'[i] = maps[i],
           Elements(namespace) \subseteq Elements(namespace'),
           NEW r \in DOMAIN runlist, runlist'[r] = runlist[r]
    PROVE  /\ Needed(r)' = Needed(r)
           /\ \A d \in DOMAIN Needed(r) :
                 Handled(r, d) =>
                   \E l \in Elements(namespace') :
                      Resolves(rpath, Needed(r)[d], maps[l].name)'
  <1>1. runlist[r] \in DOMAIN maps
    BY DEF TypeOK
  <1>2. Needed(r)' = Needed(r)
    BY <1>1 DEF Needed
  <1>3. \A soname, p : Resolves(rpath', soname, p) => Resolves(rpath, soname, p)'
    BY DEF Resolves
  <1>4. ASSUME NEW d \in DOMAIN Needed(r), Handled(r, d)
        PROVE  \E l \in Elements(namespace') :
                  Resolves(rpath, Needed(r)[d], maps[l].name)'
    <2>1. PICK l \in Elements(namespace) : Resolves(rpath, Needed(r)[d], maps[l].name)
      BY <1>4 DEF DependenciesMapped
    <2>2. l \in DOMAIN maps
      BY <2>1, ElementsTyped
    <2>3. maps'[l] = maps[l] /\ l \in Elements(namespace')
      BY <2>1, <2>2
    <2>4. Resolves(rpath', Needed(r)[d], maps[l].name)
      BY <2>1
    <2> QED BY <1>2, <1>3, <2>3, <2>4
  <1> QED BY <1>2, <1>4

(* Leaving through exit changes nothing but the program counter. *)
LEMMA DieInv == LoaderInv /\ Die => LoaderInv'
  <1> SUFFICES ASSUME LoaderInv, Die PROVE LoaderInv'
    OBVIOUS
  <1> USE DEF LoaderInv, Die
  <1>1. TypeOK'
    BY DEF TypeOK
  <1>2. Threaded' /\ Queued'
    BY DEF Threaded, Queued
  <1>3. MappedOnce'
    BY DEF MappedOnce
  <1>4. DependenciesMapped'
    BY DependenciesKept DEF DependenciesMapped, Handled
  <1> QED BY <1>1, <1>2, <1>3, <1>4

(* The namespace of a program the kernel started: the program alone. *)
LEMMA StartInterpInv ==
    ASSUME LoaderInv, NEW program \in Programs, StartInterp(program)
    PROVE  LoaderInv'
  <1>1. CASE ~program.sane
    BY <1>1, DieInv DEF StartInterp
  <1>2. CASE program.sane
    <2> DEFINE m == [name |-> MainProgram, file |-> program]
    <2>1. /\ maps' = <<m>> /\ namespace' = <<1>> /\ l_prev' = <<0>>
          /\ rpath' = parse_dynamic(rpath, program)
          /\ pc' = "deps" /\ runlist' = <<1>> /\ runp' = 1 /\ dyn' = 1
          /\ mode = "interp" /\ mode' = "interp"
          /\ UNCHANGED <<fs, l_reserved, nlist, searchlist>>
      BY <1>2 DEF StartInterp, EnterDeps, LoaderInv, Queued, Root
    <2>2. program \in ObjectFile /\ m \in LinkMap
      BY LoaderAssumption, RtldTyped DEF LinkMap
    <2>3. TypeOK'
      <3>1. maps' \in Seq(LinkMap) /\ Len(maps') = 1 /\ DOMAIN maps' = {1}
        BY <2>1, <2>2
      <3>2. rpath' \in Seq(Dir)
        BY <2>1, <2>2, ParseDynamic DEF LoaderInv, TypeOK
      <3>3. namespace' \in Seq({1}) /\ runlist' \in Seq({1}) /\ l_prev' \in Seq(0 .. 1)
            /\ Len(l_prev') = 1
        BY <2>1
      <3>4. l_reserved' \subseteq {1}
        BY <2>1 DEF LoaderInv, TypeOK, Queued, StartInterp
      <3> QED BY <2>1, <3>1, <3>2, <3>3, <3>4 DEF LoaderInv, TypeOK, LinkMap, Names
    <2>4. Threaded' /\ MappedOnce'
      BY <2>1 DEF Threaded, MappedOnce
    <2>5. Queued'
      BY <2>1 DEF Queued, Root, Elements
    <2>6. DependenciesMapped'
      BY <2>1, <2>2 DEF DependenciesMapped, Handled, Needed, ObjectFile
    <2> QED BY <2>3, <2>4, <2>5, <2>6 DEF LoaderInv
  <1> QED BY <1>1, <1>2

(* The namespace of a run by hand: rtld.so, then the program. *)
LEMMA StartDirectInv ==
    ASSUME LoaderInv, NEW argv1 \in Arguments, NEW p \in Path, StartDirect(argv1, p)
    PROVE  LoaderInv'
  <1>1. CASE ~fs[p].sane
    BY <1>1, DieInv DEF StartDirect
  <1>2. CASE fs[p].sane
    <2> DEFINE m == [name |-> p, file |-> fs[p]]
               r == [name |-> RTLD, file |-> RtldFile]
    <2>1. /\ maps' = <<r, m>> /\ namespace' = <<1, 2>> /\ l_prev' = <<0, 1>>
          /\ rpath' = parse_dynamic(parse_dynamic(rpath, fs[p]), RtldFile)
          /\ pc' = "deps" /\ runlist' = <<2>> /\ runp' = 1 /\ dyn' = 1
          /\ mode = "direct" /\ mode' = "direct"
          /\ UNCHANGED <<fs, l_reserved, nlist, searchlist>>
      BY <1>2 DEF StartDirect, EnterDeps, LoaderInv, Queued, Root
    <2>2. fs[p] \in ObjectFile
      <3>1. fs[p] # Absent
        BY DEF StartDirect, Resolves
      <3> QED BY <3>1 DEF LoaderInv, TypeOK
    <2>3. m \in LinkMap /\ r \in LinkMap /\ m.name # r.name
      BY <2>2, RtldTyped, LoaderAssumption DEF LinkMap, Names, RTLD, Path
    <2>4. TypeOK'
      <3>1. maps' \in Seq(LinkMap) /\ Len(maps') = 2 /\ DOMAIN maps' = 1 .. 2
        BY <2>1, <2>3
      <3>2. rpath' \in Seq(Dir)
        BY <2>1, <2>2, RtldTyped, ParseDynamic DEF LoaderInv, TypeOK
      <3>3. /\ namespace' \in Seq(1 .. 2) /\ runlist' \in Seq(1 .. 2)
            /\ l_prev' \in Seq(0 .. 2) /\ Len(l_prev') = 2
        BY <2>1
      <3>4. l_reserved' \subseteq 1 .. 2
        BY <2>1 DEF LoaderInv, TypeOK, Queued, StartDirect
      <3> QED BY <2>1, <3>1, <3>2, <3>3, <3>4 DEF LoaderInv, TypeOK, LinkMap, Names
    <2>5. Threaded'
      BY <2>1 DEF Threaded
    <2>6. MappedOnce'
      BY <2>1, <2>3 DEF MappedOnce
    <2>7. Queued'
      BY <2>1 DEF Queued, Root, Elements
    <2>8. DependenciesMapped'
      BY <2>1, <2>2 DEF DependenciesMapped, Handled, Needed, ObjectFile
    <2> QED BY <2>4, <2>5, <2>6, <2>7, <2>8 DEF LoaderInv
  <1> QED BY <1>1, <1>2

-----------------------------------------------------------------------------
(* The work queue only grows, by objects of the namespace. *)
LEMMA ReserveFacts ==
    ASSUME LoaderInv, NEW S, DOMAIN maps \subseteq S, NEW new \in S, Reserve(new)
    PROVE  /\ runlist' \in Seq(S)
           /\ Len(runlist) <= Len(runlist')
           /\ DOMAIN runlist' = 1 .. Len(runlist')
           /\ \A i \in DOMAIN runlist : i \in DOMAIN runlist' /\ runlist'[i] = runlist[i]
           /\ Elements(runlist) \subseteq Elements(runlist')
           /\ new \notin l_reserved => new \in Elements(runlist')
           /\ l_reserved' \subseteq l_reserved \cup {new}
           /\ nlist' \in Nat
  <1>1. runlist \in Seq(S)
    BY SeqMonotonic DEF LoaderInv, TypeOK
  <1>2. nlist \in Nat /\ l_reserved \subseteq DOMAIN maps
    BY DEF LoaderInv, TypeOK
  <1>3. CASE new \in l_reserved
    BY <1>1, <1>2, <1>3 DEF Reserve
  <1>4. CASE new \notin l_reserved
    <2>1. /\ runlist' = Append(runlist, new) /\ nlist' = nlist + 1
          /\ l_reserved' = l_reserved \cup {new}
      BY <1>4 DEF Reserve
    <2>2. /\ runlist' \in Seq(S) /\ Len(runlist') = Len(runlist) + 1
          /\ DOMAIN runlist' = 1 .. Len(runlist) + 1
          /\ DOMAIN runlist = 1 .. Len(runlist)
          /\ \A i \in 1 .. Len(runlist) : runlist'[i] = runlist[i]
          /\ runlist'[Len(runlist) + 1] = new
      BY <1>1, <2>1, AppendFacts
    <2>3. Len(runlist) \in Nat
      BY <1>1
    <2>4. \A i \in DOMAIN runlist : i \in DOMAIN runlist' /\ runlist'[i] = runlist[i]
      BY <2>2, <2>3
    <2>5. Elements(runlist) \subseteq Elements(runlist') /\ new \in Elements(runlist')
      BY <2>2, <2>3, <2>4 DEF Elements
    <2> QED BY <1>2, <2>1, <2>2, <2>3, <2>4, <2>5
  <1> QED BY <1>3, <1>4

(***************************************************************************)
(* After the step on the entry dyn of the work queue, the handled entries  *)
(* are those that were handled and that one.                               *)
(***************************************************************************)
LEMMA HandledStep ==
    ASSUME LoaderInv, NEW soname, AtNeeded(soname),
           runp' = runp, dyn' = dyn + 1,
           \A i \in DOMAIN runlist' : i > Len(runlist) \/ i \in DOMAIN runlist,
           NEW r \in DOMAIN runlist', NEW d \in Nat, Handled(r, d)'
    PROVE  /\ r \in DOMAIN runlist
           /\ Handled(r, d) \/ (r = runp /\ d = dyn)
  <1>1. runp \in DOMAIN runlist /\ runp \in Nat /\ dyn \in Nat /\ Len(runlist) \in Nat
        /\ DOMAIN runlist = 1 .. Len(runlist)
    BY DEF AtNeeded, LoaderInv, TypeOK
  <1>2. r < runp \/ (r = runp /\ d < dyn + 1)
    BY DEF Handled
  <1> QED BY <1>1, <1>2 DEF Handled

(* An entry that resolves to an object of the namespace. *)
LEMMA FindLoadedInv ==
    ASSUME LoaderInv, NEW soname \in Soname, NEW new \in DOMAIN maps,
           FindLoaded(soname, new)
    PROVE  LoaderInv'
  <1>1. /\ AtNeeded(soname) /\ Reserve(new) /\ dyn' = dyn + 1
        /\ UNCHANGED <<fs, mode, pc, rpath, maps, namespace, l_prev, runp, searchlist>>
    BY DEF FindLoaded
  <1>2. /\ runlist' \in Seq(DOMAIN maps)
        /\ DOMAIN runlist' = 1 .. Len(runlist')
        /\ \A i \in DOMAIN runlist : i \in DOMAIN runlist' /\ runlist'[i] = runlist[i]
        /\ Elements(runlist) \subseteq Elements(runlist')
        /\ l_reserved' \subseteq l_reserved \cup {new}
        /\ nlist' \in Nat
    BY <1>1, ReserveFacts
  <1>3. TypeOK'
    BY <1>1, <1>2 DEF LoaderInv, TypeOK
  <1>4. Threaded' /\ MappedOnce'
    BY <1>1 DEF LoaderInv, Threaded, MappedOnce
  <1>5. Queued'
    BY <1>1, <1>2 DEF LoaderInv, Queued, AtNeeded, Root
  <1>6. DependenciesMapped'
    <2> SUFFICES ASSUME NEW r \in DOMAIN runlist', NEW d \in DOMAIN Needed(r)',
                        Handled(r, d)'
                 PROVE  \E l \in Elements(namespace') :
                            Resolves(rpath, Needed(r)[d], maps[l].name)'
      BY DEF DependenciesMapped
    <2>1. runlist \in Seq(DOMAIN maps)
      BY DEF LoaderInv, TypeOK
    <2>2. \A i \in DOMAIN runlist' : i > Len(runlist) \/ i \in DOMAIN runlist
      BY <1>2, <2>1
    <2>3. d \in Nat
      <3>1. runlist'[r] \in DOMAIN maps
        BY <1>2
      <3>2. Needed(r)' \in Seq(Soname)
        BY <1>1, <3>1, NeededTyped DEF Needed, LoaderInv
      <3> QED BY <3>2
    <2>4. r \in DOMAIN runlist /\ (Handled(r, d) \/ (r = runp /\ d = dyn))
      BY <1>1, <2>2, <2>3, HandledStep
    <2>5. runlist'[r] = runlist[r]
      BY <1>2, <2>4
    <2>6. CASE Handled(r, d)
      BY <1>1, <2>4, <2>5, <2>6, DependenciesKept DEF LoaderInv
    <2>7. CASE r = runp /\ d = dyn
      <3>1. Needed(r)'[d] = soname
        BY <1>1, <2>5, <2>7 DEF AtNeeded, Needed
      <3>2. new \in Elements(namespace') /\ Resolves(rpath, soname, maps[new].name)
        BY <1>1 DEF FindLoaded
      <3>3. Resolves(rpath, Needed(r)[d], maps[new].name)'
        BY <1>1, <3>1, <3>2 DEF Resolves
      <3> QED BY <3>2, <3>3
    <2> QED BY <2>4, <2>6, <2>7
  <1> QED BY <1>3, <1>4, <1>5, <1>6 DEF LoaderInv

(* The last entry of an object's dynamic section. *)
LEMMA NextObjectInv == LoaderInv /\ NextObject => LoaderInv'
  <1> SUFFICES ASSUME LoaderInv, NextObject PROVE LoaderInv'
    OBVIOUS
  <1>1. /\ pc = "deps" /\ runp \in DOMAIN runlist /\ dyn \notin DOMAIN Needed(runp)
        /\ runp' = runp + 1 /\ dyn' = 1
        /\ UNCHANGED <<fs, mode, pc, rpath, maps, namespace, l_prev, l_reserved,
                       runlist, nlist, searchlist>>
    BY DEF NextObject
  <1>2. TypeOK'
    BY <1>1 DEF LoaderInv, TypeOK
  <1>3. Threaded' /\ MappedOnce' /\ Queued'
    BY <1>1 DEF LoaderInv, Threaded, MappedOnce, Queued, Root
  <1>4. DependenciesMapped'
    <2> SUFFICES ASSUME NEW r \in DOMAIN runlist, NEW d \in DOMAIN Needed(r),
                        Handled(r, d)'
                 PROVE  Handled(r, d)
      BY <1>1, DependenciesKept DEF DependenciesMapped, LoaderInv
    <2>1. runlist \in Seq(DOMAIN maps) /\ runp \in Nat /\ dyn \in Nat \ {0}
      BY DEF LoaderInv, TypeOK
    <2>2. Needed(r) \in Seq(Soname)
      BY <2>1, NeededTyped DEF Needed, LoaderInv
    <2>3. r < runp + 1
      BY <1>1, <2>1, <2>2 DEF Handled
    <2>4. CASE r = runp
      BY <1>1, <2>1, <2>2, <2>4 DEF Handled
    <2>5. CASE r # runp
      BY <2>1, <2>3, <2>5 DEF Handled
    <2> QED BY <2>4, <2>5
  <1> QED BY <1>2, <1>3, <1>4 DEF LoaderInv

(* The end of map_object_deps. *)
LEMMA FinishDepsInv == LoaderInv /\ FinishDeps => LoaderInv'
  <1> SUFFICES ASSUME LoaderInv, FinishDeps PROVE LoaderInv'
    OBVIOUS
  <1>1. /\ pc = "deps" /\ runp \notin DOMAIN runlist /\ pc' = "mapped"
        /\ UNCHANGED <<fs, mode, rpath, maps, namespace, l_prev, l_reserved,
                       runlist, runp, dyn, nlist>>
    BY DEF FinishDeps
  <1>2. searchlist'.r_nlist \in Nat
    BY DEF FinishDeps, LoaderInv, TypeOK
  <1>3. TypeOK'
    BY <1>1, <1>2 DEF LoaderInv, TypeOK
  <1>4. Threaded' /\ MappedOnce' /\ Queued'
    BY <1>1 DEF LoaderInv, Threaded, MappedOnce, Queued, Root
  <1>5. DependenciesMapped'
    BY <1>1, DependenciesKept DEF LoaderInv, DependenciesMapped, Handled
  <1> QED BY <1>3, <1>4, <1>5 DEF LoaderInv

(* An entry that resolves to a file not yet mapped. *)
LEMMA MapNewInv ==
    ASSUME LoaderInv, NEW soname \in Soname, NEW p \in Path, MapNew(soname, p)
    PROVE  LoaderInv'
  <1>1. CASE ~fs[p].sane
    BY <1>1, DieInv DEF MapNew
  <1>2. CASE fs[p].sane
    <2> DEFINE m == [name |-> p, file |-> fs[p]]
    <2>0. PICK new \in Nat : new = Len(maps) + 1
      BY DEF LoaderInv, TypeOK
    <2>1. /\ AtNeeded(soname) /\ Resolves(rpath, soname, p)
          /\ \A l \in Elements(namespace) : maps[l].name # p
          /\ maps' = Append(maps, m)
          /\ rpath' = parse_dynamic(rpath, fs[p])
          /\ Reserve(new)
          /\ namespace' = Append(namespace, new)
          /\ l_prev' = Append(l_prev, namespace[Len(namespace)])
          /\ dyn' = dyn + 1
          /\ UNCHANGED <<fs, mode, pc, runp, searchlist>>
      BY <1>2, <2>0 DEF MapNew, NotLoaded, append_to_namespace
    <2>2. fs[p] \in ObjectFile /\ m \in LinkMap
      <3>1. fs[p] # Absent
        BY <2>1 DEF Resolves
      <3> QED BY <3>1 DEF LoaderInv, TypeOK, LinkMap, Names
    <2>3. /\ maps \in Seq(LinkMap) /\ namespace \in Seq(DOMAIN maps)
          /\ l_prev \in Seq(0 .. Len(maps)) /\ Len(l_prev) = Len(maps)
          /\ Len(namespace) = Len(maps) /\ Len(maps) \in Nat /\ rpath \in Seq(Dir)
          /\ DOMAIN maps = 1 .. Len(maps) /\ l_reserved \subseteq DOMAIN maps
          /\ runlist \in Seq(DOMAIN maps) /\ new = Len(maps) + 1
      BY <2>0 DEF LoaderInv, Threaded, TypeOK, LinkMap, Names
    <2>4. Len(maps) >= 1
      BY <2>1, <2>3 DEF LoaderInv, Queued, AtNeeded, Root
    <2>41. \A i \in 1 .. new : i \in DOMAIN maps \/ i = new
      BY <2>3
    <2>5. /\ maps' \in Seq(LinkMap) /\ Len(maps') = new /\ DOMAIN maps' = 1 .. new
          /\ \A i \in DOMAIN maps : i \in DOMAIN maps' /\ maps'[i] = maps[i]
          /\ maps'[new] = m
      BY <2>1, <2>2, <2>3, AppendFacts
    <2>6. /\ namespace' \in Seq(1 .. new) /\ Len(namespace') = new
          /\ \A i \in 1 .. Len(maps) : namespace'[i] = namespace[i]
          /\ namespace'[new] = new /\ DOMAIN namespace' = 1 .. new
          /\ DOMAIN namespace = 1 .. Len(maps)
      <3>1. namespace \in Seq(1 .. new)
        BY <2>3, SeqMonotonic
      <3> QED BY <2>1, <2>3, <3>1, AppendFacts
    <2>7. Elements(namespace) = DOMAIN maps /\ Elements(namespace') = 1 .. new
      <3>1. \A i \in DOMAIN maps : namespace[i] = i
        BY DEF LoaderInv, Threaded
      <3>2. Elements(namespace) = DOMAIN maps
        BY <2>3, <2>6, <3>1 DEF Elements
      <3>3. \A i \in 1 .. new : namespace'[i] = i
        <4>1. \A i \in DOMAIN maps : namespace'[i] = i
          BY <2>3, <2>6, <3>1
        <4> QED BY <2>6, <2>41, <4>1
      <3>4. Elements(namespace') = 1 .. new
        BY <2>6, <3>3 DEF Elements
      <3> QED BY <3>2, <3>4
    <2>8. namespace[Len(namespace)] = Len(maps)
      <3>1. \A i \in DOMAIN maps : namespace[i] = i
        BY DEF LoaderInv, Threaded
      <3>2. Len(maps) \in DOMAIN maps
        BY <2>3, <2>4
      <3> QED BY <2>3, <3>1, <3>2
    <2>9. /\ l_prev' \in Seq(0 .. new) /\ Len(l_prev') = new
          /\ \A i \in 1 .. Len(maps) : l_prev'[i] = l_prev[i]
          /\ l_prev'[new] = Len(maps)
      <3>1. l_prev \in Seq(0 .. new)
        BY <2>3, SeqMonotonic
      <3> QED BY <2>1, <2>3, <2>8, <3>1, AppendFacts
    <2>10. /\ runlist' \in Seq(1 .. new)
           /\ DOMAIN runlist' = 1 .. Len(runlist')
           /\ \A i \in DOMAIN runlist : i \in DOMAIN runlist' /\ runlist'[i] = runlist[i]
           /\ Elements(runlist) \subseteq Elements(runlist')
           /\ new \in Elements(runlist')
           /\ l_reserved' \subseteq l_reserved \cup {new}
           /\ nlist' \in Nat
      <3>1. DOMAIN maps \subseteq 1 .. new /\ new \in 1 .. new /\ new \notin l_reserved
        BY <2>3
      <3> QED BY <2>1, <3>1, ReserveFacts
    <2>11. TypeOK'
      <3>1. rpath' \in Seq(Dir)
        BY <2>1, <2>2, <2>3, ParseDynamic
      <3>2. l_reserved' \subseteq 1 .. new
        BY <2>3, <2>10
      <3>3. dyn' \in Nat \ {0} /\ runp' \in Nat \ {0}
        BY <2>1 DEF LoaderInv, TypeOK
      <3> QED BY <2>1, <2>5, <2>6, <2>9, <2>10, <3>1, <3>2, <3>3
              DEF LoaderInv, TypeOK, LinkMap, Names
    <2>12. Threaded'
      <3>1. \A i \in DOMAIN maps : namespace[i] = i /\ l_prev[i] = i - 1
        BY DEF LoaderInv, Threaded
      <3>2. \A i \in DOMAIN maps : namespace'[i] = i /\ l_prev'[i] = i - 1
        BY <2>3, <2>6, <2>9, <3>1
      <3>3. namespace'[new] = new /\ l_prev'[new] = new - 1
        BY <2>3, <2>6, <2>9
      <3>4. \A i \in 1 .. new : namespace'[i] = i /\ l_prev'[i] = i - 1
        BY <2>41, <3>2, <3>3
      <3> QED BY <2>5, <2>6, <3>4 DEF Threaded
    <2>13. MappedOnce'
      <3>1. \A i, j \in DOMAIN maps : maps[i].name = maps[j].name => i = j
        BY DEF LoaderInv, MappedOnce
      <3>2. \A i \in DOMAIN maps : maps[i].name # m.name
        BY <2>1, <2>7
      <3>3. \A i \in DOMAIN maps : maps'[i].name = maps[i].name
        BY <2>5
      <3>4. maps'[new].name = m.name
        BY <2>5
      <3>5. \A i, j \in 1 .. new : maps'[i].name = maps'[j].name => i = j
        BY <2>41, <3>1, <3>2, <3>3, <3>4
      <3> QED BY <2>5, <3>5 DEF MappedOnce
    <2>14. Queued'
      <3>1. pc = "deps" /\ pc' = "deps" /\ Root' = Root /\ Root \in DOMAIN maps
        BY <2>1 DEF LoaderInv, Queued, AtNeeded, Root
      <3>2. \A i \in Root .. Len(maps) : i \in Elements(runlist)
        BY <3>1 DEF LoaderInv, Queued
      <3>3. Root \in 1 .. 2
        BY DEF Root
      <3>4. \A i \in Root .. new : i \in Elements(runlist')
        BY <2>3, <2>10, <3>2, <3>3
      <3>5. mode' = "direct" => maps'[1].file = RtldFile
        BY <2>1, <2>3, <2>4, <2>5, <3>1 DEF LoaderInv, Queued
      <3> QED BY <2>5, <3>1, <3>4, <3>5 DEF Queued
    <2>15. DependenciesMapped'
      <3> SUFFICES ASSUME NEW r \in DOMAIN runlist', NEW d \in DOMAIN Needed(r)',
                          Handled(r, d)'
                   PROVE  \E l \in Elements(namespace') :
                              Resolves(rpath, Needed(r)[d], maps[l].name)'
        BY DEF DependenciesMapped
      <3>1. \A i \in DOMAIN runlist' : i > Len(runlist) \/ i \in DOMAIN runlist
        BY <2>3, <2>10
      <3>2. d \in Nat
        <4>1. runlist'[r] \in 1 .. new
          BY <2>10
        <4>2. maps'[runlist'[r]] \in LinkMap
          BY <2>5, <4>1
        <4>3. Needed(r)' \in Seq(Soname)
          BY <4>2 DEF Needed, LinkMap, ObjectFile
        <4> QED BY <4>3
      <3>3. r \in DOMAIN runlist /\ (Handled(r, d) \/ (r = runp /\ d = dyn))
        BY <2>1, <3>1, <3>2, HandledStep
      <3>4. runlist'[r] = runlist[r]
        BY <2>10, <3>3
      <3>5. \A so, q : Resolves(rpath, so, q) => Resolves(rpath', so, q)
        BY <2>1, <2>2, <2>3, ParseDynamic
      <3>6. /\ Needed(r)' = Needed(r)
            /\ \A e \in DOMAIN Needed(r) :
                  Handled(r, e) =>
                    \E l \in Elements(namespace') :
                       Resolves(rpath, Needed(r)[e], maps[l].name)'
        BY <2>1, <2>3, <2>5, <2>7, <3>3, <3>4, <3>5, DependenciesKept DEF LoaderInv
      <3>7. CASE Handled(r, d)
        BY <3>6, <3>7
      <3>8. CASE r = runp /\ d = dyn
        <4>1. Needed(r)'[d] = soname
          BY <2>1, <3>6, <3>8 DEF AtNeeded
        <4>2. new \in Elements(namespace') /\ maps'[new].name = p
          BY <2>3, <2>5, <2>7
        <4>3. Resolves(rpath', soname, p)
          BY <2>1, <3>5
        <4>4. Resolves(rpath, soname, p)'
          BY <2>1, <4>3 DEF Resolves
        <4>5. Resolves(rpath, Needed(r)[d], maps[new].name)'
          BY <4>1, <4>2, <4>4
        <4> QED BY <4>2, <4>5
      <3> QED BY <3>3, <3>7, <3>8
    <2> QED BY <2>11, <2>12, <2>13, <2>14, <2>15 DEF LoaderInv
  <1> QED BY <1>1, <1>2

-----------------------------------------------------------------------------

(* Every step of the loader keeps the invariant. *)
LEMMA StepInv == LoaderInv /\ [Next]_vars => LoaderInv'
  <1> SUFFICES ASSUME LoaderInv, [Next]_vars PROVE LoaderInv'
    OBVIOUS
  <1>1. ASSUME NEW program \in Programs, StartInterp(program) PROVE LoaderInv'
    BY <1>1, StartInterpInv
  <1>2. ASSUME NEW argv1 \in Arguments, NEW p \in Path, StartDirect(argv1, p)
        PROVE LoaderInv'
    BY <1>2, StartDirectInv
  <1>3. ASSUME NEW argv1 \in Arguments, StartNotFound(argv1) PROVE LoaderInv'
    BY <1>3, DieInv DEF StartNotFound
  <1>4. ASSUME NEW soname \in Soname, NEW new \in DOMAIN maps, FindLoaded(soname, new)
        PROVE LoaderInv'
    BY <1>4, FindLoadedInv
  <1>5. ASSUME NEW soname \in Soname, NEW p \in Path, MapNew(soname, p)
        PROVE LoaderInv'
    BY <1>5, MapNewInv
  <1>6. ASSUME NEW soname \in Soname, LibraryNotFound(soname) PROVE LoaderInv'
    BY <1>6, DieInv DEF LibraryNotFound
  <1>7. CASE NextObject
    BY <1>7, NextObjectInv
  <1>8. CASE FinishDeps
    BY <1>8, FinishDepsInv
  <1>9. CASE UNCHANGED vars
    <2>1. TypeOK' /\ Threaded' /\ Queued' /\ MappedOnce'
      BY <1>9 DEF vars, LoaderInv, TypeOK, Threaded, Queued, Root, MappedOnce
    <2>2. DependenciesMapped'
      BY <1>9, DependenciesKept DEF vars, LoaderInv, DependenciesMapped, Handled
    <2> QED BY <2>1, <2>2 DEF LoaderInv
  <1> QED BY <1>1, <1>2, <1>3, <1>4, <1>5, <1>6, <1>7, <1>8, <1>9
          DEF Next, Step, Finished

(***************************************************************************)
(* The inductive invariant holds in every state the linker can reach.      *)
(***************************************************************************)
THEOREM Invariance == Spec => []LoaderInv
  BY InitInv, StepInv, PTL DEF Spec

(* Every variable of the loader keeps its type. *)
THEOREM TypeCorrect == Spec => []TypeOK
  BY Invariance, PTL DEF LoaderInv

(***************************************************************************)
(* No file is ever mapped twice, whatever the dependency graph, the        *)
(* directories and the order in which GL(rpath) grows.                     *)
(***************************************************************************)
THEOREM NeverMappedTwice == Spec => []MappedOnce
  BY Invariance, PTL DEF LoaderInv

(***************************************************************************)
(* The namespace holds each link map once and l_prev retraces it: the      *)
(* assertion of print_namespace never fails, and reloc_all misses nothing. *)
(***************************************************************************)
THEOREM NamespaceRetraced == Spec => []BackLinks
  <1>1. LoaderInv => BackLinks
    <2> SUFFICES ASSUME LoaderInv PROVE BackLinks
      OBVIOUS
    <2>1. /\ DOMAIN maps = 1 .. Len(maps) /\ DOMAIN namespace = 1 .. Len(maps)
          /\ Len(maps) \in Nat
      BY DEF LoaderInv, TypeOK, Threaded
    <2>2. \A i \in 1 .. Len(maps) : namespace[i] = i /\ l_prev[i] = i - 1
      BY <2>1 DEF LoaderInv, Threaded
    <2>3. Elements(namespace) = DOMAIN maps
      BY <2>1, <2>2 DEF Elements
    <2>4. \A i, j \in DOMAIN namespace : namespace[i] = namespace[j] => i = j
      BY <2>1, <2>2
    <2>5. \A i \in DOMAIN namespace :
             l_prev[namespace[i]] = IF i = 1 THEN 0 ELSE namespace[i - 1]
      BY <2>1, <2>2
    <2> QED BY <2>3, <2>4, <2>5 DEF BackLinks
  <1> QED BY <1>1, Invariance, PTL

(***************************************************************************)
(* A dependency that was resolved is resolved to the same object for good, *)
(* although later objects add directories to the search.                   *)
(***************************************************************************)
THEOREM DependenciesStayMapped == Spec => []DependenciesMapped
  BY Invariance, PTL DEF LoaderInv

(* The invariant leaves nothing open when the work queue is done. *)
LEMMA ClosedInv == LoaderInv => Closed
  <1> SUFFICES ASSUME LoaderInv, pc = "mapped", NEW i \in Elements(namespace),
                      NEW d \in DOMAIN maps[i].file.needed
               PROVE  \E l \in Elements(namespace) :
                          Resolves(rpath, maps[i].file.needed[d], maps[l].name)
    BY DEF Closed
  <1>1. /\ i \in DOMAIN maps /\ DOMAIN maps = 1 .. Len(maps) /\ Len(maps) \in Nat
        /\ DOMAIN runlist = 1 .. Len(runlist) /\ Len(runlist) \in Nat
        /\ runp \in Nat \ {0}
    BY ElementsTyped DEF LoaderInv, TypeOK
  <1>2. i >= Root
    <2>1. CASE mode = "interp"
      BY <1>1, <2>1 DEF Root
    <2>2. CASE mode = "direct"
      <3>1. maps[1].file.needed = <<>>
        BY <2>2 DEF LoaderInv, Queued, RtldFile
      <3>2. i # 1
        BY <3>1
      <3> QED BY <1>1, <2>2, <3>2 DEF Root
    <2> QED BY <2>1, <2>2 DEF LoaderInv, TypeOK
  <1>3. PICK r \in DOMAIN runlist : runlist[r] = i
    <2>1. i \in Root .. Len(maps)
      BY <1>1, <1>2 DEF Root
    <2>2. i \in Elements(runlist)
      BY <2>1 DEF LoaderInv, Queued
    <2> QED BY <2>2 DEF Elements
  <1>4. r < runp
    BY <1>1, <1>3 DEF LoaderInv, Queued
  <1>5. d \in DOMAIN Needed(r) /\ Needed(r) = maps[i].file.needed /\ Handled(r, d)
    BY <1>3, <1>4 DEF Needed, Handled
  <1> QED BY <1>3, <1>5 DEF LoaderInv, DependenciesMapped

(***************************************************************************)
(* When map_object_deps returns, everything any object of the namespace    *)
(* needs is in the namespace.                                              *)
(***************************************************************************)
THEOREM NamespaceClosed == Spec => []Closed
  BY ClosedInv, Invariance, PTL

-----------------------------------------------------------------------------
(* No directory is in GL(rpath) twice. *)
Differ(rp) == \A i, j \in DOMAIN rp : rp[i] = rp[j] => i = j

(* parse_dynamic puts no directory into the search path that is there already. *)
LEMMA ParseDiffer ==
    ASSUME NEW rp \in Seq(Dir), NEW file \in ObjectFile, Differ(rp)
    PROVE  Differ(parse_dynamic(rp, file))
  <1>1. CASE file.rpath \in Elements(rp) \cup {NoPath}
    BY <1>1 DEF parse_dynamic
  <1>2. CASE file.rpath \notin Elements(rp) \cup {NoPath}
    <2>1. file.rpath \in Dir
      BY <1>2 DEF ObjectFile
    <2>2. parse_dynamic(rp, file) = Append(rp, file.rpath)
      BY <1>2 DEF parse_dynamic
    <2>3. \A i \in DOMAIN rp : rp[i] # file.rpath
      BY <1>2 DEF Elements
    <2>4. Len(rp) \in Nat /\ DOMAIN rp = 1 .. Len(rp)
      OBVIOUS
    <2> QED BY <2>1, <2>2, <2>3, <2>4, AppendFacts DEF Differ
  <1> QED BY <1>1, <1>2

(***************************************************************************)
(* A step leaves GL(rpath) alone, or parses one object or, at the start    *)
(* by hand, the program and rtld.so.                                       *)
(***************************************************************************)
LEMMA RpathStep ==
    ASSUME LoaderInv, [Next]_vars
    PROVE  \/ rpath' = rpath
           \/ \E file \in ObjectFile : rpath' = parse_dynamic(rpath, file)
           \/ \E file \in ObjectFile :
                 rpath' = parse_dynamic(parse_dynamic(rpath, file), RtldFile)
  <1>1. ASSUME NEW p, NEW soname, Resolves(rpath, soname, p), p \in Path
        PROVE  fs[p] \in ObjectFile
    BY <1>1 DEF LoaderInv, TypeOK, Resolves
  <1>2. ASSUME NEW program \in Programs, StartInterp(program)
        PROVE  rpath' = rpath \/ (program \in ObjectFile /\ rpath' = parse_dynamic(rpath, program))
    BY <1>2, LoaderAssumption DEF StartInterp, Die
  <1>3. ASSUME NEW argv1 \in Arguments, NEW p \in Path, StartDirect(argv1, p)
        PROVE  \/ rpath' = rpath
               \/ /\ fs[p] \in ObjectFile
                  /\ rpath' = parse_dynamic(parse_dynamic(rpath, fs[p]), RtldFile)
    BY <1>1, <1>3 DEF StartDirect, Die
  <1>4. ASSUME NEW soname \in Soname, NEW p \in Path, MapNew(soname, p)
        PROVE  rpath' = rpath \/ (fs[p] \in ObjectFile /\ rpath' = parse_dynamic(rpath, fs[p]))
    BY <1>1, <1>4 DEF MapNew, Die
  <1>5. ASSUME NEW argv1 \in Arguments, StartNotFound(argv1)
        PROVE  rpath' = rpath
    BY <1>5 DEF StartNotFound, Die
  <1>6. ASSUME NEW soname \in Soname,
               (\E new \in DOMAIN maps : FindLoaded(soname, new)) \/ LibraryNotFound(soname)
        PROVE  rpath' = rpath
    BY <1>6 DEF FindLoaded, LibraryNotFound, Die
  <1>7. NextObject \/ FinishDeps \/ UNCHANGED vars => rpath' = rpath
    BY DEF NextObject, FinishDeps, vars
  <1> QED BY <1>2, <1>3, <1>4, <1>5, <1>6, <1>7 DEF Next, Step, Finished

(***************************************************************************)
(* GL(rpath) has room as long as there are no more than MAX_PATH           *)
(* different directories, however many objects are mapped.                 *)
(***************************************************************************)
THEOREM SearchPathFits == Spec => []RpathFits
  <1>1. Init => Differ(rpath)
    BY LoaderAssumption DEF Init, Differ
  <1>2. LoaderInv /\ Differ(rpath) /\ [Next]_vars => Differ(rpath)'
    <2> SUFFICES ASSUME LoaderInv, Differ(rpath), [Next]_vars
                 PROVE  Differ(rpath')
      BY DEF Differ
    <2>1. rpath \in Seq(Dir)
      BY DEF LoaderInv, TypeOK
    <2>2. \A file \in ObjectFile : /\ parse_dynamic(rpath, file) \in Seq(Dir)
                                   /\ Differ(parse_dynamic(rpath, file))
      BY <2>1, ParseDynamic, ParseDiffer
    <2>3. \A file \in ObjectFile :
              Differ(parse_dynamic(parse_dynamic(rpath, file), RtldFile))
      BY <2>2, RtldTyped, ParseDiffer
    <2> QED BY <2>2, <2>3, RpathStep
  <1>3. LoaderInv /\ Differ(rpath) => RpathFits
    <2> SUFFICES ASSUME LoaderInv, Differ(rpath), IsFiniteSet(Dir), Cardinality(Dir) <= MAX_PATH
                 PROVE  Len(rpath) <= MAX_PATH
      BY DEF RpathFits
    <2>1. /\ rpath \in Seq(Dir) /\ Len(rpath) \in Nat /\ DOMAIN rpath = 1 .. Len(rpath)
          /\ rpath \in [1 .. Len(rpath) -> Dir]
      BY DEF LoaderInv, TypeOK
    <2>2. rpath \in Injection(1 .. Len(rpath), Dir)
      BY <2>1 DEF Differ, Injection, IsInjective
    <2>3. Cardinality(1 .. Len(rpath)) <= Cardinality(Dir)
      BY <2>2, FS_Injection
    <2>4. Cardinality(1 .. Len(rpath)) = Len(rpath)
      BY <2>1, FS_Interval
    <2>5. Cardinality(Dir) \in Nat
      BY FS_CardinalityType
    <2> QED BY <2>1, <2>3, <2>4, <2>5, LoaderAssumption
  <1> QED BY <1>1, <1>2, <1>3, Invariance, PTL DEF Spec

-----------------------------------------------------------------------------
(* The objects in memory as Closure sees them. *)
Loaded == {maps[l] : l \in Elements(namespace)}
Status == CASE pc = "start"  -> "start"
            [] pc = "deps"   -> "loading"
            [] pc = "mapped" -> "closed"
            [] pc = "dead"   -> "failed"

(* The namespace chains all link maps there are. *)
LEMMA AllLoaded == LoaderInv => Elements(namespace) = DOMAIN maps /\ Loaded = {maps[l] : l \in DOMAIN maps}
  <1> SUFFICES ASSUME LoaderInv PROVE Elements(namespace) = DOMAIN maps
    BY DEF Loaded
  <1>1. /\ DOMAIN maps = 1 .. Len(maps) /\ DOMAIN namespace = 1 .. Len(maps)
    BY DEF LoaderInv, TypeOK, Threaded
  <1>2. \A i \in 1 .. Len(maps) : namespace[i] = i
    BY <1>1 DEF LoaderInv, Threaded
  <1> QED BY <1>1, <1>2 DEF Elements

(* A name that resolves has its file. *)
LEMMA ResolvesFacts ==
    ASSUME LoaderInv, NEW soname \in Soname, NEW p, Resolves(rpath, soname, p)
    PROVE  p \in Path /\ p[2] = soname /\ fs[p] # Absent
  <1>1. rpath \in Seq(Dir)
    BY DEF LoaderInv, TypeOK
  <1>2. PICK i \in DOMAIN rpath : p = <<rpath[i], soname>> /\ fs[p] # Absent
    BY DEF Resolves
  <1>3. rpath[i] \in Dir
    BY <1>1
  <1> QED BY <1>2, <1>3 DEF Path

(***************************************************************************)
(* The loader implements Closure: a file is loaded only because something  *)
(* loaded needs it, and never twice, nothing is unloaded, and the linker   *)
(* goes on to relocate only when everything needed is in memory.           *)
(***************************************************************************)
THEOREM LoaderImplements == Spec => Implements
  <1>1. Init => Abstract!Init
    <2> SUFFICES ASSUME Init PROVE Abstract!Init
      OBVIOUS
    <2>1. Loaded = {}
      BY DEF Init, Loaded, Elements
    <2>2. Status = "start"
      BY DEF Init, Status
    <2> QED BY <2>1, <2>2 DEF Init, Abstract!Init, Loaded, Status
  <1>2. (LoaderInv => Closed /\ Loaded = {maps[l] : l \in DOMAIN maps})'
    <2>1. LoaderInv => Closed /\ Loaded = {maps[l] : l \in DOMAIN maps}
      BY ClosedInv, AllLoaded
    <2> QED BY <2>1, PTL
  <1>3. LoaderInv /\ LoaderInv' /\ [Next]_vars => [Abstract!Next]_<<fs, Status, Loaded>>
    <2> SUFFICES ASSUME LoaderInv, LoaderInv', [Next]_vars
                 PROVE  Abstract!Next \/ UNCHANGED <<fs, Status, Loaded>>
      OBVIOUS
    <2>1. /\ Loaded = {maps[l] : l \in DOMAIN maps}
          /\ Loaded' = {maps'[l] : l \in DOMAIN maps'}
          /\ Elements(namespace) = DOMAIN maps
      BY AllLoaded, <1>2
    <2>2. maps \in Seq(LinkMap) /\ DOMAIN maps = 1 .. Len(maps) /\ Len(maps) \in Nat
      BY DEF LoaderInv, TypeOK, LinkMap, Names
    <2>3. ASSUME pc \in {"start", "deps"}, Die PROVE Abstract!Next
      <3>1. Status \in {"start", "loading"} /\ Status' = "failed"
        BY <2>3 DEF Status, Die
      <3>2. fs' = fs /\ Loaded' = Loaded
        BY <2>3 DEF Die, Loaded, Elements
      <3> QED BY <3>1, <3>2 DEF Abstract!Next, Abstract!Fail, Status, Loaded
    <2>4. ASSUME NEW program \in Programs, StartInterp(program) PROVE Abstract!Next
      <3>1. CASE ~program.sane
        BY <2>3, <2>4, <3>1 DEF StartInterp
      <3>2. CASE program.sane
        <4>1. /\ Status = "start" /\ Status' = "loading" /\ fs' = fs
          BY <2>4, <3>2 DEF StartInterp, EnterDeps, Status
        <4>2. maps' = <<[name |-> MainProgram, file |-> program]>>
          BY <2>4, <3>2 DEF StartInterp
        <4>3. Loaded' = {[name |-> MainProgram, file |-> program]}
          BY <2>1, <4>2
        <4> QED BY <4>1, <4>3 DEF Abstract!Next, Abstract!Begin, Status, Loaded
      <3> QED BY <3>1, <3>2
    <2>5. ASSUME NEW argv1 \in Arguments, NEW p \in Path, StartDirect(argv1, p)
          PROVE  Abstract!Next
      <3>1. CASE ~fs[p].sane
        BY <2>3, <2>5, <3>1 DEF StartDirect
      <3>2. CASE fs[p].sane
        <4>1. /\ Status = "start" /\ Status' = "loading" /\ fs' = fs
          BY <2>5, <3>2 DEF StartDirect, EnterDeps, Status
        <4>2. maps' = <<[name |-> RTLD, file |-> RtldFile], [name |-> p, file |-> fs[p]]>>
          BY <2>5, <3>2 DEF StartDirect
        <4>3. Loaded' = {[name |-> RTLD, file |-> RtldFile], [name |-> p, file |-> fs[p]]}
          BY <2>1, <4>2
        <4>4. p[2] \in Arguments /\ fs[p] # Absent
          BY <2>5, LoaderAssumption, ResolvesFacts DEF StartDirect
        <4> QED BY <4>1, <4>3, <4>4 DEF Abstract!Next, Abstract!Begin, Status, Loaded
      <3> QED BY <3>1, <3>2
    <2>6. ASSUME NEW argv1 \in Arguments, StartNotFound(argv1) PROVE Abstract!Next
      BY <2>3, <2>6 DEF StartNotFound
    <2>7. ASSUME NEW soname \in Soname, NEW new \in DOMAIN maps, FindLoaded(soname, new)
          PROVE  UNCHANGED <<fs, Status, Loaded>>
      BY <2>7 DEF FindLoaded, Status, Loaded, Elements
    <2>8. ASSUME NEW soname \in Soname, NEW p \in Path, MapNew(soname, p)
          PROVE  Abstract!Next
      <3>1. CASE ~fs[p].sane
        BY <2>3, <2>8, <3>1 DEF MapNew, AtNeeded
      <3>2. CASE fs[p].sane
        <4> DEFINE lm == [name |-> p, file |-> fs[p]]
        <4>1. /\ Status = "loading" /\ Status' = "loading" /\ fs' = fs
          BY <2>8, <3>2 DEF MapNew, AtNeeded, Status
        <4>2. maps' = Append(maps, lm)
          BY <2>8, <3>2 DEF MapNew
        <4>3. Loaded' = Loaded \cup {lm}
          <5>1. lm \in LinkMap
            <6>1. fs[p] # Absent
              BY <2>8, ResolvesFacts DEF MapNew
            <6>2. fs[p] \in ObjectFile
              BY <6>1 DEF LoaderInv, TypeOK
            <6> QED BY <6>2 DEF LinkMap, Names
          <5> HIDE DEF lm
          <5>2. /\ DOMAIN maps' = 1 .. Len(maps) + 1
                /\ \A i \in 1 .. Len(maps) : maps'[i] = maps[i]
                /\ maps'[Len(maps) + 1] = lm
            BY <2>2, <4>2, <5>1, AppendFacts
          <5>3. 1 .. Len(maps) + 1 = (1 .. Len(maps)) \cup {Len(maps) + 1}
            BY <2>2
          <5>4. {maps'[l] : l \in DOMAIN maps'} = {maps[l] : l \in DOMAIN maps} \cup {lm}
            BY <2>2, <5>2, <5>3
          <5> QED BY <2>1, <5>4
        <4>4. p \notin {o.name : o \in Loaded}
          BY <2>8 DEF MapNew, NotLoaded, Loaded
        <4>5. p[2] = soname /\ fs[p] # Absent
          BY <2>8, ResolvesFacts DEF MapNew
        <4>6. soname \in Abstract!Needs(Loaded)
          <5>1. /\ runp \in DOMAIN runlist /\ dyn \in DOMAIN maps[runlist[runp]].file.needed
                /\ soname = maps[runlist[runp]].file.needed[dyn]
            BY <2>8 DEF MapNew, AtNeeded, Needed
          <5>2. runlist[runp] \in DOMAIN maps
            <6>1. runlist \in Seq(DOMAIN maps)
              BY DEF LoaderInv, TypeOK
            <6> QED BY <5>1, <6>1
          <5>3. maps[runlist[runp]] \in Loaded
            BY <2>1, <5>2
          <5> QED BY <5>1, <5>3 DEF Abstract!Needs
        <4>7. Abstract!Load
          BY <4>1, <4>3, <4>4, <4>5, <4>6 DEF Abstract!Load, Abstract!Names, Status, Loaded
        <4> QED BY <4>7 DEF Abstract!Next
      <3> QED BY <3>1, <3>2
    <2>9. ASSUME NEW soname \in Soname, LibraryNotFound(soname) PROVE Abstract!Next
      BY <2>3, <2>9 DEF LibraryNotFound, AtNeeded
    <2>10. ASSUME NextObject PROVE UNCHANGED <<fs, Status, Loaded>>
      BY <2>10 DEF NextObject, Status, Loaded, Elements
    <2>11. ASSUME FinishDeps PROVE Abstract!Next
      <3>1. /\ Status = "loading" /\ Status' = "closed" /\ fs' = fs /\ Loaded' = Loaded
            /\ pc' = "mapped" /\ maps' = maps /\ namespace' = namespace /\ rpath' = rpath
        BY <2>11 DEF FinishDeps, Status, Loaded, Elements
      <3>2. ASSUME NEW soname \in Abstract!Needs(Loaded) PROVE Abstract!Provided(soname)
        <4>1. PICK i \in DOMAIN maps : \E d \in DOMAIN maps[i].file.needed :
                                         soname = maps[i].file.needed[d]
          BY <2>1 DEF Abstract!Needs
        <4>2. PICK d \in DOMAIN maps[i].file.needed : soname = maps[i].file.needed[d]
          BY <4>1
        <4>3. soname \in Soname
          BY <4>2, NeededTyped DEF LoaderInv
        <4>4. Closed'
          BY <1>2
        <4>5. \E l \in Elements(namespace) : Resolves(rpath, soname, maps[l].name)
          <5>1. Elements(namespace') = DOMAIN maps
            BY <2>1, <3>1
          <5>2. PICK l \in Elements(namespace') :
                   \E n \in DOMAIN rpath' :
                      /\ maps'[l].name = <<rpath'[n], maps'[i].file.needed[d]>>
                      /\ fs'[maps'[l].name] # Absent
                      /\ \A j \in 1 .. n - 1 :
                            fs'[<<rpath'[j], maps'[i].file.needed[d]>>] = Absent
            <6>1. /\ pc' = "mapped" /\ i \in Elements(namespace')
                  /\ d \in DOMAIN maps'[i].file.needed
              BY <3>1, <4>2, <5>1
            <6> QED BY <4>4, <6>1 DEF Closed, Resolves, Elements
          <5>3. Resolves(rpath, soname, maps[l].name) /\ l \in Elements(namespace)
            BY <3>1, <4>2, <5>2 DEF Resolves
          <5> QED BY <5>3
        <4>6. PICK l \in Elements(namespace) : Resolves(rpath, soname, maps[l].name)
          BY <4>5
        <4>7. maps[l].name \in Path /\ maps[l].name[2] = soname
          BY <4>3, <4>6, ResolvesFacts
        <4>8. maps[l] \in Loaded
          BY DEF Loaded
        <4> QED BY <4>7, <4>8 DEF Abstract!Provided, Abstract!Names, Loaded
      <3>3. Abstract!Finish
        BY <3>1, <3>2 DEF Abstract!Finish, Status, Loaded
      <3> QED BY <3>3 DEF Abstract!Next
    <2>12. CASE UNCHANGED vars
      BY <2>12 DEF vars, Status, Loaded, Elements
    <2> QED BY <2>4, <2>5, <2>6, <2>7, <2>8, <2>9, <2>10, <2>11, <2>12
            DEF Next, Step, Finished
  <1> QED BY <1>1, <1>3, Invariance, PTL
          DEF Spec, Implements, Abstract!Spec, Status, Loaded

-----------------------------------------------------------------------------
(***************************************************************************)
(* Why the namespace is in breadth-first order.  The work queue is in the  *)
(* order of the namespace, but for the root, which a library may need and  *)
(* which is then worked on again, to no effect.  So the entry that is read *)
(* is behind all that have been read, or is one of them; and the objects   *)
(* behind the root have first been met in their order by the entries that  *)
(* have been read.                                                         *)
(***************************************************************************)
Done(i, d) == \E r \in DOMAIN runlist : runlist[r] = i /\ Handled(r, d)

Finds(i, d, k) ==
    /\ d \in DOMAIN maps[i].file.needed
    /\ Resolves(rpath, maps[i].file.needed[d], maps[k].name)

QueueInOrder ==
    /\ runlist # <<>> => runlist[1] = Root
    /\ \A r, s \in DOMAIN runlist :
          r < s => runlist[r] < runlist[s] \/ runlist[s] <= Root
    /\ \A i \in Root + 1 .. Len(maps) : i \in l_reserved

MetInOrder ==
    \A k \in Root + 1 .. Len(maps) :
        /\ \E i \in 1 .. k - 1, d \in Nat : Done(i, d) /\ Finds(i, d, k)
        /\ \A j \in Root + 1 .. k - 1, i \in DOMAIN maps, d \in Nat :
              Done(i, d) /\ Finds(i, d, k) =>
                  \E h \in DOMAIN maps, e \in Nat :
                      Done(h, e) /\ Finds(h, e, j) /\ Before(h, e, i, d)

OrderInv == QueueInOrder /\ MetInOrder

(* A name stands for one file. *)
LEMMA ResolvesOnce ==
    ASSUME NEW rp \in Seq(Dir), NEW soname, NEW p, NEW q,
           Resolves(rp, soname, p), Resolves(rp, soname, q)
    PROVE  p = q
  <1>1. PICK i \in DOMAIN rp : /\ p = <<rp[i], soname>> /\ fs[p] # Absent
                               /\ \A j \in 1 .. i - 1 : fs[<<rp[j], soname>>] = Absent
    BY DEF Resolves
  <1>2. PICK n \in DOMAIN rp : /\ q = <<rp[n], soname>> /\ fs[q] # Absent
                               /\ \A j \in 1 .. n - 1 : fs[<<rp[j], soname>>] = Absent
    BY DEF Resolves
  <1>3. i \in Nat \ {0} /\ n \in Nat \ {0}
    OBVIOUS
  <1>4. ~(i < n) /\ ~(n < i)
    BY <1>1, <1>2, <1>3
  <1> QED BY <1>1, <1>2, <1>3, <1>4

(* What loader_main leaves: a queue with the root alone, and nothing behind it. *)
RootOnly ==
    /\ Len(maps) \in Nat /\ Len(maps) <= Root
    /\ runlist = <<>> \/ runlist = <<Root>>

LEMMA RootAlone == RootOnly => OrderInv
  <1> SUFFICES ASSUME RootOnly PROVE OrderInv
    OBVIOUS
  <1> USE DEF RootOnly
  <1>1. Root \in 1 .. 2
    BY DEF Root
  <1>2. \A k \in Root + 1 .. Len(maps) : FALSE
    BY <1>1
  <1>3. QueueInOrder
    BY <1>2 DEF QueueInOrder
  <1> QED BY <1>2, <1>3 DEF OrderInv, MetInOrder

(* The same of the state after a step. *)
LEMMA RootAloneNext == RootOnly' => OrderInv'
  BY RootAlone, PTL

(* The entry that is being read has been read before, or is behind all that have. *)
LEMMA CurrentLast ==
    ASSUME LoaderInv, OrderInv, NEW soname, AtNeeded(soname)
    PROVE  \/ Done(runlist[runp], dyn)
           \/ \A i \in DOMAIN maps, d \in Nat : Done(i, d) => Before(i, d, runlist[runp], dyn)
  <1> DEFINE cur == runlist[runp]
  <1>1. /\ runlist \in Seq(DOMAIN maps) /\ DOMAIN runlist = 1 .. Len(runlist)
        /\ Len(runlist) \in Nat /\ DOMAIN maps = 1 .. Len(maps) /\ Len(maps) \in Nat
        /\ runp \in DOMAIN runlist /\ runp \in Nat \ {0} /\ dyn \in Nat \ {0}
        /\ cur \in DOMAIN maps /\ cur \in Nat \ {0}
        /\ dyn \in DOMAIN maps[cur].file.needed
    BY SMTT(30) DEF LoaderInv, TypeOK, AtNeeded, Needed
  <1>2. ~(cur < Root)
    <2>1. SUFFICES ASSUME cur < Root PROVE FALSE
      OBVIOUS
    <2>2. mode = "direct" /\ cur = 1
      BY <1>1, <2>1 DEF Root
    <2>3. maps[cur].file = RtldFile
      BY <2>2 DEF LoaderInv, Queued, AtNeeded
    <2> QED BY <1>1, <2>3 DEF RtldFile
  <1>3. SUFFICES ASSUME ~Done(cur, dyn), NEW i \in DOMAIN maps, NEW d \in Nat, Done(i, d)
                 PROVE  Before(i, d, cur, dyn)
    OBVIOUS
  <1>4. PICK r \in DOMAIN runlist : runlist[r] = i /\ (r < runp \/ (r = runp /\ d < dyn))
    BY <1>3 DEF Done, Handled
  <1>5. CASE r = runp
    BY <1>1, <1>4, <1>5 DEF Before
  <1>6. CASE r < runp
    <2>1. runlist[r] < cur \/ cur <= Root
      BY <1>1, <1>4, <1>6 DEF OrderInv, QueueInOrder
    <2>2. CASE cur <= Root
      <3>1. cur = Root /\ runlist # <<>>
        BY <1>1, <1>2, <2>2 DEF Root
      <3>2. runlist[1] = cur /\ 1 \in DOMAIN runlist /\ 1 < runp
        BY <1>1, <1>6, <3>1 DEF OrderInv, QueueInOrder
      <3>3. Done(cur, dyn)
        BY <3>2 DEF Done, Handled
      <3> QED BY <1>3, <3>3
    <2> QED BY <1>4, <2>1, <2>2 DEF Before
  <1> QED BY <1>1, <1>4, <1>5, <1>6

(* The entry being read joins those that have been read. *)
LEMMA DoneStep ==
    ASSUME LoaderInv, NEW soname, AtNeeded(soname),
           runp' = runp, dyn' = dyn + 1,
           \A r \in DOMAIN runlist : r \in DOMAIN runlist' /\ runlist'[r] = runlist[r],
           \A r \in DOMAIN runlist' : r > Len(runlist) \/ r \in DOMAIN runlist
    PROVE  \A i, d : d \in Nat =>
             (Done(i, d)' <=> Done(i, d) \/ (i = runlist[runp] /\ d = dyn))
  <1> SUFFICES ASSUME NEW i, NEW d \in Nat
               PROVE  Done(i, d)' <=> Done(i, d) \/ (i = runlist[runp] /\ d = dyn)
    OBVIOUS
  <1>1. runp \in DOMAIN runlist /\ runp \in Nat /\ dyn \in Nat
    BY DEF AtNeeded, LoaderInv, TypeOK
  <1>2. ASSUME Done(i, d)' PROVE Done(i, d) \/ (i = runlist[runp] /\ d = dyn)
    <2>1. PICK r \in DOMAIN runlist' : runlist'[r] = i /\ Handled(r, d)'
      BY <1>2 DEF Done
    <2>2. r \in DOMAIN runlist /\ (Handled(r, d) \/ (r = runp /\ d = dyn))
      BY <2>1, HandledStep
    <2> QED BY <2>1, <2>2 DEF Done
  <1>3. ASSUME Done(i, d) PROVE Done(i, d)'
    BY <1>1, <1>3 DEF Done, Handled
  <1>4. ASSUME i = runlist[runp], d = dyn PROVE Done(i, d)'
    BY <1>1, <1>4 DEF Done, Handled
  <1> QED BY <1>2, <1>3, <1>4

(* What has been read leads to an object of the namespace. *)
LEMMA DoneFinds ==
    ASSUME LoaderInv, NEW i \in DOMAIN maps, NEW d \in DOMAIN maps[i].file.needed, Done(i, d)
    PROVE  \E l \in DOMAIN maps : Resolves(rpath, maps[i].file.needed[d], maps[l].name)
  <1>1. PICK r \in DOMAIN runlist : runlist[r] = i /\ Handled(r, d)
    BY DEF Done
  <1>2. Needed(r) = maps[i].file.needed
    BY <1>1 DEF Needed
  <1>3. PICK l \in Elements(namespace) : Resolves(rpath, Needed(r)[d], maps[l].name)
    BY <1>1, <1>2 DEF LoaderInv, DependenciesMapped
  <1>4. l \in DOMAIN maps
    BY ElementsTyped DEF LoaderInv
  <1> QED BY <1>2, <1>3, <1>4

(* A link map is a number from 1 on. *)
LEMMA MapsCounted ==
    LoaderInv => \A i \in DOMAIN maps : i \in Nat \ {0} /\ i <= Len(maps)
  <1>1. LoaderInv => maps \in Seq(LinkMap)
    BY DEF LoaderInv, TypeOK, LinkMap, Names
  <1>2. maps \in Seq(LinkMap) => \A i \in DOMAIN maps : i \in Nat \ {0} /\ i <= Len(maps)
    OBVIOUS
  <1> QED BY <1>1, <1>2

(* The queue stays in order when an object behind all of it, or the root, is put on it. *)
LEMMA QueueStep ==
    ASSUME LoaderInv, QueueInOrder, NEW new \in Nat \ {0}, NEW n \in Nat,
           Len(maps) <= n, n <= Len(maps) + 1, new <= n,
           Reserve(new), mode' = mode, Len(maps') = n,
           runlist # <<>>,
           n = Len(maps) + 1 => new = n
    PROVE  QueueInOrder'
  <1>1. /\ runlist \in Seq(DOMAIN maps) /\ DOMAIN runlist = 1 .. Len(runlist)
        /\ Len(runlist) \in Nat /\ DOMAIN maps = 1 .. Len(maps) /\ Len(maps) \in Nat
        /\ l_reserved \subseteq DOMAIN maps
    BY DEF LoaderInv, TypeOK
  <1>2. Root' = Root /\ Root \in 1 .. 2
    BY DEF Root
  <1>3. \A i \in Root + 1 .. Len(maps) : i \in l_reserved
    BY DEF QueueInOrder
  <1>4. CASE new \in l_reserved
    <2>1. runlist' = runlist /\ l_reserved' = l_reserved
      BY <1>4 DEF Reserve
    <2>2. new \in DOMAIN maps
      BY <1>1, <1>4
    <2>3. new <= Len(maps)
      BY <2>2, MapsCounted
    <2>4. Len(maps) \in Nat
      BY <1>1
    <2>5. n = Len(maps)
      BY <2>3, <2>4
    <2> QED BY <1>2, <2>1, <2>5 DEF QueueInOrder
  <1>5. CASE new \notin l_reserved
    <2>1. runlist' = Append(runlist, new) /\ l_reserved' = l_reserved \cup {new}
      BY <1>5 DEF Reserve
    <2>2. runlist \in Seq(Nat)
      BY <1>1, SeqMonotonic
    <2>3. /\ DOMAIN runlist' = 1 .. Len(runlist) + 1
          /\ \A r \in 1 .. Len(runlist) : runlist'[r] = runlist[r]
          /\ runlist'[Len(runlist) + 1] = new
      BY <2>1, <2>2, AppendFacts
    <2>4. new <= Root \/ new > Len(maps)
      BY <1>1, <1>2, <1>3, <1>5
    <2>5. \A r \in 1 .. Len(runlist) : runlist[r] \in Nat /\ runlist[r] <= Len(maps)
      BY <1>1
    <2>6. 1 \in 1 .. Len(runlist)
      BY <1>1
    <2>7. runlist'[1] = Root'
      BY <1>2, <2>3, <2>6 DEF QueueInOrder
    <2>8. ASSUME NEW r \in DOMAIN runlist', NEW s \in DOMAIN runlist', r < s
          PROVE  runlist'[r] < runlist'[s] \/ runlist'[s] <= Root
      <3>1. r \in 1 .. Len(runlist)
        BY <1>1, <2>3, <2>8
      <3>2. CASE s = Len(runlist) + 1
        BY <1>1, <2>3, <2>4, <2>5, <3>1, <3>2
      <3>3. CASE s \in 1 .. Len(runlist)
        BY <1>1, <2>3, <2>8, <3>1, <3>3 DEF QueueInOrder
      <3> QED BY <1>1, <2>3, <3>2, <3>3
    <2>9. \A i \in Root + 1 .. n : i \in l_reserved'
      BY <1>1, <1>2, <1>3, <2>1
    <2> QED BY <1>2, <2>7, <2>8, <2>9 DEF QueueInOrder
  <1> QED BY <1>4, <1>5

(* An object of the namespace is met once more. *)
LEMMA FindLoadedOrder ==
    ASSUME LoaderInv, OrderInv, NEW soname \in Soname, NEW new \in DOMAIN maps,
           FindLoaded(soname, new)
    PROVE  OrderInv'
  <1>1. /\ AtNeeded(soname) /\ Reserve(new) /\ dyn' = dyn + 1 /\ runp' = runp
        /\ fs' = fs /\ mode' = mode /\ rpath' = rpath /\ maps' = maps
    BY DEF FindLoaded
  <1>2. /\ DOMAIN maps = 1 .. Len(maps) /\ Len(maps) \in Nat
        /\ runlist \in Seq(DOMAIN maps) /\ runlist # <<>>
        /\ dyn \in Nat /\ Root \in 1 .. 2
    BY <1>1 DEF LoaderInv, TypeOK, AtNeeded, Root
  <1>3. QueueInOrder'
    <2>1. PICK n \in Nat : n = Len(maps)
      BY <1>2
    <2>2. new \in Nat \ {0} /\ new <= Len(maps)
      BY MapsCounted
    <2>3. /\ Len(maps) <= n /\ n <= Len(maps) + 1 /\ new <= n /\ new \in Nat \ {0}
          /\ n # Len(maps) + 1 /\ Len(maps') = n
      BY <1>1, <2>1, <2>2
    <2> QED BY <1>1, <1>2, <2>3, QueueStep DEF OrderInv
  <1>4. /\ \A r \in DOMAIN runlist : r \in DOMAIN runlist' /\ runlist'[r] = runlist[r]
        /\ \A r \in DOMAIN runlist' : r > Len(runlist) \/ r \in DOMAIN runlist
    <2>1. /\ DOMAIN runlist' = 1 .. Len(runlist')
          /\ \A r \in DOMAIN runlist : r \in DOMAIN runlist' /\ runlist'[r] = runlist[r]
      BY <1>1, ReserveFacts
    <2> QED BY <1>2, <2>1
  <1>5. \A i, d : d \in Nat =>
           (Done(i, d)' <=> Done(i, d) \/ (i = runlist[runp] /\ d = dyn))
    BY <1>1, <1>4, DoneStep
  <1>6. \A i, d, k : Finds(i, d, k)' <=> Finds(i, d, k)
    BY <1>1 DEF Finds, Resolves
  <1>7. Root' = Root
    BY <1>1 DEF Root
  <1>8. ASSUME NEW k \in Root + 1 .. Len(maps)
        PROVE  \E i \in 1 .. k - 1, d \in Nat : Done(i, d) /\ Finds(i, d, k)
    BY <1>8 DEF OrderInv, MetInOrder
  <1>9. ASSUME NEW k \in Root + 1 .. Len(maps), NEW j \in Root + 1 .. k - 1,
               NEW i \in DOMAIN maps, NEW d \in Nat, Done(i, d)', Finds(i, d, k)
        PROVE  \E h \in DOMAIN maps, e \in Nat :
                   Done(h, e) /\ Finds(h, e, j) /\ Before(h, e, i, d)
    <2>1. CASE Done(i, d)
      BY <1>9, <2>1 DEF OrderInv, MetInOrder
    <2>2. CASE ~Done(i, d)
      <3>1. i = runlist[runp] /\ d = dyn
        BY <1>5, <1>9, <2>2
      <3>2. \A h \in DOMAIN maps, e \in Nat : Done(h, e) => Before(h, e, i, d)
        BY <1>1, <2>2, <3>1, CurrentLast
      <3>3. j \in Root + 1 .. Len(maps)
        BY <1>2
      <3>4. PICK h \in 1 .. j - 1, e \in Nat : Done(h, e) /\ Finds(h, e, j)
        BY <1>8, <3>3
      <3>5. h \in DOMAIN maps
        BY <1>2, <3>3
      <3> QED BY <3>2, <3>4, <3>5
    <2> QED BY <2>1, <2>2
  <1>10. MetInOrder'
    <2>1. ASSUME NEW k \in Root + 1 .. Len(maps)
          PROVE  \E i \in 1 .. k - 1, d \in Nat : Done(i, d)' /\ Finds(i, d, k)'
      BY <1>5, <1>6, <1>8
    <2>2. ASSUME NEW k \in Root + 1 .. Len(maps), NEW j \in Root + 1 .. k - 1,
                 NEW i \in DOMAIN maps, NEW d \in Nat, Done(i, d)', Finds(i, d, k)'
          PROVE  \E h \in DOMAIN maps, e \in Nat :
                     Done(h, e)' /\ Finds(h, e, j)' /\ Before(h, e, i, d)
      BY <1>5, <1>6, <1>9, <2>2
    <2> QED BY <1>1, <1>7, <2>1, <2>2 DEF MetInOrder, Before
  <1> QED BY <1>3, <1>10 DEF OrderInv

(* An object is met for the first time, and becomes the last of the namespace. *)
LEMMA MapNewOrder ==
    ASSUME LoaderInv, OrderInv, NEW soname \in Soname, NEW p \in Path, MapNew(soname, p),
           fs[p].sane
    PROVE  OrderInv'
  <1> DEFINE m == [name |-> p, file |-> fs[p]]
  <1> PICK cur, at : cur = runlist[runp] /\ at = dyn
    OBVIOUS
  <1>0. PICK new \in Nat \ {0} : new = Len(maps) + 1
    BY DEF LoaderInv, TypeOK
  <1>1. /\ AtNeeded(soname) /\ Resolves(rpath, soname, p)
        /\ \A l \in Elements(namespace) : maps[l].name # p
        /\ maps' = Append(maps, m) /\ rpath' = parse_dynamic(rpath, fs[p])
        /\ Reserve(new) /\ dyn' = dyn + 1 /\ runp' = runp /\ fs' = fs /\ mode' = mode
    BY <1>0 DEF MapNew, NotLoaded
  <1>2. fs[p] \in ObjectFile /\ m \in LinkMap
    <2>1. fs[p] # Absent
      BY <1>1 DEF Resolves
    <2> QED BY <2>1 DEF LoaderInv, TypeOK, LinkMap, Names
  <1>3. /\ maps \in Seq(LinkMap) /\ Len(maps) \in Nat /\ rpath \in Seq(Dir)
        /\ runlist \in Seq(DOMAIN maps) /\ runlist # <<>> /\ l_reserved \subseteq DOMAIN maps
        /\ at \in Nat /\ Root \in 1 .. 2 /\ cur \in DOMAIN maps
    <2>1. maps \in Seq(LinkMap) /\ Len(maps) \in Nat /\ rpath \in Seq(Dir)
      BY DEF LoaderInv, TypeOK, LinkMap, Names
    <2>2. runlist \in Seq(DOMAIN maps) /\ l_reserved \subseteq DOMAIN maps /\ at \in Nat
      BY DEF LoaderInv, TypeOK
    <2>3. runp \in DOMAIN runlist
      BY <1>1 DEF AtNeeded
    <2> QED BY <2>1, <2>2, <2>3 DEF Root
  <1>4. \A l \in DOMAIN maps : maps[l].name # p
    BY <1>1, AllLoaded
  <1>5. /\ Len(maps') = new /\ DOMAIN maps' = 1 .. new /\ maps'[new] = m
        /\ \A i \in 1 .. Len(maps) : maps'[i] = maps[i]
    BY <1>0, <1>1, <1>2, <1>3, AppendFacts
  <1>6. /\ \A i \in DOMAIN maps : /\ i \in 1 .. Len(maps) /\ i \in DOMAIN maps'
                                  /\ maps'[i] = maps[i]
        /\ \A i \in DOMAIN maps' : i \in DOMAIN maps \/ i = new
    BY <1>0, <1>3, <1>5
  <1> HIDE DEF m
  <1>7. QueueInOrder'
    <2>1. Len(maps) <= new /\ new <= Len(maps) + 1
      BY <1>0, <1>3
    <2> QED BY <1>0, <1>1, <1>3, <1>5, <2>1, QueueStep DEF OrderInv
  <1>8. /\ \A r \in DOMAIN runlist : r \in DOMAIN runlist' /\ runlist'[r] = runlist[r]
        /\ \A r \in DOMAIN runlist' : r > Len(runlist) \/ r \in DOMAIN runlist
    <2>1. DOMAIN maps \subseteq DOMAIN maps' /\ new \in DOMAIN maps'
      BY <1>5, <1>6
    <2>2. /\ DOMAIN runlist' = 1 .. Len(runlist')
          /\ \A r \in DOMAIN runlist : r \in DOMAIN runlist' /\ runlist'[r] = runlist[r]
      BY <1>1, <2>1, ReserveFacts
    <2> QED BY <1>3, <2>2
  <1>9. \A i, d : d \in Nat => (Done(i, d)' <=> Done(i, d) \/ (i = cur /\ d = at))
    BY <1>1, <1>8, DoneStep
  <1>10. at \in DOMAIN maps[cur].file.needed /\ maps[cur].file.needed[at] = soname
    BY <1>1 DEF AtNeeded, Needed
  <1>11. \A so, q : Resolves(rpath, so, q) => Resolves(rpath', so, q)
    BY <1>2, <1>1, <1>3, ParseDynamic
  <1>12. rpath' \in Seq(Dir)
    BY <1>1, <1>2, <1>3, ParseDynamic
  <1>13. \A so, q : Resolves(rpath, so, q)' <=> Resolves(rpath', so, q)
    BY <1>1 DEF Resolves
  <1>14. ~Done(cur, at)
    <2>1. SUFFICES ASSUME Done(cur, at) PROVE FALSE
      OBVIOUS
    <2>2. PICK l \in DOMAIN maps : Resolves(rpath, soname, maps[l].name)
      BY <1>3, <1>10, <2>1, DoneFinds
    <2> QED BY <1>1, <1>3, <1>4, <2>2, ResolvesOnce
  <1>15. \A i \in DOMAIN maps, d \in Nat : Done(i, d) => Before(i, d, cur, at)
    BY <1>1, <1>14, CurrentLast
  <1>16. ASSUME NEW i \in DOMAIN maps, NEW d \in Nat, NEW k \in DOMAIN maps,
                Done(i, d), Finds(i, d, k)
         PROVE  Finds(i, d, k)'
    BY <1>6, <1>11, <1>13, <1>16 DEF Finds
  <1>17. ASSUME NEW i \in DOMAIN maps, NEW d \in Nat, NEW k \in DOMAIN maps',
                Done(i, d), Finds(i, d, k)'
         PROVE  k \in DOMAIN maps /\ Finds(i, d, k)
    <2> DEFINE so == maps[i].file.needed[d]
    <2>1. d \in DOMAIN maps[i].file.needed /\ Resolves(rpath', so, maps'[k].name)
      BY <1>6, <1>13, <1>17 DEF Finds
    <2>2. PICK l \in DOMAIN maps : Resolves(rpath, so, maps[l].name)
      BY <1>17, <2>1, DoneFinds
    <2>3. Resolves(rpath', so, maps[l].name)
      BY <1>11, <2>2
    <2>4. maps'[k].name = maps[l].name
      BY <1>12, <2>1, <2>3, ResolvesOnce
    <2>5. k # new
      BY <1>4, <1>5, <2>4 DEF m
    <2>6. k \in DOMAIN maps /\ maps'[k] = maps[k]
      BY <1>6, <2>5
    <2> QED BY <2>1, <2>2, <2>4, <2>6 DEF Finds
  <1>18. ASSUME NEW k \in DOMAIN maps' PROVE Finds(cur, at, k)' <=> k = new
    <2>1. Resolves(rpath', soname, p)
      BY <1>1, <1>11
    <2>2. Finds(cur, at, k)' <=> Resolves(rpath', soname, maps'[k].name)
      BY <1>3, <1>6, <1>10, <1>13 DEF Finds
    <2>3. Resolves(rpath', soname, maps'[k].name) <=> maps'[k].name = p
      BY <1>12, <2>1, ResolvesOnce
    <2>4. maps'[k].name = p <=> k = new
      BY <1>4, <1>5, <1>6 DEF m
    <2> QED BY <2>2, <2>3, <2>4
  <1>19. Root' = Root
    BY <1>1 DEF Root
  <1>20. ASSUME NEW k \in Root + 1 .. Len(maps)
         PROVE  \E i \in 1 .. k - 1, d \in Nat : Done(i, d) /\ Finds(i, d, k)
    BY <1>20 DEF OrderInv, MetInOrder
  <1>21. \A k \in 1 .. Len(maps) : k \in DOMAIN maps
    BY <1>3
  <1>22. ASSUME NEW k \in Root + 1 .. new
         PROVE  \E i \in 1 .. k - 1, d \in Nat : Done(i, d)' /\ Finds(i, d, k)'
    <2>1. CASE k = new
      <3>1. cur \in 1 .. k - 1 /\ k \in DOMAIN maps'
        BY <1>0, <1>3, <1>5, <1>6, <2>1
      <3> QED BY <1>3, <1>9, <1>18, <2>1, <3>1
    <2>2. CASE k # new
      <3>1. k \in Root + 1 .. Len(maps) /\ k \in 1 .. Len(maps)
        BY <1>0, <1>3, <2>2
      <3>2. PICK i \in 1 .. k - 1, d \in Nat : Done(i, d) /\ Finds(i, d, k)
        BY <1>20, <3>1
      <3>3. i \in DOMAIN maps /\ k \in DOMAIN maps
        BY <1>21, <3>1
      <3> QED BY <1>9, <1>16, <3>2, <3>3
    <2> QED BY <2>1, <2>2
  <1>23. ASSUME NEW k \in Root + 1 .. new, NEW j \in Root + 1 .. k - 1,
                NEW i \in DOMAIN maps', NEW d \in Nat, Done(i, d)', Finds(i, d, k)'
         PROVE  \E h \in DOMAIN maps', e \in Nat :
                    Done(h, e)' /\ Finds(h, e, j)' /\ Before(h, e, i, d)
    <2>1. k \in DOMAIN maps' /\ j \in Root + 1 .. Len(maps) /\ j \in DOMAIN maps
      BY <1>0, <1>3, <1>5, <1>21
    <2>2. SUFFICES \E h \in DOMAIN maps, e \in Nat :
                      Done(h, e) /\ Finds(h, e, j) /\ Before(h, e, i, d)
      BY <1>6, <1>9, <1>16, <2>1
    <2>3. CASE i = cur /\ d = at
      <3>1. PICK h \in 1 .. j - 1, e \in Nat : Done(h, e) /\ Finds(h, e, j)
        BY <1>20, <2>1
      <3>2. h \in DOMAIN maps
        BY <1>21, <1>3, <2>1
      <3> QED BY <1>15, <2>3, <3>1, <3>2
    <2>4. CASE ~(i = cur /\ d = at)
      <3>1. Done(i, d)
        BY <1>9, <1>23, <2>4
      <3>2. i \in DOMAIN maps
        <4>1. PICK r \in DOMAIN runlist : runlist[r] = i
          BY <3>1 DEF Done
        <4> QED BY <1>3, <4>1
      <3>3. k \in DOMAIN maps /\ Finds(i, d, k)
        BY <1>17, <1>23, <2>1, <3>1, <3>2
      <3>4. k \in Root + 1 .. Len(maps)
        BY <1>3, <1>6, <3>3
      <3> QED BY <3>1, <3>2, <3>3, <3>4 DEF OrderInv, MetInOrder
    <2> QED BY <2>3, <2>4
  <1>24. MetInOrder'
    <2>1. Len(maps)' = new
      BY <1>5
    <2>2. ASSUME NEW k \in (Root + 1 .. Len(maps))'
          PROVE  /\ \E i \in 1 .. k - 1, d \in Nat : Done(i, d)' /\ Finds(i, d, k)'
                 /\ \A j \in (Root + 1 .. k - 1)', i \in DOMAIN maps', d \in Nat :
                       Done(i, d)' /\ Finds(i, d, k)' =>
                           \E h \in DOMAIN maps', e \in Nat :
                               Done(h, e)' /\ Finds(h, e, j)' /\ Before(h, e, i, d)'
      <3>1. k \in Root + 1 .. new
        BY <1>19, <2>1
      <3>2. \A h, e, i, d : Before(h, e, i, d)' <=> Before(h, e, i, d)
        BY DEF Before
      <3> QED BY <1>19, <1>22, <1>23, <3>1, <3>2
    <2> QED BY <2>2 DEF MetInOrder
  <1> QED BY <1>7, <1>24 DEF OrderInv

(* A step that reads no entry and changes no link map. *)
LEMMA MetSame ==
    ASSUME MetInOrder, maps' = maps, mode' = mode,
           \A i, d, k : Done(i, d)' /\ Finds(i, d, k)' <=> Done(i, d) /\ Finds(i, d, k)
    PROVE  MetInOrder'
  <1>1. Root' = Root
    BY DEF Root
  <1>2. \A h, e, i, d : Before(h, e, i, d)' <=> Before(h, e, i, d)
    BY DEF Before
  <1>3. ASSUME NEW k \in Root + 1 .. Len(maps)
        PROVE  /\ \E i \in 1 .. k - 1, d \in Nat : Done(i, d)' /\ Finds(i, d, k)'
               /\ \A j \in Root + 1 .. k - 1, i \in DOMAIN maps, d \in Nat :
                     Done(i, d)' /\ Finds(i, d, k)' =>
                         \E h \in DOMAIN maps, e \in Nat :
                             Done(h, e)' /\ Finds(h, e, j)' /\ Before(h, e, i, d)'
    <2>1. PICK i \in 1 .. k - 1, d \in Nat : Done(i, d) /\ Finds(i, d, k)
      BY DEF MetInOrder
    <2>2. ASSUME NEW j \in Root + 1 .. k - 1, NEW a \in DOMAIN maps, NEW b \in Nat,
                 Done(a, b)', Finds(a, b, k)'
          PROVE  \E h \in DOMAIN maps, e \in Nat :
                     Done(h, e)' /\ Finds(h, e, j)' /\ Before(h, e, a, b)'
      <3>1. Done(a, b) /\ Finds(a, b, k)
        BY <2>2
      <3>2. PICK h \in DOMAIN maps, e \in Nat :
               Done(h, e) /\ Finds(h, e, j) /\ Before(h, e, a, b)
        BY <3>1 DEF MetInOrder
      <3> QED BY <1>2, <3>2
    <2>3. Done(i, d)' /\ Finds(i, d, k)'
      BY <2>1
    <2> QED BY <2>2, <2>3
  <1> QED BY <1>1, <1>3 DEF MetInOrder

(* A step that moves nothing but the program counter or the search list. *)
LEMMA SameOrder ==
    ASSUME OrderInv, UNCHANGED <<fs, mode, rpath, maps, l_reserved, runlist, runp, dyn>>
    PROVE  OrderInv'
  <1>1. /\ fs' = fs /\ mode' = mode /\ rpath' = rpath /\ maps' = maps
        /\ l_reserved' = l_reserved /\ runlist' = runlist /\ runp' = runp /\ dyn' = dyn
    OBVIOUS
  <1>2. QueueInOrder'
    BY <1>1 DEF OrderInv, QueueInOrder, Root
  <1>3. MetInOrder'
    <2>1. \A i, d : Done(i, d)' <=> Done(i, d)
      BY <1>1 DEF Done, Handled
    <2>2. \A i, d, k : Finds(i, d, k)' <=> Finds(i, d, k)
      BY <1>1 DEF Finds, Resolves
    <2> QED BY <1>1, <2>1, <2>2, MetSame DEF OrderInv
  <1> QED BY <1>2, <1>3 DEF OrderInv

(* The entries of an object that has none left have all been read. *)
LEMMA NextObjectOrder ==
    ASSUME LoaderInv, OrderInv, NextObject
    PROVE  OrderInv'
  <1>1. /\ runp \in DOMAIN runlist /\ dyn \notin DOMAIN Needed(runp)
        /\ runp' = runp + 1 /\ dyn' = 1
        /\ fs' = fs /\ mode' = mode /\ rpath' = rpath /\ maps' = maps
        /\ l_reserved' = l_reserved /\ runlist' = runlist
    BY DEF NextObject
  <1>2. QueueInOrder'
    BY <1>1 DEF OrderInv, QueueInOrder, Root
  <1>3. runlist \in Seq(DOMAIN maps) /\ runp \in Nat \ {0} /\ dyn \in Nat \ {0}
    BY DEF LoaderInv, TypeOK
  <1>4. ASSUME NEW i, NEW d, d \in DOMAIN maps[i].file.needed
        PROVE  Done(i, d)' <=> Done(i, d)
    <2>1. ASSUME NEW r \in DOMAIN runlist, runlist[r] = i
          PROVE  Handled(r, d)' <=> Handled(r, d)
      <3>1. r \in Nat /\ maps[i].file.needed \in Seq(Soname) /\ Needed(r) = maps[i].file.needed
        BY <1>3, <2>1, NeededTyped DEF LoaderInv, Needed
      <3>2. d \in Nat \ {0}
        BY <1>4, <3>1
      <3>3. CASE r = runp
        <4>1. d < dyn
          BY <1>1, <1>3, <1>4, <3>1, <3>3
        <4> QED BY <1>1, <1>3, <3>3, <4>1 DEF Handled
      <3>4. CASE r # runp
        BY <1>1, <1>3, <3>1, <3>2, <3>4 DEF Handled
      <3> QED BY <3>3, <3>4
    <2> QED BY <1>1, <2>1 DEF Done
  <1>5. \A i, d, k : Finds(i, d, k)' <=> Finds(i, d, k)
    BY <1>1 DEF Finds, Resolves
  <1>6. \A i, d, k : Done(i, d)' /\ Finds(i, d, k)' <=> Done(i, d) /\ Finds(i, d, k)
    BY <1>4, <1>5 DEF Finds
  <1>7. MetInOrder'
    BY <1>1, <1>6, MetSame DEF OrderInv
  <1> QED BY <1>2, <1>7 DEF OrderInv

(* Every step keeps the objects in the order in which they have been met. *)
LEMMA OrderStep == LoaderInv /\ OrderInv /\ [Next]_vars => OrderInv'
  <1> SUFFICES ASSUME LoaderInv, OrderInv, [Next]_vars PROVE OrderInv'
    OBVIOUS
  <1>1. ASSUME Die PROVE OrderInv'
    BY <1>1, SameOrder DEF Die
  <1>2. ASSUME NEW program \in Programs, StartInterp(program) PROVE OrderInv'
    <2>1. CASE program.sane
      <3>1. Len(maps') = 1 /\ mode' = "interp" /\ runlist' = <<1>>
        BY <1>2, <2>1 DEF StartInterp, EnterDeps, Root
      <3>2. Root' = 1 /\ runlist' = <<Root'>> /\ Len(maps)' = 1
        BY <3>1 DEF Root
      <3>3. RootOnly'
        BY <3>2 DEF RootOnly
      <3> QED BY <3>3, RootAloneNext
    <2> QED BY <1>1, <1>2, <2>1 DEF StartInterp
  <1>3. ASSUME NEW argv1 \in Arguments, NEW p \in Path, StartDirect(argv1, p) PROVE OrderInv'
    <2>1. CASE fs[p].sane
      <3>1. Len(maps') = 2 /\ mode' = "direct" /\ runlist' = <<2>>
        BY <1>3, <2>1 DEF StartDirect, EnterDeps, Root
      <3>2. Root' = 2 /\ runlist' = <<Root'>> /\ Len(maps)' = 2
        BY <3>1 DEF Root
      <3>3. RootOnly'
        BY <3>2 DEF RootOnly
      <3> QED BY <3>3, RootAloneNext
    <2> QED BY <1>1, <1>3, <2>1 DEF StartDirect
  <1>4. ASSUME NEW argv1 \in Arguments, StartNotFound(argv1) PROVE OrderInv'
    BY <1>1, <1>4 DEF StartNotFound
  <1>5. ASSUME NEW soname \in Soname, NEW new \in DOMAIN maps, FindLoaded(soname, new)
        PROVE  OrderInv'
    BY <1>5, FindLoadedOrder
  <1>6. ASSUME NEW soname \in Soname, NEW p \in Path, MapNew(soname, p) PROVE OrderInv'
    <2>1. CASE fs[p].sane
      BY <1>6, <2>1, MapNewOrder
    <2> QED BY <1>1, <1>6, <2>1 DEF MapNew
  <1>7. ASSUME NEW soname \in Soname, LibraryNotFound(soname) PROVE OrderInv'
    BY <1>1, <1>7 DEF LibraryNotFound
  <1>8. CASE NextObject
    BY <1>8, NextObjectOrder
  <1>9. CASE FinishDeps
    BY <1>9, SameOrder DEF FinishDeps
  <1>10. CASE UNCHANGED vars
    BY <1>10, SameOrder DEF vars
  <1> QED BY <1>2, <1>3, <1>4, <1>5, <1>6, <1>7, <1>8, <1>9, <1>10 DEF Next, Step, Finished

(* When the work queue is done, every entry has been read. *)
LEMMA AllRead ==
    ASSUME LoaderInv, pc = "mapped", NEW i \in DOMAIN maps,
           NEW d \in DOMAIN maps[i].file.needed
    PROVE  Done(i, d) /\ d \in Nat
  <1>1. i \in Nat \ {0} /\ i <= Len(maps) /\ Len(maps) \in Nat
    BY MapsCounted DEF LoaderInv, TypeOK
  <1>2. i >= Root
    <2>1. SUFFICES ASSUME ~(i >= Root) PROVE FALSE
      OBVIOUS
    <2>2. mode = "direct" /\ i = 1
      BY <1>1, <2>1 DEF Root
    <2>3. maps[i].file = RtldFile
      BY <2>2 DEF LoaderInv, Queued
    <2> QED BY <2>3 DEF RtldFile
  <1>3. i \in Root .. Len(maps)
    BY <1>1, <1>2 DEF Root
  <1>4. PICK r \in DOMAIN runlist : runlist[r] = i
    BY <1>3 DEF LoaderInv, Queued, Elements
  <1>5. r < runp
    BY <1>4 DEF LoaderInv, TypeOK, Queued
  <1>6. maps[i].file.needed \in Seq(Soname)
    BY NeededTyped DEF LoaderInv
  <1> QED BY <1>4, <1>5, <1>6 DEF Done, Handled

(* Then the entries that have been read are all there are. *)
LEMMA OrderedAtEnd == LoaderInv /\ OrderInv => BreadthFirst
  <1> SUFFICES ASSUME LoaderInv, OrderInv, pc = "mapped" PROVE BreadthFirst
    BY DEF BreadthFirst
  <1>1. /\ Len(namespace) = Len(maps) /\ Len(maps) \in Nat
        /\ DOMAIN namespace = DOMAIN maps
        /\ \A i \in DOMAIN maps : namespace[i] = i
    BY DEF LoaderInv, TypeOK, Threaded
  <1>2. Root \in DOMAIN maps /\ Root \in 1 .. 2
    BY DEF LoaderInv, Queued, Root
  <1>3. \A i \in 1 .. Len(maps) : i \in DOMAIN maps
    BY DEF LoaderInv, TypeOK
  <1>4. \A i \in DOMAIN maps : Entries(i) = DOMAIN maps[i].file.needed
    BY <1>1 DEF Entries
  <1>5. \A i, k \in DOMAIN maps : \A d : Finds(i, d, k) <=> d \in Entries(i) /\ Meets(i, d, k)
    BY <1>1, <1>4 DEF Finds, Meets
  <1>6. \A i \in DOMAIN maps : \A d \in Entries(i) : Done(i, d) /\ d \in Nat
    BY <1>4, AllRead
  <1>7. ASSUME NEW k \in Root + 1 .. Len(namespace)
        PROVE  \E i \in 1 .. k - 1 : \E d \in Entries(i) : Meets(i, d, k)
    <2>1. k \in Root + 1 .. Len(maps) /\ k \in DOMAIN maps /\ \A i \in 1 .. k - 1 : i \in DOMAIN maps
      BY <1>1, <1>2, <1>3
    <2>2. PICK i \in 1 .. k - 1, d \in Nat : Done(i, d) /\ Finds(i, d, k)
      BY <2>1 DEF OrderInv, MetInOrder
    <2> QED BY <1>5, <2>1, <2>2
  <1>8. ASSUME NEW k \in Root + 1 .. Len(namespace), NEW j \in Root + 1 .. k - 1,
               NEW i \in DOMAIN namespace, NEW d \in Entries(i), Meets(i, d, k)
        PROVE  \E h \in 1 .. i : \E e \in Entries(h) : Meets(h, e, j) /\ Before(h, e, i, d)
    <2>1. /\ k \in Root + 1 .. Len(maps) /\ k \in DOMAIN maps /\ j \in DOMAIN maps
          /\ i \in DOMAIN maps
      BY <1>1, <1>2, <1>3
    <2>2. Done(i, d) /\ d \in Nat /\ Finds(i, d, k)
      BY <1>5, <1>6, <1>8, <2>1
    <2>3. PICK h \in DOMAIN maps, e \in Nat :
             Done(h, e) /\ Finds(h, e, j) /\ Before(h, e, i, d)
      BY <2>1, <2>2 DEF OrderInv, MetInOrder
    <2>4. h \in 1 .. i
      BY <2>1, <2>3, MapsCounted DEF Before
    <2> QED BY <1>5, <2>1, <2>3, <2>4
  <1> QED BY <1>1, <1>2, <1>7, <1>8 DEF BreadthFirst

(***************************************************************************)
(* For every dependency graph, with its cycles and repeated entries, and   *)
(* although GL(rpath) grows on the way, the namespace map_object_deps      *)
(* leaves is in breadth-first order from the root.                         *)
(***************************************************************************)
THEOREM NamespaceInOrder == Spec => []BreadthFirst
  <1>1. Init => OrderInv
    <2>1. Init => RootOnly
      BY DEF Init, Root, RootOnly
    <2> QED BY <2>1, RootAlone
  <1>2. Spec => []OrderInv
    BY <1>1, OrderStep, Invariance, PTL DEF Spec
  <1> QED BY <1>2, OrderedAtEnd, Invariance, PTL

-----------------------------------------------------------------------------
(***************************************************************************)
(* Format.  The buffer b, with the next argument a, holds the pieces of    *)
(* the format before i, as far as there is room.                           *)
(***************************************************************************)
Written(c, b, a, i) ==
    /\ i \in 1 .. Len(c.format) + 1
    /\ a = Cardinality(Directives(c, i)) + 1
    /\ b \in Seq(Int)
    /\ Len(b) = IF Start(c, i) < c.buffer_size - 1 THEN Start(c, i) ELSE c.buffer_size - 1
    /\ \A k \in 1 .. i - 1 : \A j \in DOMAIN Piece(c, k) :
          /\ Start(c, k) + j <= Start(c, i)
          /\ Start(c, k) + j <= c.buffer_size - 1 => b[Start(c, k) + j] = Piece(c, k)[j]

(* The character at i is not the letter of a directive. *)
InText(c, i) == i > 1 => c.format[i - 1] # Percent

FormatInv ==
    /\ call \in Calls
    /\ reading \in {"text", "directive", "done", "overrun"}
    /\ (reading = "text" /\ OnlyStrings(call)) =>
          InText(call, fmt) /\ Written(call, buffer, arg, fmt)
    /\ (reading = "directive" /\ OnlyStrings(call)) =>
          /\ fmt \in Nat
          /\ fmt - 1 \in DOMAIN call.format /\ call.format[fmt - 1] = Percent
          /\ InText(call, fmt - 1) /\ Written(call, buffer, arg, fmt - 1)
          /\ spec = Plain
    /\ (reading = "done" /\ OnlyStrings(call)) => Written(call, buffer, arg, Len(call.format) + 1)

-----------------------------------------------------------------------------
(* What is assumed of a call. *)
LEMMA FormatCallFacts ==
    ASSUME NEW c \in Calls
    PROVE  /\ c.format \in Seq(1 .. 127) /\ Len(c.format) \in Nat
           /\ DOMAIN c.format = 1 .. Len(c.format)
           /\ \A i \in DOMAIN c.format : c.format[i] \in 1 .. 127
           /\ c.args \in Seq([number : Int, str : Seq(1 .. 127)]) /\ Len(c.args) \in Nat
           /\ \A i \in 1 .. Len(c.args) : c.args[i].number \in Int /\ c.args[i].str \in Seq(1 .. 127)
           /\ c.buffer_size \in Nat \ {0} /\ c.buffer_size - 1 \in Nat
  <1>1. IsCall(c)
    BY FormatAssumption
  <1>2. c.format \in Seq(1 .. 127) /\ c.args \in Seq([number : Int, str : Seq(1 .. 127)])
        /\ c.buffer_size \in Nat \ {0}
    BY <1>1 DEF IsCall
  <1>3. Len(c.format) \in Nat /\ DOMAIN c.format = 1 .. Len(c.format) /\ Len(c.args) \in Nat
        /\ \A i \in DOMAIN c.format : c.format[i] \in 1 .. 127
    <2>1. Len(c.format) \in Nat /\ DOMAIN c.format = 1 .. Len(c.format) /\ Len(c.args) \in Nat
      BY <1>2, LenProperties
    <2>2. \A i \in 1 .. Len(c.format) : c.format[i] \in 1 .. 127
      BY <1>2, ElementOfSeq
    <2> QED BY <2>1, <2>2
  <1>4. \A i \in 1 .. Len(c.args) : c.args[i] \in [number : Int, str : Seq(1 .. 127)]
    BY <1>2, ElementOfSeq
  <1>5. \A i \in 1 .. Len(c.args) : c.args[i].number \in Int /\ c.args[i].str \in Seq(1 .. 127)
    BY <1>4
  <1>6. c.buffer_size - 1 \in Nat
    BY <1>2
  <1> QED BY <1>2, <1>3, <1>5, <1>6

(* One directive more is behind a %, none behind another character. *)
LEMMA DirectivesCounted ==
    ASSUME NEW c \in Calls, NEW i \in DOMAIN c.format
    PROVE  /\ Cardinality(Directives(c, 1)) = 0
           /\ Cardinality(Directives(c, i)) \in Nat
           /\ Cardinality(Directives(c, i + 1)) =
                 Cardinality(Directives(c, i)) + (IF c.format[i] = Percent THEN 1 ELSE 0)
  <1>1. i \in Nat \ {0} /\ i <= Len(c.format) /\ Len(c.format) \in Nat
    BY FormatCallFacts
  <1>2. Directives(c, 1) = {}
    BY DEF Directives
  <1>3. IsFiniteSet(Directives(c, i)) /\ Cardinality(Directives(c, i)) \in Nat
    <2>1. IsFiniteSet(1 .. i - 1)
      BY <1>1, FS_Interval
    <2>2. Directives(c, i) \in SUBSET (1 .. i - 1)
      BY DEF Directives
    <2>3. IsFiniteSet(Directives(c, i))
      BY <2>1, <2>2, FS_Subset
    <2> QED BY <2>3, FS_CardinalityType
  <1>4. i \notin Directives(c, i)
    BY <1>1 DEF Directives
  <1>5. CASE c.format[i] = Percent
    <2>1. Directives(c, i + 1) = Directives(c, i) \cup {i}
      BY <1>1, <1>5 DEF Directives
    <2>2. Cardinality(Directives(c, i) \cup {i}) = Cardinality(Directives(c, i)) + 1
      BY <1>3, <1>4, FS_AddElement
    <2> QED BY <1>2, <1>3, <1>5, <2>1, <2>2, FS_EmptySet
  <1>6. CASE c.format[i] # Percent
    <2>1. Directives(c, i + 1) = Directives(c, i)
      BY <1>1, <1>6 DEF Directives
    <2> QED BY <1>2, <1>3, <1>6, <2>1, FS_EmptySet
  <1> QED BY <1>5, <1>6

(* The pieces are sequences of characters. *)
LEMMA PieceFacts ==
    ASSUME NEW c \in Calls, OnlyStrings(c), NEW i \in DOMAIN c.format
    PROVE  /\ Piece(c, i) \in Seq(Int) /\ Len(Piece(c, i)) \in Nat
           /\ DOMAIN Piece(c, i) = 1 .. Len(Piece(c, i))
  <1>1. Piece(c, i) \in Seq(Int)
    <2>1. CASE i > 1 /\ c.format[i - 1] = Percent
      BY <2>1 DEF Piece
    <2>2. CASE ~(i > 1 /\ c.format[i - 1] = Percent) /\ c.format[i] # Percent
      <3>1. c.format[i] \in 1 .. 127
        BY FormatCallFacts
      <3>2. Piece(c, i) = <<c.format[i]>>
        BY <2>2 DEF Piece
      <3> QED BY <3>1, <3>2
    <2>3. CASE ~(i > 1 /\ c.format[i - 1] = Percent) /\ c.format[i] = Percent
      <3>1. Cardinality(Directives(c, i)) + 1 \in 1 .. Len(c.args)
        BY <2>3, DirectivesCounted, FormatCallFacts DEF OnlyStrings
      <3>2. Operand(c, i).number \in Int /\ Operand(c, i).str \in Seq(1 .. 127)
        BY <3>1, FormatCallFacts DEF Operand
      <3>3. Operand(c, i).number % 256 \in Int /\ Operand(c, i).str \in Seq(Int)
        <4> DEFINE n == Operand(c, i).number
                   s == Operand(c, i).str
        <4> HIDE DEF n, s
        <4>1. n \in Int /\ s \in Seq(1 .. 127)
          BY <3>2 DEF n, s
        <4>2. n % 256 \in Int
          BY <4>1
        <4>3. 1 .. 127 \subseteq Int
          OBVIOUS
        <4>4. s \in Seq(Int)
          BY <4>1, <4>3, SeqMonotonic
        <4> QED BY <4>2, <4>4 DEF n, s
      <3>4. \/ Piece(c, i) = <<Operand(c, i).number % 256>>
            \/ Piece(c, i) = NullString
            \/ Piece(c, i) = Operand(c, i).str
        BY <2>3 DEF Piece
      <3>5. NullString \in Seq(Int)
        BY DEF NullString
      <3>6. <<Operand(c, i).number % 256>> \in Seq(Int)
        BY <3>3
      <3> QED BY <3>3, <3>4, <3>5, <3>6
    <2> QED BY <2>1, <2>2, <2>3
  <1> QED BY <1>1

(* A piece begins where the one before it ends. *)
LEMMA StartFacts ==
    ASSUME NEW c \in Calls, OnlyStrings(c), NEW i \in DOMAIN c.format
    PROVE  /\ Start(c, 1) = 0
           /\ Start(c, i) \in Nat
           /\ Start(c, i + 1) = Start(c, i) + Len(Piece(c, i))
  <1> DEFINE P(n) == {Places(c, k) : k \in 1 .. n - 1}
  <1>1. i \in Nat \ {0} /\ i <= Len(c.format) /\ Len(c.format) \in Nat
        /\ DOMAIN c.format = 1 .. Len(c.format)
    BY FormatCallFacts
  <1>2. \A k \in 1 .. Len(c.format) :
           /\ IsFiniteSet(Places(c, k))
           /\ Cardinality(Places(c, k)) = Len(Piece(c, k))
    <2> TAKE k \in 1 .. Len(c.format)
    <2>1. DOMAIN Piece(c, k) = 1 .. Len(Piece(c, k)) /\ Len(Piece(c, k)) \in Nat
      BY <1>1, PieceFacts
    <2>2. IsFiniteSet(1 .. Len(Piece(c, k))) /\ Cardinality(1 .. Len(Piece(c, k))) = Len(Piece(c, k))
      <3> DEFINE n == Len(Piece(c, k))
      <3> HIDE DEF n
      <3>1. n \in Nat
        BY <2>1 DEF n
      <3>2. IsFiniteSet(1 .. n) /\ Cardinality(1 .. n) = IF 1 > n THEN 0 ELSE n - 1 + 1
        BY <3>1, FS_Interval
      <3>3. IsFiniteSet(1 .. n) /\ Cardinality(1 .. n) = n
        BY <3>1, <3>2
      <3> QED BY <3>3 DEF n
    <2>3. IsFiniteSet({k}) /\ Cardinality({k}) = 1
      BY FS_Singleton
    <2>4. Places(c, k) = {k} \X (1 .. Len(Piece(c, k)))
      BY <2>1 DEF Places
    <2>5. /\ IsFiniteSet(Places(c, k))
          /\ Cardinality(Places(c, k)) = Cardinality({k}) * Cardinality(1 .. Len(Piece(c, k)))
      BY <2>2, <2>3, <2>4, FS_Product
    <2> QED BY <2>1, <2>2, <2>3, <2>5
  <1>3. IsFiniteSet(P(i))
    <2> DEFINE f == [k \in 1 .. i - 1 |-> Places(c, k)]
    <2>1. IsFiniteSet(1 .. i - 1)
      BY <1>1, FS_Interval
    <2>2. f \in [1 .. i - 1 -> P(i)]
      OBVIOUS
    <2>3. \A s \in P(i) : \E k \in 1 .. i - 1 : f[k] = s
      OBVIOUS
    <2>4. f \in Surjection(1 .. i - 1, P(i))
      BY <2>2, <2>3 DEF Surjection
    <2> HIDE DEF f, P
    <2> QED BY <2>1, <2>4, FS_Surjection
  <1>4. IsFiniteSet(UNION P(i))
    <2>1. \A s \in P(i) : IsFiniteSet(s)
      BY <1>1, <1>2
    <2> HIDE DEF P
    <2> QED BY <1>3, <2>1, FS_UNION
  <1>5. UNION P(i + 1) = (UNION P(i)) \cup Places(c, i)
    <2>1. 1 .. (i + 1) - 1 = (1 .. i - 1) \cup {i}
      BY <1>1
    <2> QED BY <2>1
  <1>6. (UNION P(i)) \cap Places(c, i) = {}
    <2>1. \A s \in P(i) : \A x \in s : x[1] \in 1 .. i - 1
      BY DEF Places
    <2>2. \A x \in Places(c, i) : x[1] = i
      BY DEF Places
    <2>3. i \notin 1 .. i - 1
      BY <1>1
    <2> HIDE DEF P
    <2> QED BY <2>1, <2>2, <2>3
  <1>7. Cardinality(UNION P(i + 1)) = Cardinality(UNION P(i)) + Cardinality(Places(c, i))
    <2> HIDE DEF P
    <2>1. IsFiniteSet(Places(c, i)) /\ Cardinality(Places(c, i)) \in Nat
      BY <1>1, <1>2, FS_CardinalityType
    <2>2. Cardinality(UNION P(i)) \in Nat
      BY <1>4, FS_CardinalityType
    <2>3. Cardinality((UNION P(i)) \cup Places(c, i)) =
             Cardinality(UNION P(i)) + Cardinality(Places(c, i))
                - Cardinality((UNION P(i)) \cap Places(c, i))
      BY <1>4, <2>1, FS_Union
    <2>4. Cardinality((UNION P(i)) \cap Places(c, i)) = 0
      BY <1>6, FS_EmptySet
    <2> DEFINE x == Cardinality(UNION P(i))
               y == Cardinality(Places(c, i))
               z == Cardinality((UNION P(i)) \cap Places(c, i))
               w == Cardinality((UNION P(i)) \cup Places(c, i))
    <2> HIDE DEF x, y, z, w
    <2>5. x \in Nat /\ y \in Nat /\ w = x + y - z /\ z = 0
      BY <2>1, <2>2, <2>3, <2>4 DEF x, y, z, w
    <2>6. w = x + y
      BY <2>5
    <2> QED BY <1>5, <2>6 DEF x, y, w
  <1>8. UNION P(1) = {}
    OBVIOUS
  <1>9. Start(c, 1) = Cardinality(UNION P(1)) /\ Start(c, i) = Cardinality(UNION P(i))
        /\ Start(c, i + 1) = Cardinality(UNION P(i + 1))
    BY DEF Start
  <1> HIDE DEF P
  <1>10. Cardinality(UNION P(i)) \in Nat
    BY <1>4, FS_CardinalityType
  <1> QED BY <1>1, <1>2, <1>7, <1>8, <1>9, <1>10, FS_EmptySet

(* What fits of characters is put behind what is there. *)
LEMMA RoomFacts ==
    ASSUME call.buffer_size - 1 \in Nat, buffer \in Seq(Int), NEW chars \in Seq(Int),
           NEW n \in Nat,
           Len(buffer) = IF n < call.buffer_size - 1 THEN n ELSE call.buffer_size - 1
    PROVE  LET last == call.buffer_size - 1
               put  == buffer \o Room(chars)
           IN  /\ put \in Seq(Int)
               /\ Len(put) = IF n + Len(chars) < last THEN n + Len(chars) ELSE last
               /\ \A x \in 1 .. Len(buffer) : put[x] = buffer[x]
               /\ \A j \in 1 .. Len(chars) : n + j <= last => put[n + j] = chars[j]
  <1> DEFINE last == call.buffer_size - 1
             m == IF Len(buffer) + Len(chars) > last THEN last - Len(buffer) ELSE Len(chars)
             more == SubSeq(chars, 1, m)
             put == buffer \o more
  <1>1. Room(chars) = more
    BY DEF Room
  <1>2. last \in Nat /\ Len(buffer) \in Nat /\ Len(chars) \in Nat
        /\ Len(buffer) = IF n < last THEN n ELSE last
    BY LenProperties
  <1> HIDE DEF last
  <1>3. m \in Nat /\ m <= Len(chars)
        /\ Len(buffer) + m = IF n + Len(chars) < last THEN n + Len(chars) ELSE last
    <2> DEFINE lb == Len(buffer)
               lc == Len(chars)
    <2>1. /\ last \in Nat /\ lb \in Nat /\ lc \in Nat
          /\ lb = (IF n < last THEN n ELSE last)
          /\ m = (IF lb + lc > last THEN last - lb ELSE lc)
      BY <1>2
    <2> HIDE DEF lb, lc, m
    <2>2. m \in Nat /\ m <= lc /\ lb + m = IF n + lc < last THEN n + lc ELSE last
      BY <2>1
    <2> QED BY <2>2 DEF lb, lc
  <1> HIDE DEF m
  <1>4. \A x \in 1 .. m : chars[x] \in Int
    BY <1>2, <1>3, ElementOfSeq
  <1>5. more \in Seq(Int) /\ Len(more) = m /\ \A x \in 1 .. m : more[x] = chars[x]
    <2>1. /\ more \in Seq(Int)
          /\ Len(more) = IF 1 <= m THEN m - 1 + 1 ELSE 0
          /\ \A x \in 1 .. m - 1 + 1 : more[x] = chars[1 + x - 1]
      BY <1>3, <1>4, SubSeqProperties
    <2> QED BY <1>3, <2>1
  <1> HIDE DEF more
  <1>6. /\ put \in Seq(Int) /\ Len(put) = Len(buffer) + m
        /\ \A x \in 1 .. Len(buffer) + m :
              put[x] = IF x <= Len(buffer) THEN buffer[x] ELSE more[x - Len(buffer)]
    BY <1>5, ConcatProperties
  <1> HIDE DEF put
  <1>7. \A x \in 1 .. Len(buffer) : put[x] = buffer[x]
    <2> DEFINE lb == Len(buffer)
    <2>1. lb \in Nat /\ m \in Nat
      BY <1>2, <1>3
    <2>2. \A x \in 1 .. lb + m : put[x] = IF x <= lb THEN buffer[x] ELSE more[x - lb]
      BY <1>6
    <2> HIDE DEF lb
    <2>3. \A x \in 1 .. lb : x \in 1 .. lb + m /\ x <= lb
      BY <2>1
    <2>4. \A x \in 1 .. lb : put[x] = buffer[x]
      BY <2>2, <2>3
    <2> QED BY <2>4 DEF lb
  <1>8. ASSUME NEW j \in 1 .. Len(chars), n + j <= last
        PROVE  put[n + j] = chars[j]
    <2> DEFINE lb == Len(buffer)
               lc == Len(chars)
    <2>1. /\ last \in Nat /\ lb \in Nat /\ lc \in Nat /\ m \in Nat /\ j \in 1 .. lc /\ n + j <= last
          /\ lb = (IF n < last THEN n ELSE last)
          /\ lb + m = IF n + lc < last THEN n + lc ELSE last
      BY <1>2, <1>3, <1>8
    <2>2. \A x \in 1 .. lb + m : put[x] = IF x <= lb THEN buffer[x] ELSE more[x - lb]
      BY <1>6
    <2> HIDE DEF lb, lc
    <2>3. /\ lb = n /\ j \in 1 .. m
          /\ n + j \in 1 .. lb + m /\ ~(n + j <= lb) /\ n + j - lb = j
      BY <2>1
    <2>4. put[n + j] = more[n + j - lb]
      BY <2>2, <2>3
    <2>5. put[n + j] = more[j]
      BY <2>3, <2>4
    <2> QED BY <1>5, <2>3, <2>5
  <1>9. /\ put \in Seq(Int)
        /\ Len(put) = IF n + Len(chars) < last THEN n + Len(chars) ELSE last
    BY <1>3, <1>6
  <1> QED BY <1>1, <1>7, <1>8, <1>9 DEF last, put

(* A step that puts the piece at i, with its argument used up. *)
LEMMA PieceWritten ==
    ASSUME call \in Calls, OnlyStrings(call), NEW i \in DOMAIN call.format,
           Written(call, buffer, arg, i),
           NEW b, b = buffer \o Room(Piece(call, i)),
           NEW a, a = arg + (IF call.format[i] = Percent THEN 1 ELSE 0)
    PROVE  Written(call, b, a, i + 1)
  <1> DEFINE c == call
             last == c.buffer_size - 1
  <1>1. i \in Nat \ {0} /\ i <= Len(c.format) /\ Len(c.format) \in Nat /\ last \in Nat
        /\ DOMAIN c.format = 1 .. Len(c.format)
    BY FormatCallFacts
  <1>2. /\ Start(c, i) \in Nat
        /\ Start(c, i + 1) = Start(c, i) + Len(Piece(c, i))
    BY StartFacts
  <1>3. Piece(c, i) \in Seq(Int) /\ Len(Piece(c, i)) \in Nat
        /\ DOMAIN Piece(c, i) = 1 .. Len(Piece(c, i))
    BY PieceFacts
  <1>4. /\ buffer \in Seq(Int)
        /\ Len(buffer) = IF Start(c, i) < last THEN Start(c, i) ELSE last
    BY DEF Written
  <1>5. /\ b \in Seq(Int)
        /\ Len(b) = IF Start(c, i + 1) < last THEN Start(c, i + 1) ELSE last
        /\ \A x \in 1 .. Len(buffer) : b[x] = buffer[x]
        /\ \A j \in 1 .. Len(Piece(c, i)) :
              Start(c, i) + j <= last => b[Start(c, i) + j] = Piece(c, i)[j]
    BY <1>1, <1>2, <1>3, <1>4, RoomFacts
  <1>8. i + 1 \in 1 .. Len(c.format) + 1
    BY <1>1
  <1>6. a = Cardinality(Directives(c, i + 1)) + 1
    <2>1. arg = Cardinality(Directives(c, i)) + 1
      BY DEF Written
    <2> QED BY <2>1, DirectivesCounted
  <1>7. ASSUME NEW k \in 1 .. (i + 1) - 1, NEW j \in DOMAIN Piece(c, k)
        PROVE  /\ Start(c, k) + j <= Start(c, i + 1)
               /\ Start(c, k) + j <= last => b[Start(c, k) + j] = Piece(c, k)[j]
    <2>1. CASE k = i
      <3>1. j \in 1 .. Len(Piece(c, i))
        BY <1>3, <2>1
      <3>2. Start(c, i) + j <= Start(c, i + 1)
        BY <1>2, <1>3, <3>1
      <3> QED BY <1>5, <2>1, <3>1, <3>2
    <2>2. CASE k # i
      <3>1. k \in 1 .. i - 1 /\ k \in DOMAIN c.format
        BY <1>1, <2>2
      <3>2. Start(c, k) \in Nat /\ j \in Nat \ {0}
        <4>1. Start(c, k) \in Nat
          BY <3>1, StartFacts
        <4>2. DOMAIN Piece(c, k) = 1 .. Len(Piece(c, k)) /\ Len(Piece(c, k)) \in Nat
          BY <3>1, PieceFacts
        <4> QED BY <4>1, <4>2
      <3>3. /\ Start(c, k) + j <= Start(c, i)
            /\ Start(c, k) + j <= last => buffer[Start(c, k) + j] = Piece(c, k)[j]
        BY <3>1 DEF Written
      <3> DEFINE here == Start(c, k) + j
                 room == last
                 len == Len(buffer)
                 at == Start(c, i)
      <3>4. here \in Nat \ {0} /\ room \in Nat /\ at \in Nat /\ here <= at
            /\ len = (IF at < room THEN at ELSE room)
        BY <1>1, <1>2, <1>4, <3>2, <3>3
      <3>5. here <= Start(c, i + 1)
        BY <1>2, <1>3, <3>4
      <3>6. (here <= room) => here \in 1 .. len
        <4> HIDE DEF here, room, len, at
        <4> QED BY <3>4
      <3> QED BY <1>5, <3>3, <3>5, <3>6
    <2> QED BY <2>1, <2>2
  <1> QED BY <1>5, <1>8, <1>6, <1>7 DEF Written

(* The letter of a directive puts nothing more. *)
LEMMA LetterPassed ==
    ASSUME NEW c \in Calls, OnlyStrings(c), NEW b, NEW a, NEW i \in DOMAIN c.format,
           Written(c, b, a, i), i > 1, c.format[i - 1] = Percent, c.format[i] # Percent
    PROVE  Written(c, b, a, i + 1)
  <1>1. i \in Nat \ {0} /\ i <= Len(c.format) /\ Len(c.format) \in Nat
        /\ DOMAIN c.format = 1 .. Len(c.format)
    BY FormatCallFacts
  <1>2. Piece(c, i) = <<>>
    BY DEF Piece
  <1>3. Start(c, i + 1) = Start(c, i)
    BY <1>2, StartFacts
  <1>4. Cardinality(Directives(c, i + 1)) = Cardinality(Directives(c, i))
    BY DirectivesCounted
  <1>5. \A k \in 1 .. (i + 1) - 1 : k \in 1 .. i - 1 \/ k = i
    BY <1>1
  <1>6. DOMAIN Piece(c, i) = {}
    BY <1>2
  <1> QED BY <1>1, <1>3, <1>4, <1>5, <1>6 DEF Written

LEMMA FormatInitOK == FormatInit => FormatInv
  <1> SUFFICES ASSUME FormatInit PROVE FormatInv
    OBVIOUS
  <1>1. call \in Calls /\ reading = "text" /\ fmt = 1 /\ arg = 1 /\ buffer = <<>>
    BY DEF FormatInit
  <1>2. ASSUME OnlyStrings(call)
        PROVE  Written(call, buffer, arg, 1)
    <2>1. Len(call.format) \in Nat /\ call.buffer_size - 1 \in Nat
      BY <1>1, FormatCallFacts
    <2>2. Directives(call, 1) = {}
      BY DEF Directives
    <2>3. UNION {Places(call, k) : k \in 1 .. 1 - 1} = {}
      OBVIOUS
    <2>4. Start(call, 1) = 0 /\ Cardinality(Directives(call, 1)) = 0
      BY <2>2, <2>3, FS_EmptySet DEF Start
    <2>5. buffer \in Seq(Int) /\ Len(buffer) = 0
      BY <1>1
    <2>6. 1 .. 1 - 1 = {}
      OBVIOUS
    <2>7. 1 \in 1 .. Len(call.format) + 1
      BY <2>1
    <2>8. Len(buffer) = IF Start(call, 1) < call.buffer_size - 1
                        THEN Start(call, 1) ELSE call.buffer_size - 1
      <3> DEFINE last == call.buffer_size - 1
      <3>1. last \in Nat
        BY <2>1
      <3> HIDE DEF last
      <3>2. Len(buffer) = IF Start(call, 1) < last THEN Start(call, 1) ELSE last
        BY <2>4, <2>5, <3>1
      <3> QED BY <3>2 DEF last
    <2>9. arg = Cardinality(Directives(call, 1)) + 1
      BY <1>1, <2>4
    <2> QED BY <2>5, <2>6, <2>7, <2>8, <2>9 DEF Written
  <1> QED BY <1>1, <1>2 DEF FormatInv, InText

(* A directive for a string or a character, completely. *)
LEMMA DirectiveWritten ==
    ASSUME FormatInv, OnlyStrings(call), reading = "directive",
           buffer' = buffer \o Room(Piece(call, fmt - 1)),
           arg' = arg + 1, fmt' = fmt + 1, call' = call, reading' = "text"
    PROVE  FormatInv'
  <1> DEFINE i == fmt - 1
  <1>1. /\ call \in Calls /\ i \in DOMAIN call.format /\ call.format[i] = Percent
        /\ Written(call, buffer, arg, i)
    BY DEF FormatInv
  <1>2. /\ DOMAIN call.format = 1 .. Len(call.format) /\ Len(call.format) \in Nat
    BY <1>1, FormatCallFacts
  <1>3. i \in Nat \ {0} /\ i < Len(call.format) /\ call.format[i + 1] \in {Letter_s, Letter_c}
    BY <1>1, <1>2 DEF OnlyStrings
  <1>4. Written(call, buffer', arg', i + 1)
    <2>1. arg' = arg + (IF call.format[i] = Percent THEN 1 ELSE 0)
      BY <1>1
    <2> HIDE DEF i
    <2> QED BY <1>1, <2>1, PieceWritten DEF i
  <1>5. i + 1 \in DOMAIN call.format /\ i + 1 > 1 /\ (i + 1) - 1 = i /\ call.format[i + 1] # Percent
    <2> HIDE DEF i
    <2>1. i + 1 \in 1 .. Len(call.format) /\ i + 1 > 1 /\ (i + 1) - 1 = i
      BY <1>2, <1>3
    <2>2. call.format[i + 1] # Percent
      BY <1>3 DEF Letter_s, Letter_c, Percent
    <2> QED BY <1>2, <2>1, <2>2
  <1>6. Written(call, buffer', arg', (i + 1) + 1)
    BY <1>1, <1>4, <1>5, LetterPassed
  <1>7. fmt' = (i + 1) + 1 /\ fmt' - 1 = i + 1
    <2>1. fmt \in Nat
      BY DEF FormatInv
    <2> QED BY <2>1, <1>3
  <1>8. InText(call, fmt')
    BY <1>5, <1>7 DEF InText
  <1> QED BY <1>1, <1>6, <1>7, <1>8 DEF FormatInv

(* Within the format, the character is one of the format. *)
LEMMA CharInFormat ==
    ASSUME fmt <= Len(call.format)
    PROVE  Char = call.format[fmt]
  BY DEF Char, CharAt

(* Where a format has only directives for strings and characters, no other is met. *)
LEMMA LetterMet ==
    ASSUME FormatInv, OnlyStrings(call), reading = "directive"
    PROVE  Char \in {Letter_s, Letter_c} /\ spec = Plain
  <1>1. /\ call \in Calls /\ fmt - 1 \in DOMAIN call.format /\ call.format[fmt - 1] = Percent
        /\ spec = Plain
    BY DEF FormatInv
  <1>2. fmt - 1 < Len(call.format) /\ call.format[(fmt - 1) + 1] \in {Letter_s, Letter_c}
    BY <1>1 DEF OnlyStrings
  <1>3. (fmt - 1) + 1 = fmt /\ fmt <= Len(call.format)
    <2>1. fmt \in Nat /\ Len(call.format) \in Nat
      BY <1>1, FormatCallFacts DEF FormatInv
    <2> QED BY <1>2, <2>1
  <1> QED BY <1>1, <1>2, <1>3, CharInFormat

(* The piece of the directive that is being converted. *)
LEMMA PieceAtPercent ==
    ASSUME FormatInv, OnlyStrings(call), reading = "directive"
    PROVE  /\ Char = Letter_c => Piece(call, fmt - 1) = <<Arg.number % 256>>
           /\ Char # Letter_c => /\ Piece(call, fmt - 1) = IF Arg.number = 0 THEN NullString ELSE Arg.str
                                 /\ Piece(call, fmt - 1) \in Seq(Int)
  <1> DEFINE i == fmt - 1
  <1>1. /\ call \in Calls /\ i \in DOMAIN call.format /\ call.format[i] = Percent
        /\ InText(call, i) /\ Written(call, buffer, arg, i)
    BY DEF FormatInv
  <1>2. i + 1 = fmt /\ fmt <= Len(call.format)
    <2>1. fmt \in Nat /\ Len(call.format) \in Nat
      BY <1>1, FormatCallFacts DEF FormatInv
    <2>2. i < Len(call.format)
      BY <1>1 DEF OnlyStrings
    <2> QED BY <2>1, <2>2
  <1>3. Operand(call, i) = Arg
    BY <1>1 DEF Written, Operand, Arg
  <1>4. Piece(call, i) \in Seq(Int)
    BY <1>1, PieceFacts
  <1> HIDE DEF i
  <1>5. Piece(call, i) = IF call.format[i + 1] = Letter_c THEN <<Arg.number % 256>>
                         ELSE IF Arg.number = 0 THEN NullString ELSE Arg.str
    BY <1>1, <1>3 DEF Piece, InText
  <1>6. call.format[i + 1] = Char
    BY <1>2, CharInFormat
  <1>7. i = fmt - 1
    BY DEF i
  <1> QED BY <1>4, <1>5, <1>6, <1>7

LEMMA FormatStepOK == FormatInv /\ [FormatNext]_format_vars => FormatInv'
  <1> SUFFICES ASSUME FormatInv, [FormatNext]_format_vars PROVE FormatInv'
    OBVIOUS
  <1>1. call \in Calls
    BY DEF FormatInv
  <1>2. /\ DOMAIN call.format = 1 .. Len(call.format) /\ Len(call.format) \in Nat
        /\ \A i \in DOMAIN call.format : call.format[i] \in 1 .. 127
    BY <1>1, FormatCallFacts
  <1>3. ASSUME reading = "text", OnlyStrings(call)
        PROVE  fmt \in 1 .. Len(call.format) + 1 /\ InText(call, fmt) /\ Written(call, buffer, arg, fmt)
    BY <1>3 DEF FormatInv, Written
  <1>4. CASE Text
    <2> SUFFICES ASSUME OnlyStrings(call)
                 PROVE  InText(call, fmt') /\ Written(call, buffer', arg', fmt')
      BY <1>1, <1>4 DEF Text, FormatInv
    <2>1. fmt \in DOMAIN call.format /\ call.format[fmt] # Percent /\ fmt' = fmt + 1 /\ arg' = arg
          /\ buffer' = buffer \o Room(<<call.format[fmt]>>)
      <3>1. /\ reading = "text" /\ fmt <= Len(call.format) /\ Char # Percent
            /\ fmt' = fmt + 1 /\ arg' = arg /\ buffer' = buffer \o Room(<<Char>>)
        BY <1>4 DEF Text, PUT
      <3>2. Char = call.format[fmt]
        BY <3>1, CharInFormat
      <3>3. fmt \in DOMAIN call.format
        BY <1>2, <1>3, <3>1
      <3> QED BY <3>1, <3>2, <3>3
    <2>2. Piece(call, fmt) = <<call.format[fmt]>>
      BY <1>3, <1>4, <2>1 DEF Piece, InText, Text
    <2>3. Written(call, buffer', arg', fmt + 1)
      <3>1. arg \in Int
        BY <1>1, <1>3, <1>4, <2>1, DirectivesCounted DEF Written, Text
      <3>2. arg' = arg + (IF call.format[fmt] = Percent THEN 1 ELSE 0)
        BY <2>1, <3>1
      <3>3. Written(call, buffer, arg, fmt)
        BY <1>3, <1>4 DEF Text
      <3> QED BY <1>1, <2>1, <2>2, <3>2, <3>3, PieceWritten
    <2>4. InText(call, fmt + 1)
      BY <1>2, <2>1 DEF InText
    <2> QED BY <2>1, <2>3, <2>4
  <1>5. CASE StartDirective
    <2> SUFFICES ASSUME OnlyStrings(call)
                 PROVE  /\ fmt' \in Nat
                        /\ fmt' - 1 \in DOMAIN call.format /\ call.format[fmt' - 1] = Percent
                        /\ InText(call, fmt' - 1) /\ Written(call, buffer', arg', fmt' - 1)
                        /\ spec' = Plain
      BY <1>1, <1>5 DEF StartDirective, FormatInv, Plain
    <2>1. fmt \in DOMAIN call.format /\ call.format[fmt] = Percent /\ fmt' = fmt + 1
      BY <1>2, <1>3, <1>5, CharInFormat DEF StartDirective
    <2>2. fmt' - 1 = fmt /\ fmt' \in Nat
      BY <1>2, <2>1
    <2> QED BY <1>3, <1>5, <2>1, <2>2 DEF StartDirective
  <1>6. CASE Width \/ WidthFromArg \/ Flag
    <2>1. call' = call /\ reading = "directive" /\ reading' = "directive"
      BY <1>6 DEF Width, WidthFromArg, Flag
    <2>2. Char \notin {Letter_s, Letter_c}
      <3>1. isdigit(Char) \/ Char \in {Star, Sharp, Zero, Letter_l}
        BY <1>6 DEF Width, WidthFromArg, Flag
      <3> QED BY <3>1 DEF isdigit, Zero, Star, Sharp, Letter_l, Letter_s, Letter_c
    <2>3. ~OnlyStrings(call)
      BY <2>1, <2>2, LetterMet
    <2> QED BY <1>1, <2>1, <2>3 DEF FormatInv
  <1>7. CASE print_u \/ print_x \/ print_d \/ Other
    <2>1. call' = call /\ reading = "directive" /\ reading' \in {"text", "overrun"}
      BY <1>7 DEF print_u, print_x, print_d, Other, Converted
    <2>2. Char \notin {Letter_s, Letter_c}
      <3>1. CASE print_u \/ print_x \/ print_d
        <4>1. Char \in {Letter_u, Letter_x, Letter_p, Letter_P, Letter_d}
          BY <3>1 DEF print_u, print_x, print_d
        <4> QED BY <4>1 DEF Letter_u, Letter_x, Letter_p, Letter_P, Letter_d, Letter_s, Letter_c
      <3>2. CASE Other
        <4>1. Char \notin {Star, Sharp, Letter_l, Letter_u, Letter_x, Letter_p, Letter_P, Letter_d,
                           Letter_c, Letter_s}
          BY ONLY <3>2 DEF Other
        <4> QED BY ONLY <4>1
      <3> QED BY <1>7, <3>1, <3>2
    <2>3. ~OnlyStrings(call)
      BY <2>1, <2>2, LetterMet
    <2> QED BY <1>1, <2>1, <2>3 DEF FormatInv
  <1>8. CASE print_c
    <2>1. reading = "directive" /\ reading' = "text" /\ call' = call /\ arg' = arg + 1 /\ fmt' = fmt + 1
          /\ Char = Letter_c /\ buffer' = buffer \o Room(<<Arg.number % 256>>)
      BY <1>8 DEF print_c, Converted, PUT
    <2> SUFFICES ASSUME OnlyStrings(call) PROVE FormatInv'
      BY <1>1, <2>1 DEF FormatInv
    <2>2. Piece(call, fmt - 1) = <<Arg.number % 256>>
      BY <2>1, PieceAtPercent DEF Letter_c, Letter_s
    <2> QED BY <2>1, <2>2, DirectiveWritten
  <1>9. CASE print_s
    <2>1. reading = "directive" /\ reading' = "text" /\ call' = call /\ arg' = arg + 1 /\ fmt' = fmt + 1
          /\ Char = Letter_s
      BY <1>9 DEF print_s, Converted
    <2> SUFFICES ASSUME OnlyStrings(call) PROVE FormatInv'
      BY <1>1, <2>1 DEF FormatInv
    <2> DEFINE str == IF Arg.number = 0 THEN NullString ELSE Arg.str
    <2>2. Piece(call, fmt - 1) = str /\ str \in Seq(Int)
      BY <2>1, PieceAtPercent DEF Letter_c, Letter_s
    <2>3. buffer' = buffer \o Room(str \o Pad(Space, spec.padding - Len(str)))
      BY <1>9 DEF print_s, PUT
    <2> HIDE DEF str
    <2>4. Pad(Space, spec.padding - Len(str)) = <<>>
      <3>1. spec.padding = 0
        BY <2>1, LetterMet DEF Plain
      <3>2. Len(str) \in Nat
        BY <2>2
      <3>3. 1 .. spec.padding - Len(str) = {}
        BY <3>1, <3>2
      <3> QED BY <3>3 DEF Pad
    <2>5. str \o <<>> = str
      BY <2>2
    <2> QED BY <2>1, <2>2, <2>3, <2>4, <2>5, DirectiveWritten
  <1>10. CASE Terminate
    <2>1. call' = call /\ arg' = arg /\ buffer' = buffer /\ reading = "text" /\ reading' = "done"
          /\ fmt > Len(call.format)
      BY <1>10 DEF Terminate
    <2>2. OnlyStrings(call) => fmt = Len(call.format) + 1
      BY <1>2, <1>3, <2>1
    <2> QED BY <1>1, <1>3, <2>1, <2>2 DEF FormatInv
  <1>11. CASE UNCHANGED format_vars
    BY <1>11 DEF format_vars, FormatInv
  <1> QED BY <1>4, <1>5, <1>6, <1>7, <1>8, <1>9, <1>10, <1>11 DEF FormatNext, Returned

(***************************************************************************)
(* dvsprintf writes the text that a format with strings and characters     *)
(* stands for, such as the name of a file open_path tries to open, as far  *)
(* as it fits into the buffer: for every format, all strings and every     *)
(* size of the buffer.                                                     *)
(***************************************************************************)
THEOREM NamesSpelled == FormatSpec => []NameSpelled
  <1>1. FormatInv => NameSpelled
    <2> SUFFICES ASSUME FormatInv, reading = "done", OnlyStrings(call)
                 PROVE  NameSpelled
      BY DEF NameSpelled
    <2>1. call \in Calls /\ Written(call, buffer, arg, Len(call.format) + 1)
      BY DEF FormatInv
    <2>2. \A i \in DOMAIN call.format : i \in 1 .. (Len(call.format) + 1) - 1
      BY <2>1, FormatCallFacts
    <2> QED BY <2>1, <2>2 DEF NameSpelled, Written
  <1> QED BY <1>1, FormatInitOK, FormatStepOK, PTL DEF FormatSpec
=============================================================================
