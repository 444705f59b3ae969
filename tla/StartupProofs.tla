---------------------------- MODULE StartupProofs ---------------------------
(***************************************************************************)
(* Proofs about Startup, for every object the kernel may map, every number *)
(* of arguments and environment strings and every order and length of the  *)
(* auxiliary vector.                                                       *)
(***************************************************************************)
EXTENDS Startup, TLAPS

(* What is assumed of the constants. *)
LEMMA Given ==
    /\ PageSize \in Nat \ {0} /\ PhdrSize \in Nat \ {0} /\ Highest \in Nat
    /\ Orders \subseteq Seq(AuxType) /\ ArgCounts \subseteq Nat \ {0} /\ EnvCounts \subseteq Nat
    /\ Mains \subseteq Main
    /\ VdsoAddr \in Nat /\ VdsoPhoff \in Nat \ {0}
  BY StartupAssumption DEF VdsoAddr, VdsoPhoff

(* The fields of an object are numbers, and it has headers. *)
LEMMA BootFacts ==
    ASSUME NEW b \in Boots
    PROVE  /\ b \in Boot /\ WellMade(b)
           /\ b.mode \in {"interp", "direct"} /\ b.bias \in Nat
           /\ b.e_entry \in Nat \ {0} /\ b.phvaddr \in Nat \ {0} /\ b.phdrs \in Seq(Phdr)
           /\ Len(b.phdrs) \in Nat \ {0} /\ DOMAIN b.phdrs = 1 .. Len(b.phdrs)
           /\ b.bias + b.e_entry \in Nat \ {0} /\ b.bias + b.phvaddr \in Nat \ {0}
           /\ b.bias + b.e_entry # Highest
           /\ \A i \in DOMAIN b.phdrs :
                 /\ b.phdrs[i] \in Phdr
                 /\ b.phdrs[i].p_vaddr \in Nat /\ b.phdrs[i].p_memsz \in Nat
  <1>1. b \in Boot /\ WellMade(b)
    BY StartupAssumption
  <1>2. /\ b.mode \in {"interp", "direct"} /\ b.bias \in Nat
        /\ b.e_entry \in Nat \ {0} /\ b.phvaddr \in Nat \ {0} /\ b.phdrs \in Seq(Phdr)
    BY <1>1 DEF Boot
  <1>3. Len(b.phdrs) \in Nat /\ DOMAIN b.phdrs = 1 .. Len(b.phdrs)
    BY <1>2
  <1>4. Len(b.phdrs) # 0
    BY <1>1, <1>3 DEF WellMade
  <1>5. \A i \in DOMAIN b.phdrs : b.phdrs[i] \in Phdr
    BY <1>2, <1>3
  <1>6. \A i \in DOMAIN b.phdrs : b.phdrs[i].p_vaddr \in Nat /\ b.phdrs[i].p_memsz \in Nat
    BY <1>5 DEF Phdr
  <1>7. /\ b.bias + b.e_entry \in Nat \ {0} /\ b.bias + b.phvaddr \in Nat \ {0}
        /\ b.bias + b.e_entry # Highest
    <2>1. b.bias + b.e_entry < Highest /\ Highest \in Nat
      BY <1>1, Given DEF WellMade
    <2> QED BY ONLY <1>2, <2>1
  <1> QED BY <1>1, <1>2, <1>3, <1>4, <1>5, <1>6, <1>7

-----------------------------------------------------------------------------

(* One sequence is the beginning of another. *)
Begins(s, t) == Len(s) <= Len(t) /\ \A i \in 1 .. Len(s) : t[i] = s[i]

(* The beginning of a beginning is a beginning. *)
LEMMA BeginsTransitive ==
    ASSUME NEW s \in Seq(Int), NEW t \in Seq(Int), NEW u \in Seq(Int), Begins(s, t), Begins(t, u)
    PROVE  Begins(s, u)
  <1>1. Len(s) \in Nat /\ Len(t) \in Nat /\ Len(u) \in Nat
    OBVIOUS
  <1> QED BY <1>1 DEF Begins

Joins(s, t, u) ==
    /\ u \in Seq(Int) /\ Len(u) = Len(s) + Len(t) /\ Begins(s, u)
    /\ \A i \in 1 .. Len(t) : u[Len(s) + i] = t[i]

(* What \o makes of two sequences. *)
LEMMA Joined ==
    ASSUME NEW s \in Seq(Int), NEW t \in Seq(Int), NEW u, u = s \o t
    PROVE  Joins(s, t, u)
  <1>1. u \in Seq(Int) /\ Len(u) = Len(s) + Len(t)
    OBVIOUS
  <1>2. Len(s) \in Nat /\ Len(t) \in Nat
    OBVIOUS
  <1>3. \A i \in 1 .. Len(s) : u[i] = s[i]
    BY <1>1, <1>2
  <1>4. \A i \in 1 .. Len(t) : u[Len(s) + i] = t[i]
    BY <1>1, <1>2
  <1> QED BY <1>1, <1>2, <1>3, <1>4 DEF Begins, Joins

(* The words of the auxiliary vector are numbers. *)
LEMMA AuxFacts ==
    ASSUME NEW b \in Boots, NEW order \in Seq(AuxType)
    PROVE  /\ Len(order) \in Nat /\ AuxWords(b, order) \in Seq(Int)
           /\ Len(AuxWords(b, order)) = 2 * Len(order)
           /\ \A k \in 1 .. Len(order) :
                 /\ order[k] \in AuxType
                 /\ AuxWords(b, order)[2 * k - 1] = order[k]
                 /\ AuxWords(b, order)[2 * k] = AuxValue(b, order[k])
  <1> DEFINE n == Len(order)
             w == AuxWords(b, order)
  <1>1. n \in Nat /\ \A k \in 1 .. n : order[k] \in AuxType
    OBVIOUS
  <1>2. AuxType \subseteq Int
    BY DEF AuxType, AT_PHDR, AT_PHENT, AT_PHNUM, AT_PAGESZ, AT_ENTRY, AT_SYSINFO_EHDR
  <1>3. \A type \in AuxType : AuxValue(b, type) \in Int
    <2>1. /\ b.bias + b.phvaddr \in Int /\ PhdrSize \in Int /\ Len(b.phdrs) \in Int
          /\ PageSize \in Int /\ b.bias + b.e_entry \in Int /\ VdsoAddr \in Int
      BY BootFacts, Given
    <2> QED BY <2>1 DEF AuxValue, AuxType, AT_PHDR, AT_PHENT, AT_PHNUM, AT_PAGESZ, AT_ENTRY,
                        AT_SYSINFO_EHDR
  <1>4. w = [i \in 1 .. 2 * n |->
               IF i % 2 = 1 THEN order[(i + 1) \div 2] ELSE AuxValue(b, order[i \div 2])]
    BY DEF AuxWords
  <1>5. ASSUME NEW k \in 1 .. n
        PROVE  /\ 2 * k - 1 \in 1 .. 2 * n /\ 2 * k \in 1 .. 2 * n
               /\ (2 * k - 1) % 2 = 1 /\ ((2 * k - 1) + 1) \div 2 = k
               /\ (2 * k) % 2 = 0 /\ (2 * k) \div 2 = k
    BY <1>1
  <1>6. \A k \in 1 .. n : w[2 * k - 1] = order[k] /\ w[2 * k] = AuxValue(b, order[k])
    BY <1>4, <1>5
  <1>7. ASSUME NEW i \in 1 .. 2 * n PROVE w[i] \in Int
    <2>1. (i % 2 = 1 /\ (i + 1) \div 2 \in 1 .. n) \/ (i % 2 # 1 /\ i \div 2 \in 1 .. n)
      BY <1>1
    <2> QED BY <1>1, <1>2, <1>3, <1>4, <2>1
  <1>8. w \in [1 .. 2 * n -> Int] /\ 2 * n \in Nat
    BY <1>1, <1>4, <1>7
  <1>9. w \in Seq(Int) /\ Len(w) = 2 * n
    <2> HIDE DEF w
    <2> QED BY <1>8
  <1> QED BY <1>1, <1>6, <1>9

(* What lies on the stack, and where. *)
Laid(s, b, argc, envc, order) ==
    /\ argc \in Nat \ {0} /\ envc \in Nat /\ order \in Orders /\ Len(order) \in Nat
    /\ Len(s) = ((argc + envc) + 2 * Len(order)) + 5
    /\ s[1] = argc
    /\ \A i \in 1 .. argc : s[1 + i] = Highest
    /\ s[argc + 2] = 0
    /\ \A i \in 1 .. envc : s[(argc + 2) + i] = Highest
    /\ s[(argc + envc) + 3] = 0
    /\ \A k \in 1 .. Len(order) :
          /\ order[k] \in AuxType
          /\ s[((argc + envc) + 2) + 2 * k] = order[k]
          /\ s[((argc + envc) + 3) + 2 * k] = AuxValue(b, order[k])
    /\ s[((argc + envc) + 4) + 2 * Len(order)] = AT_NULL

(* The kernel lays the stack out so. *)
LEMMA StackLaid ==
    ASSUME NEW b \in Boots, NEW argc \in ArgCounts, NEW envc \in EnvCounts, NEW order \in Orders
    PROVE  Laid(InitialStack(b, argc, envc, order), b, argc, envc, order)
  <1> DEFINE n  == Len(order)
             a  == Strings(argc)
             e  == Strings(envc)
             w  == AuxWords(b, order)
             o  == <<0>>
             f  == <<argc>>
             z  == <<AT_NULL, 0>>
             s1 == f \o a
             s2 == s1 \o o
             s3 == s2 \o e
             s4 == s3 \o o
             s5 == s4 \o w
             s6 == s5 \o z
  <1>1. argc \in Nat \ {0} /\ envc \in Nat /\ order \in Seq(AuxType)
    BY Given
  <1>2. /\ n \in Nat /\ w \in Seq(Int) /\ Len(w) = 2 * n
        /\ \A k \in 1 .. n : /\ order[k] \in AuxType
                             /\ w[2 * k - 1] = order[k] /\ w[2 * k] = AuxValue(b, order[k])
    BY <1>1, AuxFacts
  <1>3. /\ a \in Seq(Int) /\ Len(a) = argc /\ \A i \in 1 .. argc : a[i] = Highest
        /\ e \in Seq(Int) /\ Len(e) = envc /\ \A i \in 1 .. envc : e[i] = Highest
    BY <1>1, Given DEF Strings
  <1>4. /\ o \in Seq(Int) /\ Len(o) = 1 /\ o[1] = 0
        /\ f \in Seq(Int) /\ Len(f) = 1 /\ f[1] = argc
        /\ z \in Seq(Int) /\ Len(z) = 2 /\ z[1] = AT_NULL
    BY <1>1 DEF AT_NULL
  <1>5. InitialStack(b, argc, envc, order) = s6
    BY DEF InitialStack
  <1> HIDE DEF n, a, e, w, o, f, z
  <1>a. /\ s1 = f \o a /\ s2 = s1 \o o /\ s3 = s2 \o e
        /\ s4 = s3 \o o /\ s5 = s4 \o w /\ s6 = s5 \o z
    OBVIOUS
  <1> HIDE DEF s1, s2, s3, s4, s5, s6
  <1>6. /\ s1 \in Seq(Int) /\ Len(s1) = 1 + argc /\ Begins(f, s1)
        /\ \A i \in 1 .. argc : s1[1 + i] = Highest
    <2>1. Joins(f, a, s1)
      BY ONLY <1>a, <1>3, <1>4, Joined
    <2> QED BY <1>3, <1>4, <2>1 DEF Joins
  <1>7. /\ s2 \in Seq(Int) /\ Len(s2) = (1 + argc) + 1 /\ Begins(s1, s2) /\ s2[(1 + argc) + 1] = 0
    <2>1. Joins(s1, o, s2)
      BY ONLY <1>a, <1>4, <1>6, Joined
    <2> QED BY <1>4, <1>6, <2>1 DEF Joins
  <1>8. /\ s3 \in Seq(Int) /\ Len(s3) = ((1 + argc) + 1) + envc /\ Begins(s2, s3)
        /\ \A i \in 1 .. envc : s3[((1 + argc) + 1) + i] = Highest
    <2>1. Joins(s2, e, s3)
      BY ONLY <1>a, <1>3, <1>7, Joined
    <2> QED BY <1>3, <1>7, <2>1 DEF Joins
  <1>9. /\ s4 \in Seq(Int) /\ Len(s4) = (((1 + argc) + 1) + envc) + 1 /\ Begins(s3, s4)
        /\ s4[(((1 + argc) + 1) + envc) + 1] = 0
    <2>1. Joins(s3, o, s4)
      BY ONLY <1>a, <1>4, <1>8, Joined
    <2> QED BY <1>4, <1>8, <2>1 DEF Joins
  <1>10. /\ s5 \in Seq(Int) /\ Len(s5) = ((((1 + argc) + 1) + envc) + 1) + 2 * n /\ Begins(s4, s5)
         /\ \A i \in 1 .. 2 * n : s5[((((1 + argc) + 1) + envc) + 1) + i] = w[i]
    <2>1. Joins(s4, w, s5)
      BY ONLY <1>a, <1>2, <1>9, Joined
    <2> QED BY <1>2, <1>9, <2>1 DEF Joins
  <1>11. /\ s6 \in Seq(Int) /\ Len(s6) = (((((1 + argc) + 1) + envc) + 1) + 2 * n) + 2
         /\ Begins(s5, s6)
         /\ s6[(((((1 + argc) + 1) + envc) + 1) + 2 * n) + 1] = AT_NULL
    <2>1. Joins(s5, z, s6)
      BY ONLY <1>a, <1>4, <1>10, Joined
    <2> QED BY <1>4, <1>10, <2>1 DEF Joins
  <1>12. Begins(s4, s6)
    BY <1>9, <1>10, <1>11, BeginsTransitive
  <1>13. Begins(s3, s6)
    BY <1>8, <1>9, <1>11, <1>12, BeginsTransitive
  <1>14. Begins(s2, s6)
    BY <1>7, <1>8, <1>11, <1>13, BeginsTransitive
  <1>15. Begins(s1, s6)
    BY <1>6, <1>7, <1>11, <1>14, BeginsTransitive
  <1>16. Begins(f, s6)
    BY <1>4, <1>6, <1>11, <1>15, BeginsTransitive
  <1>17. s6[1] = argc
    BY <1>4, <1>16 DEF Begins
  <1>18. \A i \in 1 .. argc : s6[1 + i] = Highest
    BY <1>1, <1>6, <1>15 DEF Begins
  <1>19. s6[argc + 2] = 0
    BY <1>1, <1>7, <1>14 DEF Begins
  <1>20. \A i \in 1 .. envc : s6[(argc + 2) + i] = Highest
    <2>1. \A i \in 1 .. envc : ((1 + argc) + 1) + i = (argc + 2) + i
                               /\ (argc + 2) + i \in 1 .. Len(s3)
      BY <1>1, <1>8
    <2> QED BY <1>8, <1>13, <2>1 DEF Begins
  <1>21. s6[(argc + envc) + 3] = 0
    BY <1>1, <1>9, <1>12 DEF Begins
  <1>22. ASSUME NEW k \in 1 .. n
         PROVE  /\ s6[((argc + envc) + 2) + 2 * k] = order[k]
                /\ s6[((argc + envc) + 3) + 2 * k] = AuxValue(b, order[k])
    <2>1. /\ 2 * k - 1 \in 1 .. 2 * n /\ 2 * k \in 1 .. 2 * n
          /\ ((((1 + argc) + 1) + envc) + 1) + (2 * k - 1) = ((argc + envc) + 2) + 2 * k
          /\ ((((1 + argc) + 1) + envc) + 1) + 2 * k = ((argc + envc) + 3) + 2 * k
          /\ ((argc + envc) + 2) + 2 * k \in 1 .. Len(s5)
          /\ ((argc + envc) + 3) + 2 * k \in 1 .. Len(s5)
      <3> DEFINE j == 2 * k
                 d == 2 * n
      <3>1. j \in Nat /\ 2 <= j /\ j <= d /\ d \in Nat
        BY <1>2
      <3>2. Len(s5) = ((((1 + argc) + 1) + envc) + 1) + d
        BY <1>10
      <3> HIDE DEF j, d
      <3>3. /\ j - 1 \in 1 .. d /\ j \in 1 .. d
            /\ ((((1 + argc) + 1) + envc) + 1) + (j - 1) = ((argc + envc) + 2) + j
            /\ ((((1 + argc) + 1) + envc) + 1) + j = ((argc + envc) + 3) + j
            /\ ((argc + envc) + 2) + j \in 1 .. Len(s5)
            /\ ((argc + envc) + 3) + j \in 1 .. Len(s5)
        BY <1>1, <3>1, <3>2
      <3> QED BY <3>3 DEF j, d
    <2>2. /\ s5[((argc + envc) + 2) + 2 * k] = w[2 * k - 1]
          /\ s5[((argc + envc) + 3) + 2 * k] = w[2 * k]
      BY <1>10, <2>1
    <2> QED BY <1>2, <1>11, <2>1, <2>2 DEF Begins
  <1>23. /\ Len(s6) = ((argc + envc) + 2 * n) + 5
         /\ s6[((argc + envc) + 4) + 2 * n] = AT_NULL
    <2>1. /\ (((((1 + argc) + 1) + envc) + 1) + 2 * n) + 2 = ((argc + envc) + 2 * n) + 5
          /\ (((((1 + argc) + 1) + envc) + 1) + 2 * n) + 1 = ((argc + envc) + 4) + 2 * n
      BY <1>1, <1>2
    <2> QED BY <1>11, <2>1
  <1> QED BY <1>1, <1>2, <1>5, <1>17, <1>18, <1>19, <1>20, <1>21, <1>22, <1>23 DEF Laid, n

-----------------------------------------------------------------------------
(***************************************************************************)
(* The invariant.                                                          *)
(***************************************************************************)
ProgramInfo == [argc : Int, argv : Nat, envp : Int, entry : Nat, phdr : Nat, ehdr : Nat, phnum : Nat]
LinkMap == [l_addr : Int, l_ld : Int, l_phdr : Nat, l_phnum : Nat, l_entry : Nat,
            l_map_start : Int, l_map_end : Int, l_text_end : Int,
            l_relro_addr : Nat, l_relro_size : Nat]

TypeInv == boot \in Boots /\ pi \in ProgramInfo /\ rtld_map \in LinkMap /\ pagesize \in Nat

(* What the first k entries of the auxiliary vector have told. *)
Seen(order, k) == {order[i] : i \in 1 .. k}

Read(order, k) ==
    /\ pi.entry = IF AT_ENTRY \in Seen(order, k) THEN boot.bias + boot.e_entry ELSE OwnStart
    /\ pi.phdr = IF AT_PHDR \in Seen(order, k) THEN boot.bias + boot.phvaddr
                 ELSE IF AT_SYSINFO_EHDR \in Seen(order, k) THEN VdsoAddr + VdsoPhoff ELSE 0
    /\ AT_PHNUM \in Seen(order, k) => pi.phnum = Len(boot.phdrs)
    /\ AT_PAGESZ \in Seen(order, k) => pagesize = PageSize

(* How far parse_auxv has come: auxv is at the entry behind the k-th. *)
Reading(argc, envc, order) ==
    /\ pc = "params" => Read(order, 0)
    /\ pc = "auxv" =>
          /\ pi.argc = argc /\ pi.argv = 2
          /\ \E k \in 0 .. Len(order) : auxv = ((argc + envc) + 4) + 2 * k /\ Read(order, k)

StackRead ==
    \E argc, envc, order : Laid(stack, boot, argc, envc, order) /\ Reading(argc, envc, order)

(* The segments, and where they are in memory. *)
IsLoad(i) == boot.phdrs[i].p_type = "LOAD"
IsText(i) == IsLoad(i) /\ "X" \in boot.phdrs[i].p_flags
Start(i) == boot.bias + PageDown(boot.phdrs[i].p_vaddr)
End(i) == boot.bias + boot.phdrs[i].p_vaddr + boot.phdrs[i].p_memsz

(* What the link map has from the first n headers. *)
Enclosed(n) ==
    /\ \A i \in 1 .. n : IsLoad(i) => rtld_map.l_map_start <= Start(i) /\ End(i) <= rtld_map.l_map_end
    /\ \A i \in 1 .. n : IsText(i) => End(i) <= rtld_map.l_text_end
    /\ \/ rtld_map.l_map_start = Highest /\ \A i \in 1 .. n : ~IsLoad(i)
       \/ \E i \in 1 .. n : IsLoad(i) /\ Start(i) = rtld_map.l_map_start
    /\ \/ rtld_map.l_map_end = 0 /\ \A i \in 1 .. n : ~IsLoad(i)
       \/ \E i \in 1 .. n : IsLoad(i) /\ End(i) = rtld_map.l_map_end
    /\ \/ rtld_map.l_text_end = 0 /\ \A i \in 1 .. n : ~IsText(i)
       \/ \E i \in 1 .. n : IsText(i) /\ End(i) = rtld_map.l_text_end

Described(n) ==
    /\ rtld_map.l_entry = pi.entry
    /\ (n >= 1 \/ boot.mode = "direct" \/ boot.bias = 0) => rtld_map.l_addr = boot.bias
    /\ \A i \in 1 .. n : boot.phdrs[i].p_type = "DYNAMIC" =>
                              rtld_map.l_ld = boot.bias + boot.phdrs[i].p_vaddr
    /\ Enclosed(n)

HeadersRead ==
    /\ pc \in {"params", "auxv"} => Enclosed(0)
    /\ pc \in {"phdr", "link", "entered"} => ph \in 1 .. Len(boot.phdrs) + 1 /\ Described(ph - 1)
    /\ pc \in {"link", "entered"} => ph = Len(boot.phdrs) + 1

MainMapped ==
    (pc \in {"link", "entered"} /\ boot.mode = "direct") =>
        \E main \in Mains : main_map = [l_addr |-> main.l_addr, l_entry |-> main.e_entry]

StartupInv == TypeInv /\ StackRead /\ BootRead /\ HeadersRead /\ MainMapped /\ EntersUnlessMoved

-----------------------------------------------------------------------------

(* The numbers of the auxiliary vector's types are different. *)
LEMMA TypesDiffer ==
    /\ AT_PHDR \in AuxType /\ AT_PHNUM \in AuxType /\ AT_PAGESZ \in AuxType
    /\ AT_ENTRY \in AuxType /\ AT_SYSINFO_EHDR \in AuxType /\ AT_PHENT \in AuxType
    /\ AT_NULL \notin AuxType /\ AT_NULL = 0
    /\ \A t \in AuxType : t \in Nat
    /\ AT_PHDR # AT_PHNUM /\ AT_PHDR # AT_PAGESZ /\ AT_PHDR # AT_ENTRY /\ AT_PHDR # AT_SYSINFO_EHDR
    /\ AT_PHNUM # AT_PAGESZ /\ AT_PHNUM # AT_ENTRY /\ AT_PHNUM # AT_SYSINFO_EHDR
    /\ AT_PAGESZ # AT_ENTRY /\ AT_PAGESZ # AT_SYSINFO_EHDR /\ AT_ENTRY # AT_SYSINFO_EHDR
    /\ AT_PHENT \notin {AT_PHDR, AT_PHNUM, AT_PAGESZ, AT_ENTRY, AT_SYSINFO_EHDR}
  BY DEF AuxType, AT_NULL, AT_PHDR, AT_PHENT, AT_PHNUM, AT_PAGESZ, AT_ENTRY, AT_SYSINFO_EHDR

(* What the kernel says in the entries parse_auxv looks at. *)
LEMMA Values ==
    ASSUME NEW b \in Boots, NEW type \in AuxType
    PROVE  /\ AuxValue(b, type) \in Nat
           /\ type = AT_PHDR => AuxValue(b, type) = b.bias + b.phvaddr
           /\ type = AT_PHNUM => AuxValue(b, type) = Len(b.phdrs)
           /\ type = AT_PAGESZ => AuxValue(b, type) = PageSize
           /\ type = AT_ENTRY => AuxValue(b, type) = b.bias + b.e_entry
           /\ type = AT_SYSINFO_EHDR => AuxValue(b, type) = VdsoAddr
  <1>1. /\ b.bias + b.phvaddr \in Nat /\ PhdrSize \in Nat /\ Len(b.phdrs) \in Nat
        /\ PageSize \in Nat /\ b.bias + b.e_entry \in Nat /\ VdsoAddr \in Nat
    BY BootFacts, Given
  <1> QED BY <1>1 DEF AuxValue, AuxType, AT_PHDR, AT_PHENT, AT_PHNUM, AT_PAGESZ, AT_ENTRY,
                      AT_SYSINFO_EHDR

(* What program_info remembers of an entry. *)
Remembers(q, p, type, val) ==
    /\ q \in ProgramInfo
    /\ q.argc = p.argc /\ q.argv = p.argv
    /\ q.entry = IF type = AT_ENTRY THEN val ELSE p.entry
    /\ q.phdr = IF type = AT_PHDR THEN val
                ELSE IF type = AT_SYSINFO_EHDR /\ p.phdr = 0 THEN val + VdsoPhoff
                ELSE p.phdr
    /\ q.phnum = IF type = AT_PHNUM THEN val ELSE p.phnum

(* WithAux does just that. *)
LEMMA WithAuxFacts ==
    ASSUME NEW p \in ProgramInfo, NEW type \in AuxType, NEW val \in Nat,
           NEW q, q = WithAux(p, type, val)
    PROVE  Remembers(q, p, type, val)
  <1> USE DEF Remembers
  <1>0. val + VdsoPhoff \in Nat /\ p.phdr \in Nat
    BY Given DEF ProgramInfo
  <1>1. CASE type = AT_ENTRY
    <2>1. q = [p EXCEPT !.entry = val]
      BY <1>1, TypesDiffer DEF WithAux
    <2> QED BY <1>1, <2>1, TypesDiffer DEF ProgramInfo
  <1>2. CASE type = AT_SYSINFO_EHDR
    <2> DEFINE new == IF p.phdr = 0 THEN val + VdsoPhoff ELSE p.phdr
               mid == [p EXCEPT !.ehdr = val]
    <2>1. q = [mid EXCEPT !.phdr = new]
      BY <1>2, TypesDiffer DEF WithAux, ProgramInfo
    <2>2. new \in Nat
      BY <1>0
    <2>3. /\ mid \in ProgramInfo /\ mid.argc = p.argc /\ mid.argv = p.argv /\ mid.entry = p.entry
          /\ mid.phnum = p.phnum
      BY DEF ProgramInfo
    <2>4. new = IF p.phdr = 0 THEN val + VdsoPhoff ELSE p.phdr
      OBVIOUS
    <2> HIDE DEF new, mid
    <2>5. /\ q \in ProgramInfo /\ q.argc = p.argc /\ q.argv = p.argv /\ q.entry = p.entry
          /\ q.phnum = p.phnum /\ q.phdr = new
      BY <2>1, <2>2, <2>3 DEF ProgramInfo
    <2> QED BY <1>2, <2>4, <2>5, TypesDiffer
  <1>3. CASE type = AT_PHDR
    <2>1. q = [p EXCEPT !.phdr = val]
      BY <1>3, TypesDiffer DEF WithAux
    <2> QED BY <1>3, <2>1, TypesDiffer DEF ProgramInfo
  <1>4. CASE type = AT_PHNUM
    <2>1. q = [p EXCEPT !.phnum = val]
      BY <1>4, TypesDiffer DEF WithAux
    <2> QED BY <1>4, <2>1, TypesDiffer DEF ProgramInfo
  <1>5. CASE type \notin {AT_ENTRY, AT_SYSINFO_EHDR, AT_PHDR, AT_PHNUM}
    <2>1. q = p
      BY <1>5 DEF WithAux
    <2> QED BY <1>5, <2>1
  <1> QED BY <1>1, <1>2, <1>3, <1>4, <1>5

(* One entry more, or all. *)
LEMMA SeenFacts ==
    ASSUME NEW order, Len(order) \in Nat, order \in Seq(AuxType)
    PROVE  /\ Seen(order, 0) = {}
           /\ \A k \in 0 .. Len(order) - 1 : Seen(order, k + 1) = Seen(order, k) \cup {order[k + 1]}
           /\ Seen(order, Len(order)) = Told(order)
  <1>1. ASSUME NEW k \in 0 .. Len(order) - 1
        PROVE  Seen(order, k + 1) = Seen(order, k) \cup {order[k + 1]}
    <2>1. 1 .. k + 1 = (1 .. k) \cup {k + 1}
      OBVIOUS
    <2> QED BY <2>1 DEF Seen
  <1>2. DOMAIN order = 1 .. Len(order)
    OBVIOUS
  <1> QED BY <1>1, <1>2 DEF Seen, Told

(* An object that lies below Highest makes it different from NULL. *)
LEMMA HighestIsNoNull ==
    ASSUME boot \in Boots
    PROVE  Highest # 0
  <1>1. boot.bias + boot.e_entry < Highest /\ boot.bias + boot.e_entry \in Nat
    BY BootFacts DEF WellMade
  <1> QED BY <1>1, Given

(* The beginning. *)
LEMMA InitStart == Init => StartupInv
  <1> SUFFICES ASSUME Init PROVE StartupInv
    OBVIOUS
  <1>1. boot \in Boots /\ OwnStart \in Nat
    BY BootFacts, Given DEF Init, OwnStart
  <1>2. TypeInv
    BY <1>1, Given DEF Init, TypeInv, ProgramInfo, LinkMap
  <1>3. StackRead
    <2>1. PICK argc \in ArgCounts, envc \in EnvCounts, order \in Orders :
              stack = InitialStack(boot, argc, envc, order)
      BY DEF Init
    <2>2. Laid(stack, boot, argc, envc, order)
      BY <1>1, <2>1, StackLaid
    <2>3. Seen(order, 0) = {}
      BY DEF Seen
    <2>4. Reading(argc, envc, order)
      <3>1. pc = "params" /\ pi.entry = OwnStart /\ pi.phdr = 0
        BY DEF Init
      <3> QED BY <2>3, <3>1 DEF Reading, Read
    <2> QED BY <2>2, <2>4 DEF StackRead
  <1>4. BootRead /\ MainMapped /\ EntersUnlessMoved
    BY DEF Init, BootRead, MainMapped, EntersUnlessMoved
  <1>5. HeadersRead
    BY DEF Init, HeadersRead, Enclosed
  <1> QED BY <1>2, <1>3, <1>4, <1>5 DEF StartupInv

(* parse_params finds the auxiliary vector. *)
LEMMA ParamsStep ==
    ASSUME StartupInv, parse_params
    PROVE  StartupInv'
  <1>1. /\ pc = "params" /\ pc' = "auxv" /\ boot' = boot /\ stack' = stack
        /\ pagesize' = pagesize /\ rtld_map' = rtld_map
        /\ pi' = [pi EXCEPT !.argc = stack[1], !.argv = 2, !.envp = penvp]
    BY DEF parse_params
  <1>2. PICK argc, envc, order :
            Laid(stack, boot, argc, envc, order) /\ Reading(argc, envc, order)
    BY DEF StartupInv, StackRead
  <1>3. /\ argc \in Nat \ {0} /\ envc \in Nat /\ Len(order) \in Nat /\ stack[1] = argc
        /\ Len(stack) = ((argc + envc) + 2 * Len(order)) + 5
        /\ \A i \in 1 .. envc : stack[(argc + 2) + i] = Highest
        /\ stack[(argc + envc) + 3] = 0
    BY <1>2 DEF Laid
  <1>4. penvp = argc + 3
    BY <1>3 DEF penvp
  <1>5. auxv' = (argc + envc) + 4
    <2>1. PICK null \in penvp .. Len(stack) :
              /\ stack[null] = 0
              /\ \A i \in penvp .. null - 1 : stack[i] # 0
              /\ auxv' = null + 1
      BY DEF parse_params
    <2>2. ~(null < (argc + envc) + 3)
      <3> SUFFICES ASSUME null < (argc + envc) + 3 PROVE FALSE
        OBVIOUS
      <3> DEFINE i == null - (argc + 2)
      <3>1. i \in 1 .. envc /\ (argc + 2) + i = null
        BY <1>3, <1>4, <2>1
      <3>2. stack[null] = Highest
        BY <1>3, <3>1
      <3> QED BY <2>1, <3>2, HighestIsNoNull DEF StartupInv, TypeInv
    <2>3. ~((argc + envc) + 3 < null)
      <3> SUFFICES ASSUME (argc + envc) + 3 < null PROVE FALSE
        OBVIOUS
      <3>1. (argc + envc) + 3 \in penvp .. null - 1
        BY <1>3, <1>4, <2>1
      <3> QED BY <1>3, <2>1, <3>1
    <2> QED BY <1>3, <1>4, <2>1, <2>2, <2>3
  <1>6. /\ pi' \in ProgramInfo /\ pi'.argc = argc /\ pi'.argv = 2
        /\ pi'.entry = pi.entry /\ pi'.phdr = pi.phdr /\ pi'.phnum = pi.phnum
    <2>1. pi \in ProgramInfo
      BY DEF StartupInv, TypeInv
    <2> DEFINE m1 == [pi EXCEPT !.argc = argc]
               m2 == [m1 EXCEPT !.argv = 2]
    <2>2. pi' = [m2 EXCEPT !.envp = penvp]
      BY <1>1, <1>3, <2>1 DEF ProgramInfo
    <2>3. /\ m1 \in ProgramInfo /\ m1.argc = argc
          /\ m1.entry = pi.entry /\ m1.phdr = pi.phdr /\ m1.phnum = pi.phnum
      <3>1. argc \in Int
        BY <1>3
      <3> QED BY ONLY <2>1, <3>1 DEF ProgramInfo, m1
    <2> HIDE DEF m1
    <2>4. /\ m2 \in ProgramInfo /\ m2.argc = argc /\ m2.argv = 2
          /\ m2.entry = pi.entry /\ m2.phdr = pi.phdr /\ m2.phnum = pi.phnum
      BY <2>3 DEF ProgramInfo
    <2> HIDE DEF m2
    <2>5. penvp \in Int
      BY <1>3, <1>4
    <2> HIDE DEF penvp
    <2> QED BY <2>2, <2>4, <2>5 DEF ProgramInfo
  <1>7. TypeInv'
    BY <1>1, <1>6 DEF StartupInv, TypeInv
  <1>8. StackRead'
    <2>1. Read(order, 0)
      BY <1>1, <1>2 DEF Reading
    <2>2. Read(order, 0)'
      BY <1>1, <1>6, <2>1 DEF Read, OwnStart
    <2>3. auxv' = ((argc + envc) + 4) + 2 * 0 /\ 0 \in 0 .. Len(order)
      BY <1>3, <1>5
    <2>4. Reading(argc, envc, order)'
      BY <1>1, <1>6, <2>2, <2>3 DEF Reading
    <2>5. Laid(stack, boot, argc, envc, order)'
      BY <1>1, <1>2 DEF Laid
    <2> QED BY <2>4, <2>5 DEF StackRead
  <1>9. HeadersRead'
    <2>1. Enclosed(0)
      BY <1>1 DEF StartupInv, HeadersRead
    <2>2. Enclosed(0)'
      BY <1>1, <2>1 DEF Enclosed, IsLoad, IsText, Start, End
    <2> QED BY <1>1, <2>2 DEF HeadersRead
  <1>10. BootRead' /\ MainMapped' /\ EntersUnlessMoved'
    BY <1>1 DEF BootRead, MainMapped, EntersUnlessMoved
  <1> QED BY <1>7, <1>8, <1>9, <1>10 DEF StartupInv

(* parse_auxv reads one entry. *)
LEMMA AuxStep ==
    ASSUME StartupInv, parse_auxv
    PROVE  StartupInv'
  <1>1. /\ pc = "auxv" /\ pc' = "auxv" /\ boot' = boot /\ stack' = stack /\ rtld_map' = rtld_map
        /\ stack[auxv] # AT_NULL /\ auxv' = auxv + 2
        /\ pi' = WithAux(pi, stack[auxv], stack[auxv + 1])
        /\ pagesize' = IF stack[auxv] = AT_PAGESZ THEN stack[auxv + 1] ELSE pagesize
    BY DEF parse_auxv
  <1>2. PICK argc, envc, order :
            Laid(stack, boot, argc, envc, order) /\ Reading(argc, envc, order)
    BY DEF StartupInv, StackRead
  <1>3. PICK k \in 0 .. Len(order) : auxv = ((argc + envc) + 4) + 2 * k /\ Read(order, k)
    BY <1>1, <1>2 DEF Reading
  <1>4. /\ boot \in Boots /\ pi \in ProgramInfo /\ rtld_map \in LinkMap /\ pagesize \in Nat
        /\ pi.argc = argc /\ pi.argv = 2
    BY <1>1, <1>2 DEF StartupInv, TypeInv, Reading
  <1>5. /\ argc \in Nat /\ envc \in Nat /\ Len(order) \in Nat /\ order \in Seq(AuxType)
        /\ stack[((argc + envc) + 4) + 2 * Len(order)] = AT_NULL
    BY <1>2, Given DEF Laid
  <1>6. k \in 0 .. Len(order) - 1 /\ k + 1 \in 1 .. Len(order)
    BY <1>1, <1>3, <1>5
  <1> DEFINE t == order[k + 1]
             v == AuxValue(boot, t)
  <1>7. stack[auxv] = t /\ stack[auxv + 1] = v /\ t \in AuxType
    <2>1. /\ t \in AuxType
          /\ stack[((argc + envc) + 2) + 2 * (k + 1)] = t
          /\ stack[((argc + envc) + 3) + 2 * (k + 1)] = v
      BY <1>2, <1>6 DEF Laid
    <2>2. /\ ((argc + envc) + 2) + 2 * (k + 1) = auxv
          /\ ((argc + envc) + 3) + 2 * (k + 1) = auxv + 1
      BY <1>3, <1>5, <1>6
    <2> QED BY <2>1, <2>2
  <1>8. /\ v \in Nat
        /\ t = AT_PHDR => v = boot.bias + boot.phvaddr
        /\ t = AT_PHNUM => v = Len(boot.phdrs)
        /\ t = AT_PAGESZ => v = PageSize
        /\ t = AT_ENTRY => v = boot.bias + boot.e_entry
        /\ t = AT_SYSINFO_EHDR => v = VdsoAddr
    BY <1>4, <1>7, Values
  <1>9. Seen(order, k + 1) = Seen(order, k) \cup {t}
    BY <1>5, <1>6, SeenFacts
  <1> HIDE DEF t, v
  <1>10. /\ pi' \in ProgramInfo /\ pi'.argc = argc /\ pi'.argv = 2
         /\ pi'.entry = IF t = AT_ENTRY THEN v ELSE pi.entry
         /\ pi'.phdr = IF t = AT_PHDR THEN v
                       ELSE IF t = AT_SYSINFO_EHDR /\ pi.phdr = 0 THEN v + VdsoPhoff
                       ELSE pi.phdr
         /\ pi'.phnum = IF t = AT_PHNUM THEN v ELSE pi.phnum
    <2>1. pi' = WithAux(pi, t, v)
      BY <1>1, <1>7
    <2>2. Remembers(pi', pi, t, v)
      BY ONLY <1>4, <1>7, <1>8, <2>1, WithAuxFacts
    <2> QED BY <1>4, <2>2 DEF Remembers
  <1>11. pagesize' = IF t = AT_PAGESZ THEN v ELSE pagesize
    BY <1>1, <1>7
  <1>12. Read(order, k + 1)'
    <2>1. /\ pi'.entry = IF AT_ENTRY \in Seen(order, k + 1) THEN boot.bias + boot.e_entry ELSE OwnStart
      BY <1>3, <1>8, <1>9, <1>10 DEF Read
    <2>2. pi'.phdr = IF AT_PHDR \in Seen(order, k + 1) THEN boot.bias + boot.phvaddr
                     ELSE IF AT_SYSINFO_EHDR \in Seen(order, k + 1) THEN VdsoAddr + VdsoPhoff ELSE 0
      <3>1. boot.bias + boot.phvaddr # 0 /\ VdsoAddr + VdsoPhoff # 0
        BY <1>4, BootFacts, Given
      <3>2. pi.phdr = IF AT_PHDR \in Seen(order, k) THEN boot.bias + boot.phvaddr
                      ELSE IF AT_SYSINFO_EHDR \in Seen(order, k) THEN VdsoAddr + VdsoPhoff ELSE 0
        BY <1>3 DEF Read
      <3> QED BY <1>8, <1>9, <1>10, <3>1, <3>2, TypesDiffer
    <2>3. AT_PHNUM \in Seen(order, k + 1) => pi'.phnum = Len(boot.phdrs)
      BY <1>3, <1>8, <1>9, <1>10 DEF Read
    <2>4. AT_PAGESZ \in Seen(order, k + 1) => pagesize' = PageSize
      BY <1>3, <1>8, <1>9, <1>11 DEF Read
    <2>5. OwnStart' = OwnStart
      BY <1>1 DEF OwnStart
    <2> QED BY <1>1, <2>1, <2>2, <2>3, <2>4, <2>5 DEF Read
  <1>13. TypeInv'
    BY <1>1, <1>4, <1>8, <1>10, <1>11 DEF TypeInv
  <1>14. StackRead'
    <2>1. auxv' = ((argc + envc) + 4) + 2 * (k + 1) /\ k + 1 \in 0 .. Len(order)
      BY <1>1, <1>3, <1>5, <1>6
    <2>2. Reading(argc, envc, order)'
      BY <1>1, <1>10, <1>12, <2>1 DEF Reading
    <2>3. Laid(stack, boot, argc, envc, order)'
      BY <1>1, <1>2 DEF Laid
    <2> QED BY <2>2, <2>3 DEF StackRead
  <1>15. HeadersRead'
    <2>1. Enclosed(0)
      BY <1>1 DEF StartupInv, HeadersRead
    <2>2. Enclosed(0)'
      BY <1>1, <2>1 DEF Enclosed, IsLoad, IsText, Start, End
    <2> QED BY <1>1, <2>2 DEF HeadersRead
  <1>16. BootRead' /\ MainMapped' /\ EntersUnlessMoved'
    BY <1>1 DEF BootRead, MainMapped, EntersUnlessMoved
  <1> QED BY <1>13, <1>14, <1>15, <1>16 DEF StartupInv

(* After the auxiliary vector nothing is read of the stack any more, but it is still there. *)
LEMMA StackKept ==
    ASSUME StackRead, boot' = boot, stack' = stack, pc' \notin {"params", "auxv"}
    PROVE  StackRead'
  <1>1. PICK argc, envc, order : Laid(stack, boot, argc, envc, order)
    BY DEF StackRead
  <1>2. Laid(stack, boot, argc, envc, order)'
    BY <1>1 DEF Laid
  <1>3. Reading(argc, envc, order)'
    BY DEF Reading
  <1> QED BY <1>2, <1>3 DEF StackRead

(* loader_start has read all of the vector, and loader_main begins. *)
LEMMA MainStep ==
    ASSUME StartupInv, loader_main
    PROVE  StartupInv'
  <1>1. /\ pc = "auxv" /\ boot' = boot /\ stack' = stack /\ pi' = pi /\ pagesize' = pagesize
        /\ stack[auxv] = AT_NULL
    BY DEF loader_main
  <1>2. /\ boot \in Boots /\ pi \in ProgramInfo /\ rtld_map \in LinkMap /\ pagesize \in Nat
        /\ StackRead /\ Enclosed(0)
    BY <1>1 DEF StartupInv, TypeInv, HeadersRead
  <1>3. CASE pi.phdr = 0 \/ pi.entry = 0
    <2>1. pc' = "dead" /\ ph' = ph /\ rtld_map' = rtld_map
      BY <1>3 DEF loader_main
    <2>2. TypeInv'
      BY <1>1, <1>2, <2>1 DEF TypeInv
    <2>3. StackRead'
      BY <1>1, <1>2, <2>1, StackKept
    <2>4. HeadersRead' /\ BootRead' /\ MainMapped' /\ EntersUnlessMoved'
      BY <2>1 DEF HeadersRead, BootRead, MainMapped, EntersUnlessMoved
    <2> QED BY <2>2, <2>3, <2>4 DEF StartupInv
  <1>4. CASE pi.phdr # 0 /\ pi.entry # 0
    <2>1. /\ pc' = "phdr" /\ ph' = 1
          /\ rtld_map' = [rtld_map EXCEPT
                            !.l_addr  = IF pi.entry = OwnStart THEN _begin ELSE 0,
                            !.l_phdr  = pi.phdr,
                            !.l_phnum = pi.phnum,
                            !.l_entry = pi.entry]
      BY <1>4 DEF loader_main
    <2>2. PICK argc, envc, order :
              Laid(stack, boot, argc, envc, order) /\ Reading(argc, envc, order)
      BY <1>2 DEF StackRead
    <2>3. PICK k \in 0 .. Len(order) : auxv = ((argc + envc) + 4) + 2 * k /\ Read(order, k)
      BY <1>1, <2>2 DEF Reading
    <2>4. /\ argc \in Nat \ {0} /\ envc \in Nat /\ Len(order) \in Nat
          /\ order \in Orders /\ order \in Seq(AuxType)
      BY <2>2, Given DEF Laid
    <2>5. k = Len(order)
      <3> SUFFICES ASSUME k # Len(order) PROVE FALSE
        OBVIOUS
      <3>1. k + 1 \in 1 .. Len(order) /\ ((argc + envc) + 2) + 2 * (k + 1) = auxv
        BY <2>3, <2>4
      <3>2. stack[auxv] \in AuxType
        BY <2>2, <3>1 DEF Laid
      <3> QED BY <1>1, <3>2, TypesDiffer
    <2>6. {AT_PHDR, AT_PHNUM, AT_PAGESZ, AT_ENTRY} \subseteq Seen(order, k)
      <3>1. Seen(order, k) = Told(order)
        BY <2>4, <2>5, SeenFacts
      <3>2. Tells(order)
        BY <2>4, StartupAssumption
      <3>3. AT_PHDR \in Seen(order, k) \/ AT_SYSINFO_EHDR \in Seen(order, k)
        BY <1>4, <2>3 DEF Read
      <3> QED BY <3>1, <3>2, <3>3 DEF Tells
    <2>7. /\ pi.phdr = boot.bias + boot.phvaddr /\ pi.phnum = Len(boot.phdrs)
          /\ pi.entry = boot.bias + boot.e_entry /\ pagesize = PageSize
      BY <2>3, <2>6 DEF Read
    <2>8. pi.entry = OwnStart <=> boot.mode = "direct"
      BY <1>2, <2>7, BootFacts DEF OwnStart
    <2>9. pi.argc = 1 <=> stack[pi.argv + 1] = 0
      <3>1. pi.argc = argc /\ pi.argv + 1 = 3
        BY <1>1, <2>2 DEF Reading
      <3>2. CASE argc = 1
        <4>1. stack[argc + 2] = 0 /\ argc + 2 = 3
          BY <2>2, <3>2 DEF Laid
        <4> QED BY <3>1, <3>2, <4>1
      <3>3. CASE argc # 1
        <4>1. 2 \in 1 .. argc /\ 1 + 2 = 3
          BY <2>4, <3>3
        <4>2. stack[3] = Highest
          BY <2>2, <4>1 DEF Laid
        <4> QED BY <1>2, <3>1, <3>3, <4>2, HighestIsNoNull
      <3> QED BY <3>2, <3>3
    <2>10. BootRead'
      <3>1. OwnStart' = OwnStart
        BY <1>1 DEF OwnStart
      <3> QED BY <1>1, <2>7, <2>8, <2>9, <3>1 DEF BootRead
    <2>11. /\ rtld_map' \in LinkMap /\ rtld_map'.l_entry = pi.entry
           /\ rtld_map'.l_addr = IF pi.entry = OwnStart THEN _begin ELSE 0
           /\ rtld_map'.l_map_start = rtld_map.l_map_start
           /\ rtld_map'.l_map_end = rtld_map.l_map_end
           /\ rtld_map'.l_text_end = rtld_map.l_text_end
      <3> DEFINE a  == IF pi.entry = OwnStart THEN _begin ELSE 0
                 m1 == [rtld_map EXCEPT !.l_addr = a]
                 m2 == [m1 EXCEPT !.l_phdr = pi.phdr]
                 m3 == [m2 EXCEPT !.l_phnum = pi.phnum]
      <3>1. a \in Int /\ pi.phdr \in Nat /\ pi.phnum \in Nat /\ pi.entry \in Nat
        BY <1>2, BootFacts DEF _begin, ProgramInfo
      <3>2. rtld_map' = [m3 EXCEPT !.l_entry = pi.entry]
        BY <1>2, <2>1 DEF LinkMap
      <3> HIDE DEF a
      <3>3. /\ m1 \in LinkMap /\ m1.l_addr = a /\ m1.l_map_start = rtld_map.l_map_start
            /\ m1.l_map_end = rtld_map.l_map_end /\ m1.l_text_end = rtld_map.l_text_end
        BY <1>2, <3>1 DEF LinkMap
      <3> HIDE DEF m1
      <3>4. /\ m2 \in LinkMap /\ m2.l_addr = a /\ m2.l_map_start = rtld_map.l_map_start
            /\ m2.l_map_end = rtld_map.l_map_end /\ m2.l_text_end = rtld_map.l_text_end
        BY <3>1, <3>3 DEF LinkMap
      <3> HIDE DEF m2
      <3>5. /\ m3 \in LinkMap /\ m3.l_addr = a /\ m3.l_map_start = rtld_map.l_map_start
            /\ m3.l_map_end = rtld_map.l_map_end /\ m3.l_text_end = rtld_map.l_text_end
        BY <3>1, <3>4 DEF LinkMap
      <3> HIDE DEF m3
      <3>6. /\ rtld_map' \in LinkMap /\ rtld_map'.l_entry = pi.entry /\ rtld_map'.l_addr = a
            /\ rtld_map'.l_map_start = rtld_map.l_map_start
            /\ rtld_map'.l_map_end = rtld_map.l_map_end
            /\ rtld_map'.l_text_end = rtld_map.l_text_end
        BY <3>1, <3>2, <3>5 DEF LinkMap
      <3> QED BY <3>6 DEF a
    <2>12. TypeInv'
      BY <1>1, <1>2, <2>11 DEF TypeInv
    <2>13. Described(0)'
      <3>1. Enclosed(0)'
        BY <1>1, <1>2, <2>11 DEF Enclosed, IsLoad, IsText, Start, End
      <3>2. (boot.mode = "direct" \/ boot.bias = 0) => rtld_map'.l_addr = boot.bias
        BY <2>8, <2>11 DEF _begin
      <3> QED BY <1>1, <2>11, <3>1, <3>2 DEF Described
    <2>14. HeadersRead'
      <3>1. 1 \in 1 .. Len(boot.phdrs) + 1 /\ 1 - 1 = 0
        BY <1>2, BootFacts
      <3> QED BY <1>1, <2>1, <2>13, <3>1 DEF HeadersRead
    <2>15. StackRead'
      BY <1>1, <1>2, <2>1, StackKept
    <2>16. MainMapped' /\ EntersUnlessMoved'
      BY <2>1 DEF MainMapped, EntersUnlessMoved
    <2> QED BY <2>10, <2>12, <2>14, <2>15, <2>16 DEF StartupInv
  <1> QED BY <1>3, <1>4

-----------------------------------------------------------------------------

(* What a link map has from a header. *)
Notes(q, m, h, i) ==
    LET mapstart == m.l_addr + (h.p_vaddr - (h.p_vaddr % pagesize))
        allocend == m.l_addr + h.p_vaddr + h.p_memsz
        load     == h.p_type = "LOAD"
    IN  /\ q \in LinkMap /\ q.l_entry = m.l_entry
        /\ q.l_addr = IF h.p_type = "PHDR" THEN pi.phdr + (i - 1) * PhdrSize - h.p_vaddr ELSE m.l_addr
        /\ q.l_ld = IF h.p_type = "DYNAMIC" THEN m.l_addr + h.p_vaddr ELSE m.l_ld
        /\ q.l_map_start = IF load /\ m.l_map_start > mapstart THEN mapstart ELSE m.l_map_start
        /\ q.l_map_end = IF load /\ m.l_map_end < allocend THEN allocend ELSE m.l_map_end
        /\ q.l_text_end = IF load /\ "X" \in h.p_flags /\ allocend > m.l_text_end
                          THEN allocend ELSE m.l_text_end

(* WithPhdr notes just that. *)
LEMMA WithPhdrFacts ==
    ASSUME NEW m \in LinkMap, NEW h \in Phdr, NEW i \in Nat, NEW q, q = WithPhdr(m, h, i),
           pi \in ProgramInfo, pagesize \in Nat \ {0}
    PROVE  Notes(q, m, h, i)
  <1>0. /\ h.p_vaddr \in Nat /\ h.p_memsz \in Nat /\ h.p_vaddr % pagesize \in Int
        /\ m.l_addr \in Int /\ m.l_map_start \in Int /\ m.l_map_end \in Int /\ m.l_text_end \in Int
        /\ pi.phdr + (i - 1) * PhdrSize - h.p_vaddr \in Int
    <2>1. h.p_vaddr \in Nat /\ h.p_memsz \in Nat
      BY DEF Phdr
    <2>2. h.p_vaddr % pagesize \in Int
      BY <2>1
    <2>3. m.l_addr \in Int /\ m.l_map_start \in Int /\ m.l_map_end \in Int /\ m.l_text_end \in Int
      BY DEF LinkMap
    <2>4. pi.phdr \in Nat
      BY DEF ProgramInfo
    <2>5. (i - 1) * PhdrSize \in Int
      BY Given
    <2> QED BY <2>1, <2>2, <2>3, <2>4, <2>5
  <1>1. CASE h.p_type = "PHDR"
    <2> DEFINE a == pi.phdr + (i - 1) * PhdrSize - h.p_vaddr
    <2>1. q = [m EXCEPT !.l_addr = a] /\ a \in Int
      BY <1>0, <1>1 DEF WithPhdr
    <2>2. a = pi.phdr + (i - 1) * PhdrSize - h.p_vaddr
      OBVIOUS
    <2> HIDE DEF a
    <2>3. /\ q \in LinkMap /\ q.l_entry = m.l_entry /\ q.l_addr = a /\ q.l_ld = m.l_ld
          /\ q.l_map_start = m.l_map_start /\ q.l_map_end = m.l_map_end /\ q.l_text_end = m.l_text_end
      BY <2>1 DEF LinkMap
    <2> QED BY <1>1, <2>2, <2>3 DEF Notes
  <1>2. CASE h.p_type = "DYNAMIC"
    <2>1. q = [m EXCEPT !.l_ld = m.l_addr + h.p_vaddr]
      BY <1>2 DEF WithPhdr
    <2>2. /\ q \in LinkMap /\ q.l_entry = m.l_entry /\ q.l_addr = m.l_addr
          /\ q.l_ld = m.l_addr + h.p_vaddr
          /\ q.l_map_start = m.l_map_start /\ q.l_map_end = m.l_map_end /\ q.l_text_end = m.l_text_end
      BY <1>0, <2>1 DEF LinkMap
    <2> QED BY <1>2, <2>2 DEF Notes
  <1>3. CASE h.p_type = "LOAD"
    <2> DEFINE mapstart == m.l_addr + (h.p_vaddr - (h.p_vaddr % pagesize))
               allocend == m.l_addr + h.p_vaddr + h.p_memsz
               x == IF m.l_map_start > mapstart THEN mapstart ELSE m.l_map_start
               y == IF m.l_map_end < allocend THEN allocend ELSE m.l_map_end
               z == IF "X" \in h.p_flags /\ allocend > m.l_text_end THEN allocend ELSE m.l_text_end
               m1 == [m EXCEPT !.l_map_start = x]
               m2 == [m1 EXCEPT !.l_map_end = y]
    <2>1. q = [m2 EXCEPT !.l_text_end = z]
      BY <1>3 DEF WithPhdr, WithLoad, LinkMap
    <2>2. mapstart \in Int /\ allocend \in Int
      BY <1>0
    <2>3. x \in Int /\ y \in Int /\ z \in Int
      BY <1>0, <2>2
    <2> HIDE DEF x, y, z
    <2>4. /\ m1 \in LinkMap /\ m1.l_entry = m.l_entry /\ m1.l_addr = m.l_addr /\ m1.l_ld = m.l_ld
          /\ m1.l_map_start = x
      BY <2>3 DEF LinkMap
    <2> HIDE DEF m1
    <2>5. /\ m2 \in LinkMap /\ m2.l_entry = m.l_entry /\ m2.l_addr = m.l_addr /\ m2.l_ld = m.l_ld
          /\ m2.l_map_start = x /\ m2.l_map_end = y
      BY <2>3, <2>4 DEF LinkMap
    <2> HIDE DEF m2
    <2>6. /\ q \in LinkMap /\ q.l_entry = m.l_entry /\ q.l_addr = m.l_addr /\ q.l_ld = m.l_ld
          /\ q.l_map_start = x /\ q.l_map_end = y /\ q.l_text_end = z
      BY <2>1, <2>3, <2>5 DEF LinkMap
    <2> QED BY <1>3, <2>6 DEF Notes, x, y, z
  <1>4. CASE h.p_type = "GNU_RELRO"
    <2> DEFINE m1 == [m EXCEPT !.l_relro_addr = h.p_vaddr]
    <2>1. q = [m1 EXCEPT !.l_relro_size = h.p_memsz]
      BY <1>4 DEF WithPhdr, LinkMap
    <2>2. /\ m1 \in LinkMap /\ m1.l_entry = m.l_entry /\ m1.l_addr = m.l_addr /\ m1.l_ld = m.l_ld
          /\ m1.l_map_start = m.l_map_start /\ m1.l_map_end = m.l_map_end
          /\ m1.l_text_end = m.l_text_end
      BY <1>0 DEF LinkMap
    <2> HIDE DEF m1
    <2>3. /\ q \in LinkMap /\ q.l_entry = m.l_entry /\ q.l_addr = m.l_addr /\ q.l_ld = m.l_ld
          /\ q.l_map_start = m.l_map_start /\ q.l_map_end = m.l_map_end
          /\ q.l_text_end = m.l_text_end
      BY <1>0, <2>1, <2>2 DEF LinkMap
    <2> QED BY <1>4, <2>3 DEF Notes
  <1>5. CASE h.p_type \notin {"PHDR", "DYNAMIC", "LOAD", "GNU_RELRO"}
    <2>1. q = m
      BY <1>5 DEF WithPhdr
    <2> QED BY <1>5, <2>1 DEF Notes
  <1> QED BY <1>1, <1>2, <1>3, <1>4, <1>5

(* A remainder is no more than the number. *)
LEMMA RemainderBelow ==
    ASSUME NEW n \in Nat, NEW unit \in Nat \ {0}
    PROVE  n % unit \in 0 .. n
  OBVIOUS

(* One header more: the bounds enclose its segment too. *)
LEMMA EnclosedStep ==
    ASSUME boot' = boot, rtld_map \in LinkMap, NEW n \in Nat \ {0}, Enclosed(n - 1),
           Start(n) \in Int, End(n) \in Int,
           IsLoad(n) => Start(n) < Highest /\ 0 <= End(n),
           rtld_map'.l_map_start = (IF IsLoad(n) /\ rtld_map.l_map_start > Start(n)
                                    THEN Start(n) ELSE rtld_map.l_map_start),
           rtld_map'.l_map_end = (IF IsLoad(n) /\ rtld_map.l_map_end < End(n)
                                  THEN End(n) ELSE rtld_map.l_map_end),
           rtld_map'.l_text_end = (IF IsText(n) /\ End(n) > rtld_map.l_text_end
                                   THEN End(n) ELSE rtld_map.l_text_end),
           \A i \in 1 .. n : Start(i) \in Int /\ End(i) \in Int
    PROVE  Enclosed(n)'
  <1> DEFINE s == rtld_map.l_map_start
             e == rtld_map.l_map_end
             t == rtld_map.l_text_end
  <1>1. s \in Int /\ e \in Int /\ t \in Int
    BY DEF LinkMap
  <1>2. \A i : /\ (IsLoad(i)' <=> IsLoad(i)) /\ (IsText(i)' <=> IsText(i))
               /\ Start(i)' = Start(i) /\ End(i)' = End(i)
    BY DEF IsLoad, IsText, Start, End
  <1>3. n \in 1 .. n /\ \A i \in 1 .. n : i = n \/ i \in 1 .. n - 1
    OBVIOUS
  <1>4. \A i \in 1 .. n - 1 : i \in 1 .. n
    OBVIOUS
  <1>5. /\ \A i \in 1 .. n - 1 : IsLoad(i) => s <= Start(i) /\ End(i) <= e
        /\ \A i \in 1 .. n - 1 : IsText(i) => End(i) <= t
        /\ \/ s = Highest /\ \A i \in 1 .. n - 1 : ~IsLoad(i)
           \/ \E i \in 1 .. n - 1 : IsLoad(i) /\ Start(i) = s
        /\ \/ e = 0 /\ \A i \in 1 .. n - 1 : ~IsLoad(i)
           \/ \E i \in 1 .. n - 1 : IsLoad(i) /\ End(i) = e
        /\ \/ t = 0 /\ \A i \in 1 .. n - 1 : ~IsText(i)
           \/ \E i \in 1 .. n - 1 : IsText(i) /\ End(i) = t
    BY DEF Enclosed
  <1>6. \A i : IsText(i) => IsLoad(i)
    BY DEF IsText
  <1> DEFINE s1 == IF IsLoad(n) /\ s > Start(n) THEN Start(n) ELSE s
             e1 == IF IsLoad(n) /\ e < End(n) THEN End(n) ELSE e
             t1 == IF IsText(n) /\ End(n) > t THEN End(n) ELSE t
  <1>7. rtld_map'.l_map_start = s1 /\ rtld_map'.l_map_end = e1 /\ rtld_map'.l_text_end = t1
    OBVIOUS
  <1> HIDE DEF s, e, t
  <1>8. \A i \in 1 .. n : IsLoad(i) => s1 <= Start(i) /\ End(i) <= e1
    BY <1>1, <1>3, <1>5
  <1>9. \A i \in 1 .. n : IsText(i) => End(i) <= t1
    BY <1>1, <1>3, <1>5
  <1>10. \/ s1 = Highest /\ \A i \in 1 .. n : ~IsLoad(i)
         \/ \E i \in 1 .. n : IsLoad(i) /\ Start(i) = s1
    BY <1>1, <1>3, <1>4, <1>5, Given
  <1>11. \/ e1 = 0 /\ \A i \in 1 .. n : ~IsLoad(i)
         \/ \E i \in 1 .. n : IsLoad(i) /\ End(i) = e1
    BY <1>1, <1>3, <1>4, <1>5
  <1>12. \/ t1 = 0 /\ \A i \in 1 .. n : ~IsText(i)
         \/ \E i \in 1 .. n : IsText(i) /\ End(i) = t1
    BY <1>1, <1>3, <1>4, <1>5, <1>6
  <1> HIDE DEF s1, e1, t1
  <1> QED BY <1>2, <1>7, <1>8, <1>9, <1>10, <1>11, <1>12 DEF Enclosed

(* loader_main reads one header. *)
LEMMA HeaderStep ==
    ASSUME StartupInv, ParsePhdr
    PROVE  StartupInv'
  <1>1. /\ pc = "phdr" /\ boot' = boot /\ stack' = stack /\ pi' = pi /\ pagesize' = pagesize
        /\ ph <= pi.phnum
    BY DEF ParsePhdr
  <1>2. /\ boot \in Boots /\ pi \in ProgramInfo /\ rtld_map \in LinkMap /\ pagesize \in Nat
        /\ StackRead /\ BootRead
        /\ ph \in 1 .. Len(boot.phdrs) + 1 /\ Described(ph - 1)
    BY <1>1 DEF StartupInv, TypeInv, HeadersRead
  <1>3. /\ pi.phdr = boot.bias + boot.phvaddr /\ pi.phnum = Len(boot.phdrs) /\ pagesize = PageSize
    BY <1>1, <1>2 DEF BootRead
  <1>4. /\ Len(boot.phdrs) \in Nat /\ DOMAIN boot.phdrs = 1 .. Len(boot.phdrs)
        /\ boot.bias \in Nat /\ boot.phvaddr \in Nat /\ WellMade(boot)
        /\ boot.mode \in {"interp", "direct"}
    BY <1>2, BootFacts
  <1>5. ph \in 1 .. Len(boot.phdrs) /\ ph \in Nat /\ ph - 1 \in Nat
    BY <1>1, <1>2, <1>3, <1>4
  <1> DEFINE h == boot.phdrs[ph]
  <1>6. h \in Phdr /\ h.p_vaddr \in Nat /\ h.p_memsz \in Nat
    BY <1>2, <1>4, <1>5, BootFacts
  <1>7. PhdrsAt(pi.phdr)[ph] = h
    BY <1>3, <1>4 DEF PhdrsAt, WellMade
  <1>8. BootRead' /\ MainMapped' /\ EntersUnlessMoved'
    <2>1. OwnStart' = OwnStart
      BY <1>1 DEF OwnStart
    <2>2. pc' \in {"phdr", "dead"}
      BY <1>1 DEF ParsePhdr
    <2> QED BY <1>1, <1>2, <2>1, <2>2 DEF BootRead, MainMapped, EntersUnlessMoved
  <1>9. StackRead'
    <2>1. pc' \in {"phdr", "dead"}
      BY <1>1 DEF ParsePhdr
    <2> QED BY <1>1, <1>2, <2>1, StackKept
  <1>10. CASE h.p_type = "TLS"
    <2>1. pc' = "dead" /\ rtld_map' = rtld_map
      BY <1>7, <1>10 DEF ParsePhdr
    <2>2. TypeInv'
      BY <1>1, <1>2, <2>1 DEF TypeInv
    <2>3. HeadersRead'
      BY <2>1 DEF HeadersRead
    <2> QED BY <1>8, <1>9, <2>2, <2>3 DEF StartupInv
  <1>11. CASE h.p_type # "TLS"
    <2>1. pc' = "phdr" /\ ph' = ph + 1 /\ rtld_map' = WithPhdr(rtld_map, h, ph)
      BY <1>1, <1>7, <1>11 DEF ParsePhdr
    <2>2. pagesize \in Nat \ {0}
      BY <1>3, Given
    <2> HIDE DEF h
    <2>3. Notes(rtld_map', rtld_map, h, ph)
      BY ONLY <1>2, <1>5, <1>6, <2>1, <2>2, WithPhdrFacts
    <2>4. TypeInv'
      BY <1>1, <1>2, <2>3 DEF TypeInv, Notes
    <2>5. h.p_type # "PHDR" => rtld_map.l_addr = boot.bias
      BY <1>2, <1>4, <1>5 DEF Described, WellMade, h
    <2>6. rtld_map'.l_addr = boot.bias
      <3>1. CASE h.p_type = "PHDR"
        <4>1. ph = 1 /\ h.p_vaddr = boot.phvaddr
          BY <1>4, <1>5, <3>1 DEF WellMade, h
        <4>2. rtld_map'.l_addr = pi.phdr + (ph - 1) * PhdrSize - h.p_vaddr
          BY <2>3, <3>1 DEF Notes
        <4>3. (ph - 1) * PhdrSize = 0
          BY <4>1, Given
        <4> QED BY <1>3, <1>4, <4>1, <4>2, <4>3
      <3>2. CASE h.p_type # "PHDR"
        BY <2>3, <2>5, <3>2 DEF Notes
      <3> QED BY <3>1, <3>2
    <2>7. /\ h.p_type = "LOAD" <=> IsLoad(ph)
          /\ (h.p_type = "LOAD" /\ "X" \in h.p_flags) <=> IsText(ph)
          /\ Start(ph) = boot.bias + (h.p_vaddr - (h.p_vaddr % pagesize))
          /\ End(ph) = boot.bias + h.p_vaddr + h.p_memsz
          /\ Start(ph) \in Int /\ End(ph) \in Int
          /\ IsLoad(ph) => Start(ph) < Highest /\ 0 <= End(ph)
      <3>1. /\ h.p_type = "LOAD" <=> IsLoad(ph)
            /\ (h.p_type = "LOAD" /\ "X" \in h.p_flags) <=> IsText(ph)
            /\ Start(ph) = boot.bias + (h.p_vaddr - (h.p_vaddr % pagesize))
            /\ End(ph) = boot.bias + h.p_vaddr + h.p_memsz
        BY <1>3 DEF IsLoad, IsText, Start, End, PageDown, h
      <3>2. h.p_vaddr % pagesize \in 0 .. h.p_vaddr
        BY <1>6, <2>2, RemainderBelow
      <3>3. IsLoad(ph) => boot.bias + h.p_vaddr + h.p_memsz < Highest
        BY <1>4, <1>5 DEF WellMade, IsLoad, h
      <3> QED BY <1>4, <1>6, <3>1, <3>2, <3>3, Given
    <2>8. /\ rtld_map'.l_map_start = IF IsLoad(ph) /\ rtld_map.l_map_start > Start(ph)
                                     THEN Start(ph) ELSE rtld_map.l_map_start
          /\ rtld_map'.l_map_end = IF IsLoad(ph) /\ rtld_map.l_map_end < End(ph)
                                   THEN End(ph) ELSE rtld_map.l_map_end
          /\ rtld_map'.l_text_end = IF IsText(ph) /\ End(ph) > rtld_map.l_text_end
                                    THEN End(ph) ELSE rtld_map.l_text_end
      <3>1. IsLoad(ph) => rtld_map.l_addr = boot.bias
        BY <2>5, <2>7
      <3> QED BY <2>3, <2>7, <3>1 DEF Notes, IsText
    <2>9. ASSUME NEW n, n = ph
          PROVE  Enclosed(n)'
      <3>1. \A i \in 1 .. ph : Start(i) \in Int /\ End(i) \in Int
        <4>1. ASSUME NEW i \in 1 .. ph PROVE Start(i) \in Int /\ End(i) \in Int
          <5>1. i \in 1 .. Len(boot.phdrs)
            BY <1>4, <1>5
          <5>2. boot.phdrs[i].p_vaddr \in Nat /\ boot.phdrs[i].p_memsz \in Nat
            BY <1>2, <1>4, <5>1, BootFacts
          <5>3. boot.phdrs[i].p_vaddr % PageSize \in Int
            BY <5>2, Given
          <5> QED BY <1>4, <5>2, <5>3 DEF Start, End, PageDown
        <4> QED BY <4>1
      <3>2. Enclosed(n - 1) /\ n \in Nat \ {0}
        BY <1>2, <1>5, <2>9 DEF Described
      <3>3. /\ \A i \in 1 .. n : Start(i) \in Int /\ End(i) \in Int
            /\ Start(n) \in Int /\ End(n) \in Int
            /\ IsLoad(n) => Start(n) < Highest /\ 0 <= End(n)
        BY <2>7, <2>9, <3>1
      <3>4. /\ rtld_map'.l_map_start = IF IsLoad(n) /\ rtld_map.l_map_start > Start(n)
                                       THEN Start(n) ELSE rtld_map.l_map_start
            /\ rtld_map'.l_map_end = IF IsLoad(n) /\ rtld_map.l_map_end < End(n)
                                     THEN End(n) ELSE rtld_map.l_map_end
            /\ rtld_map'.l_text_end = IF IsText(n) /\ End(n) > rtld_map.l_text_end
                                      THEN End(n) ELSE rtld_map.l_text_end
        BY <2>8, <2>9
      <3> QED BY ONLY <1>1, <1>2, <3>2, <3>3, <3>4, EnclosedStep
    <2>10. ASSUME NEW n, n = ph
           PROVE  Described(n)'
      <3>1. rtld_map'.l_entry = pi.entry
        BY <1>2, <2>3 DEF Notes, Described
      <3>2. ASSUME NEW i \in 1 .. n, boot.phdrs[i].p_type = "DYNAMIC"
            PROVE  rtld_map'.l_ld = boot.bias + boot.phdrs[i].p_vaddr
        <4>1. CASE i = ph
          BY <2>3, <2>5, <3>2, <4>1 DEF Notes, h
        <4>2. CASE i # ph
          <5>1. i \in 1 .. ph - 1 /\ i \in DOMAIN boot.phdrs /\ ph \in DOMAIN boot.phdrs
            BY <1>4, <1>5, <2>10, <4>2
          <5>2. rtld_map.l_ld = boot.bias + boot.phdrs[i].p_vaddr
            BY <1>2, <3>2, <5>1 DEF Described
          <5>3. h.p_type # "DYNAMIC"
            BY <1>4, <3>2, <4>2, <5>1 DEF WellMade, h
          <5> QED BY <2>3, <5>2, <5>3 DEF Notes
        <4> QED BY <4>1, <4>2
      <3>3. Enclosed(n)'
        BY <2>9, <2>10
      <3> QED BY <1>1, <2>6, <3>1, <3>2, <3>3 DEF Described
    <2>11. HeadersRead'
      <3>1. ph + 1 \in 1 .. Len(boot.phdrs) + 1 /\ (ph + 1) - 1 = ph
        BY <1>4, <1>5
      <3>2. ph' \in 1 .. Len(boot.phdrs) + 1 /\ ph' - 1 = ph
        BY <2>1, <3>1
      <3> QED BY <1>1, <2>1, <2>10, <3>2 DEF HeadersRead
    <2> QED BY <1>8, <1>9, <2>4, <2>11 DEF StartupInv
  <1> QED BY <1>10, <1>11

(* Behind the headers: the parts of the invariant that are about them stay. *)
LEMMA AfterHeaders ==
    ASSUME StartupInv, pc \in {"phdr", "link", "entered"}, pc' \in {"link", "entered", "dead"},
           boot' = boot, stack' = stack, pi' = pi, pagesize' = pagesize, rtld_map' = rtld_map,
           ph' = ph, pc = "phdr" => ph > pi.phnum
    PROVE  TypeInv' /\ StackRead' /\ BootRead' /\ HeadersRead'
  <1>1. /\ boot \in Boots /\ pi \in ProgramInfo /\ rtld_map \in LinkMap /\ pagesize \in Nat
        /\ StackRead /\ BootRead /\ ph \in 1 .. Len(boot.phdrs) + 1 /\ Described(ph - 1)
        /\ pc \in {"link", "entered"} => ph = Len(boot.phdrs) + 1
    BY DEF StartupInv, TypeInv, HeadersRead
  <1>2. TypeInv'
    BY <1>1 DEF TypeInv
  <1>3. StackRead'
    BY <1>1, StackKept
  <1>4. BootRead'
    <2>1. OwnStart' = OwnStart
      BY DEF OwnStart
    <2> QED BY <1>1, <2>1 DEF BootRead
  <1>5. ph = Len(boot.phdrs) + 1
    <2>1. pi.phnum = Len(boot.phdrs)
      BY <1>1 DEF BootRead
    <2>2. Len(boot.phdrs) \in Nat
      BY <1>1, BootFacts
    <2> QED BY <1>1, <2>1, <2>2
  <1>6. Described(ph - 1)'
    BY <1>1 DEF Described, Enclosed, IsLoad, IsText, Start, End
  <1> QED BY <1>1, <1>2, <1>3, <1>4, <1>5, <1>6 DEF HeadersRead

(* The program is mapped, or is there already, or there is none. *)
LEMMA LinkStep ==
    ASSUME StartupInv, (\E main \in Mains : MapMain(main)) \/ NoArgument \/ MainProgram
    PROVE  StartupInv'
  <1>1. /\ pc = "phdr" /\ pc' \in {"link", "dead"} /\ ph > pi.phnum
        /\ boot' = boot /\ stack' = stack /\ pi' = pi /\ pagesize' = pagesize
        /\ rtld_map' = rtld_map /\ ph' = ph
    BY DEF MapMain, NoArgument, MainProgram
  <1>2. TypeInv' /\ StackRead' /\ BootRead' /\ HeadersRead'
    BY <1>1, AfterHeaders
  <1>3. EntersUnlessMoved'
    BY <1>1 DEF EntersUnlessMoved
  <1>4. MainMapped'
    <2>1. pi.entry = OwnStart <=> boot.mode = "direct"
      BY <1>1 DEF StartupInv, BootRead
    <2>2. CASE \E main \in Mains : MapMain(main)
      BY <2>2 DEF MapMain, MainMapped
    <2>3. CASE NoArgument
      BY <2>3 DEF NoArgument, MainMapped
    <2>4. CASE MainProgram
      BY <1>1, <2>1, <2>4 DEF MainProgram, MainMapped
    <2> QED BY <2>2, <2>3, <2>4
  <1> QED BY <1>2, <1>3, <1>4 DEF StartupInv

(* The jump to the entry point. *)
LEMMA EnterStep ==
    ASSUME StartupInv, Enter
    PROVE  StartupInv'
  <1>1. /\ pc = "link" /\ pc' = "entered"
        /\ boot' = boot /\ stack' = stack /\ pi' = pi /\ pagesize' = pagesize
        /\ rtld_map' = rtld_map /\ ph' = ph /\ main_map' = main_map
        /\ entry' = IF pi.entry = OwnStart THEN main_map.l_addr + main_map.l_entry
                                           ELSE rtld_map.l_addr + rtld_map.l_entry
    BY DEF Enter
  <1>2. TypeInv' /\ StackRead' /\ BootRead' /\ HeadersRead'
    BY <1>1, AfterHeaders
  <1>3. MainMapped'
    BY <1>1 DEF StartupInv, MainMapped
  <1>4. EntersUnlessMoved'
    <2>1. /\ pi.entry = OwnStart <=> boot.mode = "direct"
          /\ pi.entry = boot.bias + boot.e_entry
      BY <1>1 DEF StartupInv, BootRead
    <2>2. CASE boot.mode = "direct"
      <3>1. PICK main \in Mains : main_map = [l_addr |-> main.l_addr, l_entry |-> main.e_entry]
        BY <1>1, <2>2 DEF StartupInv, MainMapped
      <3>2. main.l_addr = main_map.l_addr /\ entry' = main.l_addr + main.e_entry
        BY <1>1, <2>1, <2>2, <3>1
      <3> QED BY <1>1, <2>2, <3>2 DEF EntersUnlessMoved
    <2>3. CASE boot.mode # "direct" /\ boot.bias = 0
      <3>1. boot \in Boots /\ Described(ph - 1)
        BY <1>1 DEF StartupInv, TypeInv, HeadersRead
      <3>2. boot.e_entry \in Nat
        BY <3>1, BootFacts
      <3>3. rtld_map.l_entry = boot.e_entry /\ rtld_map.l_addr = 0
        BY <2>1, <2>3, <3>1, <3>2 DEF Described
      <3>4. entry' = boot.e_entry
        BY <1>1, <2>1, <2>3, <3>2, <3>3
      <3> QED BY <1>1, <2>3, <3>4 DEF EntersUnlessMoved
    <2> QED BY <1>1, <2>2, <2>3 DEF EntersUnlessMoved
  <1> QED BY <1>2, <1>3, <1>4 DEF StartupInv

(* Every step keeps the invariant. *)
LEMMA StepStart == StartupInv /\ [Next]_vars => StartupInv'
  <1> SUFFICES ASSUME StartupInv, [Next]_vars PROVE StartupInv'
    OBVIOUS
  <1>1. CASE parse_params
    BY <1>1, ParamsStep
  <1>2. CASE parse_auxv
    BY <1>2, AuxStep
  <1>3. CASE loader_main
    BY <1>3, MainStep
  <1>4. CASE ParsePhdr
    BY <1>4, HeaderStep
  <1>5. CASE (\E main \in Mains : MapMain(main)) \/ NoArgument \/ MainProgram
    BY <1>5, LinkStep
  <1>6. CASE Enter
    BY <1>6, EnterStep
  <1>7. CASE UNCHANGED vars
    <2>1. /\ boot' = boot /\ stack' = stack /\ pc' = pc /\ auxv' = auxv /\ pi' = pi
          /\ pagesize' = pagesize /\ ph' = ph /\ rtld_map' = rtld_map
          /\ main_map' = main_map /\ entry' = entry
      BY <1>7 DEF vars
    <2>2. TypeInv' /\ StackRead'
      <3>1. PICK argc, envc, order :
                Laid(stack, boot, argc, envc, order) /\ Reading(argc, envc, order)
        BY DEF StartupInv, StackRead
      <3>2. Laid(stack, boot, argc, envc, order)'
        BY <2>1, <3>1 DEF Laid
      <3>3. \A k : Read(order, k)' <=> Read(order, k)
        BY <2>1 DEF Read, OwnStart
      <3>4. Reading(argc, envc, order)'
        BY <2>1, <3>1, <3>3 DEF Reading
      <3>5. TypeInv'
        BY <2>1 DEF StartupInv, TypeInv
      <3> QED BY <3>2, <3>4, <3>5 DEF StackRead
    <2>3. BootRead' /\ MainMapped' /\ EntersUnlessMoved'
      BY <2>1 DEF StartupInv, BootRead, MainMapped, EntersUnlessMoved, OwnStart
    <2>4. HeadersRead'
      BY <2>1 DEF StartupInv, HeadersRead, Described, Enclosed, IsLoad, IsText, Start, End
    <2> QED BY <2>2, <2>3, <2>4 DEF StartupInv
  <1> QED BY <1>1, <1>2, <1>3, <1>4, <1>5, <1>6, <1>7 DEF Next, Finished

(***************************************************************************)
(* The invariant holds throughout.                                         *)
(***************************************************************************)
THEOREM WordForWord == Spec => []StartupInv
  <1> QED BY InitStart, StepStart, PTL DEF Spec

(***************************************************************************)
(* parse_params and parse_auxv find the object the kernel has mapped, for  *)
(* any number of arguments and environment strings and any order of the    *)
(* auxiliary vector, the vDSO's entry first or last.                       *)
(***************************************************************************)
THEOREM StackUnderstood == Spec => []BootRead
  <1>1. StartupInv => BootRead
    BY DEF StartupInv
  <1> QED BY <1>1, WordForWord, PTL

(***************************************************************************)
(* The link map loader_main makes from the program headers describes the   *)
(* object in memory: address, dynamic section and bounds.                  *)
(***************************************************************************)
THEOREM ObjectFound == Spec => []ObjectDescribed
  <1>1. StartupInv => ObjectDescribed
    <2> SUFFICES ASSUME StartupInv, HeadersDone PROVE ObjectDescribed
      BY DEF ObjectDescribed
    <2>1. boot \in Boots /\ ph = Len(boot.phdrs) + 1 /\ Described(ph - 1)
      BY DEF StartupInv, TypeInv, HeadersRead, HeadersDone
    <2>2. /\ Len(boot.phdrs) \in Nat \ {0} /\ DOMAIN boot.phdrs = 1 .. Len(boot.phdrs)
          /\ WellMade(boot)
      BY <2>1, BootFacts
    <2> DEFINE n == Len(boot.phdrs)
    <2>3. Described(n)
      BY <2>1, <2>2
    <2>4. n >= 1 /\ DOMAIN boot.phdrs = 1 .. n
      BY <2>2
    <2>5. \E i \in 1 .. n : IsText(i)
      BY <2>2 DEF WellMade, IsText, IsLoad
    <2> HIDE DEF n
    <2>6. /\ rtld_map.l_addr = boot.bias
          /\ \A i \in DOMAIN boot.phdrs :
                boot.phdrs[i].p_type = "DYNAMIC" =>
                    rtld_map.l_ld = boot.bias + boot.phdrs[i].p_vaddr
      BY <2>3, <2>4 DEF Described
    <2>7. Enclosed(n)
      BY <2>3 DEF Described
    <2>8. \A i \in 1 .. n : IsLoad(i) => Start(i) >= rtld_map.l_map_start /\ End(i) <= rtld_map.l_map_end
      BY <2>7 DEF Enclosed
    <2>9. \A i \in 1 .. n : IsText(i) => End(i) <= rtld_map.l_text_end
      BY <2>7 DEF Enclosed
    <2>10. PICK i \in 1 .. n : IsLoad(i) /\ Start(i) = rtld_map.l_map_start
      BY <2>5, <2>7 DEF Enclosed, IsText
    <2>11. PICK j \in 1 .. n : IsLoad(j) /\ End(j) = rtld_map.l_map_end
      BY <2>5, <2>7 DEF Enclosed, IsText
    <2>12. PICK k \in 1 .. n : IsText(k) /\ End(k) = rtld_map.l_text_end
      BY <2>5, <2>7 DEF Enclosed
    <2> QED BY <2>4, <2>6, <2>8, <2>9, <2>10, <2>11, <2>12
            DEF ObjectDescribed, IsLoad, IsText, Start, End
  <1> QED BY <1>1, WordForWord, PTL

(***************************************************************************)
(* _start jumps to the entry point of a program that is run by hand, and   *)
(* of one that the kernel has left where it was linked to lie.             *)
(***************************************************************************)
THEOREM EntryReached == Spec => []EntersUnlessMoved
  <1>1. StartupInv => EntersUnlessMoved
    BY DEF StartupInv
  <1> QED BY <1>1, WordForWord, PTL
=============================================================================
