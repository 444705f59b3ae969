---------------------------- MODULE CrackProofs -----------------------------
(***************************************************************************)
(* Proofs about Crack, for every size of the headers and of the new        *)
(* segment and every executable file.                                      *)
(*                                                                         *)
(* The invariant follows the steps of crack: at each of them it adds what  *)
(* the step has written and keeps what no later step writes over.          *)
(***************************************************************************)
EXTENDS Crack, WellFoundedInduction, TLAPS

(* A set of numbers has a smallest ... *)
LEMMA LeastNat ==
    ASSUME NEW T, T \subseteq Nat, T # {}
    PROVE  \E x \in T : \A y \in T : x <= y
  <1>1. PICK x \in T : \A y \in T : ~(<<y, x>> \in OpToRel(<, Nat))
    BY NatLessThanWellFounded, WFMin
  <1>2. \A y \in T : ~(y < x)
    BY <1>1 DEF OpToRel
  <1> QED BY <1>2

(* ... and, if there is a bound, a largest one. *)
LEMMA LargestNat ==
    ASSUME NEW S, S \subseteq Nat, S # {}, NEW b \in Nat, \A s \in S : s <= b
    PROVE  Largest(S) \in S /\ \A s \in S : s <= Largest(S)
  <1> DEFINE T == {n \in Nat : b - n \in S}
  <1>1. T # {}
    <2>1. PICK s \in S : TRUE
      OBVIOUS
    <2>2. b - s \in Nat /\ b - (b - s) = s
      BY <2>1
    <2> QED BY <2>1, <2>2
  <1>2. PICK x \in T : \A y \in T : x <= y
    BY <1>1, LeastNat
  <1>3. b - x \in S
    BY <1>2
  <1>4. ASSUME NEW s \in S PROVE s <= b - x
    <2>1. b - s \in Nat /\ b - (b - s) = s
      OBVIOUS
    <2>2. b - s \in T
      BY <2>1
    <2> QED BY <1>2, <2>1, <2>2
  <1> QED BY <1>3, <1>4 DEF Largest

(* The numbers in a table have a bound. *)
LEMMA BoundedTable ==
    ASSUME NEW n \in Nat, NEW f \in [1 .. n -> Nat]
    PROVE  \E b \in Nat : \A i \in 1 .. n : f[i] <= b
  <1> DEFINE Bounds(b, k) == \A i \in 1 .. k : f[i] <= b
             Bad == {k \in 0 .. n : ~\E b \in Nat : Bounds(b, k)}
  <1>1. ASSUME Bad # {} PROVE FALSE
    <2>1. Bad \subseteq Nat
      OBVIOUS
    <2>2. PICK k \in Bad : \A j \in Bad : k <= j
      <3> HIDE DEF Bad
      <3> QED BY <1>1, <2>1, LeastNat
    <2>3. Bounds(0, 0)
      OBVIOUS
    <2>4. k \in 0 .. n /\ ~\E b \in Nat : Bounds(b, k)
      BY <2>2
    <2>5. k # 0
      <3> HIDE DEF Bounds
      <3> QED BY <2>3, <2>4
    <2>6. k - 1 \in 0 .. n /\ k \in 1 .. n /\ ~(k <= k - 1)
      BY <2>4, <2>5
    <2>7. PICK b \in Nat : Bounds(b, k - 1)
      <3> HIDE DEF Bounds
      <3> QED BY <2>2, <2>6
    <2>8. f[k] \in Nat
      BY <2>6
    <2>9. b + f[k] \in Nat /\ Bounds(b + f[k], k)
      <3>1. ASSUME NEW i \in 1 .. k PROVE f[i] <= b + f[k]
        <4>1. f[i] \in Nat
          BY <2>6
        <4>2. i \in 1 .. k - 1 \/ i = k
          BY <2>6
        <4> QED BY <2>7, <2>8, <4>1, <4>2
      <3> QED BY <2>7, <2>8, <3>1
    <2> HIDE DEF Bounds
    <2> QED BY <2>4, <2>9
  <1> HIDE DEF Bounds
  <1>2. n \in 0 .. n
    OBVIOUS
  <1>3. \E b \in Nat : Bounds(b, n)
    BY <1>1, <1>2
  <1> QED BY <1>3 DEF Bounds

-----------------------------------------------------------------------------

(* The sizes, and what an input file is. *)
LEMMA Sizes ==
    /\ EhdrSize \in Nat \ {0} /\ e_phentsize \in Nat \ {0} /\ e_shentsize \in Nat \ {0}
    /\ SegmentSize \in Nat \ {0} /\ MessageSize \in Nat \ {0} /\ Gap \in Nat \ {0}
    /\ PageSize \in Nat \ {0} /\ Align \in Nat \ {0} /\ Half \in Nat \ {0}
    /\ MessageSize < SegmentSize /\ EhdrSize <= Gap
    /\ Align % PageSize = 0
  BY CrackAssumption

(* The fields of a file are numbers. *)
LEMMA FileFacts ==
    ASSUME NEW f \in Files
    PROVE  /\ f.phdrs \in Seq(Phdr) /\ f.shdrs \in Seq(Shdr)
           /\ Len(f.phdrs) \in Nat /\ DOMAIN f.phdrs = 1 .. Len(f.phdrs)
           /\ Len(f.shdrs) \in Nat /\ DOMAIN f.shdrs = 1 .. Len(f.shdrs)
           /\ f.size \in Nat /\ f.e_entry \in Nat /\ f.e_phoff \in Nat /\ f.e_shoff \in Nat
           /\ \A i \in DOMAIN f.phdrs :
                 /\ f.phdrs[i] \in Phdr
                 /\ f.phdrs[i].p_offset \in Nat /\ f.phdrs[i].p_filesz \in Nat
                 /\ f.phdrs[i].p_vaddr \in Nat /\ f.phdrs[i].p_memsz \in Nat
           /\ \A i \in DOMAIN f.shdrs : f.shdrs[i].sh_offset \in Nat /\ f.shdrs[i].sh_size \in Nat
  <1>1. /\ f.phdrs \in Seq(Phdr) /\ f.shdrs \in Seq(Shdr)
        /\ f.size \in Nat /\ f.e_entry \in Nat /\ f.e_phoff \in Nat /\ f.e_shoff \in Nat
    BY CrackAssumption DEF IsFile
  <1>2. /\ Len(f.phdrs) \in Nat /\ DOMAIN f.phdrs = 1 .. Len(f.phdrs)
        /\ Len(f.shdrs) \in Nat /\ DOMAIN f.shdrs = 1 .. Len(f.shdrs)
    BY <1>1
  <1>3. \A i \in DOMAIN f.phdrs : f.phdrs[i] \in Phdr
    BY <1>1, <1>2
  <1>4. \A i \in DOMAIN f.shdrs : f.shdrs[i] \in Shdr
    BY <1>1, <1>2
  <1> QED BY <1>1, <1>2, <1>3, <1>4 DEF Phdr, Shdr

(* The next multiple is further on, and is one. *)
LEMMA NextMultipleFacts ==
    ASSUME NEW n \in Nat, NEW unit \in Nat \ {0}
    PROVE  /\ NextMultiple(n, unit) \in Nat /\ n < NextMultiple(n, unit)
           /\ unit <= NextMultiple(n, unit)
           /\ NextMultiple(n, unit) % unit = 0
           /\ \E q \in Nat : NextMultiple(n, unit) = q * unit
  <1>1. /\ n \div unit \in Nat /\ n % unit \in 0 .. unit - 1
        /\ n = unit * (n \div unit) + (n % unit)
    OBVIOUS
  <1> DEFINE q == (n \div unit) + 1
             p == unit * (n \div unit)
  <1>2. NextMultiple(n, unit) = n + unit - (n % unit)
    BY DEF NextMultiple
  <1>3. p \in Nat
    BY <1>1
  <1>4. q * unit = p + unit /\ q \in Nat
    BY <1>1
  <1>5. NextMultiple(n, unit) = p + unit /\ n = p + (n % unit)
    <2> HIDE DEF p
    <2> QED BY <1>1, <1>2, <1>3 DEF p
  <1>6. (q * unit) % unit = 0
    BY <1>4
  <1> HIDE DEF p, q
  <1> QED BY <1>1, <1>3, <1>4, <1>5, <1>6

(* add_new_segment finds the end of the contents of the file and of its image in memory. *)
LEMMA EndsFacts ==
    ASSUME file \in Files, phdrs = file.phdrs
    PROVE  /\ new_offset \in Nat /\ new_addr \in Nat
           /\ \A i \in DOMAIN file.phdrs :
                 /\ file.phdrs[i].p_offset + file.phdrs[i].p_filesz <= new_offset
                 /\ file.phdrs[i].p_vaddr + file.phdrs[i].p_memsz <= new_addr
           /\ \A i \in DOMAIN file.shdrs :
                 file.shdrs[i].sh_offset + file.shdrs[i].sh_size <= new_offset
  <1> DEFINE n == Len(file.phdrs)
             m == Len(file.shdrs)
             ends  == [i \in 1 .. n |-> file.phdrs[i].p_offset + file.phdrs[i].p_filesz]
             tops  == [i \in 1 .. n |-> file.phdrs[i].p_vaddr + file.phdrs[i].p_memsz]
             sects == [i \in 1 .. m |-> file.shdrs[i].sh_offset + file.shdrs[i].sh_size]
             Offs  == {0} \cup {phdrs[i].p_offset + phdrs[i].p_filesz : i \in DOMAIN phdrs}
                          \cup {file.shdrs[i].sh_offset + file.shdrs[i].sh_size : i \in DOMAIN file.shdrs}
             Addrs == {0} \cup {phdrs[i].p_vaddr + phdrs[i].p_memsz : i \in DOMAIN phdrs}
  <1>1. /\ n \in Nat /\ DOMAIN file.phdrs = 1 .. n /\ m \in Nat /\ DOMAIN file.shdrs = 1 .. m
        /\ ends \in [1 .. n -> Nat] /\ tops \in [1 .. n -> Nat] /\ sects \in [1 .. m -> Nat]
    <2>1. n \in Nat /\ DOMAIN file.phdrs = 1 .. n /\ m \in Nat /\ DOMAIN file.shdrs = 1 .. m
      BY FileFacts
    <2>0. ASSUME NEW a \in Nat, NEW b \in Nat PROVE a + b \in Nat
      OBVIOUS
    <2>2. ASSUME NEW i \in 1 .. n
          PROVE  /\ file.phdrs[i].p_offset + file.phdrs[i].p_filesz \in Nat
                 /\ file.phdrs[i].p_vaddr + file.phdrs[i].p_memsz \in Nat
      <3>1. /\ file.phdrs[i].p_offset \in Nat /\ file.phdrs[i].p_filesz \in Nat
            /\ file.phdrs[i].p_vaddr \in Nat /\ file.phdrs[i].p_memsz \in Nat
        BY <2>1, FileFacts
      <3> QED BY ONLY <2>0, <3>1, Zenon
    <2>3. ASSUME NEW i \in 1 .. m
          PROVE  file.shdrs[i].sh_offset + file.shdrs[i].sh_size \in Nat
      <3>1. file.shdrs[i].sh_offset \in Nat /\ file.shdrs[i].sh_size \in Nat
        BY <2>1, FileFacts
      <3> QED BY ONLY <2>0, <3>1, Zenon
    <2> QED BY ONLY <2>1, <2>2, <2>3
  <1>2. /\ \A i \in DOMAIN file.phdrs : ends[i] = file.phdrs[i].p_offset + file.phdrs[i].p_filesz
        /\ \A i \in DOMAIN file.phdrs : tops[i] = file.phdrs[i].p_vaddr + file.phdrs[i].p_memsz
        /\ \A i \in DOMAIN file.shdrs : sects[i] = file.shdrs[i].sh_offset + file.shdrs[i].sh_size
    BY <1>1
  <1>3. Offs = {0} \cup {ends[i] : i \in 1 .. n} \cup {sects[i] : i \in 1 .. m}
    BY <1>1, <1>2, ZenonT(30)
  <1>4. Addrs = {0} \cup {tops[i] : i \in 1 .. n}
    BY <1>1, <1>2
  <1>5. new_offset = Largest(Offs) /\ new_addr = Largest(Addrs)
    BY DEF new_offset, new_addr
  <1> HIDE DEF ends, tops, sects, Offs, Addrs, n, m
  <1>6. PICK a \in Nat : \A i \in 1 .. n : ends[i] <= a
    BY <1>1, BoundedTable
  <1>7. PICK b \in Nat : \A i \in 1 .. m : sects[i] <= b
    BY <1>1, BoundedTable
  <1>8. PICK c \in Nat : \A i \in 1 .. n : tops[i] <= c
    BY <1>1, BoundedTable
  <1>9. /\ Offs \subseteq Nat /\ Offs # {} /\ a + b \in Nat /\ \A s \in Offs : s <= a + b
        /\ Addrs \subseteq Nat /\ Addrs # {} /\ \A s \in Addrs : s <= c
    <2>1. Offs \subseteq Nat /\ Offs # {} /\ Addrs \subseteq Nat /\ Addrs # {} /\ a + b \in Nat
      BY <1>1, <1>3, <1>4, <1>6, <1>7
    <2>2. ASSUME NEW s \in Offs PROVE s <= a + b
      <3>1. s = 0 \/ s <= a \/ s <= b
        BY <1>3, <1>6, <1>7
      <3>2. s \in Nat
        BY <2>1
      <3> QED BY <1>6, <1>7, <3>1, <3>2
    <2>3. \A s \in Addrs : s <= c
      BY <1>4, <1>8
    <2> QED BY <2>1, <2>2, <2>3
  <1>10. /\ new_offset \in Offs /\ \A s \in Offs : s <= new_offset
         /\ new_addr \in Addrs /\ \A s \in Addrs : s <= new_addr
    BY <1>5, <1>8, <1>9, LargestNat
  <1>11. new_offset \in Nat /\ new_addr \in Nat
    BY <1>9, <1>10
  <1>12. /\ \A i \in 1 .. n : ends[i] <= new_offset /\ tops[i] <= new_addr
         /\ \A i \in 1 .. m : sects[i] <= new_offset
    BY <1>3, <1>4, <1>10
  <1> QED BY <1>1, <1>2, <1>11, <1>12

-----------------------------------------------------------------------------
(***************************************************************************)
(* How far crack has come.  Nothing is claimed of a process that has       *)
(* failed.                                                                 *)
(***************************************************************************)
Stage ==
    CASE pc = "startup"         -> 0
      [] pc = "add_new_segment" -> 1
      [] pc = "do_crack"        -> 2
      [] pc = "create_exe"      -> 3
      [] pc = "dump_elf"        -> 4
      [] pc = "copy old"        -> 5
      [] pc = "newseg"          -> 6
      [] pc = "new EHDR"        -> 7
      [] pc = "move SHDR"       -> 8
      [] pc = "move PHDR"       -> 9
      [] pc = "newseg's PHDR"   -> 10
      [] OTHER                  -> IF Complete THEN 11 ELSE -1

(* The size of the old table of program headers, and the places in the new file. *)
PhdrSize  == e_phentsize * Len(file.phdrs)
ShdrAt    == newseg.p_offset + SegmentSize
PhdrAt    == ShdrAt + ShdrSize
NewPhdrAt == PhdrAt + PhdrSize
TablesEnd == NewPhdrAt + e_phentsize

(* The new segment is behind all that is in the file, and behind all that is in memory. *)
Placed ==
    /\ newseg \in Phdr
    /\ EhdrSize <= newseg.p_offset
    /\ \A o \in Nat : InUse(o) => o < newseg.p_offset
    /\ \E q \in Nat :
          /\ newseg.p_vaddr = q * Align + newseg.p_offset
          /\ \A i \in DOMAIN file.phdrs : file.phdrs[i].p_vaddr + file.phdrs[i].p_memsz < q * Align

Chained ==
    /\ ehdr.e_entry = newseg.p_vaddr
    /\ code = [start   |-> Operand(file.e_entry),
               message |-> Operand(newseg.p_vaddr + SegmentSize - MessageSize)]

(* The headers in the private mapping, as dump_elf leaves them. *)
Headed ==
    /\ ehdr.e_shoff = ShdrAt /\ ehdr.e_phoff = PhdrAt
    /\ DOMAIN phdrs = DOMAIN file.phdrs
    /\ \A i \in DOMAIN file.phdrs :
          /\ phdrs[i].p_type = file.phdrs[i].p_type
          /\ phdrs[i].p_type = "LOAD" => phdrs[i] = file.phdrs[i]
          /\ phdrs[i].p_type = "PHDR" =>
                phdrs[i].p_vaddr = newseg.p_vaddr - newseg.p_offset + (PhdrAt % Align)

(* Bytes of the new file. *)
Holds(start, size, mem, k) ==
    \A i \in 0 .. size - 1 : start + i \in DOMAIN out /\ out[start + i] = <<mem, k + i>>
OldKept == \A o \in DOMAIN out : (o < newseg.p_offset /\ o < file.size) => out[o] = <<"old", o>>
(* The bytes from behind the new segment in memory, if any, are in the tables' places. *)
HeapFrom(start) ==
    \A o \in DOMAIN out : out[o] = <<"heap", 0>> => start <= o /\ o < TablesEnd

EhdrType == [e_entry : Nat, e_phoff : Nat, e_phnum : Nat, e_shoff : Nat]

(* What has been written to the file of the headers. *)
Results ==
    /\ DOMAIN result = {"ehdr", "phdrs", "newseg"}
    /\ Stage < 11 => result.newseg = <<>>
    /\ Stage >= 6 => result.ehdr = ehdr
    /\ Stage >= 10 => result.phdrs = phdrs
    /\ Stage >= 11 => result.newseg = newseg

(* The new segment's size: it grows when it is copied. *)
Grown ==
    /\ Stage \in 2 .. 6 => newseg.p_filesz = SegmentSize
    /\ Stage >= 7 => newseg.p_filesz = SegmentSize + ShdrSize + PhdrSize + e_phentsize

Fields ==
    /\ file \in Files
    /\ ehdr \in EhdrType
    /\ Stage \in 0 .. 4 => phdrs = file.phdrs
    /\ Stage \in 0 .. 2 => ehdr.e_entry = file.e_entry
    /\ Stage \in 0 .. 1 => ehdr.e_phnum = Len(file.phdrs)
    /\ Stage >= 2 => Placed /\ ehdr.e_phnum = Len(file.phdrs) + 1
    /\ Stage >= 3 => Chained
    /\ Stage >= 5 => Headed
    /\ Grown
    /\ Results

Contents ==
    /\ Stage >= 4 => DOMAIN out = 0 .. TablesEnd + e_shentsize - 1
    /\ Stage \in 4 .. 6 => \A o \in DOMAIN out : out[o] # <<"heap", 0>>
    /\ Stage >= 6 => OldKept
    /\ Stage >= 7 => Holds(newseg.p_offset, SegmentSize, "seg", 0)
    /\ Stage \in 7 .. 8 => HeapFrom(ShdrAt)
    /\ Stage >= 9 => Holds(ShdrAt, ShdrSize, "old", file.e_shoff)
    /\ Stage = 9 => HeapFrom(PhdrAt)
    /\ Stage >= 10 => Holds(PhdrAt, PhdrSize, "old", file.e_phoff)
    /\ Stage = 10 => HeapFrom(NewPhdrAt)
    /\ Stage >= 11 => Holds(NewPhdrAt, e_phentsize, "phdr", 0) /\ HeapFrom(TablesEnd)

CrackInv == Fields /\ Contents

-----------------------------------------------------------------------------

(* The stage is told by pc ... *)
Staged ==
    /\ (pc = "startup" => Stage = 0) /\ (pc = "add_new_segment" => Stage = 1)
    /\ (pc = "do_crack" => Stage = 2) /\ (pc = "create_exe" => Stage = 3)
    /\ (pc = "dump_elf" => Stage = 4) /\ (pc = "copy old" => Stage = 5)
    /\ (pc = "newseg" => Stage = 6) /\ (pc = "new EHDR" => Stage = 7)
    /\ (pc = "move SHDR" => Stage = 8) /\ (pc = "move PHDR" => Stage = 9)
    /\ (pc = "newseg's PHDR" => Stage = 10)
    /\ (pc \in {"done", "exited", "killed", "overrun"} => Stage = IF Complete THEN 11 ELSE -1)
    /\ Stage \in -1 .. 11

(* ... before a step and after it. *)
LEMMA StageOf == Staged /\ Staged'
  <1>1. /\ (pc = "startup" => Stage = 0) /\ (pc = "add_new_segment" => Stage = 1)
        /\ (pc = "do_crack" => Stage = 2) /\ (pc = "create_exe" => Stage = 3)
        /\ (pc = "dump_elf" => Stage = 4) /\ (pc = "copy old" => Stage = 5)
    BY DEF Stage
  <1>2. /\ (pc = "newseg" => Stage = 6) /\ (pc = "new EHDR" => Stage = 7)
        /\ (pc = "move SHDR" => Stage = 8) /\ (pc = "move PHDR" => Stage = 9)
        /\ (pc = "newseg's PHDR" => Stage = 10)
    BY DEF Stage
  <1>3. pc \in {"done", "exited", "killed", "overrun"} => Stage = IF Complete THEN 11 ELSE -1
    BY DEF Stage
  <1>4. Stage \in -1 .. 11
    BY DEF Stage
  <1>5. Staged
    BY <1>1, <1>2, <1>3, <1>4 DEF Staged
  <1> QED BY <1>5, PTL

(* What a file is made of does not change. *)
LEMMA SameFile ==
    ASSUME file' = file
    PROVE  /\ ShdrSize' = ShdrSize /\ PhdrSize' = PhdrSize
           /\ \A o : InUse(o)' <=> InUse(o)
  BY DEF ShdrSize, PhdrSize, InUse, Covers

(* Nor do the places in the new file, once the segment has its own. *)
LEMMA SamePlaces ==
    ASSUME file' = file, newseg'.p_offset = newseg.p_offset
    PROVE  /\ ShdrAt' = ShdrAt /\ PhdrAt' = PhdrAt /\ NewPhdrAt' = NewPhdrAt
           /\ TablesEnd' = TablesEnd
  BY SameFile DEF ShdrAt, PhdrAt, NewPhdrAt, TablesEnd

(* The places are numbers, one behind the other. *)
LEMMA PlaceFacts ==
    ASSUME file \in Files, newseg \in Phdr
    PROVE  /\ newseg.p_offset \in Nat /\ newseg.p_vaddr \in Nat /\ newseg.p_filesz \in Nat
           /\ ShdrSize \in Nat /\ PhdrSize \in Nat
           /\ ShdrAt \in Nat /\ PhdrAt \in Nat /\ NewPhdrAt \in Nat /\ TablesEnd \in Nat
           /\ ShdrAt = newseg.p_offset + SegmentSize /\ PhdrAt = ShdrAt + ShdrSize
           /\ NewPhdrAt = PhdrAt + PhdrSize /\ TablesEnd = NewPhdrAt + e_phentsize
           /\ e_phentsize * (Len(file.phdrs) + 1) = PhdrSize + e_phentsize
           /\ e_phentsize * ((Len(file.phdrs) + 1) - 1) = PhdrSize
  <1>1. newseg.p_offset \in Nat /\ newseg.p_vaddr \in Nat /\ newseg.p_filesz \in Nat
    BY DEF Phdr
  <1>2. Len(file.phdrs) \in Nat /\ Len(file.shdrs) \in Nat
    BY FileFacts
  <1>3. ShdrSize \in Nat /\ PhdrSize \in Nat
    BY <1>2, Sizes DEF ShdrSize, PhdrSize
  <1>4. /\ e_phentsize * (Len(file.phdrs) + 1) = PhdrSize + e_phentsize
        /\ e_phentsize * ((Len(file.phdrs) + 1) - 1) = PhdrSize
    BY <1>2, Sizes DEF PhdrSize
  <1>5. /\ ShdrAt \in Nat /\ PhdrAt \in Nat /\ NewPhdrAt \in Nat /\ TablesEnd \in Nat
    BY <1>1, <1>3, Sizes DEF ShdrAt, PhdrAt, NewPhdrAt, TablesEnd
  <1> QED BY <1>1, <1>3, <1>4, <1>5 DEF ShdrAt, PhdrAt, NewPhdrAt, TablesEnd

(* A failure leaves no complete file behind. *)
LEMMA Failed ==
    ASSUME CrackInv, Stage < 11, pc' \in {"done", "exited", "killed", "overrun"},
           file' = file, ehdr' = ehdr, result' = result
    PROVE  CrackInv'
  <1>1. result.newseg = <<>>
    BY DEF CrackInv, Fields, Results, Grown
  <1>2. Stage' = -1
    BY <1>1, StageOf DEF Staged, Complete
  <1> QED BY <1>1, <1>2 DEF CrackInv, Fields, Results, Grown, Contents

(* startup, and the file as it is at first. *)
LEMMA StartupStep ==
    ASSUME CrackInv, startup
    PROVE  CrackInv'
  <1>1. CASE pc' = "exited"
    BY <1>1, StageOf, Failed DEF Staged, startup
  <1>2. CASE pc' = "add_new_segment"
    <2>1. Stage = 0 /\ Stage' = 1 /\ UNCHANGED <<file, ehdr, phdrs, newseg, code, out, result>>
      BY <1>2, StageOf DEF Staged, startup
    <2> QED BY <2>1 DEF CrackInv, Fields, Results, Grown, Contents
  <1> QED BY <1>1, <1>2 DEF startup

(* The place of the new segment. *)
LEMMA AddSegmentStep ==
    ASSUME CrackInv, add_new_segment
    PROVE  CrackInv'
  <1>1. CASE pc' = "exited" /\ UNCHANGED <<newseg, ehdr>>
    BY <1>1, StageOf, Failed DEF Staged, add_new_segment
  <1>2. CASE /\ newseg' = [p_type |-> "LOAD",
                           p_offset |-> NextMultiple(new_offset, Gap),
                           p_vaddr  |-> new_vaddr,
                           p_filesz |-> SegmentSize,
                           p_memsz  |-> SegmentSize]
             /\ ehdr' = [ehdr EXCEPT !.e_phnum = @ + 1]
             /\ pc' = "do_crack"
    <2>1. /\ Stage = 1 /\ Stage' = 2 /\ UNCHANGED <<file, phdrs, code, out, result>>
      BY <1>2, StageOf DEF Staged, add_new_segment
    <2>2. /\ file \in Files /\ phdrs = file.phdrs /\ ehdr \in EhdrType
          /\ ehdr.e_phnum = Len(file.phdrs) /\ ehdr.e_entry = file.e_entry
          /\ DOMAIN result = {"ehdr", "phdrs", "newseg"} /\ result.newseg = <<>>
      BY <2>1 DEF CrackInv, Fields, Results, Grown
    <2>3. /\ new_offset \in Nat /\ new_addr \in Nat
          /\ \A i \in DOMAIN file.phdrs :
                /\ file.phdrs[i].p_offset + file.phdrs[i].p_filesz <= new_offset
                /\ file.phdrs[i].p_vaddr + file.phdrs[i].p_memsz <= new_addr
          /\ \A i \in DOMAIN file.shdrs :
                file.shdrs[i].sh_offset + file.shdrs[i].sh_size <= new_offset
      BY <2>2, EndsFacts
    <2> DEFINE off == NextMultiple(new_offset, Gap)
    <2>4. off \in Nat /\ new_offset < off /\ Gap <= off
      BY <2>3, Sizes, NextMultipleFacts
    <2>5. PICK q \in Nat : /\ NextMultiple(new_addr, Align) = q * Align
                           /\ q * Align \in Nat /\ new_addr < q * Align
      <3> DEFINE nm == NextMultiple(new_addr, Align)
      <3>1. nm \in Nat /\ new_addr < nm /\ \E q \in Nat : nm = q * Align
        BY <2>3, Sizes, NextMultipleFacts
      <3> HIDE DEF nm
      <3> QED BY <3>1 DEF nm
    <2>6. /\ newseg'.p_offset = off /\ newseg'.p_vaddr = q * Align + off
          /\ newseg'.p_filesz = SegmentSize
      BY <1>2, <2>5 DEF new_vaddr
    <2> HIDE DEF off
    <2>7. newseg' \in Phdr
      <3>1. new_vaddr \in Nat /\ NextMultiple(new_offset, Gap) \in Nat
        BY <2>4, <2>5 DEF new_vaddr, off
      <3> QED BY <1>2, <3>1, Sizes DEF Phdr
    <2>8. ASSUME NEW o \in Nat, InUse(o) PROVE o < off
      <3>1. CASE \E i \in DOMAIN file.phdrs :
                     Covers(file.phdrs[i].p_offset, file.phdrs[i].p_filesz, o)
        BY <2>2, <2>3, <2>4, <3>1, FileFacts DEF Covers
      <3>2. CASE \E i \in DOMAIN file.shdrs :
                     Covers(file.shdrs[i].sh_offset, file.shdrs[i].sh_size, o)
        BY <2>2, <2>3, <2>4, <3>2, FileFacts DEF Covers
      <3> QED BY <2>8, <3>1, <3>2 DEF InUse
    <2>9. \A i \in DOMAIN file.phdrs : file.phdrs[i].p_vaddr + file.phdrs[i].p_memsz < q * Align
      <3> SUFFICES ASSUME NEW i \in DOMAIN file.phdrs
                   PROVE  file.phdrs[i].p_vaddr + file.phdrs[i].p_memsz < q * Align
        OBVIOUS
      <3>1. file.phdrs[i].p_vaddr \in Nat /\ file.phdrs[i].p_memsz \in Nat
        BY <2>2, FileFacts
      <3> DEFINE a == q * Align
                 x == file.phdrs[i].p_vaddr + file.phdrs[i].p_memsz
      <3>2. x \in Nat /\ x <= new_addr /\ a \in Nat /\ new_addr < a
        BY <2>3, <2>5, <3>1
      <3> HIDE DEF a, x
      <3>3. x < a
        BY <2>3, <3>2
      <3> QED BY <3>3 DEF a, x
    <2>10. Placed'
      <3>1. EhdrSize <= newseg'.p_offset
        BY <2>4, <2>6, Sizes
      <3>2. \A o \in Nat : InUse(o)' => o < newseg'.p_offset
        BY <2>1, <2>6, <2>8, SameFile
      <3> QED BY <2>1, <2>6, <2>7, <2>9, <3>1, <3>2 DEF Placed
    <2>11. /\ ehdr' \in EhdrType /\ ehdr'.e_phnum = Len(file.phdrs) + 1
           /\ ehdr'.e_entry = file.e_entry
      BY <1>2, <2>2 DEF EhdrType
    <2> QED BY <2>1, <2>2, <2>6, <2>10, <2>11 DEF CrackInv, Fields, Results, Grown, Contents
  <1> QED BY <1>1, <1>2 DEF add_new_segment

(* Where the segment is, it stays. *)
LEMMA SamePlaced ==
    ASSUME Placed, file' = file, newseg' = newseg
    PROVE  Placed'
  BY SameFile DEF Placed

(* The new code gets its addresses. *)
LEMMA DoCrackStep ==
    ASSUME CrackInv, do_crack
    PROVE  CrackInv'
  <1>1. /\ Stage = 2 /\ Stage' = 3 /\ UNCHANGED <<file, phdrs, newseg, out, result>>
    BY StageOf DEF Staged, do_crack
  <1>2. /\ file \in Files /\ phdrs = file.phdrs /\ ehdr \in EhdrType /\ Placed
        /\ ehdr.e_phnum = Len(file.phdrs) + 1 /\ ehdr.e_entry = file.e_entry
        /\ newseg.p_filesz = SegmentSize
        /\ DOMAIN result = {"ehdr", "phdrs", "newseg"} /\ result.newseg = <<>>
    BY <1>1 DEF CrackInv, Fields, Results, Grown
  <1>3. newseg.p_vaddr \in Nat
    BY <1>2, PlaceFacts DEF Placed
  <1>4. /\ ehdr' \in EhdrType /\ ehdr'.e_phnum = ehdr.e_phnum /\ ehdr'.e_entry = newseg.p_vaddr
    BY <1>2, <1>3 DEF do_crack, EhdrType
  <1>5. Chained'
    BY <1>1, <1>2, <1>4 DEF do_crack, Chained
  <1>6. Placed'
    BY <1>1, <1>2, SamePlaced
  <1> QED BY <1>1, <1>2, <1>4, <1>5, <1>6 DEF CrackInv, Fields, Results, Grown, Contents

(* The new file, of the length its parts will have. *)
LEMMA CreateExeStep ==
    ASSUME CrackInv, create_exe
    PROVE  CrackInv'
  <1>1. Stage = 3 /\ UNCHANGED <<file, ehdr, phdrs, newseg, code, result>>
    BY StageOf DEF Staged, create_exe
  <1>2. CASE pc' = "done"
    BY <1>1, <1>2, Failed
  <1>3. CASE pc' = "dump_elf" /\ out' = Zeros
    <2>1. Stage' = 4
      BY <1>3, StageOf DEF Staged
    <2>2. /\ file \in Files /\ Placed /\ newseg.p_filesz = SegmentSize
          /\ ehdr.e_phnum = Len(file.phdrs) + 1 /\ Chained /\ phdrs = file.phdrs
          /\ ehdr \in EhdrType /\ newseg \in Phdr
          /\ DOMAIN result = {"ehdr", "phdrs", "newseg"} /\ result.newseg = <<>>
      BY <1>1 DEF CrackInv, Fields, Results, Grown, Placed
    <2>3. length = TablesEnd + e_shentsize
      <3>1. e_phentsize * ehdr.e_phnum = PhdrSize + e_phentsize
        BY <2>2, PlaceFacts
      <3>2. length = newseg.p_offset + SegmentSize + ShdrSize + (PhdrSize + e_phentsize) + e_shentsize
        BY <2>2, <3>1 DEF length
      <3>3. TablesEnd = newseg.p_offset + SegmentSize + ShdrSize + PhdrSize + e_phentsize
        BY DEF TablesEnd, NewPhdrAt, PhdrAt, ShdrAt
      <3>4. newseg.p_offset \in Nat /\ ShdrSize \in Nat /\ PhdrSize \in Nat
        BY <2>2, PlaceFacts
      <3> QED BY <3>2, <3>3, <3>4, Sizes
    <2>4. TablesEnd' = TablesEnd /\ Placed' /\ Chained'
      BY <1>1, <2>2, SamePlaces, SamePlaced DEF Chained
    <2>5. /\ DOMAIN out' = 0 .. TablesEnd' + e_shentsize - 1
          /\ \A o \in DOMAIN out' : out'[o] # <<"heap", 0>>
      <3>1. TablesEnd \in Nat
        BY <2>2, PlaceFacts
      <3>2. length - 1 = TablesEnd' + e_shentsize - 1
        BY <2>3, <2>4, <3>1, Sizes
      <3> QED BY <1>3, <3>2 DEF Zeros
    <2> QED BY <1>1, <2>1, <2>2, <2>4, <2>5 DEF CrackInv, Fields, Results, Grown, Contents
  <1> QED BY <1>2, <1>3 DEF create_exe

(* The header and the PT_PHDR entry point to where the tables will be. *)
LEMMA DumpElfStep ==
    ASSUME CrackInv, dump_elf
    PROVE  CrackInv'
  <1>1. Stage = 4 /\ Stage' = 5 /\ UNCHANGED <<file, newseg, code, out, result>>
    BY StageOf DEF Staged, dump_elf
  <1>2. /\ file \in Files /\ Placed /\ newseg.p_filesz = SegmentSize
        /\ ehdr.e_phnum = Len(file.phdrs) + 1 /\ Chained /\ phdrs = file.phdrs
        /\ ehdr \in EhdrType /\ newseg \in Phdr
        /\ DOMAIN result = {"ehdr", "phdrs", "newseg"} /\ result.newseg = <<>>
    BY <1>1 DEF CrackInv, Fields, Results, Grown, Placed
  <1>3. /\ newseg.p_offset \in Nat /\ ShdrAt \in Nat /\ PhdrAt \in Nat
        /\ newseg.p_offset + newseg.p_filesz = ShdrAt /\ phoff = PhdrAt
    BY <1>2, PlaceFacts DEF phoff, PhdrAt, ShdrAt
  <1>4. /\ ehdr' \in EhdrType /\ ehdr'.e_phnum = ehdr.e_phnum /\ ehdr'.e_entry = ehdr.e_entry
        /\ ehdr'.e_shoff = ShdrAt /\ ehdr'.e_phoff = PhdrAt
    <2> DEFINE mid == [ehdr EXCEPT !.e_shoff = ShdrAt]
    <2>1. ehdr' = [mid EXCEPT !.e_phoff = PhdrAt]
      BY <1>3 DEF dump_elf
    <2>2. /\ mid \in EhdrType /\ mid.e_phnum = ehdr.e_phnum /\ mid.e_entry = ehdr.e_entry
          /\ mid.e_shoff = ShdrAt
      BY <1>2, <1>3 DEF EhdrType
    <2> HIDE DEF mid
    <2> QED BY <1>3, <2>1, <2>2 DEF EhdrType
  <1>5. ShdrAt' = ShdrAt /\ PhdrAt' = PhdrAt /\ TablesEnd' = TablesEnd /\ Placed' /\ Chained'
    BY <1>1, <1>2, <1>4, SamePlaces, SamePlaced DEF Chained
  <1>6. /\ DOMAIN phdrs' = DOMAIN file.phdrs
        /\ \A i \in DOMAIN file.phdrs :
              phdrs'[i] = IF IsFirst(i, "PHDR") THEN PhdrEntry(file.phdrs[i]) ELSE file.phdrs[i]
    BY <1>2 DEF dump_elf
  <1>7. ASSUME NEW i \in DOMAIN file.phdrs
        PROVE  /\ phdrs'[i].p_type = file.phdrs[i].p_type
               /\ phdrs'[i].p_type = "LOAD" => phdrs'[i] = file.phdrs[i]
               /\ phdrs'[i].p_type = "PHDR" =>
                     phdrs'[i].p_vaddr = newseg.p_vaddr - newseg.p_offset + (PhdrAt % Align)
    <2>1. file.phdrs[i] \in Phdr
      BY <1>2, FileFacts
    <2>2. file.phdrs[i].p_type = "PHDR" => IsFirst(i, "PHDR")
      <3> SUFFICES ASSUME file.phdrs[i].p_type = "PHDR", NEW j \in 1 .. i - 1,
                          file.phdrs[j].p_type = "PHDR"
                   PROVE  FALSE
        BY <1>2 DEF IsFirst
      <3>1. j \in DOMAIN file.phdrs /\ j # i
        BY <1>2, FileFacts
      <3>2. \A g, h \in DOMAIN file.phdrs :
               file.phdrs[g].p_type = "PHDR" /\ file.phdrs[h].p_type = "PHDR" => g = h
        BY <1>2, CrackAssumption DEF IsFile
      <3> QED BY <3>1, <3>2
    <2>3. CASE IsFirst(i, "PHDR")
      <3>1. file.phdrs[i].p_type = "PHDR"
        BY <1>2, <2>3 DEF IsFirst
      <3>2. /\ PhdrEntry(file.phdrs[i]).p_type = file.phdrs[i].p_type
            /\ PhdrEntry(file.phdrs[i]).p_vaddr
                  = newseg.p_vaddr - newseg.p_offset + (PhdrAt % Align)
        BY <1>3, <2>1 DEF PhdrEntry, Phdr
      <3> QED BY <1>6, <2>3, <3>1, <3>2
    <2>4. CASE ~IsFirst(i, "PHDR")
      BY <1>6, <2>2, <2>4
    <2> QED BY <2>3, <2>4
  <1>8. Headed'
    BY <1>1, <1>4, <1>5, <1>6, <1>7 DEF Headed
  <1>9. /\ DOMAIN out' = 0 .. TablesEnd' + e_shentsize - 1
        /\ \A o \in DOMAIN out' : out'[o] # <<"heap", 0>>
    BY <1>1, <1>5 DEF CrackInv, Contents
  <1> QED BY <1>1, <1>2, <1>4, <1>5, <1>8, <1>9 DEF CrackInv, Fields, Results, Grown, Contents

-----------------------------------------------------------------------------
(***************************************************************************)
(* The copies.                                                             *)
(***************************************************************************)

(* memcpy writes its bytes and no others. *)
LEMMA CopiedFacts ==
    ASSUME NEW dst, NEW mem, NEW k, NEW size, out' = Copied(dst, mem, k, size)
    PROVE  /\ DOMAIN out' = DOMAIN out
           /\ \A o \in DOMAIN out : dst <= o /\ o < dst + size => out'[o] = Byte(mem, k + o - dst)
           /\ \A o \in DOMAIN out : ~(dst <= o /\ o < dst + size) => out'[o] = out[o]
  BY DEF Copied

(* Bytes in front of what is written, or behind it, stay. *)
LEMMA HoldsKept ==
    ASSUME NEW dst \in Nat, NEW mem, NEW k \in Nat, NEW size \in Nat,
           out' = Copied(dst, mem, k, size),
           NEW start \in Nat, NEW n \in Nat, NEW from, NEW j, Holds(start, n, from, j),
           start + n <= dst \/ dst + size <= start
    PROVE  Holds(start, n, from, j)'
  <1> SUFFICES ASSUME NEW i \in 0 .. n - 1
               PROVE  start + i \in DOMAIN out' /\ out'[start + i] = <<from, j + i>>
    BY DEF Holds
  <1>1. start + i \in DOMAIN out /\ out[start + i] = <<from, j + i>>
    BY DEF Holds
  <1>2. ~(dst <= start + i /\ start + i < dst + size)
    OBVIOUS
  <1>3. /\ DOMAIN out' = DOMAIN out
        /\ \A o \in DOMAIN out : ~(dst <= o /\ o < dst + size) => out'[o] = out[o]
    BY CopiedFacts
  <1>4. out'[start + i] = out[start + i]
    BY <1>1, <1>2, <1>3
  <1> QED BY <1>1, <1>3, <1>4

(* What is written is there. *)
LEMMA HoldsMade ==
    ASSUME NEW dst \in Nat, NEW mem, mem # "seg", NEW k \in Nat, NEW size \in Nat,
           out' = Copied(dst, mem, k, size),
           NEW len \in Nat, DOMAIN out = 0 .. len - 1, dst + size <= len
    PROVE  Holds(dst, size, mem, k)'
  <1> SUFFICES ASSUME NEW i \in 0 .. size - 1
               PROVE  dst + i \in DOMAIN out' /\ out'[dst + i] = <<mem, k + i>>
    BY DEF Holds
  <1>1. dst + i \in DOMAIN out /\ dst <= dst + i /\ dst + i < dst + size
    OBVIOUS
  <1>2. out'[dst + i] = Byte(mem, k + (dst + i) - dst)
    <2>1. \A o \in DOMAIN out : dst <= o /\ o < dst + size => out'[o] = Byte(mem, k + o - dst)
      BY CopiedFacts
    <2> QED BY <1>1, <2>1
  <1>3. k + (dst + i) - dst = k + i
    OBVIOUS
  <1> QED BY <1>1, <1>2, <1>3, CopiedFacts DEF Byte

(* From dump_elf on, the steps change the file and the results only. *)
LEMMA LateFacts ==
    ASSUME CrackInv, Stage >= 5
    PROVE  /\ file \in Files /\ newseg \in Phdr /\ Placed /\ Chained /\ Headed
           /\ ehdr.e_phnum = Len(file.phdrs) + 1
           /\ ehdr.e_shoff = ShdrAt /\ ehdr.e_phoff = PhdrAt
           /\ EhdrSize <= newseg.p_offset
           /\ TablesEnd + e_shentsize \in Nat
           /\ DOMAIN out = 0 .. (TablesEnd + e_shentsize) - 1
  <1>1. /\ file \in Files /\ newseg \in Phdr /\ Placed /\ Chained /\ Headed
        /\ ehdr.e_phnum = Len(file.phdrs) + 1
        /\ DOMAIN out = 0 .. TablesEnd + e_shentsize - 1
    <2>0. Stage \in -1 .. 11
      BY StageOf DEF Staged
    <2>1. Stage >= 2 /\ Stage >= 3 /\ Stage >= 4
      BY <2>0
    <2> QED BY <2>1 DEF CrackInv, Fields, Contents, Placed
  <1>2. TablesEnd \in Nat
    BY <1>1, PlaceFacts
  <1>3. /\ TablesEnd + e_shentsize \in Nat
        /\ TablesEnd + e_shentsize - 1 = (TablesEnd + e_shentsize) - 1
    BY <1>2, Sizes
  <1> QED BY <1>1, <1>3 DEF Headed, Placed

(* Such a step keeps what is known of the headers. *)
LEMMA LateFields ==
    ASSUME CrackInv, Stage >= 5, Stage' = Stage + 1,
           UNCHANGED <<file, ehdr, phdrs, code>>, newseg' \in Phdr,
           newseg'.p_offset = newseg.p_offset, newseg'.p_vaddr = newseg.p_vaddr,
           Grown', Results'
    PROVE  Fields'
  <1>1. /\ file \in Files /\ Placed /\ Chained /\ Headed
        /\ ehdr.e_phnum = Len(file.phdrs) + 1
    BY LateFacts
  <1>2. ehdr \in EhdrType /\ Stage \in -1 .. 11
    BY StageOf DEF Staged, CrackInv, Fields
  <1>3. Placed'
    BY <1>1, SameFile DEF Placed
  <1>4. Chained'
    BY <1>1 DEF Chained
  <1>5. Headed'
    BY <1>1, SamePlaces DEF Headed
  <1>6. Stage' >= 6
    BY <1>2
  <1> QED BY <1>1, <1>2, <1>3, <1>4, <1>5, <1>6 DEF Fields

(* The old file is copied: all of it is as it was, up to the new segment. *)
LEMMA CopyOldStep ==
    ASSUME CrackInv, CopyOld
    PROVE  CrackInv'
  <1>1. Stage = 5 /\ UNCHANGED <<file, ehdr, phdrs, newseg, code>>
    BY StageOf DEF Staged, CopyOld
  <1>2. CASE pc' \in {"killed", "overrun"} /\ UNCHANGED <<out, result>>
    BY <1>1, <1>2, Failed
  <1>3. CASE /\ out' = Copied(0, "old", 0, file.size)
             /\ result' = [result EXCEPT !.ehdr = ehdr]
             /\ pc' = "newseg"
    <2>1. Stage' = 6
      BY <1>3, StageOf DEF Staged
    <2>2. Results' /\ Grown'
      BY <1>1, <1>3, <2>1 DEF CrackInv, Fields, Results, Grown
    <2>3. Fields'
      BY <1>1, <2>1, <2>2, LateFacts, LateFields
    <2>4. /\ file \in Files /\ DOMAIN out = 0 .. (TablesEnd + e_shentsize) - 1
          /\ TablesEnd + e_shentsize \in Nat /\ TablesEnd' = TablesEnd
          /\ newseg \in Phdr
      BY <1>1, LateFacts, SamePlaces
    <2>5. file.size \in Nat
      BY <2>4, FileFacts
    <2>6. /\ DOMAIN out' = DOMAIN out
          /\ \A o \in DOMAIN out : o < file.size => out'[o] = <<"old", o>>
          /\ \A o \in DOMAIN out : ~(o < file.size) => out'[o] = out[o]
      <3>1. \A o \in DOMAIN out : 0 <= o /\ o < 0 + file.size <=> o < file.size
        BY <2>4, <2>5
      <3>2. \A o \in DOMAIN out : 0 + o - 0 = o
        BY <2>4
      <3>3. \A o \in DOMAIN out : Byte("old", o) = <<"old", o>>
        BY DEF Byte
      <3> QED BY <1>3, <2>5, <3>1, <3>2, <3>3, CopiedFacts
    <2>7. \A o \in DOMAIN out : out[o] # <<"heap", 0>>
      BY <1>1 DEF CrackInv, Contents
    <2>8. \A o \in DOMAIN out' : out'[o] # <<"heap", 0>>
      BY <2>6, <2>7
    <2>9. DOMAIN out' = 0 .. TablesEnd' + e_shentsize - 1
      BY <1>1, <2>4, <2>6 DEF CrackInv, Contents
    <2>10. OldKept'
      BY <1>1, <2>6 DEF OldKept
    <2> QED BY <2>1, <2>3, <2>8, <2>9, <2>10 DEF CrackInv, Contents
  <1> QED BY <1>2, <1>3 DEF CopyOld

(* The new segment is copied, and the bytes behind it in memory with it. *)
LEMMA CopyNewsegStep ==
    ASSUME CrackInv, CopyNewseg
    PROVE  CrackInv'
  <1> DEFINE total == newseg.p_filesz + e_phentsize * ehdr.e_phnum + ShdrSize
             off   == newseg.p_offset
  <1>1. /\ Stage = 6 /\ Stage' = 7 /\ UNCHANGED <<file, ehdr, phdrs, code, result>>
        /\ newseg' = [newseg EXCEPT !.p_filesz = total, !.p_memsz = total]
        /\ out' = Copied(off, "seg", 0, total)
    BY StageOf DEF Staged, CopyNewseg
  <1>2. /\ file \in Files /\ newseg \in Phdr /\ ehdr.e_phnum = Len(file.phdrs) + 1
        /\ TablesEnd + e_shentsize \in Nat
        /\ DOMAIN out = 0 .. (TablesEnd + e_shentsize) - 1
    BY <1>1, LateFacts
  <1>3. /\ off \in Nat /\ ShdrSize \in Nat /\ PhdrSize \in Nat /\ ShdrAt \in Nat
        /\ TablesEnd \in Nat /\ ShdrAt = off + SegmentSize
        /\ TablesEnd = ShdrAt + ShdrSize + PhdrSize + e_phentsize
        /\ e_phentsize * ehdr.e_phnum = PhdrSize + e_phentsize
    BY <1>2, PlaceFacts
  <1>4. newseg.p_filesz = SegmentSize
    BY <1>1 DEF CrackInv, Fields, Grown
  <1>5. /\ total = SegmentSize + ShdrSize + PhdrSize + e_phentsize /\ total \in Nat
        /\ off + total = TablesEnd /\ SegmentSize <= total
    BY <1>3, <1>4, Sizes
  <1> HIDE DEF total
  <1>6. /\ newseg' \in Phdr /\ newseg'.p_offset = off /\ newseg'.p_vaddr = newseg.p_vaddr
        /\ newseg'.p_filesz = total
    <2> DEFINE mid == [newseg EXCEPT !.p_filesz = total]
    <2>1. newseg' = [mid EXCEPT !.p_memsz = total]
      BY <1>1
    <2>2. /\ mid \in Phdr /\ mid.p_offset = off /\ mid.p_vaddr = newseg.p_vaddr
          /\ mid.p_filesz = total
      BY <1>2, <1>5 DEF Phdr
    <2> HIDE DEF mid
    <2> QED BY <1>5, <2>1, <2>2 DEF Phdr
  <1>7. Results' /\ Grown'
    <2>1. Results'
      BY <1>1 DEF CrackInv, Fields, Results
    <2>2. Grown'
      BY <1>1, <1>5, <1>6, SameFile DEF Grown
    <2> QED BY <2>1, <2>2
  <1>8. Fields'
    BY <1>1, <1>6, <1>7, LateFields
  <1>9. ShdrAt' = ShdrAt /\ TablesEnd' = TablesEnd
    BY <1>1, <1>6, SamePlaces
  <1>10. /\ DOMAIN out' = DOMAIN out
         /\ \A o \in DOMAIN out : off <= o /\ o < off + total => out'[o] = Byte("seg", 0 + o - off)
         /\ \A o \in DOMAIN out : ~(off <= o /\ o < off + total) => out'[o] = out[o]
    BY <1>1, CopiedFacts
  <1>11. DOMAIN out' = 0 .. TablesEnd' + e_shentsize - 1
    BY <1>1, <1>9, <1>10 DEF CrackInv, Contents
  <1>12. OldKept'
    <2>1. OldKept /\ \A o \in DOMAIN out : o < off => ~(off <= o /\ o < off + total)
      BY <1>1, <1>2, <1>3 DEF CrackInv, Contents
    <2> QED BY <1>1, <1>6, <1>10, <2>1 DEF OldKept
  <1>13. Holds(newseg.p_offset, SegmentSize, "seg", 0)'
    <2> SUFFICES ASSUME NEW i \in 0 .. SegmentSize - 1
                 PROVE  off + i \in DOMAIN out' /\ out'[off + i] = <<"seg", 0 + i>>
      BY <1>6 DEF Holds
    <2>1. /\ off + i \in DOMAIN out /\ off <= off + i /\ off + i < off + total
          /\ 0 + (off + i) - off = i /\ 0 + i = i /\ ~(i >= SegmentSize)
      <3> HIDE DEF off
      <3>1. i \in Nat /\ off \in Nat /\ i < SegmentSize /\ TablesEnd \in Nat
        BY <1>3, Sizes
      <3>2. off + i < off + total /\ off + i < TablesEnd + e_shentsize
        BY <1>5, <3>1, Sizes
      <3> QED BY <1>2, <3>1, <3>2, Sizes
    <2>2. out'[off + i] = Byte("seg", 0 + (off + i) - off)
      BY <1>10, <2>1
    <2> QED BY <1>10, <2>1, <2>2 DEF Byte
  <1>14. HeapFrom(ShdrAt)'
    <2> SUFFICES ASSUME NEW o \in DOMAIN out, out'[o] = <<"heap", 0>>
                 PROVE  ShdrAt <= o /\ o < TablesEnd
      BY <1>9, <1>10 DEF HeapFrom
    <2>1. out[o] # <<"heap", 0>>
      BY <1>1 DEF CrackInv, Contents
    <2>2. off <= o /\ o < off + total
      BY <1>10, <2>1
    <2>3. out'[o] = Byte("seg", 0 + o - off)
      BY <1>10, <2>2
    <2>4. 0 + o - off >= SegmentSize
      BY <2>3 DEF Byte
    <2>5. o \in Nat
      BY <1>2
    <2> HIDE DEF off
    <2> QED BY <1>3, <1>5, <2>2, <2>4, <2>5, Sizes
  <1> QED BY <1>1, <1>8, <1>11, <1>12, <1>13, <1>14 DEF CrackInv, Contents

(***************************************************************************)
(* A copy behind the new segment, or of the ELF header in front of it, of  *)
(* bytes of the input or of the new header: it keeps the old contents, the *)
(* new segment and the length of the file.                                 *)
(***************************************************************************)
LEMMA TableCopied ==
    ASSUME CrackInv, Stage >= 7, NEW dst \in Nat, NEW mem \in {"old", "phdr"},
           NEW k \in Nat, NEW size \in Nat,
           out' = Copied(dst, mem, k, size), file' = file, newseg' = newseg,
           ShdrAt <= dst \/ (dst = 0 /\ size = EhdrSize /\ k = 0 /\ mem = "old")
    PROVE  /\ DOMAIN out' = 0 .. TablesEnd' + e_shentsize - 1
           /\ OldKept'
           /\ Holds(newseg.p_offset, SegmentSize, "seg", 0)'
           /\ \A o \in DOMAIN out' :
                 out'[o] = <<"heap", 0>> => /\ out[o] = <<"heap", 0>> /\ o \in DOMAIN out
                                            /\ ~(dst <= o /\ o < dst + size)
  <1>0. Stage >= 5 /\ Stage >= 4 /\ Stage >= 6
    <2>1. Stage \in -1 .. 11
      BY StageOf DEF Staged
    <2> QED BY <2>1
  <1>1. /\ file \in Files /\ newseg \in Phdr /\ EhdrSize <= newseg.p_offset
        /\ TablesEnd + e_shentsize \in Nat
        /\ DOMAIN out = 0 .. (TablesEnd + e_shentsize) - 1
    BY <1>0, LateFacts
  <1>2. newseg.p_offset \in Nat /\ ShdrAt = newseg.p_offset + SegmentSize /\ ShdrAt \in Nat
    BY <1>1, PlaceFacts
  <1>3. /\ DOMAIN out' = DOMAIN out
        /\ \A o \in DOMAIN out : dst <= o /\ o < dst + size => out'[o] = Byte(mem, k + o - dst)
        /\ \A o \in DOMAIN out : ~(dst <= o /\ o < dst + size) => out'[o] = out[o]
    BY CopiedFacts
  <1>4. \A n : Byte(mem, n) = <<mem, n>>
    BY DEF Byte
  <1>5. DOMAIN out' = 0 .. TablesEnd' + e_shentsize - 1
    BY <1>0, <1>3, SamePlaces DEF CrackInv, Contents
  <1>6. OldKept'
    <2>1. OldKept
      BY <1>0 DEF CrackInv, Contents
    <2> SUFFICES ASSUME NEW o \in DOMAIN out, o < newseg.p_offset, o < file.size
                 PROVE  out'[o] = <<"old", o>>
      BY <1>3 DEF OldKept
    <2>2. out[o] = <<"old", o>> /\ o \in Nat
      BY <1>1, <2>1 DEF OldKept
    <2>3. CASE dst <= o /\ o < dst + size
      <3>1. dst = 0 /\ k = 0 /\ mem = "old"
        BY <1>2, <2>2, <2>3, Sizes
      <3>2. k + o - dst = o
        BY <2>2, <3>1
      <3> QED BY <1>3, <1>4, <2>3, <3>1, <3>2
    <2>4. CASE ~(dst <= o /\ o < dst + size)
      BY <1>3, <2>2, <2>4
    <2> QED BY <2>3, <2>4
  <1>7. Holds(newseg.p_offset, SegmentSize, "seg", 0)'
    <2>1. Holds(newseg.p_offset, SegmentSize, "seg", 0)
      BY DEF CrackInv, Contents
    <2> DEFINE off == newseg.p_offset
    <2>2. off + SegmentSize <= dst \/ dst + size <= off
      BY <1>1, <1>2, Sizes
    <2>3. off \in Nat /\ off' = off
      BY <1>2
    <2> HIDE DEF off
    <2>4. Holds(off, SegmentSize, "seg", 0)
      BY <2>1 DEF off
    <2>5. ASSUME NEW x, x = off PROVE Holds(x, SegmentSize, "seg", 0)'
      BY <2>2, <2>3, <2>4, <2>5, Sizes, HoldsKept
    <2> QED BY <2>3, <2>5 DEF off
  <1>8. ASSUME NEW o \in DOMAIN out', out'[o] = <<"heap", 0>>
        PROVE  /\ out[o] = <<"heap", 0>> /\ o \in DOMAIN out
               /\ ~(dst <= o /\ o < dst + size)
    <2>1. ~(dst <= o /\ o < dst + size)
      BY <1>3, <1>4, <1>8
    <2> QED BY <1>3, <1>8, <2>1
  <1> QED BY <1>5, <1>6, <1>7, <1>8

(* The numbers of the steps that move the tables. *)
LEMMA TableFacts ==
    ASSUME CrackInv, Stage >= 7, newseg' = newseg, file' = file
    PROVE  /\ ShdrAt \in Nat /\ PhdrAt \in Nat /\ NewPhdrAt \in Nat /\ TablesEnd \in Nat
           /\ ShdrSize \in Nat /\ PhdrSize \in Nat
           /\ PhdrAt = ShdrAt + ShdrSize /\ NewPhdrAt = PhdrAt + PhdrSize
           /\ TablesEnd = NewPhdrAt + e_phentsize
           /\ ehdr.e_shoff = ShdrAt /\ ehdr.e_phoff = PhdrAt
           /\ e_phentsize * (ehdr.e_phnum - 1) = PhdrSize
           /\ file.e_shoff \in Nat /\ file.e_phoff \in Nat
           /\ newseg \in Phdr
           /\ TablesEnd + e_shentsize \in Nat
           /\ DOMAIN out = 0 .. (TablesEnd + e_shentsize) - 1
           /\ ShdrAt' = ShdrAt /\ PhdrAt' = PhdrAt /\ NewPhdrAt' = NewPhdrAt
           /\ TablesEnd' = TablesEnd /\ ShdrSize' = ShdrSize /\ PhdrSize' = PhdrSize
           /\ file'.e_shoff = file.e_shoff /\ file'.e_phoff = file.e_phoff
           /\ Grown
  <1>1. Stage >= 5
    <2>1. Stage \in -1 .. 11
      BY StageOf DEF Staged
    <2> QED BY <2>1
  <1>2. /\ file \in Files /\ newseg \in Phdr /\ ehdr.e_phnum = Len(file.phdrs) + 1
        /\ ehdr.e_shoff = ShdrAt /\ ehdr.e_phoff = PhdrAt
        /\ TablesEnd + e_shentsize \in Nat
        /\ DOMAIN out = 0 .. (TablesEnd + e_shentsize) - 1
    BY <1>1, LateFacts
  <1>3. Grown
    BY DEF CrackInv, Fields
  <1>4. file.e_shoff \in Nat /\ file.e_phoff \in Nat
    BY <1>2, FileFacts
  <1>5. /\ ShdrAt \in Nat /\ PhdrAt \in Nat /\ NewPhdrAt \in Nat /\ TablesEnd \in Nat
        /\ ShdrSize \in Nat /\ PhdrSize \in Nat
        /\ PhdrAt = ShdrAt + ShdrSize /\ NewPhdrAt = PhdrAt + PhdrSize
        /\ TablesEnd = NewPhdrAt + e_phentsize
        /\ e_phentsize * (ehdr.e_phnum - 1) = PhdrSize
    BY <1>2, PlaceFacts
  <1>6. /\ ShdrAt' = ShdrAt /\ PhdrAt' = PhdrAt /\ NewPhdrAt' = NewPhdrAt
        /\ TablesEnd' = TablesEnd /\ ShdrSize' = ShdrSize /\ PhdrSize' = PhdrSize
    BY SamePlaces, SameFile
  <1> QED BY <1>2, <1>3, <1>4, <1>5, <1>6

(* The segment does not grow again. *)
LEMMA SameGrown ==
    ASSUME Grown, Stage >= 7, Stage' = Stage + 1, newseg' = newseg, file' = file
    PROVE  Grown'
  <1>1. Stage \in -1 .. 11
    BY StageOf DEF Staged
  <1>2. Stage' >= 7
    BY <1>1
  <1> QED BY <1>2, SameFile DEF Grown

(* The ELF header is copied once more. *)
LEMMA CopyEhdrStep ==
    ASSUME CrackInv, CopyEhdr
    PROVE  CrackInv'
  <1>1. /\ Stage = 7 /\ Stage' = 8 /\ UNCHANGED <<file, ehdr, phdrs, newseg, code>>
        /\ out' = Copied(0, "old", 0, EhdrSize)
        /\ result' = [result EXCEPT !.ehdr = ehdr]
    BY StageOf DEF Staged, CopyEhdr
  <1>2. newseg \in Phdr /\ Grown /\ ShdrAt' = ShdrAt /\ TablesEnd' = TablesEnd
    BY <1>1, TableFacts
  <1>3. Grown' /\ Results'
    BY <1>1, <1>2, SameGrown DEF CrackInv, Fields, Results
  <1>4. Fields'
    BY <1>1, <1>2, <1>3, LateFields
  <1>5. /\ DOMAIN out' = 0 .. TablesEnd' + e_shentsize - 1
        /\ OldKept'
        /\ Holds(newseg.p_offset, SegmentSize, "seg", 0)'
        /\ \A o \in DOMAIN out' :
              out'[o] = <<"heap", 0>> => /\ out[o] = <<"heap", 0>> /\ o \in DOMAIN out
                                         /\ ~(0 <= o /\ o < 0 + EhdrSize)
    <2>1. Stage >= 7 /\ EhdrSize \in Nat /\ "old" \in {"old", "phdr"} /\ 0 \in Nat
      BY <1>1, Sizes
    <2> QED BY ONLY CrackInv, <1>1, <2>1, TableCopied
  <1>6. HeapFrom(ShdrAt)'
    BY <1>1, <1>2, <1>5 DEF CrackInv, Contents, HeapFrom
  <1> QED BY <1>1, <1>4, <1>5, <1>6 DEF CrackInv, Contents

(* The section headers are moved behind the new segment. *)
LEMMA MoveShdrStep ==
    ASSUME CrackInv, MoveShdr
    PROVE  CrackInv'
  <1>1. /\ Stage = 8 /\ Stage' = 9 /\ UNCHANGED <<file, ehdr, phdrs, newseg, code, result>>
        /\ out' = Copied(ehdr.e_shoff, "old", file.e_shoff, ShdrSize)
    BY StageOf DEF Staged, MoveShdr
  <1>2. /\ ShdrAt \in Nat /\ PhdrAt \in Nat /\ NewPhdrAt \in Nat /\ TablesEnd \in Nat
        /\ ShdrSize \in Nat /\ PhdrSize \in Nat
        /\ PhdrAt = ShdrAt + ShdrSize /\ NewPhdrAt = PhdrAt + PhdrSize
        /\ TablesEnd = NewPhdrAt + e_phentsize
        /\ ehdr.e_shoff = ShdrAt /\ file.e_shoff \in Nat
        /\ newseg \in Phdr /\ Grown
        /\ TablesEnd + e_shentsize \in Nat
        /\ DOMAIN out = 0 .. (TablesEnd + e_shentsize) - 1
        /\ ShdrAt' = ShdrAt /\ PhdrAt' = PhdrAt /\ TablesEnd' = TablesEnd
        /\ ShdrSize' = ShdrSize /\ file'.e_shoff = file.e_shoff
    BY <1>1, TableFacts
  <1>3. Grown' /\ Results'
    BY <1>1, <1>2, SameGrown DEF CrackInv, Fields, Results
  <1>4. Fields'
    BY <1>1, <1>2, <1>3, LateFields
  <1>5. out' = Copied(ShdrAt, "old", file.e_shoff, ShdrSize)
    BY <1>1, <1>2
  <1>6. /\ DOMAIN out' = 0 .. TablesEnd' + e_shentsize - 1
        /\ OldKept'
        /\ Holds(newseg.p_offset, SegmentSize, "seg", 0)'
        /\ \A o \in DOMAIN out' :
              out'[o] = <<"heap", 0>> => /\ out[o] = <<"heap", 0>> /\ o \in DOMAIN out
                                         /\ ~(ShdrAt <= o /\ o < ShdrAt + ShdrSize)
    <2>1. /\ CrackInv /\ Stage >= 7 /\ ShdrAt \in Nat /\ file.e_shoff \in Nat /\ ShdrSize \in Nat
          /\ out' = Copied(ShdrAt, "old", file.e_shoff, ShdrSize)
          /\ file' = file /\ newseg' = newseg /\ ShdrAt <= ShdrAt
      BY <1>1, <1>2, <1>5
    <2> QED BY ONLY <2>1, TableCopied
  <1>7. Holds(ShdrAt, ShdrSize, "old", file.e_shoff)'
    <2>1. ShdrAt + ShdrSize <= TablesEnd + e_shentsize
      BY <1>2, Sizes
    <2>2. ASSUME NEW a, a = ShdrAt, NEW n, n = ShdrSize, NEW k, k = file.e_shoff
          PROVE  Holds(a, n, "old", k)'
      BY <1>2, <1>5, <2>1, <2>2, HoldsMade
    <2> QED BY <1>2, <2>2
  <1>8. HeapFrom(PhdrAt)'
    <2>1. \A o \in DOMAIN out : out[o] = <<"heap", 0>> => ShdrAt <= o /\ o < TablesEnd
      BY <1>1 DEF CrackInv, Contents, HeapFrom
    <2> SUFFICES ASSUME NEW o \in DOMAIN out', out'[o] = <<"heap", 0>>
                 PROVE  PhdrAt <= o /\ o < TablesEnd
      BY <1>2 DEF HeapFrom
    <2>2. out[o] = <<"heap", 0>> /\ o \in DOMAIN out /\ ~(ShdrAt <= o /\ o < ShdrAt + ShdrSize)
      BY <1>6
    <2>3. ShdrAt <= o /\ o < TablesEnd /\ o \in Nat
      BY <1>2, <2>1, <2>2
    <2>4. ShdrAt \in Nat /\ ShdrSize \in Nat /\ PhdrAt = ShdrAt + ShdrSize
      BY <1>2
    <2> QED BY ONLY <2>2, <2>3, <2>4
  <1> QED BY <1>1, <1>4, <1>6, <1>7, <1>8 DEF CrackInv, Contents

(* The program headers are moved behind them. *)
LEMMA MovePhdrStep ==
    ASSUME CrackInv, MovePhdr
    PROVE  CrackInv'
  <1>1. /\ Stage = 9 /\ Stage' = 10 /\ UNCHANGED <<file, ehdr, phdrs, newseg, code>>
        /\ out' = Copied(ehdr.e_phoff, "old", file.e_phoff, e_phentsize * (ehdr.e_phnum - 1))
        /\ result' = [result EXCEPT !.phdrs = phdrs]
    BY StageOf DEF Staged, MovePhdr
  <1>2. /\ ShdrAt \in Nat /\ PhdrAt \in Nat /\ NewPhdrAt \in Nat /\ TablesEnd \in Nat
        /\ ShdrSize \in Nat /\ PhdrSize \in Nat
        /\ PhdrAt = ShdrAt + ShdrSize /\ NewPhdrAt = PhdrAt + PhdrSize
        /\ TablesEnd = NewPhdrAt + e_phentsize
        /\ ehdr.e_phoff = PhdrAt /\ file.e_phoff \in Nat
        /\ e_phentsize * (ehdr.e_phnum - 1) = PhdrSize
        /\ newseg \in Phdr /\ Grown
        /\ TablesEnd + e_shentsize \in Nat
        /\ DOMAIN out = 0 .. (TablesEnd + e_shentsize) - 1
        /\ ShdrAt' = ShdrAt /\ PhdrAt' = PhdrAt /\ NewPhdrAt' = NewPhdrAt /\ TablesEnd' = TablesEnd
        /\ ShdrSize' = ShdrSize /\ PhdrSize' = PhdrSize
        /\ file'.e_shoff = file.e_shoff /\ file'.e_phoff = file.e_phoff
    BY <1>1, TableFacts
  <1>3. Grown' /\ Results'
    BY <1>1, <1>2, SameGrown DEF CrackInv, Fields, Results
  <1>4. Fields'
    BY <1>1, <1>2, <1>3, LateFields
  <1>5. out' = Copied(PhdrAt, "old", file.e_phoff, PhdrSize)
    BY <1>1, <1>2
  <1>6. /\ DOMAIN out' = 0 .. TablesEnd' + e_shentsize - 1
        /\ OldKept'
        /\ Holds(newseg.p_offset, SegmentSize, "seg", 0)'
        /\ \A o \in DOMAIN out' :
              out'[o] = <<"heap", 0>> => /\ out[o] = <<"heap", 0>> /\ o \in DOMAIN out
                                         /\ ~(PhdrAt <= o /\ o < PhdrAt + PhdrSize)
    <2>1. /\ CrackInv /\ Stage >= 7 /\ PhdrAt \in Nat /\ file.e_phoff \in Nat /\ PhdrSize \in Nat
          /\ out' = Copied(PhdrAt, "old", file.e_phoff, PhdrSize)
          /\ file' = file /\ newseg' = newseg /\ ShdrAt <= PhdrAt
      BY <1>1, <1>2, <1>5
    <2> QED BY ONLY <2>1, TableCopied
  <1>7. Holds(PhdrAt, PhdrSize, "old", file.e_phoff)'
    <2>1. PhdrAt + PhdrSize <= TablesEnd + e_shentsize
      BY <1>2, Sizes
    <2>2. ASSUME NEW a, a = PhdrAt, NEW n, n = PhdrSize, NEW k, k = file.e_phoff
          PROVE  Holds(a, n, "old", k)'
      BY <1>2, <1>5, <2>1, <2>2, HoldsMade
    <2> QED BY <1>2, <2>2
  <1>8. Holds(ShdrAt, ShdrSize, "old", file.e_shoff)'
    <2>1. Holds(ShdrAt, ShdrSize, "old", file.e_shoff)
      BY <1>1 DEF CrackInv, Contents
    <2>2. ShdrAt + ShdrSize <= PhdrAt
      BY <1>2
    <2>3. ASSUME NEW a, a = ShdrAt, NEW n, n = ShdrSize, NEW k, k = file.e_shoff
          PROVE  Holds(a, n, "old", k)'
      BY <1>2, <1>5, <2>1, <2>2, <2>3, HoldsKept
    <2> QED BY <1>2, <2>3
  <1>9. HeapFrom(NewPhdrAt)'
    <2>1. \A o \in DOMAIN out : out[o] = <<"heap", 0>> => PhdrAt <= o /\ o < TablesEnd
      BY <1>1 DEF CrackInv, Contents, HeapFrom
    <2> SUFFICES ASSUME NEW o \in DOMAIN out', out'[o] = <<"heap", 0>>
                 PROVE  NewPhdrAt <= o /\ o < TablesEnd
      BY <1>2 DEF HeapFrom
    <2>2. PhdrAt <= o /\ o < TablesEnd /\ ~(PhdrAt <= o /\ o < PhdrAt + PhdrSize) /\ o \in Nat
      BY <1>2, <1>6, <2>1
    <2>3. PhdrAt \in Nat /\ PhdrSize \in Nat /\ NewPhdrAt = PhdrAt + PhdrSize
      BY <1>2
    <2> QED BY ONLY <2>2, <2>3
  <1> QED BY <1>1, <1>4, <1>6, <1>7, <1>8, <1>9 DEF CrackInv, Contents

(* The header of the new segment completes the file. *)
LEMMA CopyNewsegPhdrStep ==
    ASSUME CrackInv, CopyNewsegPhdr
    PROVE  CrackInv'
  <1>1. /\ Stage = 10 /\ UNCHANGED <<file, ehdr, phdrs, newseg, code>> /\ pc' = "done"
        /\ out' = Copied(ehdr.e_phoff + e_phentsize * (ehdr.e_phnum - 1), "phdr", 0, e_phentsize)
        /\ result' = [result EXCEPT !.newseg = newseg]
    BY StageOf DEF Staged, CopyNewsegPhdr
  <1>2. /\ ShdrAt \in Nat /\ PhdrAt \in Nat /\ NewPhdrAt \in Nat /\ TablesEnd \in Nat
        /\ ShdrSize \in Nat /\ PhdrSize \in Nat
        /\ PhdrAt = ShdrAt + ShdrSize /\ NewPhdrAt = PhdrAt + PhdrSize
        /\ TablesEnd = NewPhdrAt + e_phentsize
        /\ ehdr.e_phoff = PhdrAt /\ file.e_phoff \in Nat /\ file.e_shoff \in Nat
        /\ e_phentsize * (ehdr.e_phnum - 1) = PhdrSize
        /\ newseg \in Phdr /\ Grown
        /\ TablesEnd + e_shentsize \in Nat
        /\ DOMAIN out = 0 .. (TablesEnd + e_shentsize) - 1
        /\ ShdrAt' = ShdrAt /\ PhdrAt' = PhdrAt /\ NewPhdrAt' = NewPhdrAt /\ TablesEnd' = TablesEnd
        /\ ShdrSize' = ShdrSize /\ PhdrSize' = PhdrSize
        /\ file'.e_shoff = file.e_shoff /\ file'.e_phoff = file.e_phoff
    BY <1>1, TableFacts
  <1>3. Stage' = 11
    <2>1. result'.newseg = newseg
      BY <1>1 DEF CrackInv, Fields, Results
    <2>2. newseg # <<>>
      <3>1. "p_type" \in DOMAIN newseg
        BY <1>2 DEF Phdr
      <3>2. DOMAIN <<>> = {}
        OBVIOUS
      <3> QED BY <3>1, <3>2
    <2>3. Complete'
      BY <2>1, <2>2 DEF Complete
    <2> QED BY <1>1, <2>3, StageOf DEF Staged
  <1>4. Grown' /\ Results'
    BY <1>1, <1>2, <1>3, SameGrown DEF CrackInv, Fields, Results
  <1>5. Fields'
    BY <1>1, <1>2, <1>3, <1>4, LateFields
  <1>6. out' = Copied(NewPhdrAt, "phdr", 0, e_phentsize)
    BY <1>1, <1>2
  <1>7. /\ DOMAIN out' = 0 .. TablesEnd' + e_shentsize - 1
        /\ OldKept'
        /\ Holds(newseg.p_offset, SegmentSize, "seg", 0)'
        /\ \A o \in DOMAIN out' :
              out'[o] = <<"heap", 0>> => /\ out[o] = <<"heap", 0>> /\ o \in DOMAIN out
                                         /\ ~(NewPhdrAt <= o /\ o < NewPhdrAt + e_phentsize)
    <2>1. ShdrAt <= NewPhdrAt
      BY <1>2
    <2>2. Stage >= 7 /\ e_phentsize \in Nat /\ "phdr" \in {"old", "phdr"} /\ 0 \in Nat
      BY <1>1, Sizes
    <2> QED BY ONLY CrackInv, <1>1, <1>2, <1>6, <2>1, <2>2, TableCopied
  <1>8. Holds(NewPhdrAt, e_phentsize, "phdr", 0)'
    <2>1. NewPhdrAt + e_phentsize <= TablesEnd + e_shentsize
      BY <1>2, Sizes
    <2>2. ASSUME NEW a, a = NewPhdrAt PROVE Holds(a, e_phentsize, "phdr", 0)'
      <3>1. e_phentsize \in Nat /\ "phdr" # "seg" /\ 0 \in Nat
        BY Sizes
      <3> QED BY ONLY <1>2, <1>6, <2>1, <2>2, <3>1, HoldsMade
    <2> QED BY <1>2, <2>2
  <1>9. Holds(ShdrAt, ShdrSize, "old", file.e_shoff)'
    <2>1. Holds(ShdrAt, ShdrSize, "old", file.e_shoff)
      BY <1>1 DEF CrackInv, Contents
    <2>2. ShdrAt + ShdrSize <= NewPhdrAt
      BY <1>2
    <2>3. ASSUME NEW a, a = ShdrAt, NEW n, n = ShdrSize, NEW k, k = file.e_shoff
          PROVE  Holds(a, n, "old", k)'
      BY <1>2, <1>6, <2>1, <2>2, <2>3, Sizes, HoldsKept
    <2> QED BY <1>2, <2>3
  <1>10. Holds(PhdrAt, PhdrSize, "old", file.e_phoff)'
    <2>1. Holds(PhdrAt, PhdrSize, "old", file.e_phoff)
      BY <1>1 DEF CrackInv, Contents
    <2>2. PhdrAt + PhdrSize <= NewPhdrAt
      BY <1>2
    <2>3. ASSUME NEW a, a = PhdrAt, NEW n, n = PhdrSize, NEW k, k = file.e_phoff
          PROVE  Holds(a, n, "old", k)'
      BY <1>2, <1>6, <2>1, <2>2, <2>3, Sizes, HoldsKept
    <2> QED BY <1>2, <2>3
  <1>11. HeapFrom(TablesEnd)'
    <2>1. \A o \in DOMAIN out : out[o] = <<"heap", 0>> => NewPhdrAt <= o /\ o < TablesEnd
      BY <1>1 DEF CrackInv, Contents, HeapFrom
    <2> SUFFICES ASSUME NEW o \in DOMAIN out', out'[o] = <<"heap", 0>> PROVE FALSE
      BY DEF HeapFrom
    <2>2. /\ out[o] = <<"heap", 0>> /\ o \in DOMAIN out
          /\ ~(NewPhdrAt <= o /\ o < NewPhdrAt + e_phentsize)
      BY <1>7
    <2> QED BY <1>2, <2>1, <2>2
  <1> QED BY <1>3, <1>5, <1>7, <1>8, <1>9, <1>10, <1>11 DEF CrackInv, Contents

-----------------------------------------------------------------------------

(* At first nothing has been written. *)
LEMMA InitCrack == Init => CrackInv
  <1> SUFFICES ASSUME Init PROVE CrackInv
    OBVIOUS
  <1>1. file \in Files /\ Stage = 0
    BY StageOf DEF Staged, Init
  <1>2. Len(file.phdrs) \in Nat /\ file.e_entry \in Nat /\ file.e_phoff \in Nat /\ file.e_shoff \in Nat
    BY <1>1, FileFacts
  <1>3. ehdr \in EhdrType /\ ehdr.e_phnum = Len(file.phdrs) /\ ehdr.e_entry = file.e_entry
    BY <1>2 DEF Init, EhdrType
  <1> QED BY <1>1, <1>3 DEF Init, CrackInv, Fields, Contents, Results, Grown

(* Every step of crack keeps the invariant. *)
LEMMA StepCrack == CrackInv /\ [Next]_vars => CrackInv'
  <1> SUFFICES ASSUME CrackInv, [Next]_vars PROVE CrackInv'
    OBVIOUS
  <1>1. CASE UNCHANGED vars
    <2>1. UNCHANGED <<file, pc, ehdr, phdrs, newseg, code, out, result>>
      BY <1>1 DEF vars
    <2>2. Stage' = Stage
      BY <2>1 DEF Stage, Complete
    <2>3. Fields'
      BY <2>1, <2>2, SameFile, SamePlaces
         DEF CrackInv, Fields, Results, Grown, Placed, Chained, Headed
    <2>4. /\ \A s, n, m, k : Holds(s, n, m, k)' <=> Holds(s, n, m, k)
          /\ \A s : HeapFrom(s)' <=> HeapFrom(s)
          /\ OldKept' <=> OldKept
      BY <2>1, SamePlaces DEF Holds, HeapFrom, OldKept
    <2>5. /\ ShdrAt' = ShdrAt /\ PhdrAt' = PhdrAt /\ NewPhdrAt' = NewPhdrAt
          /\ TablesEnd' = TablesEnd /\ ShdrSize' = ShdrSize /\ PhdrSize' = PhdrSize
      BY <2>1, SamePlaces, SameFile
    <2>6. Contents'
      BY <2>1, <2>2, <2>4, <2>5 DEF CrackInv, Contents
    <2> QED BY <2>3, <2>6 DEF CrackInv
  <1> QED BY <1>1, StartupStep, AddSegmentStep, DoCrackStep, CreateExeStep, DumpElfStep,
             CopyOldStep, CopyNewsegStep, CopyEhdrStep, MoveShdrStep, MovePhdrStep,
             CopyNewsegPhdrStep DEF Next, Ended

(***************************************************************************)
(* At each step of crack the headers say, and the file holds, what the     *)
(* steps before have made of them.                                         *)
(***************************************************************************)
THEOREM StepByStep == Spec => []CrackInv
  BY InitCrack, StepCrack, PTL DEF Spec

-----------------------------------------------------------------------------

(* A complete file is one that crack has gone through all steps for. *)
LEMMA Completed ==
    ASSUME CrackInv, Complete
    PROVE  /\ Stage = 11 /\ Stage >= 5 /\ Stage >= 7
           /\ file \in Files /\ newseg \in Phdr /\ Placed /\ Chained /\ Headed
           /\ ehdr.e_phnum = Len(file.phdrs) + 1 /\ Grown /\ Contents
           /\ result.ehdr = ehdr /\ result.phdrs = phdrs /\ result.newseg = newseg
           /\ DOMAIN out = 0 .. (TablesEnd + e_shentsize) - 1
           /\ newseg.p_filesz = SegmentSize + ShdrSize + PhdrSize + e_phentsize
  <1>1. Stage \in -1 .. 11
    BY StageOf DEF Staged
  <1>2. ~(Stage < 11)
    BY DEF CrackInv, Fields, Results, Complete
  <1>3. Stage = 11 /\ Stage >= 5 /\ Stage >= 7
    BY <1>1, <1>2
  <1>4. result.ehdr = ehdr /\ result.phdrs = phdrs /\ result.newseg = newseg
    BY <1>3 DEF CrackInv, Fields, Results
  <1>5. Grown /\ Contents /\ newseg.p_filesz = SegmentSize + ShdrSize + PhdrSize + e_phentsize
    BY <1>3 DEF CrackInv, Fields, Grown
  <1> QED BY <1>3, <1>4, <1>5, LateFacts

(***************************************************************************)
(* Every byte of the input that a segment or a section has is at its old   *)
(* place in the new file.                                                  *)
(***************************************************************************)
THEOREM NothingOverwritten == Spec => []ContentsKept
  <1>1. CrackInv => ContentsKept
    <2> SUFFICES ASSUME CrackInv, Complete, NEW o \in 0 .. file.size - 1, InUse(o)
                 PROVE  out[o] = <<"old", o>>
      BY DEF ContentsKept
    <2>1. /\ Stage = 11 /\ file \in Files /\ newseg \in Phdr /\ Placed /\ Contents
          /\ DOMAIN out = 0 .. (TablesEnd + e_shentsize) - 1
      BY Completed
    <2>2. file.size \in Nat
      BY <2>1, FileFacts
    <2>3. o \in Nat /\ o < file.size
      BY <2>2
    <2>4. o < newseg.p_offset
      BY <2>1, <2>3 DEF Placed
    <2>5. newseg.p_offset \in Nat /\ TablesEnd \in Nat /\ newseg.p_offset <= TablesEnd
      <3>1. /\ newseg.p_offset \in Nat /\ ShdrSize \in Nat /\ PhdrSize \in Nat
            /\ TablesEnd \in Nat
        BY <2>1, PlaceFacts
      <3>2. TablesEnd = (((newseg.p_offset + SegmentSize) + ShdrSize) + PhdrSize) + e_phentsize
        BY DEF TablesEnd, NewPhdrAt, PhdrAt, ShdrAt
      <3> QED BY <3>1, <3>2, Sizes
    <2>6. o \in DOMAIN out
      BY <2>1, <2>3, <2>4, <2>5, Sizes
    <2>7. OldKept
      BY <2>1 DEF Contents
    <2> QED BY <2>3, <2>4, <2>6, <2>7 DEF OldKept
  <1> QED BY <1>1, StepByStep, PTL

(***************************************************************************)
(* Where the new header says, there are the section headers, all program   *)
(* headers and the new one, and the new segment is whole; no byte of       *)
(* crack's own memory is left in the file.                                 *)
(***************************************************************************)
THEOREM TablesInPlace == Spec => []TablesMoved
  <1>1. CrackInv => TablesMoved
    <2> SUFFICES ASSUME CrackInv, Complete PROVE TablesMoved
      BY DEF TablesMoved
    <2>1. /\ Stage = 11 /\ file \in Files /\ newseg \in Phdr /\ Headed /\ Contents
          /\ ehdr.e_phnum = Len(file.phdrs) + 1
          /\ result.ehdr = ehdr /\ result.newseg = newseg
      BY Completed
    <2>2. /\ ehdr.e_shoff = ShdrAt /\ ehdr.e_phoff = PhdrAt
          /\ PhdrAt + e_phentsize * Len(file.phdrs) = NewPhdrAt
      BY <2>1 DEF Headed, NewPhdrAt, PhdrSize
    <2>3. /\ Holds(newseg.p_offset, SegmentSize, "seg", 0)
          /\ Holds(ShdrAt, ShdrSize, "old", file.e_shoff)
          /\ Holds(PhdrAt, PhdrSize, "old", file.e_phoff)
          /\ Holds(NewPhdrAt, e_phentsize, "phdr", 0)
          /\ HeapFrom(TablesEnd)
      BY <2>1 DEF Contents
    <2>4. \A o \in DOMAIN out : out[o] # <<"heap", 0>>
      <3>1. DOMAIN out = 0 .. (TablesEnd + e_shentsize) - 1 /\ TablesEnd \in Nat
        BY <2>1, Completed, PlaceFacts
      <3> QED BY <2>3, <3>1, Sizes DEF HeapFrom
    <2>5. \A k \in 0 .. SegmentSize - 1 :
             newseg.p_offset + k \in DOMAIN out /\ out[newseg.p_offset + k] = <<"seg", k>>
      <3>1. \A k \in 0 .. SegmentSize - 1 : 0 + k = k
        BY Sizes
      <3> QED BY <2>3, <3>1 DEF Holds
    <2>6. \A k \in 0 .. e_phentsize - 1 :
             NewPhdrAt + k \in DOMAIN out /\ out[NewPhdrAt + k] = <<"phdr", k>>
      <3>1. \A k \in 0 .. e_phentsize - 1 : 0 + k = k
        BY Sizes
      <3> QED BY <2>3, <3>1 DEF Holds
    <2>7. /\ \A k \in 0 .. ShdrSize - 1 :
                ShdrAt + k \in DOMAIN out /\ out[ShdrAt + k] = <<"old", file.e_shoff + k>>
          /\ \A k \in 0 .. e_phentsize * Len(file.phdrs) - 1 :
                PhdrAt + k \in DOMAIN out /\ out[PhdrAt + k] = <<"old", file.e_phoff + k>>
      BY <2>3 DEF Holds, PhdrSize
    <2> QED BY <2>1, <2>2, <2>4, <2>5, <2>6, <2>7 DEF TablesMoved
  <1> QED BY <1>1, StepByStep, PTL

(* A number below the unit is its own remainder. *)
LEMMA Small ==
    ASSUME NEW n \in Nat, NEW unit \in Nat \ {0}, n < unit
    PROVE  n % unit = n
  OBVIOUS

(* A number below the middle of the operand's range is loaded as it is. *)
LEMMA OperandSmall ==
    ASSUME NEW n \in Nat, n < Half
    PROVE  Operand(n) = n
  <1>1. n + Half \in Nat /\ 2 * Half \in Nat \ {0} /\ n + Half < 2 * Half
    BY Sizes
  <1>2. (n + Half) % (2 * Half) = n + Half
    BY <1>1, Small
  <1> QED BY <1>2, Sizes DEF Operand

(***************************************************************************)
(* The new file is entered at the new segment, whose code has the address  *)
(* of the message that is in it and, to go on at, the entry point of the   *)
(* input.  Whether the program then runs is not said.                      *)
(***************************************************************************)
THEOREM EntryAndMessage == Spec => []EntryChained
  <1>1. CrackInv => EntryChained
    <2> SUFFICES ASSUME CrackInv, Complete, result.newseg.p_vaddr + SegmentSize < Half
                 PROVE  LET new == result.newseg
                            at  == code.message - new.p_vaddr + new.p_offset
                        IN  /\ result.ehdr.e_entry = new.p_vaddr
                            /\ code.start = file.e_entry
                            /\ \A k \in 0 .. MessageSize - 1 :
                                  out[at + k] = <<"seg", SegmentSize - MessageSize + k>>
      BY DEF EntryChained
    <2>1. /\ Stage = 11 /\ file \in Files /\ newseg \in Phdr /\ Placed /\ Chained /\ Contents
          /\ result.ehdr = ehdr /\ result.newseg = newseg
      BY Completed
    <2>2. newseg.p_vaddr \in Nat /\ newseg.p_offset \in Nat
      BY <2>1, PlaceFacts
    <2>3. file.e_entry \in Nat /\ file.e_entry < Half
      <3>1. PICK i \in DOMAIN file.phdrs :
                file.e_entry \in file.phdrs[i].p_vaddr ..
                                     file.phdrs[i].p_vaddr + file.phdrs[i].p_memsz - 1
        BY <2>1, CrackAssumption DEF IsFile
      <3>2. PICK q \in Nat :
                /\ newseg.p_vaddr = q * Align + newseg.p_offset
                /\ \A j \in DOMAIN file.phdrs :
                      file.phdrs[j].p_vaddr + file.phdrs[j].p_memsz < q * Align
        BY <2>1 DEF Placed
      <3> DEFINE a == q * Align
                 v == file.phdrs[i].p_vaddr
                 m == file.phdrs[i].p_memsz
      <3>3. /\ v \in Nat /\ m \in Nat /\ a \in Nat /\ v + m < a
            /\ newseg.p_vaddr = a + newseg.p_offset /\ file.e_entry \in v .. v + m - 1
        BY <2>1, <3>1, <3>2, FileFacts, Sizes
      <3>4. file.e_entry \in Nat
        BY <2>1, FileFacts
      <3>5. newseg.p_vaddr + SegmentSize < Half
        BY <2>1
      <3> HIDE DEF a, v, m
      <3> QED BY <2>2, <3>3, <3>4, <3>5, Sizes
    <2>4. code.start = file.e_entry
      BY <2>1, <2>3, OperandSmall DEF Chained
    <2>5. code.message = newseg.p_vaddr + SegmentSize - MessageSize
      <3> DEFINE n == newseg.p_vaddr + SegmentSize - MessageSize
      <3>1. n \in Nat /\ n < Half
        BY <2>1, <2>2, Sizes
      <3>2. code.message = Operand(n)
        BY <2>1 DEF Chained
      <3> HIDE DEF n
      <3>3. code.message = n
        BY <3>1, <3>2, OperandSmall
      <3> QED BY <3>3 DEF n
    <2>6. ASSUME NEW k \in 0 .. MessageSize - 1
          PROVE  out[(code.message - newseg.p_vaddr + newseg.p_offset) + k]
                     = <<"seg", SegmentSize - MessageSize + k>>
      <3> DEFINE i == SegmentSize - MessageSize + k
      <3>1. i \in 0 .. SegmentSize - 1 /\ 0 + i = i
        BY Sizes
      <3>2. (code.message - newseg.p_vaddr + newseg.p_offset) + k = newseg.p_offset + i
        BY <2>2, <2>5, Sizes
      <3>3. Holds(newseg.p_offset, SegmentSize, "seg", 0)
        BY <2>1 DEF Contents
      <3> HIDE DEF i
      <3>4. out[newseg.p_offset + i] = <<"seg", 0 + i>>
        BY <3>1, <3>3 DEF Holds
      <3> QED BY <3>1, <3>2, <3>4 DEF i
    <2> QED BY <2>1, <2>4, <2>6 DEF Chained
  <1> QED BY <1>1, StepByStep, PTL

(* Quotient and remainder of a number, of which there is only one each. *)
LEMMA DivUnique ==
    ASSUME NEW x \in Nat, NEW unit \in Nat \ {0}, NEW q \in Nat, NEW r \in 0 .. unit - 1,
           x = unit * q + r
    PROVE  x \div unit = q /\ x % unit = r
  OBVIOUS

(* Whole units do not change a remainder. *)
LEMMA SameRemainder ==
    ASSUME NEW q \in Nat, NEW n \in Nat, NEW unit \in Nat \ {0}
    PROVE  (q * unit + n) % unit = n % unit
  <1>1. /\ n \div unit \in Nat /\ n % unit \in 0 .. unit - 1
        /\ n = unit * (n \div unit) + (n % unit)
    OBVIOUS
  <1> DEFINE d == n \div unit
             r == n % unit
             x == q * unit + n
  <1>2. d \in Nat /\ r \in 0 .. unit - 1 /\ n = unit * d + r /\ x \in Nat
    BY <1>1
  <1>3. x = q * unit + n
    OBVIOUS
  <1> HIDE DEF d, r, x
  <1>4. unit * (q + d) = q * unit + unit * d /\ unit * d \in Nat /\ q * unit \in Nat
    BY <1>2
  <1>5. x = unit * (q + d) + r /\ q + d \in Nat
    BY <1>2, <1>3, <1>4
  <1>6. x % unit = r
    BY <1>2, <1>5, DivUnique
  <1> QED BY <1>6 DEF x, r

(* What ends before a page begins and what starts there or later share no page. *)
LEMMA PagesApart ==
    ASSUME NEW e \in Int, NEW w \in Nat, NEW unit \in Nat \ {0}, NEW d \in Nat,
           e < d * unit, d * unit <= w
    PROVE  e \div unit < w \div unit
  <1>1. e \div unit < d
    <2>1. /\ e \div unit \in Int /\ e % unit \in 0 .. unit - 1
          /\ e = unit * (e \div unit) + (e % unit)
      OBVIOUS
    <2> DEFINE k == e \div unit
    <2>2. k \in Int /\ unit * k <= e
      BY <2>1
    <2> HIDE DEF k
    <2>3. SUFFICES ASSUME d <= k PROVE FALSE
      BY <2>2 DEF k
    <2>4. d * unit <= unit * k
      BY <2>2, <2>3
    <2>5. d * unit \in Int /\ unit * k \in Int
      BY <2>2
    <2> QED BY <2>2, <2>4, <2>5
  <1>2. d <= w \div unit
    <2>1. /\ w \div unit \in Int /\ w % unit \in 0 .. unit - 1
          /\ w = unit * (w \div unit) + (w % unit)
      OBVIOUS
    <2> DEFINE k == w \div unit
               r == w % unit
    <2>2. k \in Int /\ r \in 0 .. unit - 1 /\ w = unit * k + r
      BY <2>1
    <2> HIDE DEF k, r
    <2>3. SUFFICES ASSUME k + 1 <= d PROVE FALSE
      BY <2>2 DEF k
    <2>4. (k + 1) * unit <= d * unit /\ (k + 1) * unit = unit * k + unit
      BY <2>2, <2>3
    <2>5. d * unit \in Int /\ unit * k \in Int
      BY <2>2
    <2> QED BY <2>2, <2>4, <2>5
  <1>3. e \div unit \in Int /\ w \div unit \in Int
    OBVIOUS
  <1> QED BY <1>1, <1>2, <1>3

(***************************************************************************)
(* The new file can be loaded: the new segment's address goes with its     *)
(* offset, it shares no page with a segment of the input, it holds all of  *)
(* the program headers, and PT_PHDR gives the address they have in it.     *)
(***************************************************************************)
THEOREM NewSegmentApart == Spec => []LoadedApart
  <1>1. CrackInv => LoadedApart
    <2> SUFFICES ASSUME CrackInv, Complete PROVE LoadedApart
      BY DEF LoadedApart
    <2>1. /\ file \in Files /\ newseg \in Phdr /\ Placed /\ Headed
          /\ ehdr.e_phnum = Len(file.phdrs) + 1
          /\ newseg.p_filesz = SegmentSize + ShdrSize + PhdrSize + e_phentsize
          /\ result.ehdr = ehdr /\ result.phdrs = phdrs /\ result.newseg = newseg
      BY Completed
    <2>2. PICK q \in Nat :
              /\ newseg.p_vaddr = q * Align + newseg.p_offset
              /\ \A i \in DOMAIN file.phdrs :
                    file.phdrs[i].p_vaddr + file.phdrs[i].p_memsz < q * Align
      BY <2>1 DEF Placed
    <2>3. /\ newseg.p_offset \in Nat /\ newseg.p_vaddr \in Nat
          /\ ShdrSize \in Nat /\ PhdrSize \in Nat /\ PhdrAt \in Nat
          /\ PhdrAt = (newseg.p_offset + SegmentSize) + ShdrSize
          /\ e_phentsize * (Len(file.phdrs) + 1) = PhdrSize + e_phentsize
      BY <2>1, PlaceFacts DEF ShdrAt
    <2>4. newseg.p_vaddr % Align = newseg.p_offset % Align
      <3>1. (q * Align + newseg.p_offset) % Align = newseg.p_offset % Align
        <4> DEFINE n == newseg.p_offset
        <4>1. n \in Nat /\ Align \in Nat \ {0}
          BY <2>3, Sizes
        <4> HIDE DEF n
        <4>2. (q * Align + n) % Align = n % Align
          BY ONLY q \in Nat, <4>1, SameRemainder
        <4> QED BY <4>2 DEF n
      <3> QED BY <2>2, <3>1
    <2>5. ASSUME NEW i \in DOMAIN phdrs, phdrs[i].p_type = "LOAD"
          PROVE  PagesOf(phdrs[i]) \cap PagesOf(newseg) = {}
      <3>1. i \in DOMAIN file.phdrs /\ phdrs[i] = file.phdrs[i]
        BY <2>1, <2>5 DEF Headed
      <3> DEFINE c == Align \div PageSize
                 v == phdrs[i].p_vaddr
                 m == phdrs[i].p_memsz
                 e == v + m - 1
                 a == q * Align
                 w == newseg.p_vaddr
      <3>2. v \in Nat /\ m \in Nat /\ a \in Nat /\ v + m < a
        BY <2>1, <2>2, <3>1, FileFacts, Sizes
      <3>3. c \in Nat /\ Align = PageSize * c
        BY Sizes
      <3>4. a = (q * c) * PageSize /\ q * c \in Nat
        <4> HIDE DEF c
        <4> QED BY <3>3, Sizes
      <3>5. w = a + newseg.p_offset /\ w \in Nat
        BY <2>2, <2>3
      <3> HIDE DEF c, v, m, a, w
      <3>6. e \in Int /\ e < a /\ a <= w
        BY <2>3, <3>2, <3>5
      <3> HIDE DEF e
      <3> DEFINE d == q * c
      <3>7. d \in Nat /\ e < d * PageSize /\ d * PageSize <= w
        BY <3>4, <3>6
      <3> HIDE DEF d
      <3>8. e \div PageSize < w \div PageSize
        BY <3>5, <3>6, <3>7, Sizes, PagesApart
      <3>9. e \div PageSize \in Int /\ w \div PageSize \in Int
        BY <3>5, <3>6, Sizes
      <3>10. /\ PagesOf(phdrs[i]) = v \div PageSize .. e \div PageSize
             /\ PagesOf(newseg) = w \div PageSize .. (w + newseg.p_memsz - 1) \div PageSize
        BY DEF PagesOf, v, e, w, m
      <3> QED BY <3>8, <3>9, <3>10
    <2>6. ehdr.e_phoff + e_phentsize * ehdr.e_phnum <= newseg.p_offset + newseg.p_filesz
      <3>1. ehdr.e_phoff = PhdrAt /\ e_phentsize * ehdr.e_phnum = PhdrSize + e_phentsize
        BY <2>1, <2>3 DEF Headed
      <3> QED BY <2>1, <2>3, <3>1, Sizes
    <2>7. ASSUME NEW i \in DOMAIN phdrs, phdrs[i].p_type = "PHDR", ehdr.e_phoff < Align
          PROVE  phdrs[i].p_vaddr = newseg.p_vaddr + (ehdr.e_phoff - newseg.p_offset)
      <3>1. /\ ehdr.e_phoff = PhdrAt
            /\ phdrs[i].p_vaddr = newseg.p_vaddr - newseg.p_offset + (PhdrAt % Align)
        BY <2>1, <2>7 DEF Headed
      <3>2. PhdrAt % Align = PhdrAt
        <4>1. PhdrAt < Align
          BY <2>7, <3>1
        <4> QED BY <2>3, <4>1, Sizes, Small
      <3> QED BY <2>3, <3>1, <3>2
    <2> QED BY <2>1, <2>4, <2>5, <2>6, <2>7 DEF LoadedApart
  <1> QED BY <1>1, StepByStep, PTL
=============================================================================
