---------------------------- MODULE SegMapProofs ----------------------------
(***************************************************************************)
(* Proofs about SegMap, for every size of a page and every well-formed     *)
(* object of any number of segments: memory holds what the headers ask     *)
(* for, with the protection they ask for; holes are closed; the program    *)
(* headers are found.                                                      *)
(***************************************************************************)
EXTENDS SegMap, WellFoundedInduction, TLAPS

(* Of any natural numbers one is the smallest. *)
LEMMA SmallestOf ==
    ASSUME NEW T, T \subseteq Nat, T # {}
    PROVE  \E x \in T : \A y \in T : x <= y
  <1>1. PICK x \in T : \A y \in T : ~(<<y, x>> \in OpToRel(<, Nat))
    BY NatLessThanWellFounded, WFMin
  <1>2. \A y \in T : ~(y < x)
    BY <1>1 DEF OpToRel
  <1> QED BY <1>2

-----------------------------------------------------------------------------
(***************************************************************************)
(* Pages.  The boundaries are the multiples of PageSize; PageDown gives    *)
(* the last one that is not behind an address, PageUp the first one that   *)
(* is not before it.                                                       *)
(***************************************************************************)
Boundary(x) == \E k \in Int : x = k * PageSize

(* Boundaries are numbers at least a page apart, and their sums and differences are boundaries. *)
LEMMA Boundaries ==
    ASSUME NEW x, Boundary(x), NEW y, Boundary(y)
    PROVE  /\ x \in Int /\ (x < y => x + PageSize <= y)
           /\ Boundary(x + y) /\ Boundary(x - y)
  <1>1. PICK k \in Int : x = k * PageSize
    BY DEF Boundary
  <1>2. PICK j \in Int : y = j * PageSize
    BY DEF Boundary
  <1>3. PageSize \in Nat \ {0}
    BY SegMapAssumption
  <1>4. x \in Int /\ y \in Int
    BY <1>1, <1>2, <1>3
  <1>5. x < y => x + PageSize <= y
    <2> SUFFICES ASSUME x < y PROVE x + PageSize <= y
      OBVIOUS
    <2>1. k < j
      <3> SUFFICES ASSUME j <= k PROVE FALSE
        OBVIOUS
      <3>1. j * PageSize <= k * PageSize
        BY <1>3
      <3> QED BY <1>1, <1>2, <1>4, <3>1
    <2>2. (k + 1) * PageSize <= j * PageSize /\ (k + 1) * PageSize = k * PageSize + PageSize
      BY <1>3, <2>1
    <2> QED BY <1>1, <1>2, <2>2
  <1>6. x + y = (k + j) * PageSize /\ x - y = (k - j) * PageSize
    BY <1>1, <1>2, <1>3
  <1> QED BY <1>4, <1>5, <1>6 DEF Boundary

(* A number without a remainder is a boundary. *)
LEMMA NoRemainder ==
    ASSUME NEW x \in Int, x % PageSize = 0
    PROVE  Boundary(x)
  <1>1. PageSize \in Nat \ {0}
    BY SegMapAssumption
  <1>2. x = PageSize * (x \div PageSize) + (x % PageSize) /\ x \div PageSize \in Int
    BY <1>1
  <1> DEFINE k == x \div PageSize
  <1>3. k \in Int /\ x = PageSize * k
    BY <1>1, <1>2
  <1> HIDE DEF k
  <1>4. x = k * PageSize
    BY <1>1, <1>3
  <1> QED BY <1>3, <1>4 DEF Boundary

(* PageDown goes back to a boundary, by less than a page. *)
LEMMA DownFacts ==
    ASSUME NEW a \in Int
    PROVE  /\ PageDown(a) \in Int /\ Boundary(PageDown(a))
           /\ PageDown(a) <= a /\ a < PageDown(a) + PageSize
  <1>1. PageSize \in Nat \ {0}
    BY SegMapAssumption
  <1>2. /\ a = PageSize * (a \div PageSize) + (a % PageSize)
        /\ a \div PageSize \in Int /\ a % PageSize \in 0 .. PageSize - 1
    BY <1>1
  <1> DEFINE k == a \div PageSize
             r == a % PageSize
  <1>3. k \in Int /\ r \in 0 .. PageSize - 1 /\ a = PageSize * k + r /\ PageDown(a) = a - r
    BY <1>1, <1>2 DEF PageDown
  <1> HIDE DEF k, r
  <1>4. PageSize * k \in Int /\ PageSize * k = k * PageSize
    BY <1>1, <1>3
  <1>5. PageDown(a) = k * PageSize
    BY <1>1, <1>3, <1>4
  <1> QED BY <1>1, <1>3, <1>4, <1>5 DEF Boundary

(* PageUp goes on to a boundary, by less than a page. *)
LEMMA UpFacts ==
    ASSUME NEW a \in Int
    PROVE  /\ PageUp(a) \in Int /\ Boundary(PageUp(a))
           /\ a <= PageUp(a) /\ PageUp(a) < a + PageSize
  <1>1. PageSize \in Nat \ {0}
    BY SegMapAssumption
  <1> DEFINE b == a + PageSize - 1
  <1>2. b \in Int /\ b = a + PageSize - 1 /\ PageUp(a) = PageDown(b)
    BY <1>1 DEF PageUp
  <1> HIDE DEF b
  <1> QED BY <1>1, <1>2, DownFacts

(* A boundary is not behind an address just when it is not behind the page of the address. *)
LEMMA DownIsLast ==
    ASSUME NEW a \in Int, NEW x, Boundary(x)
    PROVE  x <= a <=> x <= PageDown(a)
  <1>1. x \in Int /\ PageDown(a) \in Int /\ Boundary(PageDown(a))
        /\ PageDown(a) <= a /\ a < PageDown(a) + PageSize
    BY DownFacts, Boundaries
  <1>2. PageDown(a) < x => PageDown(a) + PageSize <= x
    BY <1>1, Boundaries
  <1>3. PageSize \in Nat
    BY SegMapAssumption
  <1> QED BY <1>1, <1>2, <1>3

(* A boundary is not before an address just when it is not before the end of its page. *)
LEMMA UpIsFirst ==
    ASSUME NEW a \in Int, NEW x, Boundary(x)
    PROVE  a <= x <=> PageUp(a) <= x
  <1>1. x \in Int /\ PageUp(a) \in Int /\ Boundary(PageUp(a))
        /\ a <= PageUp(a) /\ PageUp(a) < a + PageSize
    BY UpFacts, Boundaries
  <1>2. x < PageUp(a) => x + PageSize <= PageUp(a)
    BY <1>1, Boundaries
  <1>3. PageSize \in Nat
    BY SegMapAssumption
  <1> QED BY <1>1, <1>2, <1>3

(* A boundary is its own page. *)
LEMMA BoundaryFixed ==
    ASSUME NEW x, Boundary(x)
    PROVE  PageDown(x) = x /\ PageUp(x) = x
  <1>1. x \in Int
    BY Boundaries
  <1> QED BY <1>1, DownIsLast, UpIsFirst, DownFacts, UpFacts

(* Later addresses are on later pages. *)
LEMMA PagesInOrder ==
    ASSUME NEW a \in Int, NEW b \in Int, a <= b
    PROVE  PageDown(a) <= PageDown(b) /\ PageUp(a) <= PageUp(b) /\ PageDown(a) <= PageUp(b)
  <1>1. /\ PageDown(a) \in Int /\ Boundary(PageDown(a)) /\ PageDown(a) <= a
        /\ PageUp(b) \in Int /\ Boundary(PageUp(b)) /\ b <= PageUp(b)
    BY DownFacts, UpFacts
  <1>2. PageDown(a) <= b /\ a <= PageUp(b)
    BY <1>1
  <1> QED BY <1>1, <1>2, DownIsLast, UpIsFirst

(* An object moved by whole pages keeps its pages. *)
LEMMA Moved ==
    ASSUME NEW b, Boundary(b), NEW a \in Int
    PROVE  PageDown(b + a) = b + PageDown(a) /\ PageUp(b + a) = b + PageUp(a)
  <1> DEFINE d == PageDown(a)
             u == PageUp(a)
             dd == PageDown(b + a)
             uu == PageUp(b + a)
  <1>1. b \in Int /\ b + a \in Int /\ PageSize \in Nat \ {0}
    BY Boundaries, SegMapAssumption
  <1>2. /\ d \in Int /\ Boundary(d) /\ d <= a /\ a < d + PageSize
        /\ u \in Int /\ Boundary(u) /\ a <= u /\ u < a + PageSize
    BY DownFacts, UpFacts
  <1>3. /\ dd \in Int /\ Boundary(dd) /\ dd <= b + a /\ b + a < dd + PageSize
        /\ uu \in Int /\ Boundary(uu) /\ b + a <= uu /\ uu < (b + a) + PageSize
    BY <1>1, DownFacts, UpFacts
  <1> HIDE DEF d, u, dd, uu
  <1>4. Boundary(b + d) /\ Boundary(b + u)
    BY <1>2, Boundaries
  <1>5. /\ b + d < dd => (b + d) + PageSize <= dd
        /\ dd < b + d => dd + PageSize <= b + d
        /\ b + u < uu => (b + u) + PageSize <= uu
        /\ uu < b + u => uu + PageSize <= b + u
    BY <1>3, <1>4, Boundaries
  <1>6. dd = b + d /\ uu = b + u
    BY <1>1, <1>2, <1>3, <1>5
  <1> QED BY <1>6 DEF d, u, dd, uu

-----------------------------------------------------------------------------

(* What is known of the headers under consideration. *)
LEMMA HeaderFacts ==
    ASSUME header \in Headers
    PROVE  /\ header \in Header /\ WellFormed(header)
           /\ Len(header.load) \in Nat \ {0} /\ DOMAIN header.load = 1 .. Len(header.load)
           /\ header.e_phoff \in Nat /\ header.phdrs \in Nat
           /\ \A i \in DOMAIN header.load :
                 LET ph == header.load[i] IN
                 /\ ph \in Segment
                 /\ ph.p_vaddr \in Nat /\ ph.p_offset \in Nat
                 /\ ph.p_filesz \in Nat /\ ph.p_memsz \in Nat /\ ph.p_filesz <= ph.p_memsz
                 /\ ph.p_align \in Nat \ {0}
  <1>1. header \in Header /\ WellFormed(header)
    BY SegMapAssumption
  <1>2. header.load \in Seq(Segment) /\ header.e_phoff \in Nat /\ header.phdrs \in Nat
    BY <1>1 DEF Header
  <1>3. Len(header.load) \in Nat /\ DOMAIN header.load = 1 .. Len(header.load)
    BY <1>2
  <1>4. Len(header.load) # 0
    BY <1>1, <1>3 DEF WellFormed
  <1>5. ASSUME NEW i \in DOMAIN header.load
        PROVE  /\ header.load[i] \in Segment
               /\ header.load[i].p_filesz <= header.load[i].p_memsz
    <2>1. header.load[i] \in Segment
      BY <1>2, <1>3
    <2> QED BY <1>1, <2>1 DEF WellFormed
  <1>6. ASSUME NEW ph \in Segment
        PROVE  /\ ph.p_vaddr \in Nat /\ ph.p_offset \in Nat
               /\ ph.p_filesz \in Nat /\ ph.p_memsz \in Nat /\ ph.p_align \in Nat \ {0}
    BY DEF Segment
  <1> QED BY <1>1, <1>2, <1>3, <1>4, <1>5, <1>6

(* The loadcmds go with the segments. *)
LEMMA LoadcmdFacts ==
    ASSUME header \in Headers
    PROVE  /\ DOMAIN loadcmds = 1 .. Len(header.load) /\ Len(loadcmds) = Len(header.load)
           /\ \A i \in 1 .. Len(header.load) : loadcmds[i] = loadcmd(header.load[i])
           /\ Last = loadcmd(header.load[Len(header.load)])
           /\ 1 \in 1 .. Len(header.load)
  <1>1. Len(header.load) \in Nat \ {0} /\ DOMAIN header.load = 1 .. Len(header.load)
    BY HeaderFacts
  <1>2. loadcmds = [i \in 1 .. Len(header.load) |-> loadcmd(header.load[i])]
    BY <1>1 DEF loadcmds
  <1> DEFINE n == Len(header.load)
  <1>3. n \in Nat \ {0} /\ DOMAIN loadcmds = 1 .. n
    BY <1>1, <1>2
  <1>4. Len(loadcmds) = n
    BY <1>1, <1>2
  <1> QED BY <1>2, <1>3, <1>4 DEF Last

(* A sound segment lies in its pages as its bytes lie in the pages of the file. *)
LEMMA SamePlaceInPage ==
    ASSUME NEW ph \in Segment, Sound(ph)
    PROVE  PageDown(ph.p_vaddr) - PageDown(ph.p_offset) = ph.p_vaddr - ph.p_offset
  <1> DEFINE v == ph.p_vaddr
             o == ph.p_offset
             d == v - o
             al == ph.p_align
  <1>1. v \in Nat /\ o \in Nat /\ al \in Nat \ {0} /\ PageSize \in Nat \ {0} /\ d \in Int
    BY SegMapAssumption DEF Segment
  <1>2. al % PageSize = 0 /\ d % al = 0
    BY DEF Sound
  <1>3. d + o = v
    BY <1>1
  <1> HIDE DEF v, o, d, al
  <1>4. Boundary(d)
    <2> DEFINE q == d \div al
               m == al \div PageSize
    <2>1. /\ q \in Int /\ d = al * q + (d % al)
          /\ m \in Int /\ al = PageSize * m + (al % PageSize)
      BY <1>1
    <2> HIDE DEF q, m
    <2>2. d = al * q /\ al = PageSize * m
      BY <1>1, <1>2, <2>1
    <2>3. (PageSize * m) * q = (m * q) * PageSize /\ m * q \in Int
      BY <1>1, <2>1
    <2> QED BY <2>2, <2>3 DEF Boundary
  <1>5. PageDown(d + o) = d + PageDown(o)
    BY <1>1, <1>4, Moved
  <1>6. PageDown(o) \in Int
    BY <1>1, DownFacts
  <1>7. PageDown(v) - PageDown(o) = v - o
    BY <1>1, <1>3, <1>5, <1>6
  <1> QED BY <1>7 DEF v, o

(***************************************************************************)
(* Where the parts of a segment lie: its pages from the file go from s to  *)
(* e, its bytes from the file end at z, its zeros at ze, its pages at u.   *)
(***************************************************************************)
Parts(lc, s, e, z, ze, u) ==
    /\ s = l_addr + lc.mapstart /\ e = l_addr + lc.mapend
    /\ z = zero(lc) /\ ze = zeroend(lc) /\ u = PageUp(ze)
Places(ph, lc, s, e, z, ze, u) ==
    /\ s \in Int /\ e \in Int /\ z \in Int /\ ze \in Int /\ u \in Int
    /\ l_addr + ph.p_vaddr \in Int
    /\ s <= l_addr + ph.p_vaddr /\ s <= z /\ l_addr + ph.p_vaddr <= z /\ z <= ze
    /\ z <= e /\ e <= u /\ ze <= u /\ s <= e
    /\ z = (l_addr + ph.p_vaddr) + ph.p_filesz /\ ze = (l_addr + ph.p_vaddr) + ph.p_memsz
    /\ ze <= e => u = e
    /\ Boundary(s) /\ Boundary(e) /\ Boundary(u)
    /\ zeropage(lc) = IF ze < e THEN ze ELSE e
    /\ \A a \in Int : InPages(a, s, e) <=> s <= a /\ a < e
    /\ \A a \in Int : OnPages(ph, a) <=> s <= a /\ a < u
    /\ \A a \in Int : InPages(a, e, ze) <=> e <= a /\ a < u
    /\ \A a \in Int : z < e /\ PageDown(a) = PageDown(z) => s <= a /\ a < e

(* The parts of a segment are where one would expect them. *)
LEMMA PartsInPlace ==
    ASSUME Boundary(l_addr), NEW ph \in Segment, ph.p_filesz <= ph.p_memsz,
           NEW lc, lc = loadcmd(ph),
           NEW s, NEW e, NEW z, NEW ze, NEW u, Parts(lc, s, e, z, ze, u)
    PROVE  Places(ph, lc, s, e, z, ze, u)
  <1> DEFINE v == ph.p_vaddr
             f == ph.p_filesz
             m == ph.p_memsz
             l == l_addr
  <1>1. /\ v \in Nat /\ f \in Nat /\ m \in Nat /\ f <= m /\ l \in Int /\ PageSize \in Nat \ {0}
        /\ v + f \in Int /\ v + m \in Int
    <2>1. l_addr \in Int
      BY Boundaries
    <2>2. ph.p_vaddr \in Nat /\ ph.p_filesz \in Nat /\ ph.p_memsz \in Nat
      BY DEF Segment
    <2> QED BY <2>1, <2>2, SegMapAssumption
  <1>2. /\ lc.mapstart = PageDown(v) /\ lc.mapend = PageUp(v + f)
        /\ lc.dataend = v + f /\ lc.allocend = v + m
    BY DEF loadcmd
  <1>3. s = l + PageDown(v) /\ e = l + PageUp(v + f) /\ z = l + (v + f) /\ ze = l + (v + m)
    BY <1>2 DEF Parts, zero, zeroend
  <1>4. u = PageUp(ze) /\ zeropage(lc) = IF ze < PageUp(z) THEN ze ELSE PageUp(z)
    BY DEF Parts, zeropage
  <1>6. \A a : OnPages(ph, a) <=> InPages(a, l + v, l + v + m)
    BY DEF OnPages
  <1>7. Boundary(l)
    OBVIOUS
  <1> HIDE DEF v, f, m, l
  <1>8. s = PageDown(l + v) /\ e = PageUp(l + (v + f))
    BY <1>1, <1>3, <1>7, Moved
  <1>9. l + v \in Int /\ z \in Int /\ ze \in Int
        /\ l + v <= z /\ z <= ze /\ z = (l + v) + f /\ ze = (l + v) + m
    BY <1>1, <1>3
  <1>10. s = PageDown(l + v) /\ e = PageUp(z)
    BY <1>3, <1>8
  <1>11. /\ s \in Int /\ Boundary(s) /\ s <= l + v
         /\ e \in Int /\ Boundary(e) /\ z <= e
         /\ u \in Int /\ Boundary(u) /\ ze <= u
    BY <1>4, <1>9, <1>10, DownFacts, UpFacts
  <1>12. e <= u /\ s <= e /\ s <= z
    BY <1>4, <1>9, <1>10, <1>11, PagesInOrder
  <1>13. ze <= e => u = e
    <2>1. ze <= e => u <= e
      BY <1>4, <1>9, <1>11, UpIsFirst
    <2> QED BY <1>11, <1>12, <2>1
  <1>14. PageDown(s) = s /\ PageUp(e) = e /\ PageDown(e) = e
    BY <1>11, BoundaryFixed
  <1>15. ASSUME NEW a \in Int
         PROVE  /\ InPages(a, s, e) <=> s <= a /\ a < e
                /\ InPages(a, e, ze) <=> e <= a /\ a < u
                /\ OnPages(ph, a) <=> s <= a /\ a < u
    <2>1. l + v + m = ze
      BY <1>1, <1>9
    <2> QED BY <1>4, <1>6, <1>10, <1>14, <2>1 DEF InPages
  <1>16. ASSUME NEW a \in Int, z < e, PageDown(a) = PageDown(z)
         PROVE  s <= a /\ a < e
    <2> DEFINE d == PageDown(z)
    <2>1. d \in Int /\ Boundary(d) /\ d <= z /\ d <= a /\ a < d + PageSize
      BY <1>9, <1>16, DownFacts
    <2>2. s <= z
      BY <1>9, <1>11
    <2>3. s <= d
      BY <1>9, <1>11, <2>2, DownIsLast
    <2> HIDE DEF d
    <2>4. d < e
      BY <1>9, <1>11, <1>16, <2>1
    <2>5. d + PageSize <= e
      BY <1>11, <2>1, <2>4, Boundaries
    <2> QED BY <1>1, <1>11, <2>1, <2>3, <2>5
  <1>17. zeropage(lc) = IF ze < e THEN ze ELSE e
    BY <1>4, <1>10
  <1> QED BY <1>9, <1>11, <1>12, <1>13, <1>15, <1>16, <1>17 DEF Places, v, f, m, l

-----------------------------------------------------------------------------

(* Segment i is in memory, with the bytes and the protection it asks for. *)
HasImage(i) ==
    \A a \in Address :
        LET ph == header.load[i]
            n  == a - (l_addr + ph.p_vaddr) IN
        InSegment(ph, a) => byte[a] = IF n < ph.p_filesz THEN FileByte(ph.p_offset + n) ELSE Zero
HasFlags(i) ==
    \A a \in Address : OnPages(header.load[i], a) => prot[a] = header.load[i].p_flags

(* The pages from the file of a shared object's first segment are there before the loop begins. *)
FirstMapped ==
    (header.e_type = "DYN" /\ c = 1) =>
        \A a \in Address :
            LET lc == loadcmds[1]
                s  == l_addr + lc.mapstart IN
            (s <= a /\ a < l_addr + lc.mapend) =>
                byte[a] = FileByte(lc.mapoff + (a - s)) /\ prot[a] = lc.prot

(* What a round of the loop, with lc, makes of a byte in memory. *)
Effect(lc, file_ok, zero_ok) ==
    LET start   == l_addr + lc.mapstart
        here(a) == MapsFile(lc) /\ file_ok /\ InPages(a, start, l_addr + lc.mapend)
        set(a)  == HasBss(lc) /\ zero(lc) <= a /\ a < zeropage(lc)
        anon(a) == MapsZeros(lc) /\ zero_ok /\ InPages(a, zeropage(lc), zeroend(lc))
        page(a) == /\ HasBss(lc) /\ zeropage(lc) > zero(lc)
                   /\ "W" \notin lc.prot
                   /\ PageDown(a) = PageDown(zero(lc)) IN
    \A a \in Address :
        /\ byte'[a] = IF set(a) \/ anon(a) THEN Zero
                      ELSE IF here(a) THEN FileByte(lc.mapoff + (a - start)) ELSE byte[a]
        /\ prot'[a] = IF page(a) \/ anon(a) \/ here(a) THEN lc.prot ELSE prot[a]

(* A round that does not kill the process has this effect. *)
LEMMA RoundEffect ==
    ASSUME NEW file_ok, NEW zero_ok, MapSegment(file_ok, zero_ok), pc' = "map",
           NEW lc, lc = loadcmds[c]
    PROVE  /\ Effect(lc, file_ok, zero_ok)
           /\ ~refused' => ~refused /\ (MapsFile(lc) => file_ok) /\ (MapsZeros(lc) => zero_ok)
  <1> DEFINE m == Mapped(lc, file_ok)
  <1>1. /\ byte' = Cleared(m, lc, zero_ok).byte
        /\ prot' = Cleared(m, lc, zero_ok).prot
        /\ refused' = (refused \/ (MapsFile(lc) /\ ~file_ok) \/ (MapsZeros(lc) /\ ~zero_ok))
    BY DEF MapSegment
  <1>2. Effect(lc, file_ok, zero_ok)
    BY <1>1 DEF Effect, Cleared, Mapped
  <1> QED BY <1>1, <1>2

(* It touches the pages of its own segment only. *)
LEMMA RoundConfined ==
    ASSUME NEW ph, NEW lc, NEW file_ok, NEW zero_ok, Effect(lc, file_ok, zero_ok),
           NEW s, NEW e, NEW z, NEW ze, NEW u,
           Parts(lc, s, e, z, ze, u), Places(ph, lc, s, e, z, ze, u)
    PROVE  \A a \in Address : ~OnPages(ph, a) => byte'[a] = byte[a] /\ prot'[a] = prot[a]
  <1> SUFFICES ASSUME NEW a \in Address, ~OnPages(ph, a)
               PROVE  byte'[a] = byte[a] /\ prot'[a] = prot[a]
    OBVIOUS
  <1>1. a \in Int /\ ~(s <= a /\ a < u)
    BY SegMapAssumption DEF Address, Places
  <1>2. /\ s \in Int /\ e \in Int /\ z \in Int /\ ze \in Int /\ u \in Int
        /\ s <= z /\ z <= ze /\ z <= e /\ e <= u /\ ze <= u
    BY DEF Places
  <1>3. zeropage(lc) = (IF ze < e THEN ze ELSE e) /\ zero(lc) = z /\ zeroend(lc) = ze
    BY DEF Parts, Places
  <1>4. ~InPages(a, l_addr + lc.mapstart, l_addr + lc.mapend)
    BY <1>1, <1>2 DEF Parts, Places
  <1>5. ~(zero(lc) <= a /\ a < zeropage(lc))
    BY <1>1, <1>2, <1>3
  <1>6. ~(MapsZeros(lc) /\ InPages(a, zeropage(lc), zeroend(lc)))
    <2> SUFFICES ASSUME MapsZeros(lc) PROVE ~InPages(a, zeropage(lc), zeroend(lc))
      OBVIOUS
    <2>1. zeropage(lc) = e
      BY <1>2, <1>3 DEF MapsZeros
    <2> QED BY <1>1, <1>2, <1>3, <2>1 DEF Places
  <1>7. ~(zeropage(lc) > zero(lc) /\ PageDown(a) = PageDown(zero(lc)))
    BY <1>1, <1>2, <1>3 DEF Places
  <1> QED BY <1>4, <1>5, <1>6, <1>7 DEF Effect


(* Unless an mmap has failed, the segment is then in memory as asked. *)
LEMMA RoundRight ==
    ASSUME NEW i, i = c, NEW ph \in Segment, ph = header.load[i], Sound(ph), l_addr \in Int,
           NEW lc, lc = loadcmd(ph), lc = loadcmds[i], FirstMapped,
           NEW file_ok, NEW zero_ok, Effect(lc, file_ok, zero_ok),
           MapsFile(lc) => file_ok, MapsZeros(lc) => zero_ok,
           NEW s, NEW e, NEW z, NEW ze, NEW u,
           Parts(lc, s, e, z, ze, u), Places(ph, lc, s, e, z, ze, u),
           UNCHANGED <<header, l_addr>>
    PROVE  HasImage(i)' /\ HasFlags(i)'
  <1> DEFINE v == l_addr + ph.p_vaddr
             zp == zeropage(lc)
  <1>1. /\ s \in Int /\ e \in Int /\ z \in Int /\ ze \in Int /\ u \in Int /\ v \in Int
        /\ s <= v /\ s <= z /\ v <= z /\ z <= ze /\ z <= e /\ e <= u /\ ze <= u
        /\ z = v + ph.p_filesz /\ ze = v + ph.p_memsz
        /\ (ze <= e => u = e) /\ zp = IF ze < e THEN ze ELSE e
    BY DEF Places
  <1>2. zero(lc) = z /\ zeroend(lc) = ze /\ s = l_addr + lc.mapstart /\ e = l_addr + lc.mapend
    BY DEF Parts
  <1>3. HasBss(lc) <=> ze > z
    <2>1. lc.allocend = ph.p_vaddr + ph.p_memsz /\ lc.dataend = ph.p_vaddr + ph.p_filesz
      BY DEF loadcmd
    <2>2. ph.p_vaddr \in Nat /\ ph.p_memsz \in Nat /\ ph.p_filesz \in Nat
      BY DEF Segment
    <2> QED BY <1>1, <2>1, <2>2 DEF HasBss
  <1>4. MapsZeros(lc) <=> ze > e /\ ze > z
    BY <1>1, <1>2, <1>3 DEF MapsZeros
  <1>5. lc.prot = ph.p_flags /\ lc.mapoff = PageDown(ph.p_offset) /\ lc.mapstart = PageDown(ph.p_vaddr)
    BY DEF loadcmd
  <1>6. ph.p_vaddr \in Nat /\ ph.p_offset \in Nat /\ ph.p_filesz \in Nat /\ ph.p_memsz \in Nat
    BY DEF Segment
  <1>7. lc.mapoff \in Int /\ lc.mapstart \in Int /\ l_addr \in Int
        /\ lc.mapstart - lc.mapoff = ph.p_vaddr - ph.p_offset
    <2>1. lc.mapoff \in Int /\ lc.mapstart \in Int
      BY <1>5, <1>6, DownFacts
    <2>2. PageDown(ph.p_vaddr) - PageDown(ph.p_offset) = ph.p_vaddr - ph.p_offset
      BY SamePlaceInPage
    <2> QED BY <1>5, <2>1, <2>2
  <1>8. ASSUME NEW a \in Address
        PROVE  a \in Int
    BY SegMapAssumption DEF Address
  <1>9. ASSUME NEW a \in Address
        PROVE  /\ (s <= a /\ a < e) =>
                     /\ prot'[a] = lc.prot
                     /\ byte'[a] = IF z <= a /\ a < ze THEN Zero ELSE FileByte(lc.mapoff + (a - s))
               /\ (e <= a /\ a < u) => prot'[a] = lc.prot /\ byte'[a] = Zero
    <2> DEFINE here == MapsFile(lc) /\ file_ok /\ InPages(a, s, e)
               set  == HasBss(lc) /\ z <= a /\ a < zp
               anon == MapsZeros(lc) /\ zero_ok /\ InPages(a, zp, ze)
               page == HasBss(lc) /\ zp > z /\ "W" \notin lc.prot /\ PageDown(a) = PageDown(z)
    <2>1. /\ byte'[a] = IF set \/ anon THEN Zero
                        ELSE IF here THEN FileByte(lc.mapoff + (a - s)) ELSE byte[a]
          /\ prot'[a] = IF page \/ anon \/ here THEN lc.prot ELSE prot[a]
      BY <1>2 DEF Effect
    <2>2. /\ InPages(a, s, e) <=> s <= a /\ a < e
          /\ InPages(a, e, ze) <=> e <= a /\ a < u
      BY <1>8 DEF Places
    <2>3. anon <=> ze > e /\ e <= a /\ a < u
      <3>1. ze > e => zp = e
        BY <1>1
      <3> HIDE DEF zp
      <3> QED BY <1>1, <1>4, <2>2, <3>1
    <2>4. a < e => (set <=> z <= a /\ a < ze)
      BY <1>1, <1>3, <1>8
    <2>5. (s <= a /\ a < e) =>
             \/ here
             \/ byte[a] = FileByte(lc.mapoff + (a - s)) /\ prot[a] = lc.prot
      <3> SUFFICES ASSUME s <= a, a < e
                   PROVE  \/ here
                          \/ byte[a] = FileByte(lc.mapoff + (a - s)) /\ prot[a] = lc.prot
        OBVIOUS
      <3>1. CASE header.e_type = "DYN" /\ c = 1
        BY <1>2, <3>1 DEF FirstMapped
      <3>2. CASE ~(header.e_type = "DYN" /\ c = 1)
        <4>1. s < e
          BY <1>1, <1>8
        <4>2. lc.mapend > lc.mapstart
          <5>1. lc.mapend \in Int
            BY <1>6, UpFacts DEF loadcmd
          <5> QED BY <1>2, <1>7, <4>1, <5>1
        <4>3. MapsFile(lc)
          BY <3>2, <4>2 DEF MapsFile
        <4> QED BY <2>2, <4>3
      <3> QED BY <3>1, <3>2
    <2> HIDE DEF here, set, anon, page
    <2>6. (s <= a /\ a < e) =>
             /\ prot'[a] = lc.prot
             /\ byte'[a] = IF z <= a /\ a < ze THEN Zero ELSE FileByte(lc.mapoff + (a - s))
      <3>1. a < e => ~anon
        BY <1>1, <1>8, <2>3
      <3> QED BY <2>1, <2>4, <2>5, <3>1
    <2>7. (e <= a /\ a < u) => anon
      BY <1>1, <1>8, <2>3
    <2> QED BY <2>1, <2>6, <2>7
  <1> HIDE DEF zp
  <1>10. HasFlags(i)'
    <2> SUFFICES ASSUME NEW a \in Address, OnPages(ph, a)
                 PROVE  prot'[a] = ph.p_flags
      BY DEF HasFlags, OnPages
    <2>1. s <= a /\ a < u
      BY <1>8 DEF Places
    <2> QED BY <1>1, <1>5, <1>8, <1>9, <2>1
  <1>11. HasImage(i)'
    <2> SUFFICES ASSUME NEW a \in Address, v <= a, a < v + ph.p_memsz
                 PROVE  byte'[a] = IF a - v < ph.p_filesz
                                   THEN FileByte(ph.p_offset + (a - v)) ELSE Zero
      BY DEF HasImage, InSegment
    <2>1. a \in Int /\ s <= a /\ a < u /\ a < ze
      BY <1>1, <1>8
    <2>2. CASE a < z
      <3>1. a - v < ph.p_filesz /\ a < e /\ ~(z <= a)
        BY <1>1, <1>6, <2>1, <2>2
      <3>2. lc.mapoff + (a - s) = ph.p_offset + (a - v)
        BY <1>2, <1>6, <1>7, <2>1
      <3> QED BY <1>9, <2>1, <3>1, <3>2
    <2>3. CASE z <= a
      <3>1. ~(a - v < ph.p_filesz) /\ (a < e \/ e <= a)
        BY <1>1, <1>6, <2>1, <2>3
      <3> QED BY <1>9, <2>1, <2>3, <3>1
    <2> QED BY <1>1, <2>1, <2>2, <2>3
  <1> QED BY <1>10, <1>11


-----------------------------------------------------------------------------
(***************************************************************************)
(* The pages of a segment when the object lies at l: those of its bytes    *)
(* from the file, and up to u those of its zeros.                          *)
(***************************************************************************)
Pages(l, ph, s, e, u) ==
    /\ s = l + PageDown(ph.p_vaddr) /\ e = l + PageUp(ph.p_vaddr + ph.p_filesz)
    /\ u = PageUp((l + ph.p_vaddr) + ph.p_memsz)
Paged(l, ph, s, e, u) ==
    /\ s \in Int /\ e \in Int /\ u \in Int /\ l + ph.p_vaddr \in Int
    /\ Boundary(s) /\ Boundary(e) /\ Boundary(u)
    /\ s <= l + ph.p_vaddr /\ s <= e /\ e <= u /\ (l + ph.p_vaddr) + ph.p_memsz <= u
    /\ u = l + PageUp(ph.p_vaddr + ph.p_memsz)
    /\ \A a : InPages(a, l + ph.p_vaddr, l + ph.p_vaddr + ph.p_memsz) <=> s <= a /\ a < u

(* Wherever an object lies, its segments take up whole pages. *)
LEMMA SegmentPages ==
    ASSUME NEW l, Boundary(l), NEW ph \in Segment, ph.p_filesz <= ph.p_memsz,
           NEW s, NEW e, NEW u, Pages(l, ph, s, e, u)
    PROVE  Paged(l, ph, s, e, u)
  <1> DEFINE v == ph.p_vaddr
             f == ph.p_filesz
             m == ph.p_memsz
  <1>1. v \in Nat /\ f \in Nat /\ m \in Nat /\ l \in Int
    <2>1. l \in Int
      BY Boundaries
    <2> QED BY <2>1 DEF Segment
  <1>2. s = l + PageDown(v) /\ e = l + PageUp(v + f) /\ u = PageUp((l + v) + m)
    BY DEF Pages
  <1>3. f <= m
    OBVIOUS
  <1> HIDE DEF v, f, m
  <1>4. /\ l + v \in Int /\ v + f \in Int /\ v + m \in Int /\ (l + v) + m = l + (v + m)
        /\ l + v + m = (l + v) + m /\ l + (v + f) \in Int /\ l + (v + m) \in Int
        /\ l + (v + f) <= l + (v + m) /\ l + v <= l + (v + f)
    BY <1>1, <1>3
  <1>5. s = PageDown(l + v) /\ e = PageUp(l + (v + f)) /\ PageUp(l + (v + m)) = l + PageUp(v + m)
    BY <1>1, <1>2, <1>4, Moved
  <1>6. u = PageUp(l + (v + m))
    BY <1>2, <1>4
  <1>7. s \in Int /\ Boundary(s) /\ s <= l + v
    BY <1>4, <1>5, DownFacts
  <1>8. e \in Int /\ Boundary(e) /\ u \in Int /\ Boundary(u) /\ l + (v + m) <= u
    BY <1>4, <1>5, <1>6, UpFacts
  <1>9. s <= e /\ e <= u
    BY <1>4, <1>5, <1>6, PagesInOrder
  <1>10. \A a : InPages(a, l + v, l + v + m) <=> s <= a /\ a < u
    BY <1>2, <1>4, <1>5 DEF InPages
  <1> QED BY <1>4, <1>5, <1>6, <1>7, <1>8, <1>9, <1>10 DEF Paged, v, f, m

(* The last segment ends last. *)
LEMMA LastEndsLast ==
    ASSUME header \in Headers, NEW i \in DOMAIN header.load,
           NEW ph, ph = header.load[i], NEW last, last = header.load[Len(header.load)]
    PROVE  /\ ph.p_vaddr + ph.p_memsz <= last.p_vaddr + last.p_memsz
           /\ last.p_vaddr \in Nat /\ last.p_memsz \in Nat
  <1>1. /\ Len(header.load) \in DOMAIN header.load /\ Len(header.load) \in Nat
        /\ i \in Nat /\ i <= Len(header.load)
    BY HeaderFacts
  <1>2. /\ ph.p_vaddr \in Nat /\ ph.p_memsz \in Nat /\ last.p_vaddr \in Nat /\ last.p_memsz \in Nat
    BY <1>1, HeaderFacts
  <1>3. CASE i = Len(header.load)
    BY <1>2, <1>3
  <1>4. CASE i < Len(header.load)
    <2>1. PageUp(ph.p_vaddr + ph.p_memsz) <= PageDown(last.p_vaddr)
      BY <1>1, <1>4, HeaderFacts DEF WellFormed
    <2> DEFINE end == ph.p_vaddr + ph.p_memsz
    <2>2. end \in Int /\ last.p_vaddr \in Int
      BY <1>2
    <2> HIDE DEF end
    <2>3. /\ PageUp(end) \in Int /\ PageDown(last.p_vaddr) \in Int
          /\ end <= PageUp(end) /\ PageDown(last.p_vaddr) <= last.p_vaddr
      BY <2>2, UpFacts, DownFacts
    <2>4. end <= last.p_vaddr
      BY <2>1, <2>2, <2>3 DEF end
    <2> QED BY <1>2, <2>4 DEF end
  <1> QED BY <1>1, <1>2, <1>3, <1>4

(* Two segments share no page. *)
LEMMA SegmentsApart ==
    ASSUME header \in Headers, Boundary(l_addr),
           NEW i \in DOMAIN header.load, NEW j \in DOMAIN header.load, i < j, NEW a \in Int,
           OnPages(header.load[i], a)
    PROVE  ~OnPages(header.load[j], a)
  <1> DEFINE p == header.load[i]
             q == header.load[j]
             l == l_addr
  <1>1. p \in Segment /\ q \in Segment /\ p.p_filesz <= p.p_memsz /\ q.p_filesz <= q.p_memsz
    BY HeaderFacts
  <1>2. PageUp(p.p_vaddr + p.p_memsz) <= PageDown(q.p_vaddr)
    BY HeaderFacts DEF WellFormed
  <1>3. OnPages(p, a) <=> InPages(a, l + p.p_vaddr, l + p.p_vaddr + p.p_memsz)
    BY DEF OnPages
  <1>4. OnPages(q, a) <=> InPages(a, l + q.p_vaddr, l + q.p_vaddr + q.p_memsz)
    BY DEF OnPages
  <1>5. OnPages(p, a) /\ l \in Int /\ Boundary(l)
    BY Boundaries
  <1> HIDE DEF p, q, l
  <1>6. ASSUME NEW s1, s1 = l + PageDown(p.p_vaddr), NEW e1, e1 = l + PageUp(p.p_vaddr + p.p_filesz),
               NEW u1, u1 = PageUp((l + p.p_vaddr) + p.p_memsz),
               NEW s2, s2 = l + PageDown(q.p_vaddr), NEW e2, e2 = l + PageUp(q.p_vaddr + q.p_filesz),
               NEW u2, u2 = PageUp((l + q.p_vaddr) + q.p_memsz)
        PROVE  ~OnPages(q, a)
    <2>1. Paged(l, p, s1, e1, u1) /\ Paged(l, q, s2, e2, u2)
      BY <1>1, <1>5, <1>6, SegmentPages DEF Pages
    <2>2. a < u1 /\ (OnPages(q, a) => s2 <= a) /\ u1 \in Int /\ s2 \in Int
      BY <1>3, <1>4, <1>5, <2>1 DEF Paged
    <2>3. u1 <= s2
      <3>1. u1 = l + PageUp(p.p_vaddr + p.p_memsz)
        BY <2>1 DEF Paged
      <3>2. p.p_vaddr + p.p_memsz \in Int /\ q.p_vaddr \in Int
        BY <1>1 DEF Segment
      <3>3. PageUp(p.p_vaddr + p.p_memsz) \in Int /\ PageDown(q.p_vaddr) \in Int
        BY <3>2, UpFacts, DownFacts
      <3> QED BY <1>2, <1>5, <1>6, <3>1, <3>3
    <2> QED BY <2>2, <2>3
  <1>7. ~OnPages(q, a)
    BY <1>6
  <1> QED BY <1>7 DEF q

(* Without holes, whatever lies between the two ends of an object is on a page of a segment. *)
LEMMA NoHoles ==
    ASSUME header \in Headers, ~has_holes, NEW l, Boundary(l), NEW a \in Int,
           l + loadcmds[1].mapstart <= a, a < l + Last.allocend
    PROVE  \E i \in DOMAIN header.load :
              LET ph == header.load[i] IN InPages(a, l + ph.p_vaddr, l + ph.p_vaddr + ph.p_memsz)
  <1> DEFINE N == Len(header.load)
             Start(i) == l + PageDown(header.load[i].p_vaddr)
             File(i) == l + PageUp(header.load[i].p_vaddr + header.load[i].p_filesz)
             End(i) == PageUp((l + header.load[i].p_vaddr) + header.load[i].p_memsz)
             T == {i \in 1 .. N : a < End(i)}
  <1>1. N \in Nat \ {0} /\ DOMAIN header.load = 1 .. N
    BY HeaderFacts
  <1>2. \A i \in 1 .. N : Paged(l, header.load[i], Start(i), File(i), End(i))
    BY <1>1, HeaderFacts, SegmentPages DEF Pages
  <1>0. ASSUME NEW i \in 1 .. N
        PROVE  /\ loadcmds[i].mapstart = PageDown(header.load[i].p_vaddr)
               /\ loadcmds[i].mapend = PageUp(header.load[i].p_vaddr + header.load[i].p_filesz)
    <2>1. loadcmds[i] = loadcmd(header.load[i])
      BY LoadcmdFacts
    <2> QED BY <2>1 DEF loadcmd
  <1>3. N \in T
    <2>1. Last.allocend = header.load[N].p_vaddr + header.load[N].p_memsz
      BY LoadcmdFacts DEF loadcmd
    <2>2. Paged(l, header.load[N], Start(N), File(N), End(N))
      BY <1>1, <1>2
    <2>3. /\ End(N) \in Int /\ (l + header.load[N].p_vaddr) + header.load[N].p_memsz <= End(N)
      BY <2>2 DEF Paged
    <2>4. l \in Int /\ header.load[N].p_vaddr \in Nat /\ header.load[N].p_memsz \in Nat
      <3>1. l \in Int
        BY Boundaries
      <3> QED BY <1>1, <3>1, HeaderFacts
    <2> HIDE DEF End, N
    <2>5. a < End(N)
      BY <2>1, <2>3, <2>4
    <2> QED BY <1>1, <2>5
  <1>4. T # {} /\ T \subseteq Nat
    BY <1>1, <1>3
  <1>5. PICK i \in T : \A j \in T : i <= j
    <2> HIDE DEF T
    <2> QED BY <1>4, SmallestOf
  <1>6. Start(i) <= a
    <2>1. CASE i = 1
      <3>1. loadcmds[1].mapstart = PageDown(header.load[1].p_vaddr)
        BY <1>0, <1>1
      <3> QED BY <2>1, <3>1
    <2>2. CASE i # 1
      <3>1. i - 1 \in 1 .. N /\ i \in 1 .. N /\ i \in 2 .. N /\ ~(i <= i - 1)
        BY <1>1, <1>5, <2>2
      <3>2. i - 1 \notin T
        BY <1>5, <3>1
      <3>3. Paged(l, header.load[i - 1], Start(i - 1), File(i - 1), End(i - 1))
        BY <1>2, <3>1
      <3>4. loadcmds[i - 1].mapend = loadcmds[i].mapstart
        BY <3>1, LoadcmdFacts DEF has_holes
      <3>5. File(i - 1) = Start(i)
        BY <1>0, <3>1, <3>4
      <3>6. End(i - 1) \in Int /\ ~(a < End(i - 1))
        BY <3>1, <3>2, <3>3 DEF Paged
      <3>7. File(i - 1) <= End(i - 1) /\ File(i - 1) \in Int
        BY <3>3 DEF Paged
      <3> HIDE DEF Start, File, End
      <3> QED BY <3>5, <3>6, <3>7
    <2> QED BY <2>1, <2>2
  <1>7. i \in 1 .. N /\ a < End(i)
    BY <1>5
  <1>8. Paged(l, header.load[i], Start(i), File(i), End(i))
    BY <1>2, <1>7
  <1> HIDE DEF Start, File, End, N, T
  <1>9. InPages(a, l + header.load[i].p_vaddr, l + header.load[i].p_vaddr + header.load[i].p_memsz)
    BY <1>6, <1>7, <1>8 DEF Paged
  <1> QED BY <1>1, <1>7, <1>9

-----------------------------------------------------------------------------
(***************************************************************************)
(* The inductive invariant.  While the segments are mapped, those before c *)
(* are as asked (unless an mmap has failed), the object lies where         *)
(* l_map_start and l_map_end say, and no page outside the segments can be  *)
(* accessed, if l_contiguous says so.                                      *)
(***************************************************************************)
PhdrVaddr == header.load[1].p_vaddr + (header.e_phoff - header.load[1].p_offset)

Located ==
    /\ Boundary(l_addr)
    /\ l_map_start = l_addr + loadcmds[1].mapstart
    /\ l_map_end = l_addr + Last.allocend
    /\ 0 <= l_map_start /\ l_map_end <= Limit

HolesShut ==
    l_contiguous =>
        \A a \in Address :
            (/\ l_map_start <= a /\ a < l_map_end
             /\ \A i \in DOMAIN header.load : ~OnPages(header.load[i], a)) => prot[a] = {}

Mapping ==
    /\ \A i \in DOMAIN header.load : Sound(header.load[i])
    /\ c \in 1 .. Len(header.load) + 1
    /\ Located
    /\ FirstMapped
    /\ ~refused => \A i \in 1 .. c - 1 : HasImage(i) /\ HasFlags(i)
    /\ HolesShut
    /\ pc = "map" => l_phdr = IF c = 1 THEN header.pt_phdr ELSE PhdrVaddr
    /\ pc = "done" => c = Len(header.load) + 1 /\ l_phdr = PhdrVaddr + l_addr

SegMapInv ==
    /\ header \in Headers
    /\ pc = "read" => c = 1 /\ l_addr = 0
    /\ pc \in {"map", "done"} => Mapping

(* Nothing is mapped in the beginning. *)
LEMMA InitSegMap ==
    ASSUME Init
    PROVE  SegMapInv
  BY DEF Init, SegMapInv

(* Zero is a boundary. *)
LEMMA ZeroBoundary == Boundary(0)
  <1>1. 0 \in Int /\ 0 = 0 * PageSize
    BY SegMapAssumption
  <1> QED BY <1>1 DEF Boundary

(* What lies in the first page begins at zero. *)
LEMMA FirstPage ==
    ASSUME NEW o \in Nat, o < PageSize
    PROVE  PageDown(o) = 0
  <1> DEFINE d == PageDown(o)
  <1>1. d \in Int /\ Boundary(d) /\ d <= o /\ o < d + PageSize
    BY DownFacts
  <1>2. d < 0 => d + PageSize <= 0
    BY <1>1, ZeroBoundary, Boundaries
  <1>3. 0 < d => 0 + PageSize <= d
    BY <1>1, ZeroBoundary, Boundaries
  <1>4. PageSize \in Nat
    BY SegMapAssumption
  <1> HIDE DEF d
  <1>5. d = 0
    BY <1>1, <1>2, <1>3, <1>4
  <1> QED BY <1>5 DEF d

(* The first and the last segment of an object. *)
LEMMA EndsOfObject ==
    ASSUME header \in Headers,
           NEW first, first = header.load[1], NEW last, last = header.load[Len(header.load)]
    PROVE  /\ first \in Segment /\ last \in Segment
           /\ first.p_filesz <= first.p_memsz /\ last.p_filesz <= last.p_memsz
           /\ first.p_vaddr \in Nat /\ first.p_offset \in Nat /\ first.p_filesz \in Nat
           /\ first.p_memsz \in Nat /\ last.p_vaddr \in Nat /\ last.p_memsz \in Nat
           /\ first.p_vaddr + first.p_memsz <= last.p_vaddr + last.p_memsz
           /\ loadcmds[1] = loadcmd(first) /\ Last = loadcmd(last)
           /\ maplength = (last.p_vaddr + last.p_memsz) - PageDown(first.p_vaddr)
           /\ 1 \in DOMAIN header.load /\ Len(header.load) \in DOMAIN header.load
  <1>1. 1 \in DOMAIN header.load /\ Len(header.load) \in DOMAIN header.load
    BY HeaderFacts
  <1>2. loadcmds[1] = loadcmd(first) /\ Last = loadcmd(last)
    BY LoadcmdFacts
  <1>3. maplength = (last.p_vaddr + last.p_memsz) - PageDown(first.p_vaddr)
    BY <1>2 DEF maplength, loadcmd
  <1>4. first.p_vaddr + first.p_memsz <= last.p_vaddr + last.p_memsz
    BY <1>1, LastEndsLast
  <1> QED BY <1>1, <1>2, <1>3, <1>4, HeaderFacts

(* The first mapping of a shared object. *)
LEMMA MapWholeStep ==
    ASSUME SegMapInv, NEW base \in Bases, MapWhole(base)
    PROVE  SegMapInv'
  <1> DEFINE first == header.load[1]
             last  == header.load[Len(header.load)]
             l     == base - PageDown(first.p_vaddr)
             end   == l + (last.p_vaddr + last.p_memsz)
  <1>1. /\ header \in Headers /\ header' = header /\ c' = 1 /\ pc' = "map"
        /\ \A i \in DOMAIN header.load : Sound(header.load[i])
        /\ header.e_type = "DYN" /\ l_phdr' = header.pt_phdr
    BY DEF SegMapInv, MapWhole
  <1>2. /\ first \in Segment /\ last \in Segment
        /\ first.p_filesz <= first.p_memsz /\ last.p_filesz <= last.p_memsz
        /\ first.p_vaddr \in Nat /\ first.p_offset \in Nat /\ first.p_filesz \in Nat
        /\ first.p_memsz \in Nat /\ last.p_vaddr \in Nat /\ last.p_memsz \in Nat
        /\ first.p_vaddr + first.p_memsz <= last.p_vaddr + last.p_memsz
        /\ loadcmds[1] = loadcmd(first) /\ Last = loadcmd(last)
        /\ maplength = (last.p_vaddr + last.p_memsz) - PageDown(first.p_vaddr)
        /\ 1 \in DOMAIN header.load /\ Len(header.load) \in DOMAIN header.load
    BY <1>1, EndsOfObject
  <1>3. /\ loadcmds[1].mapstart = PageDown(first.p_vaddr)
        /\ loadcmds[1].mapend = PageUp(first.p_vaddr + first.p_filesz)
        /\ loadcmds[1].mapoff = PageDown(first.p_offset)
        /\ Last.allocend = last.p_vaddr + last.p_memsz
        /\ Last.mapstart = PageDown(last.p_vaddr)
    BY <1>2 DEF loadcmd
  <1>4. first.p_offset < PageSize
    BY <1>1, HeaderFacts DEF WellFormed
  <1>5. Fits(header, base) /\ base \in Nat /\ base % PageSize = 0
    BY <1>1, SegMapAssumption
  <1>6. (base - PageDown(first.p_vaddr)) + last.p_vaddr + last.p_memsz <= Limit
    BY <1>5 DEF Fits
  <1>7. /\ l_addr' = base - loadcmds[1].mapstart
        /\ l_map_start' = base /\ l_map_end' = base + maplength
        /\ \A a \in Address :
              /\ byte'[a] = IF InPages(a, base, base + maplength) THEN FileByte(a - base) ELSE byte[a]
              /\ prot'[a] = IF has_holes /\ InPages(a, l_addr' + loadcmds[1].mapend, l_addr' + Last.mapstart)
                            THEN {}
                            ELSE IF InPages(a, base, base + maplength)
                            THEN loadcmds[1].prot ELSE prot[a]
    BY DEF MapWhole
  <1>8. loadcmds' = loadcmds /\ Last' = Last
    BY <1>1 DEF loadcmds, Last
  <1>9. Boundary(base) /\ PageDown(first.p_vaddr) \in Int /\ Boundary(PageDown(first.p_vaddr))
    <2>1. Boundary(base)
      BY <1>5, NoRemainder
    <2>2. ASSUME NEW v \in Nat PROVE PageDown(v) \in Int /\ Boundary(PageDown(v))
      BY DownFacts
    <2> QED BY <1>2, <2>1, <2>2
  <1>10. Boundary(l) /\ l \in Int /\ l_addr' = l
    BY <1>3, <1>5, <1>7, <1>9, Boundaries
  <1>11. base + maplength = end /\ base = l + PageDown(first.p_vaddr) /\ end \in Int /\ end <= Limit
    <2> DEFINE d == PageDown(first.p_vaddr)
               v == last.p_vaddr
               m == last.p_memsz
    <2>1. /\ d \in Int /\ v \in Nat /\ m \in Nat /\ base \in Nat /\ l = base - d /\ end = l + (v + m)
          /\ maplength = (v + m) - d /\ (base - d) + v + m <= Limit /\ Limit \in Nat
      BY <1>2, <1>5, <1>6, <1>9, SegMapAssumption
    <2> HIDE DEF d, v, m, l, end
    <2>2. base + maplength = end /\ base = l + d /\ end \in Int /\ end <= Limit
      BY <2>1
    <2> QED BY <2>2 DEF d
  <1> HIDE DEF l
  <1>12. Located'
    BY <1>3, <1>5, <1>7, <1>8, <1>10, <1>11 DEF Located
  <1> DEFINE e1 == l + PageUp(first.p_vaddr + first.p_filesz)
             u1 == PageUp((l + first.p_vaddr) + first.p_memsz)
             s2 == l + PageDown(last.p_vaddr)
             e2 == l + PageUp(last.p_vaddr + last.p_filesz)
             u2 == PageUp((l + last.p_vaddr) + last.p_memsz)
  <1>13. Paged(l, first, base, e1, u1) /\ Paged(l, last, s2, e2, u2)
    BY <1>2, <1>10, <1>11, SegmentPages DEF Pages
  <1>14. (l + last.p_vaddr) + last.p_memsz = end /\ u2 = PageUp(end)
    BY <1>2, <1>10
  <1>15. \A a \in Int : /\ InPages(a, base, end) <=> base <= a /\ a < u2
                        /\ InPages(a, e1, s2) <=> e1 <= a /\ a < s2
    <2>1. PageDown(base) = base /\ PageDown(e1) = e1 /\ PageUp(s2) = s2
      BY <1>13, BoundaryFixed DEF Paged
    <2> QED BY <1>14, <2>1 DEF InPages
  <1>16. ASSUME NEW a \in Address
         PROVE  a \in Int
    BY SegMapAssumption DEF Address
  <1>17. e1 \in Int /\ u1 \in Int /\ s2 \in Int /\ u2 \in Int /\ e1 <= u1 /\ end <= u2 /\ u1 <= u2
    <2>1. e1 \in Int /\ u1 \in Int /\ s2 \in Int /\ u2 \in Int /\ e1 <= u1 /\ end <= u2
      BY <1>13, <1>14 DEF Paged
    <2>2. (l + first.p_vaddr) + first.p_memsz <= end /\ (l + first.p_vaddr) + first.p_memsz \in Int
      <3>1. /\ first.p_vaddr \in Nat /\ first.p_memsz \in Nat /\ l \in Int
            /\ first.p_vaddr + first.p_memsz <= last.p_vaddr + last.p_memsz
            /\ last.p_vaddr \in Nat /\ last.p_memsz \in Nat
        BY <1>2, <1>10
      <3> HIDE DEF first, last
      <3> QED BY ONLY <3>1
    <2> HIDE DEF end
    <2>3. u1 <= u2
      BY <1>11, <1>14, <2>2, PagesInOrder
    <2> QED BY <2>1, <2>3
  <1>18. l_addr' + loadcmds[1].mapend = e1 /\ l_addr' + Last.mapstart = s2
    BY <1>3, <1>10
  <1> HIDE DEF end, e1, u1, s2, e2, u2
  <1>19. FirstMapped'
    <2> SUFFICES ASSUME NEW a \in Address, base <= a, a < e1
                 PROVE  /\ byte'[a] = FileByte(loadcmds[1].mapoff + (a - base))
                        /\ prot'[a] = loadcmds[1].prot
      BY <1>3, <1>8, <1>10, <1>11, <1>18 DEF FirstMapped
    <2>1. loadcmds[1].mapoff + (a - base) = a - base
      BY <1>2, <1>3, <1>4, <1>5, <1>16, FirstPage
    <2>2. InPages(a, base, base + maplength) /\ ~InPages(a, e1, s2)
      BY <1>5, <1>11, <1>15, <1>16, <1>17
    <2> QED BY <1>7, <1>18, <2>1, <2>2
  <1>20. HolesShut'
    <2> SUFFICES ASSUME NEW a \in Address, base <= a, a < end,
                        \A i \in DOMAIN header.load :
                            ~InPages(a, l + header.load[i].p_vaddr,
                                        l + header.load[i].p_vaddr + header.load[i].p_memsz)
                 PROVE  prot'[a] = {}
      BY <1>1, <1>7, <1>10, <1>11 DEF HolesShut, OnPages
    <2>1. has_holes
      BY <1>1, <1>3, <1>10, <1>11, <1>16, NoHoles DEF end
    <2>2. ~(base <= a /\ a < u1) /\ ~(s2 <= a /\ a < u2)
      BY <1>2, <1>13 DEF Paged
    <2>3. InPages(a, e1, s2)
      BY <1>5, <1>11, <1>15, <1>16, <1>17, <2>2
    <2> QED BY <1>7, <1>18, <2>1, <2>3
  <1>21. Mapping'
    <2>1. c' \in 1 .. Len(header.load) + 1 /\ ~\E i \in 1 .. c' - 1 : TRUE
      BY <1>1, HeaderFacts
    <2> QED BY <1>1, <1>12, <1>19, <1>20, <2>1 DEF Mapping
  <1> QED BY <1>1, <1>21 DEF SegMapInv

(* An executable is mapped where its headers say. *)
LEMMA StartExecStep ==
    ASSUME SegMapInv, StartExec
    PROVE  SegMapInv'
  <1> DEFINE first == header.load[1]
             last  == header.load[Len(header.load)]
  <1>1. /\ header \in Headers /\ header' = header /\ c' = 1 /\ pc' = "map"
        /\ \A i \in DOMAIN header.load : Sound(header.load[i])
        /\ header.e_type = "EXEC" /\ l_phdr' = header.pt_phdr
        /\ l_addr = 0 /\ l_addr' = 0 /\ prot' = prot
        /\ l_map_start' = loadcmds[1].mapstart
        /\ l_map_end' = loadcmds[1].mapstart + maplength
        /\ l_contiguous' = ~has_holes
    BY DEF SegMapInv, StartExec
  <1>2. /\ first.p_vaddr \in Nat /\ last.p_vaddr \in Nat /\ last.p_memsz \in Nat
        /\ loadcmds[1] = loadcmd(first) /\ Last = loadcmd(last)
        /\ maplength = (last.p_vaddr + last.p_memsz) - PageDown(first.p_vaddr)
    BY <1>1, EndsOfObject
  <1>3. /\ loadcmds[1].mapstart = PageDown(first.p_vaddr)
        /\ Last.allocend = last.p_vaddr + last.p_memsz
    BY <1>2 DEF loadcmd
  <1>4. loadcmds' = loadcmds /\ Last' = Last
    BY <1>1 DEF loadcmds, Last
  <1>5. Fits(header, PageDown(first.p_vaddr))
    BY <1>1, SegMapAssumption
  <1> DEFINE d == PageDown(first.p_vaddr)
             v == last.p_vaddr
             m == last.p_memsz
  <1>6. (d - d) + v + m <= Limit /\ Limit \in Nat
    BY <1>5, SegMapAssumption DEF Fits
  <1>7. d \in Int /\ 0 <= d
    <2>1. ASSUME NEW w \in Nat PROVE PageDown(w) \in Int /\ 0 <= PageDown(w)
      BY ZeroBoundary, DownFacts, DownIsLast
    <2> QED BY <1>2, <2>1
  <1>8. v \in Nat /\ m \in Nat /\ l_map_start' = d /\ l_map_end' = d + ((v + m) - d)
    BY <1>1, <1>2, <1>3
  <1>9. loadcmds[1].mapstart = d /\ Last.allocend = v + m
    BY <1>3
  <1> HIDE DEF d, v, m, first, last
  <1>10. d + ((v + m) - d) = v + m /\ v + m <= Limit /\ 0 + d = d /\ 0 + (v + m) = v + m
    BY <1>6, <1>7, <1>8
  <1>11. Located'
    BY <1>1, <1>4, <1>7, <1>8, <1>9, <1>10, ZeroBoundary DEF Located
  <1>12. FirstMapped'
    BY <1>1 DEF FirstMapped
  <1>13. HolesShut'
    <2> SUFFICES ASSUME ~has_holes, NEW a \in Address, d <= a, a < v + m,
                        \A i \in DOMAIN header.load :
                            ~InPages(a, 0 + header.load[i].p_vaddr,
                                        0 + header.load[i].p_vaddr + header.load[i].p_memsz)
                 PROVE  FALSE
      BY <1>1, <1>8, <1>10 DEF HolesShut, OnPages
    <2>1. a \in Int
      BY SegMapAssumption DEF Address
    <2>2. 0 + loadcmds[1].mapstart <= a /\ a < 0 + Last.allocend
      BY <1>9, <1>10
    <2> QED BY <1>1, <2>1, <2>2, ZeroBoundary, NoHoles
  <1>14. Mapping'
    <2>1. c' \in 1 .. Len(header.load) + 1 /\ ~\E i \in 1 .. c' - 1 : TRUE
      BY <1>1, HeaderFacts
    <2> QED BY <1>1, <1>11, <1>12, <1>13, <2>1 DEF Mapping
  <1> QED BY <1>1, <1>14 DEF SegMapInv

(* Where the program headers are, if the first segment holds them. *)
LEMMA HeadersInFirst ==
    ASSUME header \in Headers, NEW first, first = header.load[1], Sound(first)
    PROVE  LET lc == loadcmds[1] IN
           /\ PhdrVaddr \in Nat \ {0} /\ header.pt_phdr \in {0, PhdrVaddr}
           /\ lc.mapoff <= header.e_phoff
           /\ lc.mapend - lc.mapstart + lc.mapoff >= header.e_phoff + header.phdrs
           /\ lc.mapstart + header.e_phoff - lc.mapoff = PhdrVaddr
  <1> DEFINE v == first.p_vaddr
             o == first.p_offset
             f == first.p_filesz
             p == header.e_phoff
             n == header.phdrs
             dv == PageDown(v)
             do == PageDown(o)
             uv == PageUp(v + f)
  <1>1. /\ first \in Segment /\ v \in Nat /\ o \in Nat /\ f \in Nat /\ p \in Nat /\ n \in Nat
        /\ loadcmds[1] = loadcmd(first)
    BY HeaderFacts, EndsOfObject
  <1>2. o < p /\ p + n <= o + f /\ header.pt_phdr \in {0, v + (p - o)}
    BY HeaderFacts DEF WellFormed
  <1>3. dv - do = v - o
    BY <1>1, SamePlaceInPage
  <1>4. /\ loadcmds[1].mapstart = dv /\ loadcmds[1].mapoff = do /\ loadcmds[1].mapend = uv
        /\ PhdrVaddr = v + (p - o)
    BY <1>1 DEF loadcmd, PhdrVaddr
  <1> HIDE DEF v, o, f, p, n
  <1>5. dv \in Int /\ do \in Int /\ do <= o
    BY <1>1, DownFacts
  <1>6. uv \in Int /\ v + f <= uv
    <2>1. v + f \in Int
      BY <1>1
    <2> QED BY <2>1, UpFacts
  <1> HIDE DEF dv, do, uv
  <1>7. v + (p - o) \in Nat \ {0}
    BY <1>1, <1>2
  <1>8. do <= p /\ uv - dv + do >= p + n /\ dv + p - do = v + (p - o)
    BY <1>1, <1>2, <1>3, <1>5, <1>6
  <1> QED BY <1>2, <1>4, <1>7, <1>8 DEF p, n

(* A segment is on its pages. *)
LEMMA SegmentOnPages ==
    ASSUME header \in Headers, Boundary(l_addr), NEW i \in DOMAIN header.load, NEW a \in Int,
           InSegment(header.load[i], a)
    PROVE  OnPages(header.load[i], a)
  <1> DEFINE v == l_addr + header.load[i].p_vaddr
             e == v + header.load[i].p_memsz
  <1>1. v \in Int /\ e \in Int
    <2>1. l_addr \in Int
      BY Boundaries
    <2> QED BY <2>1, HeaderFacts
  <1>2. v <= a /\ a < e
    BY DEF InSegment
  <1>3. SUFFICES InPages(a, v, e)
    BY DEF OnPages
  <1> HIDE DEF v, e
  <1> QED BY <1>1, <1>2, DownFacts, UpFacts DEF InPages

(* One round of the loop. *)
LEMMA MapSegmentStep ==
    ASSUME SegMapInv, NEW file_ok, NEW zero_ok, MapSegment(file_ok, zero_ok)
    PROVE  SegMapInv'
  <1> DEFINE ph == header.load[c]
             lc == loadcmds[c]
             s  == l_addr + lc.mapstart
             e  == l_addr + lc.mapend
             z  == zero(lc)
             ze == zeroend(lc)
             u  == PageUp(ze)
  <1>1. /\ pc = "map" /\ c \in DOMAIN loadcmds /\ c' = c + 1
        /\ UNCHANGED <<header, l_addr, l_map_start, l_map_end, l_contiguous>>
        /\ pc' \in {"map", "dead", "crashed"}
        /\ l_phdr' = IF FindsPhdr(lc) THEN lc.mapstart + header.e_phoff - lc.mapoff ELSE l_phdr
    BY DEF MapSegment
  <1>2. SUFFICES ASSUME pc' = "map" PROVE SegMapInv'
    BY <1>1 DEF SegMapInv
  <1>3. header \in Headers /\ Mapping /\ header' \in Headers
    BY <1>1 DEF SegMapInv
  <1>4. /\ c \in 1 .. Len(header.load) /\ lc = loadcmd(ph) /\ DOMAIN header.load = 1 .. Len(header.load)
        /\ Len(header.load) \in Nat
    BY <1>1, <1>3, LoadcmdFacts, HeaderFacts
  <1>5. ph \in Segment /\ ph.p_filesz <= ph.p_memsz
    BY <1>3, <1>4, HeaderFacts
  <1>6. Sound(ph) /\ Boundary(l_addr) /\ FirstMapped
    BY <1>3, <1>4 DEF Mapping, Located
  <1>7. Effect(lc, file_ok, zero_ok)
        /\ (~refused' => ~refused /\ (MapsFile(lc) => file_ok) /\ (MapsZeros(lc) => zero_ok))
    BY <1>2, RoundEffect
  <1>8. Parts(lc, s, e, z, ze, u)
    BY DEF Parts
  <1> HIDE DEF ph, lc, s, e, z, ze, u
  <1>9. Places(ph, lc, s, e, z, ze, u)
    BY <1>4, <1>5, <1>6, <1>8, PartsInPlace
  <1>10. \A a \in Address : ~OnPages(ph, a) => byte'[a] = byte[a] /\ prot'[a] = prot[a]
    BY <1>7, <1>8, <1>9, RoundConfined
  <1>11. ASSUME ~refused', NEW i, i = c
         PROVE  HasImage(i)' /\ HasFlags(i)'
    <2>1. ph = header.load[i] /\ lc = loadcmds[i] /\ l_addr \in Int
      BY <1>6, <1>11, Boundaries DEF ph, lc
    <2>2. MapsFile(lc) => file_ok
      BY <1>7, <1>11
    <2>3. MapsZeros(lc) => zero_ok
      BY <1>7, <1>11
    <2>4. UNCHANGED <<header, l_addr>>
      BY <1>1
    <2> QED BY ONLY <1>4, <1>5, <1>6, <1>7, <1>8, <1>9, <1>11, <2>1, <2>2, <2>3, <2>4, RoundRight
  <1>12. ASSUME ~refused', NEW i \in 1 .. c - 1
         PROVE  HasImage(i)' /\ HasFlags(i)'
    <2>1. HasImage(i) /\ HasFlags(i)
      BY <1>3, <1>7, <1>12 DEF Mapping
    <2>2. i \in DOMAIN header.load /\ c \in DOMAIN header.load /\ i < c
      BY <1>4
    <2>3. ASSUME NEW a \in Address, OnPages(header.load[i], a)
          PROVE  byte'[a] = byte[a] /\ prot'[a] = prot[a]
      <3>1. a \in Int
        BY SegMapAssumption DEF Address
      <3>2. ~OnPages(ph, a)
        BY <1>3, <1>6, <2>2, <2>3, <3>1, SegmentsApart DEF ph
      <3> QED BY <1>10, <3>2
    <2>4. ASSUME NEW a \in Address, InSegment(header.load[i], a)
          PROVE  OnPages(header.load[i], a)
      <3>1. a \in Int
        BY SegMapAssumption DEF Address
      <3> QED BY <1>3, <1>6, <2>2, <2>4, <3>1, SegmentOnPages
    <2>5. HasImage(i)'
      BY <1>1, <2>1, <2>3, <2>4 DEF HasImage, InSegment
    <2>6. HasFlags(i)'
      BY <1>1, <2>1, <2>3 DEF HasFlags, OnPages
    <2> QED BY <2>5, <2>6
  <1>13. ~refused' => \A i \in 1 .. c' - 1 : HasImage(i)' /\ HasFlags(i)'
    <2> SUFFICES ASSUME ~refused', NEW i \in 1 .. c' - 1 PROVE HasImage(i)' /\ HasFlags(i)'
      OBVIOUS
    <2>1. i = c \/ i \in 1 .. c - 1
      BY <1>1, <1>4
    <2> QED BY <1>11, <1>12, <2>1
  <1>14. HolesShut'
    <2> SUFFICES ASSUME l_contiguous, NEW a \in Address, l_map_start <= a, a < l_map_end,
                        \A i \in DOMAIN header.load : ~OnPages(header.load[i], a)
                 PROVE  prot'[a] = {}
      BY <1>1 DEF HolesShut, OnPages
    <2>1. prot[a] = {}
      BY <1>3 DEF Mapping, HolesShut
    <2>2. ~OnPages(ph, a)
      BY <1>4 DEF ph
    <2> QED BY <1>10, <2>1, <2>2
  <1>15. Located'
    <2>1. loadcmds' = loadcmds /\ Last' = Last
      BY <1>1 DEF loadcmds, Last
    <2> QED BY <1>1, <1>3, <2>1 DEF Mapping, Located
  <1>16. c' \in 1 .. Len(header.load) + 1 /\ c' # 1
    BY <1>1, <1>4
  <1>17. FirstMapped'
    BY <1>16 DEF FirstMapped
  <1>18. l_phdr' = PhdrVaddr /\ PhdrVaddr' = PhdrVaddr
    <2>1. PhdrVaddr' = PhdrVaddr
      BY <1>1 DEF PhdrVaddr
    <2>2. 1 \in DOMAIN header.load /\ Sound(header.load[1])
      BY <1>3, <1>4 DEF Mapping
    <2>3. PhdrVaddr \in Nat \ {0} /\ header.pt_phdr \in {0, PhdrVaddr}
      BY <1>3, <2>2, HeadersInFirst
    <2>4. l_phdr = IF c = 1 THEN header.pt_phdr ELSE PhdrVaddr
      BY <1>1, <1>3 DEF Mapping
    <2>5. CASE l_phdr # 0
      BY <1>1, <2>1, <2>3, <2>4, <2>5 DEF FindsPhdr
    <2>6. CASE l_phdr = 0
      <3>1. c = 1
        BY <2>3, <2>4, <2>6
      <3>2. lc = loadcmds[1]
        BY <3>1 DEF lc
      <3>3. /\ lc.mapoff <= header.e_phoff
            /\ lc.mapend - lc.mapstart + lc.mapoff >= header.e_phoff + header.phdrs
            /\ lc.mapstart + header.e_phoff - lc.mapoff = PhdrVaddr
        BY <1>3, <2>2, <3>2, HeadersInFirst
      <3>4. FindsPhdr(lc)
        BY <2>6, <3>3 DEF FindsPhdr
      <3> QED BY <1>1, <2>1, <3>3, <3>4
    <2> QED BY <2>5, <2>6
  <1>19. Mapping'
    BY <1>1, <1>2, <1>3, <1>13, <1>14, <1>15, <1>16, <1>17, <1>18 DEF Mapping
  <1> QED BY <1>2, <1>3, <1>19 DEF SegMapInv


(* After the last round l_phdr becomes an address. *)
LEMMA FinishMapStep ==
    ASSUME SegMapInv, FinishMap
    PROVE  SegMapInv'
  <1>1. /\ pc = "map" /\ c \notin DOMAIN loadcmds /\ pc' = "done"
        /\ l_phdr' = IF l_phdr # 0 THEN l_phdr + l_addr ELSE 0
        /\ UNCHANGED <<header, c, byte, prot, refused, l_addr, l_map_start, l_map_end, l_contiguous>>
    BY DEF FinishMap
  <1>2. header \in Headers /\ Mapping
    BY <1>1 DEF SegMapInv
  <1>3. /\ DOMAIN loadcmds = 1 .. Len(header.load) /\ Len(header.load) \in Nat \ {0}
        /\ DOMAIN header.load = 1 .. Len(header.load)
    BY <1>2, LoadcmdFacts, HeaderFacts
  <1>4. c \in 1 .. Len(header.load) + 1
    BY <1>2 DEF Mapping
  <1>5. c = Len(header.load) + 1 /\ c # 1
    BY <1>1, <1>3, <1>4
  <1>6. l_phdr = PhdrVaddr
    BY <1>1, <1>2, <1>5 DEF Mapping
  <1>7. Sound(header.load[1])
    BY <1>2, <1>3 DEF Mapping
  <1>8. PhdrVaddr # 0
    BY <1>2, <1>7, HeadersInFirst
  <1>9. PhdrVaddr' = PhdrVaddr /\ loadcmds' = loadcmds /\ Last' = Last
    BY <1>1 DEF PhdrVaddr, loadcmds, Last
  <1>10. Located' /\ FirstMapped' /\ HolesShut'
    BY <1>1, <1>2, <1>9 DEF Mapping, Located, FirstMapped, HolesShut, OnPages
  <1>11. ASSUME ~refused', NEW i \in 1 .. c - 1
         PROVE  HasImage(i)' /\ HasFlags(i)'
    <2>1. HasImage(i) /\ HasFlags(i)
      BY <1>1, <1>2, <1>11 DEF Mapping
    <2> QED BY <1>1, <2>1 DEF HasImage, HasFlags, InSegment, OnPages
  <1>12. Mapping'
    BY <1>1, <1>2, <1>5, <1>6, <1>8, <1>9, <1>10, <1>11 DEF Mapping
  <1> QED BY <1>1, <1>2, <1>12 DEF SegMapInv

(* Nothing changes where no variable does. *)
LEMMA SegMapStutter ==
    ASSUME SegMapInv, UNCHANGED vars
    PROVE  SegMapInv'
  <1>1. /\ UNCHANGED <<header, pc, c, byte, prot, refused, l_addr, l_map_start, l_map_end,
                       l_contiguous, l_phdr>>
    BY DEF vars
  <1>2. loadcmds' = loadcmds /\ Last' = Last /\ PhdrVaddr' = PhdrVaddr
    BY <1>1 DEF loadcmds, Last, PhdrVaddr
  <1>3. Located' <=> Located
    BY <1>1, <1>2 DEF Located
  <1>4. FirstMapped' <=> FirstMapped
    BY <1>1, <1>2 DEF FirstMapped
  <1>5. HolesShut' <=> HolesShut
    BY <1>1 DEF HolesShut, OnPages
  <1>6. ASSUME NEW i PROVE (HasImage(i)' <=> HasImage(i)) /\ (HasFlags(i)' <=> HasFlags(i))
    BY <1>1 DEF HasImage, HasFlags, InSegment, OnPages
  <1>7. Mapping => Mapping'
    BY <1>1, <1>2, <1>3, <1>4, <1>5, <1>6 DEF Mapping
  <1> QED BY <1>1, <1>7 DEF SegMapInv

(***************************************************************************)
(* Round by round: the segments that map_object_loadcmd has been through   *)
(* are in memory as asked, whatever happens in the later rounds.           *)
(***************************************************************************)
THEOREM RoundByRound == Spec => []SegMapInv
  <1>1. Init => SegMapInv
    BY InitSegMap
  <1>2. SegMapInv /\ [Next]_vars => SegMapInv'
    <2> SUFFICES ASSUME SegMapInv, [Next]_vars PROVE SegMapInv'
      OBVIOUS
    <2>1. CASE Rejected
      BY <2>1 DEF Rejected, SegMapInv
    <2>2. CASE \E base \in Bases : MapWhole(base)
      BY <2>2, MapWholeStep
    <2>3. CASE StartExec
      BY <2>3, StartExecStep
    <2>4. CASE \E file_ok, zero_ok \in Outcomes : MapSegment(file_ok, zero_ok)
      BY <2>4, MapSegmentStep
    <2>5. CASE FinishMap
      BY <2>5, FinishMapStep
    <2>6. CASE Finished \/ UNCHANGED vars
      BY <2>6, SegMapStutter DEF Finished
    <2> QED BY <2>1, <2>2, <2>3, <2>4, <2>5, <2>6 DEF Next
  <1> QED BY <1>1, <1>2, PTL DEF Spec

(* A mapped object looks as its headers say (load.c), unless an mmap has failed. *)
THEOREM ImageInMemory == Spec => []ImageAsAsked
  <1>1. SegMapInv => ImageAsAsked
    <2> SUFFICES ASSUME SegMapInv, pc = "done", ~refused, NEW i \in DOMAIN header.load
                 PROVE  HasImage(i)
      BY DEF ImageAsAsked, HasImage
    <2>1. header \in Headers /\ Mapping
      BY DEF SegMapInv
    <2>2. i \in 1 .. c - 1
      BY <2>1, HeaderFacts DEF Mapping
    <2> QED BY <2>1, <2>2 DEF Mapping
  <1> QED BY <1>1, RoundByRound, PTL

(* Each page of a segment has the segment's protection in the end, unless an mmap has failed. *)
THEOREM ProtectionInForce == Spec => []ProtectedAsAsked
  <1>1. SegMapInv => ProtectedAsAsked
    <2> SUFFICES ASSUME SegMapInv, pc = "done", ~refused, NEW i \in DOMAIN header.load
                 PROVE  HasFlags(i)
      BY DEF ProtectedAsAsked, HasFlags
    <2>1. header \in Headers /\ Mapping
      BY DEF SegMapInv
    <2>2. i \in 1 .. c - 1
      BY <2>1, HeaderFacts DEF Mapping
    <2> QED BY <2>1, <2>2 DEF Mapping
  <1> QED BY <1>1, RoundByRound, PTL

(* What l_contiguous promises holds even where mmap has failed: no page between segments is open. *)
THEOREM HolesStayClosed == Spec => []HolesClosed
  <1>1. SegMapInv => HolesClosed
    <2> SUFFICES ASSUME SegMapInv, pc = "done", l_contiguous, NEW a \in l_map_start .. l_map_end - 1,
                        \A i \in DOMAIN header.load : ~OnPages(header.load[i], a)
                 PROVE  prot[a] = {}
      BY DEF HolesClosed
    <2>1. header \in Headers /\ Mapping
      BY DEF SegMapInv
    <2> DEFINE first == header.load[1]
               last  == header.load[Len(header.load)]
    <2>2. l_map_start = l_addr + loadcmds[1].mapstart /\ l_map_end = l_addr + Last.allocend
          /\ 0 <= l_map_start /\ l_map_end <= Limit /\ Boundary(l_addr)
      BY <2>1 DEF Mapping, Located
    <2>3. l_map_start \in Int /\ l_map_end \in Int
      <3>1. l_addr \in Int
        BY <2>2, Boundaries
      <3>2. /\ first.p_vaddr \in Nat /\ last.p_vaddr \in Nat /\ last.p_memsz \in Nat
            /\ loadcmds[1] = loadcmd(first) /\ Last = loadcmd(last)
        BY <2>1, EndsOfObject
      <3>3. loadcmds[1].mapstart = PageDown(first.p_vaddr) /\ Last.allocend = last.p_vaddr + last.p_memsz
        BY <3>2 DEF loadcmd
      <3>4. ASSUME NEW v \in Nat PROVE PageDown(v) \in Int
        BY DownFacts
      <3> HIDE DEF first, last
      <3>5. PageDown(first.p_vaddr) \in Int /\ last.p_vaddr + last.p_memsz \in Int
        BY ONLY <3>2, <3>4
      <3>6. loadcmds[1].mapstart \in Int /\ Last.allocend \in Int
        BY ONLY <3>3, <3>5
      <3> QED BY <2>2, <3>1, <3>6
    <2>4. a \in Address /\ l_map_start <= a /\ a < l_map_end
      BY <2>2, <2>3, SegMapAssumption DEF Address
    <2> QED BY <2>1, <2>4 DEF Mapping, HolesShut
  <1> QED BY <1>1, RoundByRound, PTL

(* l_phdr leads to the program headers, by PT_PHDR or by search, unless an mmap has failed. *)
THEOREM HeadersFound == Spec => []PhdrFound
  <1>1. SegMapInv => PhdrFound
    <2> SUFFICES ASSUME SegMapInv, pc = "done", ~refused, NEW n \in 0 .. header.phdrs - 1
                 PROVE  byte[l_phdr + n] = FileByte(header.e_phoff + n)
      BY DEF PhdrFound
    <2>1. header \in Headers /\ Mapping
      BY DEF SegMapInv
    <2> DEFINE first == header.load[1]
               last  == header.load[Len(header.load)]
               v == first.p_vaddr
               o == first.p_offset
               f == first.p_filesz
               m == first.p_memsz
               end == last.p_vaddr + last.p_memsz
               p == header.e_phoff
               b == l_addr + v
               k == (p - o) + n
    <2>2. /\ v \in Nat /\ o \in Nat /\ f \in Nat /\ m \in Nat /\ f <= m
          /\ v + m <= end /\ end \in Nat
          /\ loadcmds[1] = loadcmd(first) /\ Last = loadcmd(last)
      <3>1. last.p_vaddr \in Nat /\ last.p_memsz \in Nat
        BY <2>1, EndsOfObject
      <3>2. /\ first.p_vaddr \in Nat /\ first.p_offset \in Nat /\ first.p_filesz \in Nat
            /\ first.p_memsz \in Nat /\ first.p_filesz <= first.p_memsz
            /\ first.p_vaddr + first.p_memsz <= last.p_vaddr + last.p_memsz
            /\ loadcmds[1] = loadcmd(first) /\ Last = loadcmd(last)
        BY <2>1, EndsOfObject
      <3> QED BY <3>1, <3>2
    <2>3. p \in Nat /\ o < p /\ p + header.phdrs <= o + f /\ header.phdrs \in Nat
      BY <2>1, HeaderFacts DEF WellFormed
    <2>4. l_phdr = PhdrVaddr + l_addr /\ PhdrVaddr = v + (p - o)
      BY <2>1 DEF Mapping, PhdrVaddr
    <2>5. /\ l_map_start = l_addr + PageDown(v) /\ l_map_end = l_addr + end
          /\ 0 <= l_map_start /\ l_map_end <= Limit /\ Boundary(l_addr)
      <3>1. loadcmds[1].mapstart = PageDown(v) /\ Last.allocend = end
        BY <2>2 DEF loadcmd
      <3> QED BY <2>1, <3>1 DEF Mapping, Located
    <2>6. HasImage(1)
      <3>1. 1 \in 1 .. c - 1
        BY <2>1, HeaderFacts DEF Mapping
      <3> QED BY <2>1, <3>1 DEF Mapping
    <2>7. \A a \in Address : (b <= a /\ a < b + m) =>
             byte[a] = IF a - b < f THEN FileByte(o + (a - b)) ELSE Zero
      BY <2>6 DEF HasImage, InSegment
    <2> HIDE DEF v, o, f, m, end, p, first, last
    <2>8. l_addr \in Int /\ PageDown(v) \in Int /\ PageDown(v) <= v
      BY <2>2, <2>5, Boundaries, DownFacts
    <2>9. k \in Nat /\ k < f /\ o + k = p + n
      BY <2>2, <2>3
    <2>10. l_phdr + n = b + k /\ b \in Int
      BY <2>2, <2>3, <2>4, <2>8
    <2>11. 0 <= b /\ b + k < Limit
      BY <2>2, <2>5, <2>8, <2>9, SegMapAssumption
    <2> HIDE DEF b, k
    <2>12. b + k \in Address /\ b <= b + k /\ b + k < b + m /\ (b + k) - b = k
      BY <2>2, <2>9, <2>10, <2>11, SegMapAssumption DEF Address
    <2>13. byte[b + k] = FileByte(o + k)
      BY <2>7, <2>9, <2>12
    <2> QED BY <2>9, <2>10, <2>13 DEF p
  <1> QED BY <1>1, RoundByRound, PTL
=============================================================================
