--------------------------- MODULE HeapListProofs ---------------------------
(***************************************************************************)
(* The free list with its pointers, for every first area, all chunks and   *)
(* all sizes: it is in address order, linked both ways, and does what Heap *)
(* says of the set of its areas.                                           *)
(***************************************************************************)
EXTENDS HeapList, HeapProofs

Descriptor == [size : Nat, next : Nat, prev : Nat]

IsHeap(h) ==
    /\ h = [head |-> h.head, desc |-> h.desc]
    /\ h.head \in Nat
    /\ DOMAIN h.desc \subseteq Nat \ {0}
    /\ h.desc \in [DOMAIN h.desc -> Descriptor]

(* In the order of addresses n is next after p among D; 0 is before the first and behind the last. *)
Adjacent(D, p, n) ==
    /\ n # 0 => n \in D /\ p < n
    /\ \A z \in D : z <= p \/ (n # 0 /\ n <= z)

(* A list has an end. *)
Bounded(D) == \E top \in Nat : \A x \in D : x <= top

(* The list has the descriptors D, in order, and each leads back to the one before. *)
Sorted(h, D) ==
    /\ D \subseteq DOMAIN h.desc /\ Bounded(D)
    /\ \A p \in D \cup {0} : Adjacent(D, p, Successor(h, p))
    /\ \A x \in D : h.desc[x].prev \in D \cup {0} /\ Successor(h, h.desc[x].prev) = x

(* The same but for the two pointers between p and n, which are not yet set. *)
SortedBut(h, D, p, n) ==
    /\ D \subseteq DOMAIN h.desc /\ Bounded(D)
    /\ p \in D \cup {0}
    /\ Adjacent(D, p, n)
    /\ \A q \in D \cup {0} : q # p => Adjacent(D, q, Successor(h, q))
    /\ \A x \in D : x # n => /\ h.desc[x].prev \in D \cup {0} /\ h.desc[x].prev # p
                             /\ Successor(h, h.desc[x].prev) = x

-----------------------------------------------------------------------------
(* What an assignment to a next pointer or to *heap does. *)
LEMMA SetNextSets ==
    ASSUME NEW h, IsHeap(h), NEW p \in DOMAIN h.desc \cup {0}, NEW n \in Nat,
           NEW g, g = SetNext(h, p, n)
    PROVE  /\ IsHeap(g) /\ DOMAIN g.desc = DOMAIN h.desc
           /\ \A x \in DOMAIN h.desc : /\ g.desc[x].size = h.desc[x].size
                                       /\ g.desc[x].prev = h.desc[x].prev
           /\ \A q \in DOMAIN h.desc \cup {0} :
                 Successor(g, q) = IF q = p THEN n ELSE Successor(h, q)
  <1> USE DEF IsHeap, Descriptor
  <1>1. CASE p = 0
    <2>1. g = [head |-> n, desc |-> h.desc]
      BY <1>1 DEF SetNext
    <2>2. g.head = n /\ g.desc = h.desc
      BY <2>1
    <2> QED BY <2>1, <2>2, <1>1 DEF Successor
  <1>2. CASE p # 0
    <2> DEFINE d == [h.desc EXCEPT ![p].next = n]
    <2>1. g = [head |-> h.head, desc |-> d]
      BY <1>2 DEF SetNext
    <2>2. g.head = h.head /\ g.desc = d
      BY <2>1
    <2>3. d \in [DOMAIN h.desc -> Descriptor]
      OBVIOUS
    <2>4. \A x \in DOMAIN h.desc : /\ d[x].size = h.desc[x].size
                                   /\ d[x].prev = h.desc[x].prev
                                   /\ d[x].next = IF x = p THEN n ELSE h.desc[x].next
      OBVIOUS
    <2> HIDE DEF d
    <2> QED BY <2>1, <2>2, <2>3, <2>4, <1>2 DEF Successor
  <1> QED BY <1>1, <1>2

(* What an assignment to a prev pointer does; there is none behind the last. *)
LEMMA SetPrevSets ==
    ASSUME NEW h, IsHeap(h), NEW p \in Nat, NEW n \in DOMAIN h.desc \cup {0},
           NEW g, g = SetPrev(h, n, p)
    PROVE  /\ IsHeap(g) /\ DOMAIN g.desc = DOMAIN h.desc
           /\ \A x \in DOMAIN h.desc :
                 /\ g.desc[x].size = h.desc[x].size
                 /\ g.desc[x].prev = IF x = n THEN p ELSE h.desc[x].prev
           /\ \A q \in DOMAIN h.desc \cup {0} : Successor(g, q) = Successor(h, q)
  <1> USE DEF IsHeap, Descriptor
  <1>1. CASE n = 0
    BY <1>1 DEF SetPrev
  <1>2. CASE n # 0
    <2> DEFINE d == [h.desc EXCEPT ![n].prev = p]
    <2>1. g = [head |-> h.head, desc |-> d]
      BY <1>2 DEF SetPrev
    <2>2. g.head = h.head /\ g.desc = d
      BY <2>1
    <2>3. d \in [DOMAIN h.desc -> Descriptor]
      OBVIOUS
    <2>4. \A x \in DOMAIN h.desc : /\ d[x].size = h.desc[x].size
                                   /\ d[x].next = h.desc[x].next
                                   /\ d[x].prev = IF x = n THEN p ELSE h.desc[x].prev
      OBVIOUS
    <2> HIDE DEF d
    <2> QED BY <2>1, <2>2, <2>3, <2>4, <1>2 DEF Successor
  <1> QED BY <1>1, <1>2

(* A change of a size leaves the pointers alone. *)
LEMMA ResizedSets ==
    ASSUME NEW h, IsHeap(h), NEW fa \in DOMAIN h.desc, NEW size \in Nat,
           NEW g, g = Resized(h, fa, size)
    PROVE  /\ IsHeap(g) /\ DOMAIN g.desc = DOMAIN h.desc
           /\ \A x \in DOMAIN h.desc :
                 /\ g.desc[x].size = IF x = fa THEN size ELSE h.desc[x].size
                 /\ g.desc[x].prev = h.desc[x].prev
           /\ \A q \in DOMAIN h.desc \cup {0} : Successor(g, q) = Successor(h, q)
  <1> DEFINE d == [h.desc EXCEPT ![fa].size = size]
  <1> USE DEF IsHeap, Descriptor
  <1>1. g = [head |-> h.head, desc |-> d]
    BY DEF Resized
  <1>2. g.head = h.head /\ g.desc = d
    BY <1>1
  <1>3. d \in [DOMAIN h.desc -> Descriptor]
    OBVIOUS
  <1>4. \A x \in DOMAIN h.desc : /\ d[x].size = IF x = fa THEN size ELSE h.desc[x].size
                                 /\ d[x].next = h.desc[x].next
                                 /\ d[x].prev = h.desc[x].prev
    OBVIOUS
  <1> HIDE DEF d
  <1> QED BY <1>1, <1>2, <1>3, <1>4 DEF Successor

(* A descriptor that is written destroys those it shares a byte with and no others. *)
LEMMA WriteSets ==
    ASSUME NEW h, IsHeap(h), NEW fa \in Nat \ {0}, NEW rec \in Descriptor,
           NEW g, g = Write(h, fa, rec)
    PROVE  /\ IsHeap(g) /\ DOMAIN g.desc = Outside(h.desc, fa, FA_END(fa)) \cup {fa}
           /\ g.desc[fa] = rec
           /\ \A x \in Outside(h.desc, fa, FA_END(fa)) : x # fa => g.desc[x] = h.desc[x]
           /\ g.head = h.head
  <1> DEFINE d == [a \in Outside(h.desc, fa, FA_END(fa)) \cup {fa} |->
                           IF a = fa THEN rec ELSE h.desc[a]]
  <1>1. g = [head |-> h.head, desc |-> d]
    BY DEF Write, IsHeap
  <1>2. g.head = h.head /\ g.desc = d
    BY <1>1
  <1>3. Outside(h.desc, fa, FA_END(fa)) \subseteq DOMAIN h.desc
    BY DEF Outside
  <1>4. d \in [DOMAIN d -> Descriptor] /\ DOMAIN d \subseteq Nat \ {0}
    BY <1>3 DEF IsHeap
  <1>5. IsHeap(g)
    BY <1>1, <1>2, <1>4 DEF IsHeap
  <1> QED BY <1>2, <1>5

-----------------------------------------------------------------------------
(* A walk from a descriptor of the list meets those at higher addresses. *)
LEMMA BehindIs ==
    ASSUME NEW h, IsHeap(h), NEW D, Sorted(h, D), NEW x \in D
    PROVE  Behind(h, x) = {y \in D : x <= y}
  <1> DEFINE T == {y \in D : x <= y}
             Closed(S) == x \in S /\ \A b \in S : h.desc[b].next \in S \cup {0}
  <1>1. D \subseteq DOMAIN h.desc /\ D \subseteq Nat \ {0}
    BY DEF Sorted, IsHeap
  <1>2. \A p \in D : Successor(h, p) = h.desc[p].next
    BY <1>1 DEF Successor
  <1>3. Closed(T)
    <2> SUFFICES ASSUME NEW b \in T, h.desc[b].next # 0 PROVE h.desc[b].next \in T
      BY <1>1
    <2>1. Adjacent(D, b, Successor(h, b))
      BY DEF Sorted
    <2>2. h.desc[b].next \in D /\ b < h.desc[b].next
      BY <2>1, <1>2 DEF Adjacent
    <2> QED BY <2>2, <1>1
  <1>4. ASSUME NEW S \in SUBSET DOMAIN h.desc, Closed(S), NEW y \in T PROVE y \in S
    <2> SUFFICES ASSUME y \notin S PROVE FALSE
      OBVIOUS
    <2> DEFINE Rest == {z \in T : z \notin S}
    <2>1. Rest \subseteq Nat /\ Rest # {}
      BY <1>1
    <2>2. PICK m \in Rest : \A z \in Rest : m <= z
      BY <2>1, LeastNat
    <2>3. m \in D /\ m # x /\ x < m /\ m \in Nat
      BY <1>1, <1>4
    <2> DEFINE p == h.desc[m].prev
    <2>4. p \in D \cup {0} /\ Successor(h, p) = m
      BY <2>3 DEF Sorted
    <2>5. Adjacent(D, p, m)
      BY <2>4 DEF Sorted
    <2>6. x <= p /\ p < m
      BY <2>3, <2>5, <1>1 DEF Adjacent
    <2>7. p \in D /\ p \in T
      BY <2>4, <2>6, <1>1
    <2>8. p \in S
      BY <2>2, <2>6, <2>7, <1>1, <2>3
    <2>9. m \in S \cup {0}
      BY <2>8, <2>7, <2>4, <1>2, <1>4
    <2> QED BY <2>9, <2>2, <1>1
  <1>5. T \in SUBSET DOMAIN h.desc
    BY <1>1
  <1>6. Behind(h, x) = {a \in DOMAIN h.desc : \A S \in SUBSET DOMAIN h.desc : Closed(S) => a \in S}
    BY DEF Behind
  <1> HIDE DEF Closed, T
  <1>7. Behind(h, x) = T
    BY <1>3, <1>4, <1>5, <1>6
  <1> QED BY <1>7 DEF T

(* The walk meets the descriptors of the list. *)
LEMMA ListIs ==
    ASSUME NEW h, IsHeap(h), NEW D, Sorted(h, D)
    PROVE  List(h) = D
  <1>1. D \subseteq Nat \ {0} /\ h.head = Successor(h, 0)
    BY DEF Sorted, IsHeap, Successor
  <1>2. Adjacent(D, 0, h.head)
    BY <1>1 DEF Sorted
  <1>3. CASE h.head = 0
    BY <1>1, <1>2, <1>3 DEF Adjacent, List
  <1>4. CASE h.head # 0
    <2>1. h.head \in D /\ \A z \in D : h.head <= z
      BY <1>1, <1>2, <1>4 DEF Adjacent
    <2>2. List(h) = {y \in D : h.head <= y}
      BY <2>1, <1>4, BehindIs DEF List
    <2> QED BY <2>1, <2>2
  <1> QED BY <1>3, <1>4

(* The first descriptor of a set that the walk meets is the one with the lowest address. *)
LEMMA WalkToFirst ==
    ASSUME NEW h, IsHeap(h), NEW D, Sorted(h, D), NEW S \in SUBSET D
    PROVE  /\ S = {} => WalkTo(h, S) = 0
           /\ S # {} => WalkTo(h, S) \in S /\ \A y \in S : WalkTo(h, S) <= y
  <1>1. D \subseteq Nat \ {0}
    BY DEF Sorted, IsHeap
  <1>2. CASE S = {}
    BY <1>2 DEF WalkTo
  <1>3. CASE S # {}
    <2>1. PICK x \in S : \A y \in S : x <= y
      BY <1>1, <1>3, LeastNat
    <2>2. S \subseteq Behind(h, x)
      BY <2>1, BehindIs
    <2> DEFINE fa == WalkTo(h, S)
    <2>3. fa = CHOOSE a \in S : S \subseteq Behind(h, a)
      BY <1>3 DEF WalkTo
    <2> HIDE DEF fa
    <2>4. fa \in S /\ S \subseteq Behind(h, fa)
      BY <2>2, <2>3
    <2>5. \A y \in S : fa <= y
      BY <2>4, BehindIs
    <2> QED BY <2>4, <2>5, <1>3 DEF fa
  <1> QED BY <1>2, <1>3

(* There is one pointer to each descriptor of the list, and one null pointer at the end. *)
LEMMA LeftBehindIs ==
    ASSUME NEW h, IsHeap(h), NEW D, Sorted(h, D), NEW fa \in D \cup {0}
    PROVE  /\ LeftBehind(h, fa) \in D \cup {0}
           /\ Successor(h, LeftBehind(h, fa)) = fa
           /\ fa \in D => LeftBehind(h, fa) = h.desc[fa].prev
  <1>1. D \subseteq Nat \ {0} /\ List(h) = D
    BY ListIs DEF Sorted, IsHeap
  <1>2. \E p \in D \cup {0} : Successor(h, p) = fa
    <2>1. CASE fa # 0
      BY <2>1 DEF Sorted
    <2>2. CASE fa = 0
      <3> DEFINE U == {m \in Nat : \A x \in D : x <= m}
      <3>1. U \subseteq Nat /\ U # {}
        BY DEF Sorted, Bounded
      <3>2. PICK u \in U : \A m \in U : u <= m
        BY <3>1, LeastNat
      <3>3. u \in D \cup {0}
        <4> SUFFICES ASSUME u \notin D, u # 0 PROVE FALSE
          OBVIOUS
        <4>1. u - 1 \in Nat /\ \A x \in D : x <= u - 1
          BY <1>1
        <4>2. u - 1 \in U
          BY <4>1
        <4> QED BY <3>2, <4>2
      <3>4. Adjacent(D, u, Successor(h, u))
        BY <3>3 DEF Sorted
      <3>5. Successor(h, u) = 0
        <4> SUFFICES ASSUME Successor(h, u) # 0 PROVE FALSE
          OBVIOUS
        <4>1. Successor(h, u) \in D /\ u < Successor(h, u)
          BY <3>4 DEF Adjacent
        <4> HIDE DEF U
        <4>2. Successor(h, u) <= u /\ Successor(h, u) \in Nat /\ u \in Nat
          BY <4>1, <1>1 DEF U
        <4> QED BY <4>1, <4>2
      <3> QED BY <3>3, <3>5, <2>2
    <2> QED BY <2>1, <2>2
  <1>3. LeftBehind(h, fa) \in D \cup {0} /\ Successor(h, LeftBehind(h, fa)) = fa
    BY <1>1, <1>2 DEF LeftBehind
  <1>4. ASSUME fa \in D PROVE LeftBehind(h, fa) = h.desc[fa].prev
    <2> DEFINE p == LeftBehind(h, fa)
               q == h.desc[fa].prev
    <2>1. q \in D \cup {0} /\ Successor(h, q) = fa
      BY <1>4 DEF Sorted
    <2> HIDE DEF p, q
    <2>2. Adjacent(D, p, fa) /\ Adjacent(D, q, fa) /\ p \in D \cup {0}
      BY <2>1, <1>3 DEF Sorted, p
    <2>3. p = q
      BY <2>1, <2>2, <1>1, <1>4 DEF Adjacent
    <2> QED BY <2>3 DEF p, q
  <1> QED BY <1>3, <1>4

-----------------------------------------------------------------------------
(* The two pointers between neighbours are not needed when another one comes between. *)
LEMMA GapBetween ==
    ASSUME NEW h, IsHeap(h), NEW D, Sorted(h, D), NEW p \in D \cup {0}
    PROVE  SortedBut(h, D, p, Successor(h, p))
  BY DEF Sorted, SortedBut

(* The two pointers over a descriptor are missing when it goes. *)
LEMMA GapOf ==
    ASSUME NEW h, IsHeap(h), NEW D, Sorted(h, D), NEW fa \in D
    PROVE  SortedBut(h, D \ {fa}, h.desc[fa].prev, h.desc[fa].next)
  <1> DEFINE E == D \ {fa}
             p == h.desc[fa].prev
             n == h.desc[fa].next
  <1>1. D \subseteq Nat \ {0} /\ D \subseteq DOMAIN h.desc /\ Successor(h, fa) = n
    BY DEF Sorted, IsHeap, Successor
  <1>2. Adjacent(D, p, fa) /\ Adjacent(D, fa, n) /\ p \in D \cup {0} /\ Successor(h, p) = fa
    BY <1>1 DEF Sorted
  <1>0. p \in Nat /\ n \in Nat
    BY <1>1 DEF IsHeap, Descriptor
  <1> HIDE DEF p, n
  <1>3. /\ p \in E \cup {0} /\ n # fa
        /\ p \in Nat /\ n \in Nat /\ p < fa /\ (n # 0 => n \in E /\ fa < n)
    BY <1>0, <1>1, <1>2 DEF Adjacent
  <1>4. Adjacent(E, p, n)
    BY <1>1, <1>2, <1>3 DEF Adjacent
  <1>5. ASSUME NEW q \in E \cup {0}, q # p PROVE Adjacent(E, q, Successor(h, q))
    <2>1. Adjacent(D, q, Successor(h, q))
      BY DEF Sorted
    <2>2. Successor(h, q) # fa
      BY <2>1, <1>1, <1>2, <1>3, <1>5 DEF Adjacent
    <2> QED BY <2>1, <2>2 DEF Adjacent
  <1>6. ASSUME NEW x \in E, x # n
        PROVE  /\ h.desc[x].prev \in E \cup {0} /\ h.desc[x].prev # p
               /\ Successor(h, h.desc[x].prev) = x
    <2>1. h.desc[x].prev \in D \cup {0} /\ Successor(h, h.desc[x].prev) = x
      BY DEF Sorted
    <2> QED BY <2>1, <1>1, <1>2, <1>6
  <1>7. E \subseteq DOMAIN h.desc /\ Bounded(E)
    BY <1>1 DEF Sorted, Bounded
  <1>8. SortedBut(h, E, p, n)
    BY <1>3, <1>4, <1>5, <1>6, <1>7 DEF SortedBut
  <1> QED BY <1>8 DEF p, n

(* Once the two pointers are set the list is whole. *)
LEMMA Closing ==
    ASSUME NEW h, IsHeap(h), NEW E, NEW p, NEW n, SortedBut(h, E, p, n),
           NEW g, IsHeap(g), E \subseteq DOMAIN g.desc,
           \A q \in E \cup {0} : Successor(g, q) = IF q = p THEN n ELSE Successor(h, q),
           \A x \in E : g.desc[x].prev = IF x = n THEN p ELSE h.desc[x].prev
    PROVE  Sorted(g, E)
  <1>1. \A q \in E \cup {0} : Adjacent(E, q, Successor(g, q))
    BY DEF SortedBut
  <1>2. \A x \in E : g.desc[x].prev \in E \cup {0} /\ Successor(g, g.desc[x].prev) = x
    BY DEF SortedBut
  <1> QED BY <1>1, <1>2 DEF Sorted, SortedBut

(* And so it is with a new descriptor between them. *)
LEMMA Inserting ==
    ASSUME NEW h, IsHeap(h), NEW E, NEW p, NEW n, SortedBut(h, E, p, n),
           NEW fa \in Nat \ {0}, p < fa, n # 0 => fa < n,
           NEW g, IsHeap(g), E \cup {fa} \subseteq DOMAIN g.desc,
           Successor(g, fa) = n, g.desc[fa].prev = p,
           \A q \in E \cup {0} : Successor(g, q) = IF q = p THEN fa ELSE Successor(h, q),
           \A x \in E : g.desc[x].prev = IF x = n THEN fa ELSE h.desc[x].prev
    PROVE  Sorted(g, E \cup {fa})
  <1> DEFINE D == E \cup {fa}
  <1>1. E \subseteq Nat \ {0} /\ p \in E \cup {0} /\ Adjacent(E, p, n)
    BY DEF SortedBut, IsHeap
  <1>0. p \in Nat /\ n \in Nat /\ (n # 0 => n \in E)
    <2>1. p \in Nat
      BY <1>1
    <2>2. n # 0 => n \in E
      BY ONLY <1>1 DEF Adjacent
    <2> QED BY <1>1, <2>1, <2>2
  <1>2. fa \notin E
    BY <1>0, <1>1 DEF Adjacent
  <1>3. Adjacent(D, p, fa) /\ Adjacent(D, fa, n)
    BY <1>0, <1>1 DEF Adjacent
  <1>4. ASSUME NEW q \in E \cup {0}, q # p PROVE Adjacent(D, q, Successor(g, q))
    <2>1. Adjacent(E, q, Successor(g, q))
      BY <1>4 DEF SortedBut
    <2>2. q < p => Successor(g, q) # 0 /\ Successor(g, q) <= p
      BY <2>1, <1>1, <1>4 DEF Adjacent
    <2>3. q < p \/ (q > p /\ n # 0 /\ n <= q)
      BY <1>1, <1>4 DEF Adjacent
    <2>4. Successor(g, q) # 0 => Successor(g, q) \in Nat /\ q < Successor(g, q)
      BY <2>1, <1>1 DEF Adjacent
    <2>5. fa <= q \/ (Successor(g, q) # 0 /\ Successor(g, q) <= fa)
      BY <2>2, <2>3, <2>4, <1>0, <1>1
    <2> QED BY <2>1, <2>5 DEF Adjacent
  <1>5. \A q \in D \cup {0} : Adjacent(D, q, Successor(g, q))
    BY <1>1, <1>2, <1>3, <1>4
  <1>6. \A x \in D : g.desc[x].prev \in D \cup {0} /\ Successor(g, g.desc[x].prev) = x
    <2>1. \A x \in E : x # n => g.desc[x].prev \in E \cup {0} /\ Successor(g, g.desc[x].prev) = x
      BY DEF SortedBut
    <2>2. Successor(g, p) = fa
      BY <1>1
    <2> QED BY <2>1, <2>2, <1>1, <1>2
  <1>7. Bounded(D)
    <2>1. PICK top \in Nat : \A x \in E : x <= top
      BY DEF SortedBut, Bounded
    <2>2. \A x \in D : x <= top + fa
      BY <2>1, <1>1
    <2> QED BY <2>1, <2>2 DEF Bounded
  <1> QED BY <1>5, <1>6, <1>7 DEF Sorted

-----------------------------------------------------------------------------
(* __heap_delete takes one descriptor off the list. *)
LEMMA DeleteUnlinks ==
    ASSUME NEW h, IsHeap(h), NEW D, Sorted(h, D), NEW fa \in D,
           NEW g, g = heap_delete(h, fa)
    PROVE  /\ IsHeap(g) /\ Sorted(g, D \ {fa})
           /\ \A x \in D \ {fa} : g.desc[x].size = h.desc[x].size
  <1> DEFINE E == D \ {fa}
             p == h.desc[fa].prev
             n == h.desc[fa].next
             f == SetPrev(h, n, p)
  <1>1. SortedBut(h, E, p, n)
    BY GapOf
  <1>2. E \subseteq DOMAIN h.desc /\ p \in E \cup {0} /\ n \in E \cup {0} /\ D \subseteq DOMAIN h.desc
    BY <1>1 DEF SortedBut, Adjacent, Sorted
  <1>3. p \in Nat /\ n \in Nat
    BY <1>2 DEF IsHeap, Descriptor
  <1>4. g = SetNext(f, p, n)
    BY DEF heap_delete
  <1> HIDE DEF E, p, n, f
  <1>5. /\ IsHeap(f) /\ DOMAIN f.desc = DOMAIN h.desc
        /\ \A x \in DOMAIN h.desc :
              /\ f.desc[x].size = h.desc[x].size
              /\ f.desc[x].prev = IF x = n THEN p ELSE h.desc[x].prev
        /\ \A q \in DOMAIN h.desc \cup {0} : Successor(f, q) = Successor(h, q)
    <2>1. n \in DOMAIN h.desc \cup {0}
      BY <1>2
    <2> QED BY <2>1, <1>3, SetPrevSets DEF f
  <1>6. /\ IsHeap(g) /\ DOMAIN g.desc = DOMAIN f.desc
        /\ \A x \in DOMAIN f.desc : /\ g.desc[x].size = f.desc[x].size
                                    /\ g.desc[x].prev = f.desc[x].prev
        /\ \A q \in DOMAIN f.desc \cup {0} :
              Successor(g, q) = IF q = p THEN n ELSE Successor(f, q)
    <2>1. p \in DOMAIN f.desc \cup {0}
      BY <1>2, <1>5
    <2> QED BY <2>1, <1>3, <1>4, <1>5, SetNextSets
  <1>7. /\ E \subseteq DOMAIN g.desc
        /\ \A q \in E \cup {0} : Successor(g, q) = IF q = p THEN n ELSE Successor(h, q)
        /\ \A x \in E : g.desc[x].prev = IF x = n THEN p ELSE h.desc[x].prev
        /\ \A x \in E : g.desc[x].size = h.desc[x].size
    BY <1>2, <1>5, <1>6
  <1>8. Sorted(g, E)
    BY <1>1, <1>6, <1>7, Closing
  <1> QED BY <1>6, <1>7, <1>8 DEF E

(* __heap_link_free_area_after closes the gap before a descriptor of the list. *)
LEMMA LinkAfterCloses ==
    ASSUME NEW h, IsHeap(h), NEW E, NEW p, NEW n \in E, SortedBut(h, E, p, n),
           NEW g, g = heap_link_free_area_after(h, n, p)
    PROVE  /\ IsHeap(g) /\ Sorted(g, E)
           /\ \A x \in E : g.desc[x].size = h.desc[x].size
  <1> DEFINE f == SetNext(h, p, n)
  <1>1. E \subseteq DOMAIN h.desc /\ p \in E \cup {0} /\ E \subseteq Nat
    BY DEF SortedBut, IsHeap
  <1>2. p \in Nat /\ n \in Nat
    BY <1>1
  <1>3. g = SetPrev(f, n, p)
    BY DEF heap_link_free_area_after
  <1> HIDE DEF f
  <1>4. /\ IsHeap(f) /\ DOMAIN f.desc = DOMAIN h.desc
        /\ \A x \in DOMAIN h.desc : /\ f.desc[x].size = h.desc[x].size
                                    /\ f.desc[x].prev = h.desc[x].prev
        /\ \A q \in DOMAIN h.desc \cup {0} :
              Successor(f, q) = IF q = p THEN n ELSE Successor(h, q)
    <2>1. p \in DOMAIN h.desc \cup {0}
      BY <1>1
    <2> QED BY <2>1, <1>2, SetNextSets DEF f
  <1>5. /\ IsHeap(g) /\ DOMAIN g.desc = DOMAIN f.desc
        /\ \A x \in DOMAIN f.desc :
              /\ g.desc[x].size = f.desc[x].size
              /\ g.desc[x].prev = IF x = n THEN p ELSE f.desc[x].prev
        /\ \A q \in DOMAIN f.desc \cup {0} : Successor(g, q) = Successor(f, q)
    <2>1. n \in DOMAIN f.desc \cup {0}
      BY <1>1, <1>4
    <2> QED BY <2>1, <1>2, <1>3, <1>4, SetPrevSets
  <1>6. /\ E \subseteq DOMAIN g.desc
        /\ \A q \in E \cup {0} : Successor(g, q) = IF q = p THEN n ELSE Successor(h, q)
        /\ \A x \in E : g.desc[x].prev = IF x = n THEN p ELSE h.desc[x].prev
        /\ \A x \in E : g.desc[x].size = h.desc[x].size
    BY <1>1, <1>4, <1>5
  <1> QED BY <1>5, <1>6, Closing

(* What heap_link_free_area is given, and what it makes of it. *)
Linkable(h, E, p, n, fa, size) ==
    /\ IsHeap(h) /\ SortedBut(h, E, p, n)
    /\ fa \in Nat \ {0} /\ p < fa /\ (n # 0 => fa < n) /\ size \in Nat
    /\ E \subseteq Outside(h.desc, fa, FA_END(fa))

Linked(h, E, fa, size, g) ==
    /\ IsHeap(g) /\ Sorted(g, E \cup {fa}) /\ fa \notin E
    /\ g.desc[fa].size = size
    /\ \A x \in E : g.desc[x].size = h.desc[x].size

(***************************************************************************)
(* __heap_link_free_area puts a descriptor into the gap, where it destroys *)
(* none of the list.                                                       *)
(***************************************************************************)
LEMMA LinkInserts ==
    ASSUME NEW h, NEW E, NEW p, NEW n, NEW fa, NEW size, Linkable(h, E, p, n, fa, size),
           NEW g, g = heap_link_free_area(h, fa, size, p, n)
    PROVE  Linked(h, E, fa, size, g)
  <1> SUFFICES ASSUME IsHeap(h), SortedBut(h, E, p, n), fa \in Nat \ {0}, p < fa, n # 0 => fa < n,
                      size \in Nat, E \subseteq Outside(h.desc, fa, FA_END(fa))
               PROVE  /\ IsHeap(g) /\ Sorted(g, E \cup {fa}) /\ fa \notin E
                      /\ g.desc[fa].size = size
                      /\ \A x \in E : g.desc[x].size = h.desc[x].size
    BY DEF Linkable, Linked
  <1> DEFINE rec == [size |-> size, next |-> n, prev |-> p]
             w == Write(h, fa, rec)
             f == SetNext(w, p, fa)
  <1>1. E \subseteq DOMAIN h.desc /\ p \in E \cup {0} /\ E \subseteq Nat \ {0} /\ n \in E \cup {0}
    BY DEF SortedBut, IsHeap, Adjacent
  <1>2. p \in Nat /\ n \in Nat
    BY <1>1
  <1>3. fa \notin E
    BY <1>1, <1>2 DEF SortedBut, Adjacent
  <1>4. g = SetPrev(f, n, fa)
    BY DEF heap_link_free_area
  <1>5. rec \in Descriptor /\ rec.size = size /\ rec.next = n /\ rec.prev = p
    BY <1>2 DEF Descriptor
  <1> HIDE DEF rec, w, f
  <1>6. /\ IsHeap(w) /\ DOMAIN w.desc = Outside(h.desc, fa, FA_END(fa)) \cup {fa}
        /\ w.desc[fa] = rec
        /\ \A x \in Outside(h.desc, fa, FA_END(fa)) : x # fa => w.desc[x] = h.desc[x]
        /\ w.head = h.head
    BY <1>5, WriteSets DEF w
  <1>7. /\ \A x \in E : w.desc[x] = h.desc[x] /\ Successor(w, x) = Successor(h, x)
        /\ Successor(w, 0) = Successor(h, 0) /\ Successor(w, fa) = n
        /\ E \cup {fa} \subseteq DOMAIN w.desc
    BY <1>1, <1>3, <1>5, <1>6 DEF Successor
  <1>8. /\ IsHeap(f) /\ DOMAIN f.desc = DOMAIN w.desc
        /\ \A x \in DOMAIN w.desc : /\ f.desc[x].size = w.desc[x].size
                                    /\ f.desc[x].prev = w.desc[x].prev
        /\ \A q \in DOMAIN w.desc \cup {0} :
              Successor(f, q) = IF q = p THEN fa ELSE Successor(w, q)
    <2>1. p \in DOMAIN w.desc \cup {0}
      BY <1>1, <1>7
    <2> QED BY <2>1, <1>6, SetNextSets DEF f
  <1>9. /\ IsHeap(g) /\ DOMAIN g.desc = DOMAIN f.desc
        /\ \A x \in DOMAIN f.desc :
              /\ g.desc[x].size = f.desc[x].size
              /\ g.desc[x].prev = IF x = n THEN fa ELSE f.desc[x].prev
        /\ \A q \in DOMAIN f.desc \cup {0} : Successor(g, q) = Successor(f, q)
    <2>1. n \in DOMAIN f.desc \cup {0}
      BY <1>1, <1>7, <1>8
    <2> QED BY <2>1, <1>4, <1>8, SetPrevSets
  <1>10. /\ E \cup {fa} \subseteq DOMAIN g.desc
         /\ \A q \in E \cup {0} : Successor(g, q) = IF q = p THEN fa ELSE Successor(h, q)
         /\ \A x \in E : g.desc[x].prev = IF x = n THEN fa ELSE h.desc[x].prev
         /\ \A x \in E : g.desc[x].size = h.desc[x].size
    BY <1>7, <1>8, <1>9
  <1>11. Successor(g, fa) = n /\ g.desc[fa].prev = p /\ g.desc[fa].size = size
    BY <1>1, <1>2, <1>3, <1>5, <1>6, <1>7, <1>8, <1>9
  <1>12. Sorted(g, E \cup {fa})
    BY <1>9, <1>10, <1>11, Inserting
  <1> QED BY <1>3, <1>9, <1>10, <1>11, <1>12

-----------------------------------------------------------------------------
(* The area of a descriptor and those of a list; a list whose areas are in good order. *)
AreaOf(h, x) == [mem |-> FA_START(h, x), size |-> h.desc[x].size]
AreasOf(h, D) == {AreaOf(h, x) : x \in D}

GoodList(h, D) ==
    /\ IsHeap(h) /\ Sorted(h, D)
    /\ GoodHeap(AreasOf(h, D))
    /\ \A x \in D : h.desc[x].size >= 24

(* Descriptors and areas are in the same order, and a descriptor is inside its area. *)
LEMMA AreasInOrder ==
    ASSUME NEW h, NEW D, GoodList(h, D)
    PROVE  /\ \A x \in D : /\ x \in Nat \ {0} /\ x \in DOMAIN h.desc
                           /\ FA_END(x) = x + 24
                           /\ h.desc[x].size \in Nat /\ h.desc[x].size >= 24
                           /\ h.desc[x].size % 8 = 0 /\ (x + 24) % 8 = 0
                           /\ FA_START(h, x) \in Nat /\ FA_START(h, x) <= x
                           /\ FA_START(h, x) + h.desc[x].size = x + 24
                           /\ AreaOf(h, x) \in Area
                           /\ AreaOf(h, x).mem = FA_START(h, x)
                           /\ AreaOf(h, x).size = h.desc[x].size
                           /\ End(AreaOf(h, x)) = x + 24
           /\ \A x, y \in D : x < y => x + 24 < FA_START(h, y)
           /\ \A x, y \in D : AreaOf(h, x) = AreaOf(h, y) => x = y
  <1>1. ASSUME NEW x \in D
        PROVE  /\ x \in Nat \ {0} /\ x \in DOMAIN h.desc
               /\ FA_END(x) = x + 24
               /\ h.desc[x].size \in Nat /\ h.desc[x].size >= 24
               /\ h.desc[x].size % 8 = 0 /\ (x + 24) % 8 = 0
               /\ FA_START(h, x) \in Nat /\ FA_START(h, x) <= x
               /\ FA_START(h, x) + h.desc[x].size = x + 24
               /\ AreaOf(h, x) \in Area
               /\ AreaOf(h, x).mem = FA_START(h, x)
               /\ AreaOf(h, x).size = h.desc[x].size
               /\ End(AreaOf(h, x)) = x + 24
    <2>1. x \in Nat \ {0} /\ x \in DOMAIN h.desc
      BY DEF GoodList, Sorted, IsHeap
    <2>2. h.desc[x].size \in Nat /\ h.desc[x].size >= 24
      BY <2>1 DEF GoodList, IsHeap, Descriptor
    <2>3. AreaOf(h, x).mem = FA_START(h, x) /\ AreaOf(h, x).size = h.desc[x].size
      BY DEF AreaOf
    <2>4. IsArea(AreaOf(h, x))
      BY DEF GoodList, GoodHeap, AreasOf
    <2>5. FA_END(x) = x + 24 /\ FA_START(h, x) = x + 24 - h.desc[x].size
      BY <2>1, <2>2, SizesOf64Bit DEF FA_END, FA_START
    <2>6. /\ FA_START(h, x) \in Nat /\ FA_START(h, x) % 8 = 0 /\ h.desc[x].size % 8 = 0
          /\ AreaOf(h, x) \in Area
      BY <2>3, <2>4, SizesOf64Bit DEF IsArea, Area
    <2>7. FA_START(h, x) <= x /\ FA_START(h, x) + h.desc[x].size = x + 24
      BY <2>1, <2>2, <2>5
    <2>8. (x + 24) % 8 = 0
      BY <2>1, <2>2, <2>6, <2>7
    <2>9. End(AreaOf(h, x)) = x + 24
      BY <2>3, <2>7 DEF End
    <2> QED BY <2>1, <2>2, <2>3, <2>5, <2>6, <2>7, <2>8, <2>9
  <1>2. ASSUME NEW x \in D, NEW y \in D, AreaOf(h, x) = AreaOf(h, y) PROVE x = y
    <2>1. x + 24 = y + 24 /\ x \in Nat /\ y \in Nat
      BY <1>1, <1>2
    <2> QED BY <2>1
  <1>3. ASSUME NEW x \in D, NEW y \in D, x < y PROVE x + 24 < FA_START(h, y)
    <2>1. AreaOf(h, x) # AreaOf(h, y)
      BY <1>1, <1>2, <1>3
    <2>2. End(AreaOf(h, x)) < AreaOf(h, y).mem \/ End(AreaOf(h, y)) < AreaOf(h, x).mem
      BY <2>1 DEF GoodList, GoodHeap, AreasOf
    <2>3. x + 24 < FA_START(h, y) \/ y + 24 < FA_START(h, x)
      BY <2>2, <1>1
    <2> QED BY <2>3, <1>1, <1>3
  <1> QED BY <1>1, <1>2, <1>3

(* The areas after some descriptors have gone and maybe one is new or changed. *)
LEMMA AreasLost ==
    ASSUME NEW h, NEW D, GoodList(h, D), NEW F \in SUBSET D, NEW g,
           \A x \in F : g.desc[x].size = h.desc[x].size
    PROVE  AreasOf(g, F) = AreasOf(h, D) \ AreasOf(h, D \ F)
  <1>1. \A x \in F : AreaOf(g, x) = AreaOf(h, x)
    BY DEF AreaOf, FA_START
  <1>2. \A x, z \in D : AreaOf(h, x) = AreaOf(h, z) => x = z
    BY AreasInOrder
  <1> QED BY <1>1, <1>2 DEF AreasOf

Changes(h, D, g, F, y, E, gone) ==
    /\ GoodList(h, D)
    /\ F \subseteq D /\ \A x \in F : g.desc[x].size = h.desc[x].size
    /\ E = F \cup {y}
    /\ gone = AreasOf(h, D \ F)

LEMMA AreasChanged ==
    ASSUME NEW h, NEW D, NEW g, NEW F, NEW y, NEW E, NEW gone, Changes(h, D, g, F, y, E, gone)
    PROVE  AreasOf(g, E) = (AreasOf(h, D) \ gone) \cup {AreaOf(g, y)}
  <1>1. AreasOf(g, F) = AreasOf(h, D) \ gone
    BY AreasLost DEF Changes
  <1>2. AreasOf(g, E) = AreasOf(g, F) \cup {AreaOf(g, y)}
    BY DEF AreasOf, Changes
  <1> QED BY <1>1, <1>2

(* The first area of the list with some property is that of the descriptor the walk finds. *)
LEMMA WalkFindsFirst ==
    ASSUME NEW h, NEW D, GoodList(h, D), NEW T \in SUBSET D
    PROVE  /\ T = {} => WalkTo(h, T) = 0 /\ AreasOf(h, T) = {}
           /\ T # {} => /\ WalkTo(h, T) \in T /\ \A y \in T : WalkTo(h, T) <= y
                        /\ AreasOf(h, T) # {}
                        /\ First(AreasOf(h, T)) = AreaOf(h, WalkTo(h, T))
  <1> DEFINE fa == WalkTo(h, T)
             S  == AreasOf(h, T)
  <1>1. IsHeap(h) /\ Sorted(h, D)
    BY DEF GoodList
  <1>2. CASE T = {}
    BY <1>1, <1>2, WalkToFirst DEF AreasOf
  <1>3. CASE T # {}
    <2>1. fa \in T /\ \A y \in T : fa <= y
      BY <1>1, <1>3, WalkToFirst
    <2>2. S # {} /\ S \subseteq Area
      BY <1>3, AreasInOrder DEF AreasOf
    <2> HIDE DEF fa
    <2>3. First(S) \in S /\ \A b \in S : First(S).mem <= b.mem
      BY <2>2, FirstIsLeast
    <2>4. PICK x \in T : First(S) = AreaOf(h, x)
      BY <2>3 DEF AreasOf
    <2>5. AreaOf(h, x).mem <= AreaOf(h, fa).mem
      BY <2>1, <2>3, <2>4 DEF AreasOf
    <2>6. FA_START(h, x) <= FA_START(h, fa) /\ FA_START(h, fa) <= fa /\ FA_START(h, fa) \in Nat
      BY <2>1, <2>4, <2>5, AreasInOrder
    <2>7. fa <= x /\ fa \in Nat /\ x \in Nat /\ FA_START(h, x) \in Nat
      BY <2>1, <2>4, AreasInOrder
    <2>8. ~(fa < x)
      <3>1. fa < x => fa + 24 < FA_START(h, x)
        BY <2>1, <2>4, AreasInOrder
      <3> QED BY <3>1, <2>6, <2>7
    <2>9. x = fa
      BY <2>7, <2>8
    <2> QED BY <2>1, <2>2, <2>4, <2>9, <1>3 DEF fa
  <1> QED BY <1>2, <1>3

-----------------------------------------------------------------------------
(* The four outcomes of heap_free, one by one. *)
LEMMA HeapFreeCases ==
    ASSUME NEW S, NEW mem, NEW size
    PROVE  LET end  == mem + size
               rest == {a \in S : End(a) >= mem}
               fa   == First(rest)
               prev == {a \in S \ rest : End(a) = mem}
               next == {a \in rest \ {fa} : a.mem = end}
               r    == heap_free(S, mem, size).heap
           IN  /\ (rest = {} \/ fa.mem > end) => r = (S \ {}) \cup {[mem |-> mem, size |-> size]}
               /\ (rest # {} /\ ~(fa.mem > end) /\ fa.mem = end) =>
                     r = (S \ ({fa} \cup prev))
                            \cup {EndingAt(End(fa), fa.size + size + SizeOf(prev))}
               /\ (rest # {} /\ ~(fa.mem > end) /\ fa.mem # end /\ next # {}) =>
                     r = (S \ ({fa} \cup next))
                            \cup {EndingAt(End(First(next)), fa.size + size + SizeOf(next))}
               /\ (rest # {} /\ ~(fa.mem > end) /\ fa.mem # end /\ next = {}) =>
                     r = (S \ {fa}) \cup {EndingAt(End(fa) + size, fa.size + size)}
  BY Zenon DEF heap_free

(***************************************************************************)
(* __heap_free leaves a list, of at least the size of a descriptor in each *)
(* area, whose areas are those that Heap says.                             *)
(***************************************************************************)
Frees(h, D, mem, size, g) ==
    /\ GoodList(h, D)
    /\ mem \in Nat \ {0} /\ size \in Nat /\ size >= 24
    /\ mem % 8 = 0 /\ size % 8 = 0
    /\ Unlisted(AreasOf(h, D), mem, size)
    /\ g = heap_free_list(h, mem, size)

Lists(g, E, S) ==
    /\ IsHeap(g) /\ Sorted(g, E)
    /\ AreasOf(g, E) = S
    /\ \A x \in E : g.desc[x].size >= 24

(* What the walk of __heap_free has found where it stops. *)
LEMMA StopsWhere ==
    ASSUME NEW h, NEW D, NEW mem, NEW size, NEW g, Frees(h, D, mem, size, g),
           NEW fa, fa = StopsAt(h, mem),
           NEW p, p = LeftBehind(h, fa),
           NEW rest, rest = {a \in AreasOf(h, D) : End(a) >= mem}
    PROVE  /\ rest = {} <=> fa = 0
           /\ fa # 0 => fa \in D /\ First(rest) = AreaOf(h, fa) /\ fa + 24 >= mem
           /\ fa \in Nat /\ p \in Nat
           /\ p \in D \cup {0} /\ Successor(h, p) = fa
           /\ fa # 0 => p = h.desc[fa].prev
           /\ \A x \in D : x + 24 < mem \/ (fa # 0 /\ fa <= x)
           /\ p \in D => p + 24 < mem
           /\ \A x \in D : x + 24 <= mem \/ mem + size <= FA_START(h, x)
  <1> DEFINE T == {x \in D : FA_END(x) >= mem}
  <1>1. GoodList(h, D) /\ IsHeap(h) /\ Sorted(h, D) /\ mem \in Nat \ {0} /\ size \in Nat
    BY DEF Frees, GoodList
  <1>2. List(h) = D
    BY <1>1, ListIs
  <1>3. fa = WalkTo(h, T)
    BY <1>2 DEF StopsAt
  <1>4. \A x \in D : FA_END(x) = x + 24 /\ End(AreaOf(h, x)) = x + 24 /\ x \in Nat \ {0}
    BY <1>1, AreasInOrder
  <1>5. rest = AreasOf(h, T)
    BY <1>4 DEF AreasOf
  <1>6. T \in SUBSET D
    OBVIOUS
  <1>7. /\ T = {} => fa = 0 /\ rest = {}
        /\ T # {} => fa \in T /\ (\A y \in T : fa <= y) /\ rest # {} /\ First(rest) = AreaOf(h, fa)
    BY <1>1, <1>3, <1>5, <1>6, WalkFindsFirst
  <1>8. /\ fa \in D \cup {0} /\ (fa # 0 <=> T # {})
        /\ fa # 0 => fa + 24 >= mem
    BY <1>4, <1>7
  <1>9. p \in D \cup {0} /\ Successor(h, p) = fa /\ (fa # 0 => p = h.desc[fa].prev)
    BY <1>1, <1>8, LeftBehindIs
  <1>10. fa \in Nat /\ p \in Nat
    BY <1>4, <1>8, <1>9
  <1>11. \A x \in D : x + 24 < mem \/ (fa # 0 /\ fa <= x)
    BY <1>1, <1>4, <1>7, <1>8
  <1>12. p \in D => p + 24 < mem
    <2>1. Adjacent(D, p, fa)
      BY <1>1, <1>9 DEF Sorted
    <2>2. fa # 0 => p < fa
      BY <2>1 DEF Adjacent
    <2> QED BY <2>2, <1>10, <1>11
  <1>13. ASSUME NEW x \in D PROVE x + 24 <= mem \/ mem + size <= FA_START(h, x)
    <2>1. End(AreaOf(h, x)) <= mem \/ mem + size <= AreaOf(h, x).mem
      BY DEF Frees, Unlisted, AreasOf
    <2> QED BY <2>1, <1>1, AreasInOrder
  <1> QED BY <1>7, <1>8, <1>9, <1>10, <1>11, <1>12, <1>13

(* The block touches no area, and becomes one. *)
LEMMA FreesApart ==
    ASSUME NEW h, NEW D, NEW mem, NEW size, NEW g, Frees(h, D, mem, size, g),
           NEW fa, fa = StopsAt(h, mem),
           fa = 0 \/ FA_START(h, fa) > mem + size
    PROVE  \E E : Lists(g, E, heap_free(AreasOf(h, D), mem, size).heap)
  <1> DEFINE S    == AreasOf(h, D)
             end  == mem + size
             rest == {a \in S : End(a) >= mem}
             p    == LeftBehind(h, fa)
             new  == end - 24
             E    == D \cup {new}
  <1>1. GoodList(h, D) /\ IsHeap(h) /\ mem \in Nat \ {0} /\ size \in Nat /\ size >= 24
    BY DEF Frees, GoodList
  <1>2. /\ rest = {} <=> fa = 0
        /\ fa # 0 => fa \in D /\ First(rest) = AreaOf(h, fa) /\ fa + 24 >= mem
        /\ fa \in Nat /\ p \in Nat
        /\ p \in D \cup {0} /\ Successor(h, p) = fa
        /\ \A x \in D : x + 24 < mem \/ (fa # 0 /\ fa <= x)
        /\ p \in D => p + 24 < mem
    BY StopsWhere
  <1>3. heap_free(S, mem, size).heap = S \cup {[mem |-> mem, size |-> size]}
    <2>1. rest = {} \/ First(rest).mem > end
      BY <1>1, <1>2, AreasInOrder
    <2> HIDE DEF S
    <2>2. heap_free(S, mem, size).heap = (S \ {}) \cup {[mem |-> mem, size |-> size]}
      BY <2>1, HeapFreeCases
    <2> QED BY <2>2
  <1>4. g = heap_link_free_area(h, new, size, p, fa)
    BY <1>1, SizesOf64Bit DEF Frees, heap_free_list
  <1>5. SortedBut(h, D, p, fa)
    <2>1. Sorted(h, D)
      BY DEF Frees, GoodList
    <2> HIDE DEF p
    <2> QED BY <2>1, <1>1, <1>2, GapBetween
  <1> HIDE DEF p
  <1>6. /\ new \in Nat \ {0} /\ new >= mem /\ p < new /\ (fa # 0 => fa \in D /\ end < fa)
    <2>1. new \in Nat \ {0} /\ new >= mem /\ p < new
      BY <1>1, <1>2
    <2>2. fa # 0 => fa \in D /\ end < fa
      BY <1>1, <1>2, AreasInOrder
    <2> QED BY <2>1, <2>2
  <1>7. D \subseteq Outside(h.desc, new, FA_END(new))
    <2> SUFFICES ASSUME NEW x \in D PROVE x \in DOMAIN h.desc /\ (FA_END(x) <= new \/ FA_END(new) <= x)
      BY DEF Outside
    <2>1. x \in DOMAIN h.desc /\ x \in Nat /\ FA_END(x) = x + 24 /\ FA_END(new) = end
      BY <1>1, <1>6, AreasInOrder, SizesOf64Bit DEF FA_END
    <2>2. x + 24 < mem \/ (fa # 0 /\ fa <= x)
      BY <1>2
    <2> QED BY <2>1, <2>2, <1>1, <1>2, <1>6
  <1>8. /\ IsHeap(g) /\ Sorted(g, E) /\ new \notin D
        /\ g.desc[new].size = size
        /\ \A x \in D : g.desc[x].size = h.desc[x].size
    <2>1. fa # 0 => new < fa
      BY <1>1, <1>2, <1>6
    <2> HIDE DEF new
    <2>2. Linkable(h, D, p, fa, new, size)
      BY <2>1, <1>1, <1>5, <1>6, <1>7 DEF Linkable
    <2>3. Linked(h, D, new, size, g)
      BY <1>4, <2>2, LinkInserts
    <2> QED BY <2>3 DEF Linked
  <1>9. AreaOf(g, new) = [mem |-> mem, size |-> size]
    BY <1>1, <1>8, SizesOf64Bit DEF AreaOf, FA_START, FA_END
  <1>10. {} = AreasOf(h, D \ D)
    BY DEF AreasOf
  <1>11. AreasOf(g, E) = (AreasOf(h, D) \ {}) \cup {AreaOf(g, new)}
    <2>1. Changes(h, D, g, D, new, E, {})
      BY <1>1, <1>8, <1>10 DEF Changes
    <2> HIDE DEF new, E
    <2> QED BY <2>1, AreasChanged
  <1>12. AreasOf(g, E) = heap_free(S, mem, size).heap
    <2> HIDE DEF S, new
    <2> QED BY <1>3, <1>9, <1>11 DEF S
  <1>13. \A x \in E : g.desc[x].size >= 24
    BY <1>1, <1>8, AreasInOrder
  <1>14. Lists(g, E, heap_free(S, mem, size).heap)
    <2> HIDE DEF S, E
    <2> QED BY <1>8, <1>12, <1>13 DEF Lists
  <1> HIDE DEF E
  <1> QED BY <1>14

(* The block ends where an area starts, which grows down. *)
LEMMA FreesBefore ==
    ASSUME NEW h, NEW D, NEW mem, NEW size, NEW g, Frees(h, D, mem, size, g),
           NEW fa, fa = StopsAt(h, mem),
           fa # 0, FA_START(h, fa) = mem + size
    PROVE  \E E : Lists(g, E, heap_free(AreasOf(h, D), mem, size).heap)
  <1> DEFINE S    == AreasOf(h, D)
             end  == mem + size
             rest == {a \in S : End(a) >= mem}
             prev == {a \in S \ rest : End(a) = mem}
             p    == LeftBehind(h, fa)
             total == h.desc[fa].size + size
  <1>1. GoodList(h, D) /\ IsHeap(h) /\ Sorted(h, D) /\ mem \in Nat \ {0} /\ size \in Nat /\ size >= 24
    BY DEF Frees, GoodList
  <1>2. /\ rest # {} /\ fa \in D /\ First(rest) = AreaOf(h, fa)
        /\ p \in Nat /\ p \in D \cup {0} /\ (p \in D => p + 24 < mem)
    <2>1. /\ rest = {} <=> fa = 0
          /\ fa # 0 => fa \in D /\ First(rest) = AreaOf(h, fa) /\ fa + 24 >= mem
          /\ p \in Nat /\ p \in D \cup {0} /\ (p \in D => p + 24 < mem)
      BY StopsWhere
    <2> QED BY <2>1
  <1>3. /\ fa \in Nat \ {0} /\ fa \in DOMAIN h.desc /\ h.desc[fa].size \in Nat
        /\ AreaOf(h, fa).mem = end /\ AreaOf(h, fa).size = h.desc[fa].size
        /\ End(AreaOf(h, fa)) = fa + 24 /\ end + h.desc[fa].size = fa + 24
        /\ FA_START(h, fa) = end
    BY <1>1, <1>2, AreasInOrder
  <1>4. prev = {} /\ SizeOf(prev) = 0
    <2>1. \A a \in S : End(a) \in Nat
      BY <1>1, AreasInOrder DEF AreasOf
    <2> QED BY <2>1, <1>1 DEF SizeOf
  <1>5. heap_free(S, mem, size).heap = (S \ {AreaOf(h, fa)}) \cup {[mem |-> mem, size |-> total]}
    <2>1. rest # {} /\ ~(First(rest).mem > end) /\ First(rest).mem = end
      BY <1>1, <1>2, <1>3
    <2>2. heap_free(S, mem, size).heap =
             (S \ ({First(rest)} \cup prev))
                \cup {EndingAt(End(First(rest)), First(rest).size + size + SizeOf(prev))}
      <3> HIDE DEF S
      <3> QED BY <2>1, HeapFreeCases
    <2>3. EndingAt(End(First(rest)), First(rest).size + size + SizeOf(prev)) = [mem |-> mem, size |-> total]
      <3> HIDE DEF prev, rest
      <3>1. EndingAt(End(First(rest)), First(rest).size + size + SizeOf(prev))
               = EndingAt(fa + 24, total)
        BY <1>1, <1>2, <1>3, <1>4
      <3>2. fa + 24 - total = mem
        BY <1>1, <1>3
      <3>3. total \in Nat
        BY <1>1, <1>3
      <3> HIDE DEF total
      <3>4. EndingAt(fa + 24, total) = [mem |-> mem, size |-> total]
        BY <3>2, <3>3, <1>1, <1>3 DEF EndingAt
      <3> QED BY <3>1, <3>4
    <2> HIDE DEF S, rest, prev, total
    <2> QED BY <2>2, <2>3, <1>2, <1>4
  <1>6. ~(p # 0 /\ mem = FA_END(p))
    BY <1>1, <1>2, AreasInOrder
  <1>7. g = Resized(h, fa, total)
    BY <1>1, <1>3, <1>6 DEF Frees, heap_free_list
  <1>8. total \in Nat /\ total >= 24
    BY <1>1, <1>3
  <1>9. /\ IsHeap(g) /\ DOMAIN g.desc = DOMAIN h.desc
        /\ \A x \in DOMAIN h.desc :
              /\ g.desc[x].size = IF x = fa THEN total ELSE h.desc[x].size
              /\ g.desc[x].prev = h.desc[x].prev
        /\ \A q \in DOMAIN h.desc \cup {0} : Successor(g, q) = Successor(h, q)
    <2> HIDE DEF total
    <2> QED BY <1>1, <1>3, <1>7, <1>8, ResizedSets
  <1> HIDE DEF total, S
  <1>10. Sorted(g, D)
    BY <1>1, <1>9 DEF Sorted
  <1>11. AreaOf(g, fa) = [mem |-> mem, size |-> total]
    <2>1. g.desc[fa].size = total /\ fa + 24 - total = mem
      BY <1>1, <1>3, <1>9 DEF total
    <2>2. FA_START(g, fa) = mem
      BY <2>1, <1>1, <1>3, <1>8, SizesOf64Bit DEF FA_START, FA_END
    <2> QED BY <2>1, <2>2 DEF AreaOf
  <1>12. {AreaOf(h, fa)} = AreasOf(h, D \ (D \ {fa}))
    BY <1>2 DEF AreasOf
  <1>13. AreasOf(g, D) = (AreasOf(h, D) \ {AreaOf(h, fa)}) \cup {AreaOf(g, fa)}
    <2>1. (D \ {fa}) \cup {fa} = D /\ \A x \in D \ {fa} : g.desc[x].size = h.desc[x].size
      BY <1>1, <1>2, <1>9, AreasInOrder
    <2>2. Changes(h, D, g, D \ {fa}, fa, D, {AreaOf(h, fa)})
      BY <2>1, <1>1, <1>12 DEF Changes
    <2> QED BY <2>2, AreasChanged
  <1>14. AreasOf(g, D) = heap_free(S, mem, size).heap
    BY <1>5, <1>11, <1>13 DEF S
  <1>15. \A x \in D : g.desc[x].size >= 24
    BY <1>1, <1>8, <1>9, AreasInOrder
  <1>16. Lists(g, D, heap_free(S, mem, size).heap)
    BY <1>9, <1>10, <1>14, <1>15 DEF Lists
  <1> QED BY <1>16 DEF S

(* Where the block starts where an area ends: the facts both outcomes need. *)
Grows(h, D, mem, size, g, fa) ==
    /\ Frees(h, D, mem, size, g)
    /\ fa = StopsAt(h, mem) /\ fa # 0
    /\ ~(FA_START(h, fa) > mem + size) /\ FA_START(h, fa) # mem + size

LEMMA GrowsWhere ==
    ASSUME NEW h, NEW D, NEW mem, NEW size, NEW g, NEW fa, Grows(h, D, mem, size, g, fa)
    PROVE  LET p == h.desc[fa].prev
               n == h.desc[fa].next
           IN
           /\ fa \in D /\ fa + 24 = mem /\ FA_START(h, fa) < mem
           /\ LeftBehind(h, fa) = p
           /\ p \in Nat /\ p < fa /\ n \in Nat
           /\ n # 0 => n \in D /\ fa < n
           /\ \A x \in D : fa < x => n # 0 /\ n <= x /\ mem + size <= FA_START(h, x)
           /\ \A x \in D : x < fa => x + 24 < FA_START(h, fa)
  <1> DEFINE p    == h.desc[fa].prev
             n    == h.desc[fa].next
             rest == {a \in AreasOf(h, D) : End(a) >= mem}
  <1>1. /\ GoodList(h, D) /\ IsHeap(h) /\ Sorted(h, D)
        /\ mem \in Nat \ {0} /\ size \in Nat /\ size >= 24
    BY DEF Grows, Frees, GoodList
  <1>2. /\ rest # {} /\ fa \in D /\ First(rest) = AreaOf(h, fa) /\ fa + 24 >= mem
        /\ LeftBehind(h, fa) = p
        /\ \A x \in D : x + 24 <= mem \/ mem + size <= FA_START(h, x)
    <2> DEFINE q == LeftBehind(h, fa)
    <2>1. Frees(h, D, mem, size, g) /\ fa = StopsAt(h, mem) /\ fa # 0
      BY DEF Grows
    <2>2. /\ rest = {} <=> fa = 0
          /\ fa # 0 => fa \in D /\ First(rest) = AreaOf(h, fa) /\ fa + 24 >= mem
          /\ fa # 0 => q = h.desc[fa].prev
          /\ \A x \in D : x + 24 <= mem \/ mem + size <= FA_START(h, x)
      BY <2>1, StopsWhere
    <2> QED BY <2>1, <2>2
  <1>3. /\ fa \in Nat \ {0} /\ FA_START(h, fa) \in Nat /\ fa \in DOMAIN h.desc
        /\ FA_START(h, fa) <= fa
    BY <1>1, <1>2, AreasInOrder
  <1>4. fa + 24 = mem /\ FA_START(h, fa) < mem
    <2>1. FA_START(h, fa) < mem + size
      BY <1>1, <1>3 DEF Grows
    <2> QED BY <2>1, <1>1, <1>2, <1>3
  <1>5. p \in Nat /\ n \in Nat
    BY <1>1, <1>3 DEF IsHeap, Descriptor
  <1>7. Adjacent(D, p, fa) /\ Adjacent(D, fa, n)
    <2>1. Successor(h, fa) = n
      BY <1>3 DEF Successor
    <2> QED BY <2>1, <1>1, <1>2 DEF Sorted
  <1>8. p < fa /\ (n # 0 => n \in D /\ fa < n)
    BY <1>3, <1>7 DEF Adjacent
  <1>9. ASSUME NEW x \in D, fa < x PROVE n # 0 /\ n <= x /\ mem + size <= FA_START(h, x)
    <2>1. x \in Nat /\ FA_START(h, x) \in Nat
      BY <1>1, AreasInOrder
    <2>2. n # 0 /\ n <= x
      BY <1>3, <1>7, <1>9, <2>1 DEF Adjacent
    <2> QED BY <2>1, <2>2, <1>1, <1>2, <1>3, <1>4, <1>9
  <1>10. \A x \in D : x < fa => x + 24 < FA_START(h, fa)
    BY <1>1, <1>2, AreasInOrder
  <1> QED BY <1>2, <1>4, <1>5, <1>8, <1>9, <1>10

(* The block fills the gap between two areas, and the second takes all. *)
LEMMA FreesBetween ==
    ASSUME NEW h, NEW D, NEW mem, NEW size, NEW g, NEW fa, Grows(h, D, mem, size, g, fa),
           NEW n, n = h.desc[fa].next, n # 0, mem + size = FA_START(h, n)
    PROVE  \E E : Lists(g, E, heap_free(AreasOf(h, D), mem, size).heap)
  <1> DEFINE S     == AreasOf(h, D)
             end   == mem + size
             rest  == {a \in S : End(a) >= mem}
             next  == {a \in rest \ {First(rest)} : a.mem = end}
             p     == h.desc[fa].prev
             E     == D \ {fa}
             f     == heap_link_free_area_after(h, n, p)
             total == h.desc[fa].size + size + h.desc[n].size
             gone  == {AreaOf(h, fa), AreaOf(h, n)}
  <1>1. /\ GoodList(h, D) /\ IsHeap(h) /\ Sorted(h, D)
        /\ mem \in Nat \ {0} /\ size \in Nat /\ size >= 24 /\ g = heap_free_list(h, mem, size)
        /\ fa = StopsAt(h, mem) /\ fa # 0
        /\ ~(FA_START(h, fa) > end) /\ FA_START(h, fa) # end
    BY DEF Grows, Frees, GoodList
  <1>2. /\ rest # {} /\ fa \in D /\ First(rest) = AreaOf(h, fa)
        /\ fa + 24 = mem /\ LeftBehind(h, fa) = p
        /\ SortedBut(h, D \ {fa}, p, n)
        /\ n \in D /\ fa < n
    <2>0. Frees(h, D, mem, size, g)
      BY DEF Grows
    <2>1. /\ rest = {} <=> fa = 0
          /\ fa # 0 => fa \in D /\ First(rest) = AreaOf(h, fa) /\ fa + 24 >= mem
      BY <2>0, <1>1, StopsWhere
    <2>3. /\ fa + 24 = mem /\ LeftBehind(h, fa) = p
          /\ n # 0 => n \in D /\ fa < n
      BY GrowsWhere
    <2>2. SortedBut(h, D \ {fa}, p, n)
      BY <2>1, <1>1, GapOf
    <2> QED BY <2>1, <2>2, <2>3, <1>1
  <1>3. /\ fa \in Nat \ {0} /\ n \in Nat \ {0} /\ n \in DOMAIN h.desc
        /\ h.desc[fa].size \in Nat /\ h.desc[n].size \in Nat
        /\ AreaOf(h, fa).mem = FA_START(h, fa) /\ AreaOf(h, fa).size = h.desc[fa].size
        /\ AreaOf(h, n).mem = end /\ AreaOf(h, n).size = h.desc[n].size
        /\ End(AreaOf(h, n)) = n + 24 /\ end + h.desc[n].size = n + 24
        /\ FA_START(h, fa) + h.desc[fa].size = fa + 24
        /\ AreaOf(h, n) \in S /\ n # fa /\ AreaOf(h, n) # AreaOf(h, fa)
    BY <1>1, <1>2, AreasInOrder DEF AreasOf
  <1>4. next = {AreaOf(h, n)}
    <2>1. AreaOf(h, n) \in next
      BY <1>1, <1>2, <1>3
    <2>2. ASSUME NEW a \in next PROVE a = AreaOf(h, n)
      <3>1. PICK x \in D : a = AreaOf(h, x)
        BY DEF AreasOf
      <3>2. FA_START(h, x) = end
        BY <3>1, <1>1, AreasInOrder
      <3>3. x \in Nat /\ x + 24 > end /\ (x < n => x + 24 < end) /\ (n < x => n + 24 < end)
        BY <3>1, <3>2, <1>1, <1>2, AreasInOrder
      <3>4. x = n
        BY <3>3, <1>1, <1>3
      <3> QED BY <3>1, <3>4
    <2> QED BY <2>1, <2>2
  <1>5. total \in Nat /\ total >= 24 /\ n + 24 - total = FA_START(h, fa) /\ FA_START(h, fa) \in Nat
    <2>1. FA_START(h, fa) \in Nat /\ h.desc[fa].size >= 24
      BY <1>1, <1>2, AreasInOrder
    <2> QED BY <2>1, <1>1, <1>2, <1>3
  <1>6. heap_free(S, mem, size).heap = (S \ gone) \cup {[mem |-> FA_START(h, fa), size |-> total]}
    <2>1. rest # {} /\ ~(First(rest).mem > end) /\ First(rest).mem # end /\ next # {}
      BY <1>1, <1>2, <1>3, <1>4
    <2>2. heap_free(S, mem, size).heap =
             (S \ ({First(rest)} \cup next))
                \cup {EndingAt(End(First(next)), First(rest).size + size + SizeOf(next))}
      <3> HIDE DEF S
      <3>1. (rest # {} /\ ~(First(rest).mem > end) /\ First(rest).mem # end /\ next # {}) =>
               heap_free(S, mem, size).heap =
                  (S \ ({First(rest)} \cup next))
                     \cup {EndingAt(End(First(next)), First(rest).size + size + SizeOf(next))}
        BY Zenon DEF heap_free
      <3> HIDE DEF rest, next
      <3> QED BY <2>1, <3>1
    <2> HIDE DEF next, rest
    <2>3. First(next) = AreaOf(h, n) /\ SizeOf(next) = h.desc[n].size
      <3>1. First({AreaOf(h, n)}) = AreaOf(h, n)
        BY <1>1, <1>3 DEF First
      <3> QED BY <3>1, <1>3, <1>4 DEF SizeOf
    <2>4. EndingAt(End(First(next)), First(rest).size + size + SizeOf(next)) = EndingAt(n + 24, total)
      BY <2>3, <1>2, <1>3
    <2> HIDE DEF total
    <2>5. EndingAt(n + 24, total) = [mem |-> FA_START(h, fa), size |-> total]
      BY <1>3, <1>5 DEF EndingAt
    <2>6. {First(rest)} \cup next = gone
      BY <1>2, <1>4
    <2> HIDE DEF gone, S
    <2> QED BY <2>2, <2>4, <2>5, <2>6
  <1>7. g = Resized(f, n, total)
    BY <1>1, <1>2, <1>3 DEF heap_free_list
  <1>8. n \in E /\ SortedBut(h, E, p, n)
    BY <1>2, <1>3
  <1> HIDE DEF E, f, p, total, S, gone
  <1>9. IsHeap(f) /\ Sorted(f, E) /\ \A x \in E : f.desc[x].size = h.desc[x].size
    BY <1>1, <1>8, LinkAfterCloses DEF f
  <1>10. E \subseteq DOMAIN f.desc
    BY <1>9 DEF Sorted
  <1>11. /\ IsHeap(g) /\ DOMAIN g.desc = DOMAIN f.desc
         /\ \A x \in DOMAIN f.desc :
               /\ g.desc[x].size = IF x = n THEN total ELSE f.desc[x].size
               /\ g.desc[x].prev = f.desc[x].prev
         /\ \A q \in DOMAIN f.desc \cup {0} : Successor(g, q) = Successor(f, q)
    <2>1. n \in DOMAIN f.desc
      BY <1>8, <1>10
    <2> QED BY <2>1, <1>5, <1>7, <1>9, ResizedSets
  <1>12. Sorted(g, E)
    BY <1>9, <1>10, <1>11 DEF Sorted
  <1>13. AreaOf(g, n) = [mem |-> FA_START(h, fa), size |-> total]
    <2>1. g.desc[n].size = total
      BY <1>8, <1>10, <1>11
    <2>2. FA_START(g, n) = n + 24 - total
      BY <2>1, <1>3, <1>5, SizesOf64Bit DEF FA_START, FA_END
    <2> QED BY <2>1, <2>2, <1>5 DEF AreaOf
  <1>14. AreasOf(g, E) = (S \ gone) \cup {AreaOf(g, n)}
    <2> DEFINE F == D \ {fa, n}
    <2>1. F \cup {n} = E /\ F \subseteq E /\ n \notin F /\ D \ F = {fa, n}
      BY <1>2, <1>3 DEF E
    <2>2. \A x \in F : g.desc[x].size = h.desc[x].size
      BY <2>1, <1>9, <1>10, <1>11
    <2>3. gone = AreasOf(h, D \ F)
      BY <2>1 DEF AreasOf, gone
    <2>4. Changes(h, D, g, F, n, E, gone)
      BY <2>1, <2>2, <2>3, <1>1 DEF Changes
    <2> HIDE DEF F
    <2> QED BY <2>4, AreasChanged DEF S
  <1>15. \A x \in E : g.desc[x].size >= 24
    BY <1>1, <1>5, <1>9, <1>10, <1>11, AreasInOrder DEF E
  <1>16. Lists(g, E, heap_free(S, mem, size).heap)
    BY <1>6, <1>11, <1>12, <1>13, <1>14, <1>15 DEF Lists
  <1> QED BY <1>16 DEF S

(* The block touches the area before it only, whose descriptor moves to the new end. *)
LEMMA FreesAfter ==
    ASSUME NEW h, NEW D, NEW mem, NEW size, NEW g, NEW fa, Grows(h, D, mem, size, g, fa),
           NEW n, n = h.desc[fa].next, ~(n # 0 /\ mem + size = FA_START(h, n))
    PROVE  \E E : Lists(g, E, heap_free(AreasOf(h, D), mem, size).heap)
  <1> DEFINE S     == AreasOf(h, D)
             end   == mem + size
             rest  == {a \in S : End(a) >= mem}
             next  == {a \in rest \ {First(rest)} : a.mem = end}
             p     == h.desc[fa].prev
             F     == D \ {fa}
             new   == fa + size
             E     == F \cup {new}
             total == h.desc[fa].size + size
             gone  == {AreaOf(h, fa)}
  <1>1. /\ GoodList(h, D) /\ IsHeap(h) /\ Sorted(h, D)
        /\ mem \in Nat \ {0} /\ size \in Nat /\ size >= 24 /\ g = heap_free_list(h, mem, size)
        /\ fa = StopsAt(h, mem) /\ fa # 0
        /\ ~(FA_START(h, fa) > end) /\ FA_START(h, fa) # end
    BY DEF Grows, Frees, GoodList
  <1>2. /\ rest # {} /\ fa \in D /\ First(rest) = AreaOf(h, fa)
    <2>1. Frees(h, D, mem, size, g)
      BY DEF Grows
    <2>2. /\ rest = {} <=> fa = 0
          /\ fa # 0 => fa \in D /\ First(rest) = AreaOf(h, fa) /\ fa + 24 >= mem
      BY <2>1, <1>1, StopsWhere
    <2> QED BY <2>2, <1>1
  <1>3. /\ fa + 24 = mem /\ LeftBehind(h, fa) = p /\ p \in Nat /\ p < fa /\ n \in Nat
        /\ n # 0 => n \in D /\ fa < n
        /\ \A x \in D : fa < x => n # 0 /\ n <= x /\ end <= FA_START(h, x)
        /\ \A x \in D : x < fa => x + 24 < FA_START(h, fa)
    BY GrowsWhere
  <1>4. SortedBut(h, F, p, n)
    BY <1>1, <1>2, GapOf
  <1>5. /\ fa \in Nat \ {0} /\ h.desc[fa].size \in Nat /\ h.desc[fa].size >= 24
        /\ FA_START(h, fa) \in Nat /\ FA_START(h, fa) <= fa
        /\ AreaOf(h, fa).mem = FA_START(h, fa) /\ AreaOf(h, fa).size = h.desc[fa].size
        /\ End(AreaOf(h, fa)) = fa + 24 /\ FA_START(h, fa) + h.desc[fa].size = fa + 24
    BY <1>1, <1>2, AreasInOrder
  <1>6. next = {}
    <2> SUFFICES ASSUME NEW a \in next PROVE FALSE
      OBVIOUS
    <2>1. PICK x \in D : a = AreaOf(h, x)
      BY DEF AreasOf
    <2>2. FA_START(h, x) = end /\ x # fa /\ x \in Nat /\ FA_START(h, x) <= x
      BY <2>1, <1>1, <1>2, AreasInOrder
    <2>3. fa < x
      BY <2>2, <1>1, <1>3, <1>5
    <2>4. n # 0 /\ n \in D /\ n <= x /\ end <= FA_START(h, n)
      BY <2>1, <2>3, <1>3
    <2>5. n \in Nat /\ FA_START(h, n) <= n /\ FA_START(h, n) \in Nat /\ (n < x => n + 24 < end)
      BY <2>1, <2>2, <2>4, <1>1, AreasInOrder
    <2>6. n = x
      BY <2>2, <2>4, <2>5, <1>1
    <2> QED BY <2>2, <2>4, <2>6
  <1>7. /\ total \in Nat /\ total >= 24 /\ new \in Nat \ {0}
        /\ new + 24 = end /\ new + 24 - total = FA_START(h, fa) /\ p < new
    BY <1>1, <1>3, <1>5
  <1>8. heap_free(S, mem, size).heap = (S \ gone) \cup {[mem |-> FA_START(h, fa), size |-> total]}
    <2>1. rest # {} /\ ~(First(rest).mem > end) /\ First(rest).mem # end /\ next = {}
      BY <1>1, <1>2, <1>5, <1>6
    <2>2. heap_free(S, mem, size).heap =
             (S \ {First(rest)}) \cup {EndingAt(End(First(rest)) + size, First(rest).size + size)}
      <3> HIDE DEF S
      <3>1. (rest # {} /\ ~(First(rest).mem > end) /\ First(rest).mem # end /\ next = {}) =>
               heap_free(S, mem, size).heap =
                  (S \ {First(rest)}) \cup {EndingAt(End(First(rest)) + size, First(rest).size + size)}
        BY Zenon DEF heap_free
      <3> HIDE DEF rest, next
      <3> QED BY <2>1, <3>1
    <2> HIDE DEF rest
    <2>3. EndingAt(End(First(rest)) + size, First(rest).size + size) = EndingAt(new + 24, total)
      <3>1. End(First(rest)) + size = new + 24
        BY <1>1, <1>2, <1>3, <1>5
      <3> QED BY <3>1, <1>2, <1>5
    <2> HIDE DEF total, new
    <2>4. EndingAt(new + 24, total) = [mem |-> FA_START(h, fa), size |-> total]
      BY <1>7 DEF EndingAt
    <2> HIDE DEF S
    <2> QED BY <2>2, <2>3, <2>4, <1>2
  <1>9. g = heap_link_free_area(h, new, total, p, n)
    BY <1>1, <1>2, <1>3 DEF heap_free_list
  <1>10. n # 0 => new < n
    <2> SUFFICES ASSUME n # 0 PROVE new < n
      OBVIOUS
    <2>1. n \in D /\ end <= FA_START(h, n)
      BY <1>3
    <2>2. FA_START(h, n) <= n /\ FA_START(h, n) \in Nat
      BY <2>1, <1>1, AreasInOrder
    <2> QED BY <2>1, <2>2, <1>1, <1>3, <1>7
  <1>11. F \subseteq Outside(h.desc, new, FA_END(new))
    <2> SUFFICES ASSUME NEW x \in D, x # fa
                 PROVE  x \in DOMAIN h.desc /\ (FA_END(x) <= new \/ FA_END(new) <= x)
      BY DEF Outside
    <2>1. /\ x \in DOMAIN h.desc /\ x \in Nat /\ FA_END(x) = x + 24 /\ FA_END(new) = end
          /\ FA_START(h, x) <= x /\ FA_START(h, x) \in Nat
      BY <1>1, <1>7, AreasInOrder, SizesOf64Bit DEF FA_END
    <2>2. x < fa => x + 24 < FA_START(h, fa)
      BY <1>3
    <2>3. fa < x => end <= FA_START(h, x)
      BY <1>3
    <2> QED BY <2>1, <2>2, <2>3, <1>1, <1>5
  <1> HIDE DEF F, E, p, new, total, S, gone
  <1>12. /\ IsHeap(g) /\ Sorted(g, E) /\ new \notin F
         /\ g.desc[new].size = total
         /\ \A x \in F : g.desc[x].size = h.desc[x].size
    <2>1. /\ IsHeap(g) /\ Sorted(g, F \cup {new}) /\ new \notin F
          /\ g.desc[new].size = total
          /\ \A x \in F : g.desc[x].size = h.desc[x].size
      <3>1. Linkable(h, F, p, n, new, total)
        BY <1>1, <1>4, <1>7, <1>10, <1>11 DEF Linkable
      <3>2. Linked(h, F, new, total, g)
        BY <1>9, <3>1, LinkInserts
      <3> QED BY ONLY <3>2 DEF Linked
    <2> QED BY <2>1 DEF E
  <1>13. AreaOf(g, new) = [mem |-> FA_START(h, fa), size |-> total]
    <2>1. FA_START(g, new) = new + 24 - total
      BY <1>7, <1>12, SizesOf64Bit DEF FA_START, FA_END
    <2> QED BY <2>1, <1>7, <1>12 DEF AreaOf
  <1>14. AreasOf(g, E) = (S \ gone) \cup {AreaOf(g, new)}
    <2>1. F \subseteq D /\ D \ F = {fa}
      BY <1>2 DEF F
    <2>2. gone = AreasOf(h, D \ F)
      BY <2>1 DEF AreasOf, gone
    <2>3. Changes(h, D, g, F, new, E, gone)
      BY <2>1, <2>2, <1>1, <1>12 DEF Changes, E
    <2> QED BY <2>3, AreasChanged DEF S
  <1>15. \A x \in E : g.desc[x].size >= 24
    BY <1>1, <1>7, <1>12, AreasInOrder DEF E, F
  <1>16. Lists(g, E, heap_free(S, mem, size).heap)
    BY <1>8, <1>12, <1>13, <1>14, <1>15 DEF Lists
  <1> QED BY <1>16 DEF S

(* __heap_free keeps a list, and its areas become those that Heap says. *)
LEMMA FreeLists ==
    ASSUME NEW h, NEW D, NEW mem, NEW size, NEW g, Frees(h, D, mem, size, g)
    PROVE  \E E : Lists(g, E, heap_free(AreasOf(h, D), mem, size).heap)
  <1> DEFINE fa == StopsAt(h, mem)
             n  == h.desc[fa].next
  <1>1. CASE fa = 0 \/ FA_START(h, fa) > mem + size
    BY <1>1, FreesApart
  <1>2. CASE fa # 0 /\ FA_START(h, fa) = mem + size
    BY <1>2, FreesBefore
  <1>3. CASE ~(fa = 0 \/ FA_START(h, fa) > mem + size) /\ FA_START(h, fa) # mem + size
    <2>1. Grows(h, D, mem, size, g, fa)
      BY <1>3 DEF Grows
    <2> HIDE DEF fa
    <2>2. CASE n # 0 /\ mem + size = FA_START(h, n)
      BY <2>1, <2>2, FreesBetween
    <2>3. CASE ~(n # 0 /\ mem + size = FA_START(h, n))
      BY <2>1, <2>3, FreesAfter
    <2> QED BY <2>2, <2>3
  <1> QED BY <1>1, <1>2, <1>3

-----------------------------------------------------------------------------
(* __heap_free_area_alloc keeps a list, and takes what Heap says. *)
Takes(h, D, fa, size, g) ==
    /\ GoodList(h, D) /\ fa \in D
    /\ size \in Nat \ {0} /\ size % 8 = 0 /\ size <= h.desc[fa].size
    /\ g = heap_free_area_alloc_list(h, fa, size)

LEMMA AllocLists ==
    ASSUME NEW h, NEW D, NEW fa, NEW size, NEW g, Takes(h, D, fa, size, g)
    PROVE  /\ \E E : Lists(g, E, heap_free_area_alloc(AreasOf(h, D), AreaOf(h, fa), size))
           /\ heap_free_area_taken(h, fa, size) = Taken(AreaOf(h, fa), size)
  <1> DEFINE S    == AreasOf(h, D)
             a    == AreaOf(h, fa)
             left == h.desc[fa].size - size
             F    == D \ {fa}
             gone == {a}
  <1>1. /\ GoodList(h, D) /\ IsHeap(h) /\ Sorted(h, D) /\ fa \in D
        /\ size \in Nat \ {0} /\ size <= h.desc[fa].size
        /\ g = heap_free_area_alloc_list(h, fa, size)
    BY DEF Takes, GoodList
  <1>2. /\ fa \in Nat \ {0} /\ fa \in DOMAIN h.desc /\ h.desc[fa].size \in Nat
        /\ a.mem = FA_START(h, fa) /\ a.size = h.desc[fa].size /\ End(a) = fa + 24
        /\ FA_START(h, fa) \in Nat /\ FA_START(h, fa) + h.desc[fa].size = fa + 24
    BY <1>1, AreasInOrder
  <1>3. Taken(a, size) = heap_free_area_taken(h, fa, size)
    BY <1>2 DEF Taken, heap_free_area_taken
  <1>4. F \subseteq D /\ D \ F = {fa} /\ F \cup {fa} = D
    BY <1>1
  <1>5. gone = AreasOf(h, D \ F)
    BY <1>4 DEF AreasOf
  <1>6. CASE h.desc[fa].size < size + HEAP_MIN_FREE_AREA_SIZE
    <2>1. g = heap_delete(h, fa)
      BY <1>1, <1>6 DEF heap_free_area_alloc_list
    <2>2. /\ IsHeap(g) /\ Sorted(g, F)
          /\ \A x \in F : g.desc[x].size = h.desc[x].size
      <3>1. IsHeap(h) /\ Sorted(h, D) /\ fa \in D /\ g = heap_delete(h, fa)
        BY <2>1, <1>1
      <3> QED BY ONLY <3>1, DeleteUnlinks
    <2>3. heap_free_area_alloc(S, a, size) = S \ gone
      <3>1. Taken(a, size) = a.size
        BY <1>2, <1>6 DEF Taken
      <3> HIDE DEF a, S
      <3> QED BY <3>1 DEF heap_free_area_alloc
    <2> HIDE DEF F, gone, a
    <2>4. AreasOf(g, F) = S \ gone
      BY <2>2, <1>1, <1>4, <1>5, AreasLost
    <2>5. \A x \in F : g.desc[x].size >= 24
      BY <2>2, <1>1, <1>4, AreasInOrder
    <2> HIDE DEF S
    <2>6. Lists(g, F, heap_free_area_alloc(S, a, size))
      BY <2>2, <2>3, <2>4, <2>5 DEF Lists
    <2> QED BY <2>6, <1>3 DEF S, a
  <1>7. CASE ~(h.desc[fa].size < size + HEAP_MIN_FREE_AREA_SIZE)
    <2>1. left \in Nat /\ left >= 56 /\ size # h.desc[fa].size
      BY <1>1, <1>2, <1>7, SizesOf64Bit
    <2>2. g = Resized(h, fa, left)
      BY <1>1, <1>7 DEF heap_free_area_alloc_list, Resized
    <2>3. heap_free_area_alloc(S, a, size) =
             (S \ gone) \cup {[mem |-> FA_START(h, fa) + size, size |-> left]}
      <3>1. Taken(a, size) = size /\ size # a.size
        BY <2>1, <1>2, <1>7 DEF Taken
      <3>2. Extent(a.mem + size, End(a)) = [mem |-> FA_START(h, fa) + size, size |-> left]
        <4>1. fa + 24 - (FA_START(h, fa) + size) = left
          BY <1>1, <1>2
        <4>2. a.mem + size = FA_START(h, fa) + size /\ End(a) = fa + 24
          BY <1>2
        <4> HIDE DEF a, left
        <4>3. Extent(a.mem + size, End(a)) = Extent(FA_START(h, fa) + size, fa + 24)
          BY <4>2
        <4>4. Extent(FA_START(h, fa) + size, fa + 24)
                 = [mem |-> FA_START(h, fa) + size, size |-> fa + 24 - (FA_START(h, fa) + size)]
          BY <1>1, <1>2 DEF Extent
        <4> QED BY <4>1, <4>3, <4>4
      <3> HIDE DEF a, S, left
      <3> QED BY <3>1, <3>2 DEF heap_free_area_alloc
    <2> HIDE DEF left
    <2>4. /\ IsHeap(g) /\ DOMAIN g.desc = DOMAIN h.desc
          /\ \A x \in DOMAIN h.desc :
                /\ g.desc[x].size = IF x = fa THEN left ELSE h.desc[x].size
                /\ g.desc[x].prev = h.desc[x].prev
          /\ \A q \in DOMAIN h.desc \cup {0} : Successor(g, q) = Successor(h, q)
      <3>1. IsHeap(h) /\ fa \in DOMAIN h.desc /\ left \in Nat /\ g = Resized(h, fa, left)
        BY <2>1, <2>2, <1>1, <1>2
      <3> QED BY ONLY <3>1, ResizedSets
    <2>5. Sorted(g, D)
      BY <2>4, <1>1 DEF Sorted
    <2>6. AreaOf(g, fa) = [mem |-> FA_START(h, fa) + size, size |-> left]
      <3>1. g.desc[fa].size = left /\ fa + 24 - left = FA_START(h, fa) + size
        BY <2>4, <1>1, <1>2 DEF left
      <3>2. FA_START(g, fa) = FA_START(h, fa) + size
        BY <3>1, <2>1, <1>2, SizesOf64Bit DEF FA_START, FA_END
      <3> QED BY <3>1, <3>2 DEF AreaOf
    <2>7. \A x \in F : g.desc[x].size = h.desc[x].size
      BY <2>4, <1>1, AreasInOrder
    <2>8. \A x \in D : g.desc[x].size >= 24
      BY <2>1, <2>4, <1>1, AreasInOrder
    <2> HIDE DEF F, gone, a
    <2>9. Changes(h, D, g, F, fa, D, gone)
      BY <2>7, <1>1, <1>4, <1>5 DEF Changes
    <2>10. AreasOf(g, D) = (S \ gone) \cup {AreaOf(g, fa)}
      BY <2>9, AreasChanged
    <2> HIDE DEF S
    <2>11. Lists(g, D, heap_free_area_alloc(S, a, size))
      BY <2>3, <2>4, <2>5, <2>6, <2>8, <2>10 DEF Lists
    <2> QED BY <2>11, <1>3 DEF S, a
  <1> QED BY <1>6, <1>7

(* A list keeps what Heap says of its areas in view. *)
LEMMA ListsGood ==
    ASSUME NEW h, NEW E, NEW S, Lists(h, E, S), GoodHeap(S)
    PROVE  GoodList(h, E)
  BY DEF Lists, GoodList

(* What the caller does with a block destroys no descriptor of the list. *)
LEMMA HandedLists ==
    ASSUME NEW h, NEW E, NEW S, Lists(h, E, S), GoodHeap(S),
           NEW b, b.mem \in Nat, b.size \in Nat \ {0}, Bytes(b) \cap Held(S) = {},
           NEW g, g = Handed(h, b)
    PROVE  Lists(g, E, S)
  <1> DEFINE O == Outside(h.desc, b.mem, End(b))
             d == [fa \in O |-> h.desc[fa]]
  <1>1. GoodList(h, E) /\ IsHeap(h) /\ Sorted(h, E)
    BY ListsGood DEF Lists
  <1>2. g = [head |-> h.head, desc |-> d]
    BY <1>1 DEF Handed, Overwritten, IsHeap
  <1>3. g.head = h.head /\ g.desc = d
    BY <1>2
  <1>4. O \subseteq DOMAIN h.desc
    BY DEF Outside
  <1>5. IsHeap(g)
    <2>1. d \in [O -> Descriptor] /\ DOMAIN d = O /\ O \subseteq Nat \ {0} /\ h.head \in Nat
      BY <1>1, <1>4 DEF IsHeap
    <2> HIDE DEF d
    <2> QED BY <2>1, <1>2, <1>3 DEF IsHeap
  <1>6. E \subseteq O
    <2> SUFFICES ASSUME NEW x \in E PROVE x \in O
      OBVIOUS
    <2> DEFINE a == AreaOf(h, x)
    <2>1. /\ x \in DOMAIN h.desc /\ x \in Nat /\ FA_END(x) = x + 24
          /\ a.mem = FA_START(h, x) /\ End(a) = x + 24 /\ FA_START(h, x) <= x
          /\ FA_START(h, x) \in Nat /\ a.size = h.desc[x].size
          /\ h.desc[x].size \in Nat /\ h.desc[x].size >= 24
      BY <1>1, AreasInOrder
    <2>2. a \in S
      BY DEF Lists, AreasOf
    <2> HIDE DEF a
    <2>3. Bytes(b) \cap Bytes(a) = {}
      BY <2>2 DEF Held
    <2>4. a.mem \in Nat /\ a.size \in Nat \ {0} /\ b.mem \in Nat /\ b.size \in Nat \ {0}
      BY <2>1
    <2>5. End(b) <= a.mem \/ End(a) <= b.mem
      BY <2>3, <2>4, DisjointBytes
    <2>6. End(b) \in Nat
      BY <2>4 DEF End
    <2> QED BY <2>1, <2>4, <2>5, <2>6 DEF Outside
  <1> HIDE DEF O
  <1>7. \A x \in E : g.desc[x] = h.desc[x] /\ x # 0
    BY <1>1, <1>3, <1>6, AreasInOrder
  <1>8. \A q \in E \cup {0} : Successor(g, q) = Successor(h, q)
    BY <1>3, <1>7 DEF Successor
  <1>9. Sorted(g, E)
    BY <1>1, <1>3, <1>6, <1>7, <1>8 DEF Sorted
  <1>10. AreasOf(g, E) = AreasOf(h, E)
    BY <1>7 DEF AreasOf, AreaOf, FA_START
  <1> QED BY <1>5, <1>7, <1>9, <1>10 DEF Lists

-----------------------------------------------------------------------------
(* The heap after a call has the descriptors of the list and no others. *)
LEMMA BecomesLists ==
    ASSUME NEW h, NEW E, NEW S, Lists(h, E, S), GoodHeap(S), Becomes(h)
    PROVE  GoodList(heap', DOMAIN desc') /\ AreasOf(heap', DOMAIN desc') = S
  <1>1. IsHeap(h) /\ Sorted(h, E) /\ E \subseteq DOMAIN h.desc
    BY DEF Lists, Sorted
  <1>2. List(h) = E
    BY <1>1, ListIs
  <1>3. head' = h.head /\ desc' = [fa \in E |-> h.desc[fa]]
    BY <1>2 DEF Becomes
  <1>4. DOMAIN desc' = E /\ \A x \in E : desc'[x] = h.desc[x] /\ x # 0
    BY <1>1, <1>3 DEF IsHeap
  <1> DEFINE g == heap'
  <1>5. g = [head |-> head', desc |-> desc'] /\ g.head = head' /\ g.desc = desc'
    BY DEF heap
  <1> HIDE DEF g
  <1>6. IsHeap(g)
    <2>1. desc' \in [E -> Descriptor] /\ E \subseteq Nat \ {0} /\ head' \in Nat
      BY <1>1, <1>3 DEF IsHeap
    <2> QED BY <2>1, <1>4, <1>5 DEF IsHeap
  <1>7. \A q \in E \cup {0} : Successor(g, q) = Successor(h, q)
    BY <1>3, <1>4, <1>5 DEF Successor
  <1>8. Sorted(g, E)
    BY <1>1, <1>4, <1>5, <1>7 DEF Sorted
  <1>9. AreasOf(g, E) = S
    BY <1>4, <1>5 DEF AreasOf, AreaOf, FA_START, Lists
  <1>10. \A x \in E : g.desc[x].size >= 24
    BY <1>4, <1>5 DEF Lists
  <1>11. GoodList(g, E)
    BY <1>6, <1>8, <1>9, <1>10 DEF GoodList
  <1> QED BY <1>4, <1>9, <1>11 DEF g

(* FreeList computes with the operators of Heap. *)
LEMMA SameHeap ==
    /\ \A S, mem, size : Abstract!heap_free(S, mem, size) = heap_free(S, mem, size)
    /\ \A S, size : Abstract!heap_alloc(S, size) = heap_alloc(S, size)
    /\ \A S, size : Abstract!Fitting(S, size) = Fitting(S, size)
    /\ \A S, mem, size : Abstract!AreasAt(S, mem, size) = AreasAt(S, mem, size)
    /\ \A S, fa, size : Abstract!heap_free_area_alloc(S, fa, size) = heap_free_area_alloc(S, fa, size)
    /\ \A fa, size : Abstract!Taken(fa, size) = Taken(fa, size)
    /\ \A size : Abstract!HEAP_ADJUST_SIZE(size) = HEAP_ADJUST_SIZE(size)
    /\ \A size : Abstract!AllocSize(size) = AllocSize(size)
    /\ \A a : Abstract!End(a) = End(a)
    /\ Abstract!HEAP_MIN_SIZE = HEAP_MIN_SIZE
  <1>1. /\ \A a : Abstract!End(a) = End(a)
        /\ \A S : Abstract!First(S) = First(S)
    BY DEF Abstract!End, End, Abstract!First, First
  <1>2. /\ \A size : Abstract!HEAP_ADJUST_SIZE(size) = HEAP_ADJUST_SIZE(size)
        /\ Abstract!HEAP_MIN_SIZE = HEAP_MIN_SIZE
        /\ Abstract!HEAP_MIN_FREE_AREA_SIZE = HEAP_MIN_FREE_AREA_SIZE
        /\ \A size : Abstract!AllocSize(size) = AllocSize(size)
    BY DEF Abstract!HEAP_ADJUST_SIZE, HEAP_ADJUST_SIZE, Abstract!RoundUp, RoundUp,
           Abstract!RoundDown, RoundDown, Abstract!HEAP_GRANULARITY, HEAP_GRANULARITY,
           Abstract!AllocSize, AllocSize, Abstract!DescriptorSize, DescriptorSize,
           Abstract!HEAP_MIN_SIZE, HEAP_MIN_SIZE,
           Abstract!HEAP_MIN_FREE_AREA_SIZE, HEAP_MIN_FREE_AREA_SIZE
  <1>3. \A fa, size : Abstract!Taken(fa, size) = Taken(fa, size)
    BY <1>2 DEF Abstract!Taken, Taken
  <1>4. \A S, fa, size : Abstract!heap_free_area_alloc(S, fa, size) = heap_free_area_alloc(S, fa, size)
    BY <1>1, <1>3 DEF Abstract!heap_free_area_alloc, heap_free_area_alloc, Abstract!Extent, Extent
  <1>5. \A S, size : Abstract!Fitting(S, size) = Fitting(S, size)
    BY <1>2 DEF Abstract!Fitting, Fitting
  <1>6. \A S, size : Abstract!heap_alloc(S, size) = heap_alloc(S, size)
    BY <1>1, <1>2, <1>3, <1>4, <1>5 DEF Abstract!heap_alloc, heap_alloc
  <1>7. \A S, mem, size : Abstract!AreasAt(S, mem, size) = AreasAt(S, mem, size)
    BY <1>1, <1>2 DEF Abstract!AreasAt, AreasAt
  <1>8. \A S, mem, size : Abstract!heap_free(S, mem, size) = heap_free(S, mem, size)
    <2>1. /\ \A S : Abstract!SizeOf(S) = SizeOf(S)
          /\ \A end, size : Abstract!EndingAt(end, size) = EndingAt(end, size)
      BY <1>1 DEF Abstract!SizeOf, SizeOf, Abstract!EndingAt, EndingAt
    <2> TAKE S, mem, size
    <2> DEFINE end   == mem + size
               rest  == {a \in S : a.mem + a.size >= mem}
               prev  == {a \in S \ rest : a.mem + a.size = mem}
               next(fa) == {a \in rest \ {fa} : a.mem = end}
               merge(gone, area) == [area |-> area, heap |-> (S \ gone) \cup {area}]
               First1 == Abstract!First(rest)
               First2 == First(rest)
    <2>2. heap_free(S, mem, size) =
             IF rest = {} \/ First2.mem > end
             THEN merge({}, [mem |-> mem, size |-> size])
             ELSE IF First2.mem = end
             THEN merge({First2} \cup prev,
                        EndingAt(End(First2), First2.size + size + SizeOf(prev)))
             ELSE IF next(First2) # {}
             THEN merge({First2} \cup next(First2),
                        EndingAt(End(First(next(First2))), First2.size + size + SizeOf(next(First2))))
             ELSE merge({First2}, EndingAt(End(First2) + size, First2.size + size))
      BY Zenon DEF heap_free, End
    <2>3. Abstract!heap_free(S, mem, size) =
             IF rest = {} \/ First1.mem > end
             THEN merge({}, [mem |-> mem, size |-> size])
             ELSE IF First1.mem = end
             THEN merge({First1} \cup prev,
                        Abstract!EndingAt(Abstract!End(First1),
                                          First1.size + size + Abstract!SizeOf(prev)))
             ELSE IF next(First1) # {}
             THEN merge({First1} \cup next(First1),
                        Abstract!EndingAt(Abstract!End(Abstract!First(next(First1))),
                                          First1.size + size + Abstract!SizeOf(next(First1))))
             ELSE merge({First1}, Abstract!EndingAt(Abstract!End(First1) + size, First1.size + size))
      BY Zenon DEF Abstract!heap_free, Abstract!End
    <2>4. First1 = First2
      BY <1>1
    <2> DEFINE nx == next(First2)
    <2> HIDE DEF rest, prev, nx, First1, First2, merge, next
    <2>5. next(First1) = nx
      BY <2>4 DEF nx
    <2> QED BY <2>1, <2>2, <2>3, <2>4, <2>5, <1>1 DEF nx
  <1> QED BY <1>1, <1>2, <1>3, <1>4, <1>5, <1>6, <1>7, <1>8

-----------------------------------------------------------------------------
(***************************************************************************)
(* The inductive invariant.  Blocks, which are never too small for a       *)
(* descriptor, share no byte with an area of the list or with each other,  *)
(* and nothing has the address of the null pointer.                        *)
(***************************************************************************)
Apart(S, blocks) ==
    /\ 0 \notin Held(S)
    /\ \A b \in blocks : /\ IsArea(b) /\ b.size >= 24
                         /\ 0 \notin Bytes(b) /\ Bytes(b) \cap Held(S) = {}
    /\ \A b, c \in blocks : b # c => Bytes(b) \cap Bytes(c) = {}

HeapListInv ==
    /\ GoodList(heap, DOMAIN desc)
    /\ Apart(AreasOf(heap, DOMAIN desc), used)

(* A block that is not 0 and is aligned, as areas are. *)
LEMMA BlockFacts ==
    ASSUME NEW b, IsArea(b), 0 \notin Bytes(b)
    PROVE  /\ b.mem \in Nat \ {0} /\ b.size \in Nat \ {0} /\ b.mem % 8 = 0 /\ b.size % 8 = 0
           /\ b = [mem |-> b.mem, size |-> b.size]
  <1>1. b.mem \in Nat /\ b.size \in Nat \ {0} /\ b.mem % 8 = 0 /\ b.size % 8 = 0
    BY SizesOf64Bit DEF IsArea, Area
  <1>2. b.mem \in Bytes(b)
    BY <1>1 DEF Bytes, End
  <1> QED BY <1>1, <1>2 DEF IsArea, Area

(* A call of __heap_free, seen from outside. *)
FreeStep(S, mem, size, V) ==
    /\ GoodList(heap, DOMAIN desc) /\ S = AreasOf(heap, DOMAIN desc)
    /\ Apart(S, V \cup {[mem |-> mem, size |-> size]})
    /\ [mem |-> mem, size |-> size] \notin V
    /\ Becomes(heap_free_list(heap, mem, size))
    /\ used' = V

LEMMA FreeSteps ==
    ASSUME NEW S, NEW mem, NEW size, NEW V, FreeStep(S, mem, size, V)
    PROVE  HeapListInv' /\ AreasOf(heap', DOMAIN desc') = heap_free(S, mem, size).heap
  <1> DEFINE b == [mem |-> mem, size |-> size]
             R == heap_free(S, mem, size).heap
             g == heap_free_list(heap, mem, size)
             D == DOMAIN desc
  <1>1. GoodList(heap, D) /\ S = AreasOf(heap, D) /\ GoodHeap(S)
    BY DEF FreeStep, GoodList
  <1>2. /\ Apart(S, V) /\ 0 \notin Held(S)
        /\ IsArea(b) /\ b.size >= 24 /\ 0 \notin Bytes(b) /\ Bytes(b) \cap Held(S) = {}
        /\ \A c \in V : Bytes(c) \cap Bytes(b) = {}
    <2>1. Apart(S, V \cup {b}) /\ b \notin V
      BY DEF FreeStep
    <2> HIDE DEF b
    <2> QED BY <2>1 DEF Apart
  <1>3. mem \in Nat \ {0} /\ size \in Nat \ {0} /\ mem % 8 = 0 /\ size % 8 = 0 /\ size >= 24
    <2>1. b.mem = mem /\ b.size = size
      OBVIOUS
    <2> HIDE DEF b
    <2> QED BY <2>1, <1>2, BlockFacts
  <1>4. Unlisted(S, mem, size)
    BY <1>1, <1>2, <1>3, UnlistedBytes
  <1>5. Frees(heap, D, mem, size, g)
    BY <1>1, <1>3, <1>4 DEF Frees
  <1> HIDE DEF g, D
  <1>6. PICK E : Lists(g, E, R)
    BY <1>1, <1>5, FreeLists
  <1>7. GoodHeap(R) /\ Held(R) = Held(S) \cup Bytes(b)
    BY <1>1, <1>3, <1>4, HeapFree
  <1>8. Becomes(g) /\ used' = V
    BY DEF FreeStep, g
  <1> HIDE DEF R, b
  <1>9. GoodList(heap', DOMAIN desc') /\ AreasOf(heap', DOMAIN desc') = R
    BY <1>6, <1>7, <1>8, BecomesLists
  <1>10. Apart(R, V)
    BY <1>2, <1>7 DEF Apart
  <1>11. HeapListInv'
    BY <1>8, <1>9, <1>10 DEF HeapListInv
  <1> QED BY <1>9, <1>11 DEF R

(* A call of __heap_alloc or __heap_alloc_at that takes bytes from the area of fa. *)
TakeStep(S, fa, size, block, V) ==
    /\ GoodList(heap, DOMAIN desc) /\ S = AreasOf(heap, DOMAIN desc)
    /\ fa \in DOMAIN desc
    /\ size \in Nat \ {0} /\ size % 8 = 0 /\ size <= desc[fa].size
    /\ Apart(heap_free_area_alloc(S, AreaOf(heap, fa), size), V)
    /\ block \in V
    /\ Becomes(Handed(heap_free_area_alloc_list(heap, fa, size), block))
    /\ used' = V

LEMMA TakeSteps ==
    ASSUME NEW S, NEW fa, NEW size, NEW block, NEW V, TakeStep(S, fa, size, block, V)
    PROVE  /\ HeapListInv'
           /\ AreasOf(heap', DOMAIN desc') = heap_free_area_alloc(S, AreaOf(heap, fa), size)
  <1> DEFINE D == DOMAIN desc
             a == AreaOf(heap, fa)
             R == heap_free_area_alloc(S, a, size)
             g == heap_free_area_alloc_list(heap, fa, size)
  <1>1. /\ GoodList(heap, D) /\ S = AreasOf(heap, D) /\ GoodHeap(S) /\ fa \in D
        /\ heap.desc = desc
        /\ size \in Nat \ {0} /\ size % 8 = 0 /\ size <= heap.desc[fa].size
    BY DEF TakeStep, GoodList, heap
  <1>2. Apart(R, V) /\ block \in V /\ used' = V /\ Becomes(Handed(g, block))
    BY DEF TakeStep
  <1>3. Takes(heap, D, fa, size, g)
    BY <1>1 DEF Takes
  <1>4. a \in S /\ a.size = heap.desc[fa].size
    BY <1>1 DEF AreasOf, AreaOf
  <1> HIDE DEF g, D
  <1>5. PICK E : Lists(g, E, R)
    BY <1>1, <1>3, AllocLists
  <1>6. GoodHeap(R)
    <2> HIDE DEF a
    <2>1. size <= a.size
      BY <1>1, <1>4
    <2> QED BY <2>1, <1>1, <1>4, AreaAlloc
  <1> HIDE DEF R, a
  <1>7. /\ block.mem \in Nat /\ block.size \in Nat \ {0} /\ Bytes(block) \cap Held(R) = {}
    <2>1. IsArea(block) /\ 0 \notin Bytes(block) /\ Bytes(block) \cap Held(R) = {}
      BY <1>2 DEF Apart
    <2> QED BY <2>1, BlockFacts
  <1>8. Lists(Handed(g, block), E, R)
    BY <1>5, <1>6, <1>7, HandedLists
  <1>9. GoodList(heap', DOMAIN desc') /\ AreasOf(heap', DOMAIN desc') = R
    BY <1>2, <1>6, <1>8, BecomesLists
  <1>10. HeapListInv'
    BY <1>2, <1>9 DEF HeapListInv
  <1> QED BY <1>9, <1>10 DEF R, a

-----------------------------------------------------------------------------
(* In a state of the invariant the areas are those of all descriptors. *)
LEMMA AreasAre ==
    /\ HeapListInv => List(heap) = DOMAIN desc /\ Areas = AreasOf(heap, DOMAIN desc)
    /\ HeapListInv' => Areas' = AreasOf(heap', DOMAIN desc')
  <1>1. heap.desc = desc /\ heap'.desc = desc'
    BY DEF heap
  <1>2. HeapListInv => List(heap) = DOMAIN desc
    <2>1. HeapListInv => IsHeap(heap) /\ Sorted(heap, DOMAIN desc)
      BY DEF HeapListInv, GoodList
    <2> QED BY <2>1, ListIs
  <1>3. HeapListInv' => List(heap') = DOMAIN desc'
    <2>1. HeapListInv' => IsHeap(heap') /\ Sorted(heap', DOMAIN desc')
      BY DEF HeapListInv, GoodList
    <2> DEFINE g == heap'
               E == DOMAIN desc'
    <2> HIDE DEF g, E
    <2>2. IsHeap(g) /\ Sorted(g, E) => List(g) = E
      BY ListIs
    <2> QED BY <2>1, <2>2 DEF g, E
  <1>4. HeapListInv => Areas = AreasOf(heap, DOMAIN desc)
    BY <1>1, <1>2 DEF Areas, AreasOf, AreaOf
  <1>5. HeapListInv' => Areas' = AreasOf(heap', DOMAIN desc')
    BY <1>1, <1>3 DEF Areas, AreasOf, AreaOf
  <1> QED BY <1>2, <1>4, <1>5

(* __heap_alloc. *)
LEMMA AllocStep ==
    ASSUME HeapListInv, NEW size \in Sizes, heap_alloc_list(size)
    PROVE  HeapListInv' /\ Abstract!Alloc(size)
  <1> DEFINE S     == AreasOf(heap, DOMAIN desc)
             D     == DOMAIN desc
             want  == AllocSize(size)
             T     == {a \in D : desc[a].size >= want}
             fa    == WalkTo(heap, T)
             got   == heap_alloc(S, size)
             block == [mem |-> FA_START(heap, fa), size |-> heap_free_area_taken(heap, fa, want)]
             V     == used \cup {block}
  <1>1. /\ GoodList(heap, D) /\ GoodHeap(S) /\ Apart(S, used) /\ heap.desc = desc
        /\ List(heap) = D /\ Areas = S
    BY AreasAre DEF HeapListInv, GoodList, heap
  <1>2. size \in Nat /\ want \in Nat \ {0} /\ want % 8 = 0 /\ want >= 24
    <2>1. size \in Nat
      BY HeapListAssumption
    <2> QED BY <2>1, AllocSizeFacts
  <1>3. /\ fa # 0 /\ used' = V
        /\ Becomes(Handed(heap_free_area_alloc_list(heap, fa, want), block))
    BY <1>1 DEF heap_alloc_list
  <1>4. \A x \in D : AreaOf(heap, x).size = desc[x].size
    BY <1>1 DEF AreaOf
  <1>5. AreasOf(heap, T) = Fitting(S, size)
    BY <1>4 DEF AreasOf, Fitting
  <1>6. T \in SUBSET D
    OBVIOUS
  <1>7. /\ T = {} => fa = 0
        /\ T # {} => /\ fa \in T /\ Fitting(S, size) # {}
                     /\ First(Fitting(S, size)) = AreaOf(heap, fa)
    <2> HIDE DEF T, D, S
    <2> QED BY <1>1, <1>5, <1>6, WalkFindsFirst
  <1>8. /\ fa \in D /\ want <= desc[fa].size
        /\ Fitting(S, size) # {} /\ First(Fitting(S, size)) = AreaOf(heap, fa)
    <2>1. fa \in T /\ Fitting(S, size) # {} /\ First(Fitting(S, size)) = AreaOf(heap, fa)
      BY <1>3, <1>7
    <2> HIDE DEF fa, S
    <2>2. fa \in D /\ desc[fa].size >= want /\ desc[fa].size \in Nat
      BY <2>1, <1>1, AreasInOrder
    <2> QED BY <2>1, <2>2, <1>2
  <1> HIDE DEF fa, want, T
  <1>9. Takes(heap, D, fa, want, heap_free_area_alloc_list(heap, fa, want))
    BY <1>1, <1>2, <1>8 DEF Takes
  <1>10. heap_free_area_taken(heap, fa, want) = Taken(AreaOf(heap, fa), want)
    BY <1>9, AllocLists
  <1>11. got.block = block /\ got.heap = heap_free_area_alloc(S, AreaOf(heap, fa), want)
    BY <1>8, <1>10 DEF heap_alloc, AreaOf, want
  <1> HIDE DEF S, got, block
  <1>12. /\ IsArea(block) /\ want <= block.size
         /\ Bytes(block) \subseteq Held(S)
         /\ Held(got.heap) = Held(S) \ Bytes(block)
    BY <1>1, <1>2, <1>8, <1>11, HeapAlloc DEF got, want
  <1>13. Apart(got.heap, V)
    <2>1. block.size >= 24
      BY <1>2, <1>12 DEF IsArea, Area
    <2>2. \A b \in used : Bytes(b) \cap Bytes(block) = {} /\ Bytes(b) \cap Held(got.heap) = {}
      BY <1>1, <1>12 DEF Apart
    <2> QED BY <2>1, <2>2, <1>1, <1>12 DEF Apart
  <1>14. TakeStep(S, fa, want, block, V)
    BY <1>1, <1>2, <1>3, <1>8, <1>11, <1>13 DEF TakeStep, S, block
  <1>15. HeapListInv' /\ AreasOf(heap', DOMAIN desc') = got.heap
    <2> HIDE DEF V
    <2> QED BY <1>11, <1>14, TakeSteps
  <1>16. Areas' = got.heap
    BY <1>15, AreasAre
  <1>17. Abstract!Alloc(size)
    BY <1>1, <1>3, <1>8, <1>11, <1>16, SameHeap DEF Abstract!Alloc, got
  <1> QED BY <1>15, <1>17

(* __heap_alloc_at. *)
LEMMA AllocAtStep ==
    ASSUME HeapListInv, NEW b \in used, NEW size \in Sizes, heap_alloc_at(b, size)
    PROVE  HeapListInv' /\ Abstract!AllocAt(b, size)
  <1> DEFINE S     == AreasOf(heap, DOMAIN desc)
             D     == DOMAIN desc
             mem   == End(b)
             extra == HEAP_ADJUST_SIZE(size)
             T     == {x \in D : FA_START(heap, x) <= mem}
             fa    == WalkTo(heap, T)
             a     == AreaOf(heap, fa)
             R     == heap_free_area_alloc(S, a, extra)
             front == [mem |-> a.mem, size |-> Taken(a, extra)]
             block == [b EXCEPT !.size = b.size + heap_free_area_taken(heap, fa, extra)]
             V     == (used \ {b}) \cup {block}
  <1>1. /\ GoodList(heap, D) /\ GoodHeap(S) /\ Apart(S, used) /\ heap.desc = desc
        /\ List(heap) = D /\ Areas = S
    BY AreasAre DEF HeapListInv, GoodList, heap
  <1>2. extra \in Nat \ {0} /\ extra % 8 = 0
    <2>1. size \in Nat \ {0}
      BY HeapListAssumption
    <2> QED BY <2>1, AdjustSize
  <1>3. /\ IsArea(b) /\ b.size >= 24 /\ 0 \notin Bytes(b) /\ Bytes(b) \cap Held(S) = {}
        /\ \A c \in used : c # b => Bytes(c) \cap Bytes(b) = {} /\ Bytes(c) \cap Held(S) = {}
        /\ 0 \notin Held(S)
    <2> HIDE DEF S
    <2> QED BY <1>1 DEF Apart
  <1>4. /\ b.mem \in Nat \ {0} /\ b.size \in Nat \ {0} /\ b.mem % 8 = 0 /\ b.size % 8 = 0
        /\ b = [mem |-> b.mem, size |-> b.size] /\ mem = b.mem + b.size
    BY <1>3, BlockFacts DEF End
  <1>5. /\ fa # 0 /\ FA_START(heap, fa) = mem /\ desc[fa].size >= extra
        /\ used' = V
        /\ Becomes(Handed(heap_free_area_alloc_list(heap, fa, extra), block))
    BY <1>1 DEF heap_alloc_at
  <1>6. \A x \in D : AreaOf(heap, x).mem = FA_START(heap, x) /\ AreaOf(heap, x).size = desc[x].size
    BY <1>1 DEF AreaOf
  <1>7. AreasOf(heap, T) = {x \in S : x.mem <= mem}
    BY <1>6 DEF AreasOf
  <1>8. T \in SUBSET D
    OBVIOUS
  <1>9. /\ T = {} => fa = 0
        /\ T # {} => fa \in T /\ First(AreasOf(heap, T)) = AreaOf(heap, fa)
    <2> HIDE DEF T, D, S
    <2> QED BY <1>1, <1>8, WalkFindsFirst
  <1>10. fa \in T /\ First(AreasOf(heap, T)) = a
    BY <1>5, <1>9
  <1>11. /\ fa \in D /\ desc[fa].size \in Nat /\ a \in S /\ a.mem = mem /\ a.size = desc[fa].size
         /\ extra <= desc[fa].size
    <2>1. fa \in D
      BY <1>10
    <2> HIDE DEF fa
    <2>2. desc[fa].size \in Nat
      BY <2>1, <1>1, AreasInOrder
    <2>3. a \in S
      BY <2>1 DEF AreasOf
    <2> QED BY <2>1, <2>2, <2>3, <1>2, <1>5, <1>6
  <1>12. a \in AreasAt(S, mem, size)
    <2>1. a \in AreasOf(heap, T)
      BY <1>10 DEF AreasOf
    <2>2. AreasOf(heap, T) = {x \in S : x.mem <= mem} /\ First({x \in S : x.mem <= mem}) = a
      BY <1>7, <1>10
    <2> HIDE DEF T, fa, a, S
    <2> QED BY <2>1, <2>2, <1>5, <1>11 DEF AreasAt
  <1> HIDE DEF fa, extra, T
  <1>13. Takes(heap, D, fa, extra, heap_free_area_alloc_list(heap, fa, extra))
    BY <1>1, <1>2, <1>11 DEF Takes
  <1>14. heap_free_area_taken(heap, fa, extra) = Taken(a, extra)
    BY <1>13, AllocLists
  <1> HIDE DEF S, a
  <1>15. /\ Taken(a, extra) \in Nat /\ Taken(a, extra) % 8 = 0 /\ extra <= Taken(a, extra)
         /\ Bytes(front) \subseteq Held(S)
         /\ Held(R) = Held(S) \ Bytes(front)
    <2>1. extra <= a.size
      BY <1>11
    <2> QED BY <2>1, <1>1, <1>2, <1>11, AreaAlloc
  <1> DEFINE total == b.size + Taken(a, extra)
  <1>16. /\ block = [mem |-> b.mem, size |-> total]
         /\ total \in Nat \ {0} /\ total % 8 = 0 /\ total >= 24
    <2>1. total \in Nat \ {0} /\ total % 8 = 0
      <3> DEFINE t == Taken(a, extra)
      <3>1. b.size \in Nat \ {0} /\ t \in Nat /\ b.size % 8 = 0 /\ t % 8 = 0
        BY <1>4, <1>15
      <3> HIDE DEF t
      <3>2. b.size + t \in Nat \ {0} /\ (b.size + t) % 8 = 0
        BY <3>1, SumOfMultiples
      <3> QED BY <3>2 DEF t
    <2>2. total >= 24
      BY <1>3, <1>4, <1>15
    <2> QED BY <2>1, <2>2, <1>4, <1>14
  <1>17. /\ IsArea(block) /\ block.size = total
         /\ \A x : x \in Bytes(block) <=> x \in Bytes(b) \/ x \in Bytes(front)
    <2>1. /\ IsArea(block) /\ block.size = total
          /\ \A x : x \in Bytes(block) <=> x \in Nat /\ b.mem <= x /\ x < b.mem + total
      <3> HIDE DEF total, block
      <3> QED BY <1>4, <1>16, AreaFacts
    <2>2. \A x : x \in Bytes(b) <=> x \in Nat /\ b.mem <= x /\ x < mem
      BY <1>4, ByteOf
    <2>3. \A x : x \in Bytes(front) <=> x \in Nat /\ mem <= x /\ x < mem + Taken(a, extra)
      <3>1. front.mem = mem /\ front.size = Taken(a, extra) /\ End(front) = mem + Taken(a, extra)
        BY <1>11 DEF End
      <3> HIDE DEF front
      <3> QED BY <3>1, <1>4, <1>15, ByteOf
    <2> HIDE DEF block, front
    <2> QED BY <2>1, <2>2, <2>3, <1>4, <1>15
  <1> HIDE DEF block, front, R
  <1>18. Apart(R, V)
    <2>1. 0 \notin Held(R)
      BY <1>3, <1>15
    <2>2. 0 \notin Bytes(block) /\ Bytes(block) \cap Held(R) = {} /\ block.size >= 24
      BY <1>3, <1>15, <1>16, <1>17
    <2>3. \A c \in used : c # b => Bytes(c) \cap Bytes(block) = {} /\ Bytes(c) \cap Held(R) = {}
      BY <1>3, <1>15, <1>17
    <2>4. \A c, e \in used : c # e => Bytes(c) \cap Bytes(e) = {}
      BY <1>1 DEF Apart
    <2>5. \A c \in used : IsArea(c) /\ c.size >= 24 /\ 0 \notin Bytes(c)
      BY <1>1 DEF Apart
    <2> QED BY <2>1, <2>2, <2>3, <2>4, <2>5, <1>17 DEF Apart
  <1>19. TakeStep(S, fa, extra, block, V)
    BY <1>1, <1>2, <1>5, <1>11, <1>18 DEF TakeStep, S, R, a
  <1>20. HeapListInv' /\ AreasOf(heap', DOMAIN desc') = R
    <2> HIDE DEF V
    <2> QED BY <1>19, TakeSteps DEF R, a
  <1>21. Areas' = R
    BY <1>20, AreasAre
  <1>22. block = [b EXCEPT !.size = b.size + Taken(a, extra)]
    BY <1>14 DEF block
  <1>23. Abstract!AllocAt(b, size)
    <2>1. a \in Abstract!AreasAt(Areas, Abstract!End(b), size)
      BY <1>1, <1>12, SameHeap
    <2>2. /\ Abstract!HEAP_ADJUST_SIZE(size) = extra
          /\ Abstract!heap_free_area_alloc(Areas, a, extra) = R
          /\ Abstract!Taken(a, extra) = Taken(a, extra)
      BY <1>1, SameHeap DEF R, extra
    <2> QED BY <2>1, <2>2, <1>5, <1>21, <1>22 DEF Abstract!AllocAt
  <1> QED BY <1>20, <1>23

(* __heap_free of a whole block. *)
LEMMA FreeWholeStep ==
    ASSUME HeapListInv, NEW b \in used, heap_free_whole(b)
    PROVE  HeapListInv' /\ Abstract!Free(b)
  <1> DEFINE S == AreasOf(heap, DOMAIN desc)
             V == used \ {b}
  <1>1. GoodList(heap, DOMAIN desc) /\ Apart(S, used) /\ Areas = S
    BY AreasAre DEF HeapListInv
  <1>2. IsArea(b) /\ 0 \notin Bytes(b)
    BY <1>1 DEF Apart
  <1>3. b = [mem |-> b.mem, size |-> b.size]
    BY <1>2, BlockFacts
  <1>4. V \cup {[mem |-> b.mem, size |-> b.size]} = used /\ [mem |-> b.mem, size |-> b.size] \notin V
    BY <1>3
  <1>5. Becomes(heap_free_list(heap, b.mem, b.size)) /\ used' = V
    BY DEF heap_free_whole
  <1> HIDE DEF V, S
  <1>6. FreeStep(S, b.mem, b.size, V)
    BY <1>1, <1>4, <1>5 DEF FreeStep, S
  <1>7. HeapListInv' /\ AreasOf(heap', DOMAIN desc') = heap_free(S, b.mem, b.size).heap
    BY <1>6, FreeSteps
  <1>8. Areas' = heap_free(S, b.mem, b.size).heap
    BY <1>7, AreasAre
  <1>9. Abstract!Free(b)
    BY <1>1, <1>5, <1>8, SameHeap DEF Abstract!Free, V
  <1> QED BY <1>7, <1>9

(* __heap_free of the end of a block, which realloc has cut. *)
LEMMA FreeTailStep ==
    ASSUME HeapListInv, NEW b \in used, NEW size \in Sizes, heap_free_tail(b, AllocSize(size))
    PROVE  HeapListInv' /\ Abstract!FreeTail(b, AllocSize(size))
  <1> DEFINE S    == AreasOf(heap, DOMAIN desc)
             keep == AllocSize(size)
             mem  == b.mem + keep
             rest == b.size - keep
             tail == [mem |-> mem, size |-> rest]
             kept == [b EXCEPT !.size = keep]
             V    == (used \ {b}) \cup {kept}
  <1>1. GoodList(heap, DOMAIN desc) /\ Apart(S, used) /\ Areas = S
    BY AreasAre DEF HeapListInv
  <1>2. size \in Nat /\ keep \in Nat /\ keep % 8 = 0 /\ keep >= 24
    <2>1. size \in Nat
      BY HeapListAssumption
    <2> QED BY <2>1, AllocSizeFacts
  <1>3. /\ IsArea(b) /\ 0 \notin Bytes(b) /\ Bytes(b) \cap Held(S) = {} /\ 0 \notin Held(S)
        /\ \A c \in used : /\ IsArea(c) /\ c.size >= 24
                           /\ 0 \notin Bytes(c) /\ Bytes(c) \cap Held(S) = {}
        /\ \A c, e \in used : c # e => Bytes(c) \cap Bytes(e) = {}
    <2> HIDE DEF S
    <2> QED BY <1>1 DEF Apart
  <1>4. /\ b.mem \in Nat \ {0} /\ b.size \in Nat \ {0} /\ b.mem % 8 = 0 /\ b.size % 8 = 0
        /\ b = [mem |-> b.mem, size |-> b.size] /\ End(b) = b.mem + b.size
    BY <1>3, BlockFacts DEF End
  <1>5. keep + 40 <= b.size
    BY SizesOf64Bit, <1>2, <1>4 DEF heap_free_tail
  <1>6. Becomes(heap_free_list(heap, mem, rest)) /\ used' = V
    BY DEF heap_free_tail
  <1>7. /\ mem \in Nat /\ mem % 8 = 0 /\ rest \in Nat \ {0} /\ rest % 8 = 0 /\ rest >= 24
        /\ mem + rest = b.mem + b.size
    BY <1>2, <1>4, <1>5
  <1>8. kept = [mem |-> b.mem, size |-> keep]
    BY <1>4
  <1> HIDE DEF keep, mem, rest
  <1>9. /\ IsArea(kept) /\ kept.size = keep
        /\ \A x : x \in Bytes(kept) <=> x \in Nat /\ b.mem <= x /\ x < b.mem + keep
    <2>1. keep \in Nat \ {0}
      BY <1>2
    <2> QED BY <2>1, <1>2, <1>4, <1>8, AreaFacts
  <1>10. /\ IsArea(tail) /\ tail.size = rest /\ tail.mem = mem
         /\ \A x : x \in Bytes(tail) <=> x \in Nat /\ mem <= x /\ x < b.mem + b.size
    BY <1>7, AreaFacts
  <1>11. \A x : x \in Bytes(b) <=> x \in Nat /\ b.mem <= x /\ x < b.mem + b.size
    BY <1>4, ByteOf
  <1>12. /\ \A x : x \in Bytes(kept) => x \in Bytes(b)
         /\ \A x : x \in Bytes(tail) => x \in Bytes(b)
         /\ Bytes(kept) \cap Bytes(tail) = {}
         /\ mem \in Bytes(tail)
    BY <1>2, <1>4, <1>5, <1>7, <1>9, <1>10, <1>11 DEF mem
  <1> HIDE DEF tail, kept, S
  <1>13. Apart(S, V \cup {tail})
    <2>1. /\ 0 \notin Bytes(kept) /\ 0 \notin Bytes(tail)
          /\ Bytes(kept) \cap Held(S) = {} /\ Bytes(tail) \cap Held(S) = {}
          /\ \A c \in used : c # b => Bytes(c) \cap Bytes(kept) = {} /\ Bytes(c) \cap Bytes(tail) = {}
      BY <1>3, <1>12
    <2> QED BY <2>1, <1>2, <1>3, <1>7, <1>9, <1>10, <1>12 DEF Apart
  <1>14. tail \notin V
    <2>1. tail # kept
      BY <1>12
    <2>2. \A c \in used : c # b => c # tail
      BY <1>3, <1>12
    <2> QED BY <2>1, <2>2
  <1> HIDE DEF V
  <1>15. FreeStep(S, mem, rest, V)
    BY <1>1, <1>6, <1>13, <1>14 DEF FreeStep, S, tail
  <1>16. HeapListInv' /\ AreasOf(heap', DOMAIN desc') = heap_free(S, mem, rest).heap
    BY <1>15, FreeSteps
  <1>17. Areas' = heap_free(S, mem, rest).heap
    BY <1>16, AreasAre
  <1>18. Abstract!FreeTail(b, keep)
    <2>1. keep + Abstract!HEAP_MIN_SIZE + 16 <= b.size
      BY SameHeap DEF heap_free_tail, keep
    <2> QED BY <2>1, <1>1, <1>6, <1>17, SameHeap DEF Abstract!FreeTail, V, kept, mem, rest
  <1> QED BY <1>16, <1>18 DEF keep

(* __heap_free of memory the heap has never had. *)
LEMMA ExtendStep ==
    ASSUME HeapListInv, NEW c \in Chunks, heap_extend(c)
    PROVE  HeapListInv' /\ Abstract!Extend(c)
  <1> DEFINE S == AreasOf(heap, DOMAIN desc)
  <1>1. GoodList(heap, DOMAIN desc) /\ GoodHeap(S) /\ Apart(S, used) /\ Areas = S
    BY AreasAre DEF HeapListInv, GoodList
  <1>2. /\ c \in Area /\ c.mem > 0 /\ c.mem % 8 = 0 /\ c.size > 24 /\ c.size % 8 = 0
    BY HeapListAssumption, SizesOf64Bit
  <1>3. c.mem \in Nat \ {0} /\ c.size \in Nat \ {0} /\ IsArea(c) /\ c.size >= 24 /\ 0 \notin Bytes(c)
    BY <1>2, SizesOf64Bit DEF Area, IsArea, Bytes
  <1>4. c = [mem |-> c.mem, size |-> c.size]
    BY <1>3, BlockFacts
  <1>5. /\ Abstract!Fresh(c) /\ used' = used
        /\ Becomes(heap_free_list(heap, c.mem, c.size))
    BY DEF heap_extend
  <1>6. ASSUME NEW a \in S \cup used PROVE Bytes(a) \cap Bytes(c) = {} /\ c # a
    <2>1. IsArea(a)
      BY <1>1 DEF Apart, GoodHeap
    <2>2. a.mem \in Nat /\ a.size \in Nat \ {0}
      BY <2>1 DEF IsArea, Area
    <2>3. End(c) <= a.mem \/ End(a) <= c.mem
      BY <1>1, <1>5, SameHeap DEF Abstract!Fresh
    <2>4. Bytes(a) \cap Bytes(c) = {}
      BY <2>2, <2>3, <1>3, DisjointBytes
    <2>5. c.mem \in Bytes(c)
      BY <1>3 DEF Bytes, End
    <2> QED BY <2>4, <2>5
  <1>7. Bytes(c) \cap Held(S) = {}
    BY <1>6 DEF Held
  <1> HIDE DEF S
  <1>8. Apart(S, used \cup {c}) /\ c \notin used
    BY <1>1, <1>3, <1>6, <1>7 DEF Apart
  <1>9. FreeStep(S, c.mem, c.size, used)
    BY <1>1, <1>4, <1>5, <1>8 DEF FreeStep, S
  <1>10. HeapListInv' /\ AreasOf(heap', DOMAIN desc') = heap_free(S, c.mem, c.size).heap
    BY <1>9, FreeSteps
  <1>11. Areas' = heap_free(S, c.mem, c.size).heap
    BY <1>10, AreasAre
  <1>12. Abstract!Extend(c)
    BY <1>1, <1>5, <1>11, SameHeap DEF Abstract!Extend
  <1> QED BY <1>10, <1>12

-----------------------------------------------------------------------------
(* HEAP_INIT_WITH_FA. *)
LEMMA StartsGood ==
    Init => HeapListInv /\ Abstract!Init
  <1> SUFFICES ASSUME Init PROVE HeapListInv /\ Abstract!Init
    OBVIOUS
  <1> DEFINE a == First_fa
  <1>1. /\ a \in Area /\ a.mem \in Nat \ {0} /\ a.mem % 8 = 0
        /\ a.size \in Nat /\ a.size > 24 /\ a.size % 8 = 0
    BY HeapListAssumption, SizesOf64Bit DEF Area
  <1>2. /\ head = a.mem + a.size - 24 /\ head \in Nat \ {0}
        /\ desc = [fa \in {head} |-> [size |-> a.size, next |-> 0, prev |-> 0]]
        /\ used = {}
    BY <1>1, SizesOf64Bit DEF Init, End
  <1>3. /\ heap = [head |-> heap.head, desc |-> heap.desc]
        /\ heap.head = head /\ heap.desc = desc /\ DOMAIN desc = {head}
        /\ desc[head] = [size |-> a.size, next |-> 0, prev |-> 0]
    BY <1>2 DEF heap
  <1>4. IsHeap(heap)
    BY <1>1, <1>2, <1>3 DEF IsHeap, Descriptor
  <1>5. Successor(heap, 0) = head /\ Successor(heap, head) = 0
    BY <1>2, <1>3 DEF Successor
  <1>6. Sorted(heap, {head})
    <2>1. Bounded({head})
      BY <1>2 DEF Bounded
    <2>2. \A p \in {head} \cup {0} : Adjacent({head}, p, Successor(heap, p))
      BY <1>2, <1>5 DEF Adjacent
    <2> QED BY <2>1, <2>2, <1>3, <1>5 DEF Sorted
  <1>7. AreaOf(heap, head) = a
    <2>1. FA_START(heap, head) = a.mem
      BY <1>1, <1>2, <1>3, SizesOf64Bit DEF FA_START, FA_END
    <2> QED BY <2>1, <1>1, <1>3 DEF AreaOf, Area
  <1>8. AreasOf(heap, {head}) = {a}
    BY <1>7 DEF AreasOf
  <1>9. IsArea(a)
    BY <1>1, SizesOf64Bit DEF IsArea
  <1>10. GoodList(heap, DOMAIN desc)
    <2>1. GoodHeap({a})
      BY <1>9 DEF GoodHeap
    <2>2. \A x \in DOMAIN desc : heap.desc[x].size >= 24
      BY <1>1, <1>3
    <2> QED BY <1>3, <1>4, <1>6, <1>8, <2>1, <2>2 DEF GoodList
  <1>11. Apart({a}, {})
    BY <1>1 DEF Apart, Held, Bytes
  <1>12. HeapListInv
    BY <1>2, <1>3, <1>8, <1>10, <1>11 DEF HeapListInv
  <1>13. Areas = {a}
    BY <1>12, <1>3, <1>8, AreasAre
  <1> QED BY <1>2, <1>12, <1>13 DEF Abstract!Init

(* Every call keeps the invariant and does what FreeList says. *)
LEMMA StepsGood ==
    HeapListInv /\ [Next]_vars => HeapListInv' /\ [Abstract!Next]_<<Areas, used>>
  <1> SUFFICES ASSUME HeapListInv, [Next]_vars
               PROVE  HeapListInv' /\ [Abstract!Next]_<<Areas, used>>
    OBVIOUS
  <1>1. ASSUME NEW size \in Sizes, heap_alloc_list(size)
        PROVE  HeapListInv' /\ Abstract!Next
    BY <1>1, AllocStep DEF Abstract!Next
  <1>2. ASSUME NEW b \in used, heap_free_whole(b)
        PROVE  HeapListInv' /\ Abstract!Next
    BY <1>2, FreeWholeStep DEF Abstract!Next
  <1>3. ASSUME NEW b \in used, NEW size \in Sizes, heap_alloc_at(b, size)
        PROVE  HeapListInv' /\ Abstract!Next
    BY <1>3, AllocAtStep DEF Abstract!Next
  <1>4. ASSUME NEW b \in used, NEW size \in Sizes, heap_free_tail(b, AllocSize(size))
        PROVE  HeapListInv' /\ Abstract!Next
    <2>1. HeapListInv' /\ Abstract!FreeTail(b, Abstract!AllocSize(size))
      BY <1>4, FreeTailStep, SameHeap
    <2> QED BY <2>1 DEF Abstract!Next
  <1>5. ASSUME NEW c \in Chunks, heap_extend(c)
        PROVE  HeapListInv' /\ Abstract!Next
    BY <1>5, ExtendStep DEF Abstract!Next
  <1>6. CASE UNCHANGED vars
    <2>1. head' = head /\ desc' = desc /\ used' = used /\ heap' = heap
      BY <1>6 DEF vars, heap
    <2>2. HeapListInv'
      BY <2>1 DEF HeapListInv
    <2>3. Areas' = Areas
      BY <2>1, <2>2, AreasAre
    <2> QED BY <2>1, <2>2, <2>3
  <1> QED BY <1>1, <1>2, <1>3, <1>4, <1>5, <1>6 DEF Next

(* What __heap_check looks at, from the order of the list and of its areas. *)
LEMMA GoodListChecked ==
    HeapListInv => heap_check
  <1> SUFFICES ASSUME HeapListInv, NEW prev \in List(heap) \cup {0},
                      Successor(heap, prev) # 0
               PROVE  /\ Successor(heap, prev) \in List(heap)
                      /\ FA_END(Successor(heap, prev)) % HEAP_GRANULARITY = 0
                      /\ desc[Successor(heap, prev)].size % HEAP_GRANULARITY = 0
                      /\ desc[Successor(heap, prev)].prev = prev
                      /\ prev # 0 => FA_END(prev) < FA_START(heap, Successor(heap, prev))
    BY DEF heap_check
  <1> DEFINE D == DOMAIN desc
             fa == Successor(heap, prev)
  <1>1. GoodList(heap, D) /\ Sorted(heap, D) /\ List(heap) = D /\ heap.desc = desc
    BY AreasAre DEF HeapListInv, GoodList, heap
  <1>2. prev \in D \cup {0} /\ Adjacent(D, prev, fa)
    BY <1>1 DEF Sorted
  <1>3. fa \in D /\ prev < fa
    BY <1>2 DEF Adjacent
  <1>4. \A x \in D : x \in Nat \ {0} /\ FA_END(x) = x + 24
                     /\ desc[x].size % 8 = 0 /\ (x + 24) % 8 = 0
    BY <1>1, AreasInOrder
  <1>5. \A x, y \in D : x < y => x + 24 < FA_START(heap, y)
    BY <1>1, AreasInOrder
  <1>6. FA_END(fa) % 8 = 0 /\ desc[fa].size % 8 = 0
    BY <1>3, <1>4
  <1>7. prev # 0 => FA_END(prev) < FA_START(heap, fa)
    BY <1>2, <1>3, <1>4, <1>5
  <1>8. desc[fa].prev = prev
    <2> DEFINE p == desc[fa].prev
    <2>1. p \in D \cup {0} /\ Successor(heap, p) = fa
      BY <1>1, <1>3 DEF Sorted
    <2>2. Adjacent(D, p, fa)
      BY <2>1, <1>1 DEF Sorted
    <2>3. p < fa
      BY <2>2, <1>3, <1>4 DEF Adjacent
    <2>4. prev \in Nat /\ p \in Nat /\ fa \in Nat
      BY <1>2, <1>3, <1>4, <2>1
    <2> HIDE DEF p, fa
    <2>5. p <= prev
      BY <1>2, <1>3, <2>1, <2>3, <2>4 DEF Adjacent
    <2>6. prev <= p
      BY <1>2, <1>3, <2>2, <2>4 DEF Adjacent
    <2> QED BY <2>4, <2>5, <2>6 DEF p
  <1> QED BY <1>1, <1>3, <1>6, <1>7, <1>8, SizesOf64Bit

(***************************************************************************)
(* However __heap_alloc, __heap_alloc_at and __heap_free follow each other *)
(* the descriptors that can be reached from *heap are the list, in order   *)
(* of addresses and linked both ways; their areas are aligned, have room   *)
(* for a descriptor, do not touch, and share no byte with a block.         *)
(***************************************************************************)
THEOREM ListStaysGood == Spec => []HeapListInv
  <1>1. Init => HeapListInv
    BY StartsGood
  <1>2. HeapListInv /\ [Next]_vars => HeapListInv'
    BY StepsGood
  <1> QED BY <1>1, <1>2, PTL DEF Spec

(***************************************************************************)
(* __heap_check of heap_debug.c, called between any two calls, would find  *)
(* nothing to report.                                                      *)
(***************************************************************************)
THEOREM ListChecked == Spec => []heap_check
  <1>1. Spec => []HeapListInv
    BY ListStaysGood
  <1>2. HeapListInv => heap_check
    BY GoodListChecked
  <1> QED BY <1>1, <1>2, PTL

(***************************************************************************)
(* The list implements the set of areas: each call of the code, with its   *)
(* walks, its pointers and descriptors that lie in the memory they         *)
(* describe, is the call of FreeList of the same name.                     *)
(***************************************************************************)
THEOREM ListImplements == Spec => Implements
  <1>1. Init => HeapListInv /\ Abstract!Init
    BY StartsGood
  <1>2. HeapListInv /\ [Next]_vars => HeapListInv' /\ [Abstract!Next]_<<Areas, used>>
    BY StepsGood
  <1> QED BY <1>1, <1>2, PTL DEF Spec, Implements, Abstract!Spec
=============================================================================
