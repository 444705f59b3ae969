----------------------------- MODULE HeapProofs -----------------------------
(***************************************************************************)
(* What the operators of Heap do, for every free list and every block: the *)
(* list stays in order with its areas apart, and loses or gains the bytes  *)
(* of the block and no others.                                             *)
(***************************************************************************)
EXTENDS Heap, WellFoundedInduction, TLAPS

(* An area a free list may have, and a list in good order. *)
IsArea(a) ==
    /\ a \in Area
    /\ a.size > 0
    /\ a.mem % HEAP_GRANULARITY = 0 /\ a.size % HEAP_GRANULARITY = 0

GoodHeap(S) ==
    /\ \A a \in S : IsArea(a)
    /\ \A a, b \in S : a # b => End(a) < b.mem \/ End(b) < a.mem

(* The bytes from mem on are not in the list. *)
Unlisted(S, mem, size) == \A a \in S : End(a) <= mem \/ mem + size <= a.mem

-----------------------------------------------------------------------------
(* A set of natural numbers that is not empty has a least element. *)
LEMMA LeastNat ==
    ASSUME NEW T, T \subseteq Nat, T # {}
    PROVE  \E x \in T : \A y \in T : x <= y
  <1> DEFINE R == OpToRel(<, Nat)
  <1>1. IsWellFoundedOn(R, Nat)
    BY NatLessThanWellFounded
  <1> HIDE DEF R
  <1>2. PICK x \in T : \A y \in T : ~ (<<y, x>> \in R)
    BY <1>1, WFMin
  <1>3. \A y \in T : <<y, x>> \in R <=> y < x
    BY DEF R, OpToRel
  <1>4. \A y \in T : ~ (y < x)
    BY <1>2, <1>3
  <1>5. \A y \in T : x <= y
    BY <1>4
  <1> QED BY <1>5

(* The first area of a set exists and has the lowest address. *)
LEMMA FirstIsLeast ==
    ASSUME NEW S, S \subseteq Area, S # {}
    PROVE  First(S) \in S /\ \A b \in S : First(S).mem <= b.mem
  <1> DEFINE T == {a.mem : a \in S}
  <1>1. T \subseteq Nat /\ T # {}
    BY DEF Area
  <1> HIDE DEF T
  <1>2. PICK x \in T : \A y \in T : x <= y
    BY <1>1, LeastNat
  <1>3. PICK a \in S : a.mem = x
    BY DEF T
  <1>4. \A b \in S : a.mem <= b.mem
    BY <1>2, <1>3 DEF T
  <1> QED BY <1>4 DEF First

(* The sizes of heap.h on x86-64. *)
LEMMA SizesOf64Bit ==
    /\ HEAP_GRANULARITY = 8 /\ DescriptorSize = 24
    /\ HEAP_MIN_SIZE = 24 /\ HEAP_MIN_FREE_AREA_SIZE = 56
  BY DEF HEAP_MIN_SIZE, HEAP_MIN_FREE_AREA_SIZE, HEAP_ADJUST_SIZE, RoundUp, RoundDown,
         DescriptorSize, HEAP_GRANULARITY

(* HEAP_ADJUST_SIZE rounds up to the granularity, by less than that. *)
LEMMA AdjustSize ==
    ASSUME NEW size \in Nat
    PROVE  /\ HEAP_ADJUST_SIZE(size) \in Nat
           /\ HEAP_ADJUST_SIZE(size) % 8 = 0
           /\ size <= HEAP_ADJUST_SIZE(size) /\ HEAP_ADJUST_SIZE(size) < size + 8
  BY SizesOf64Bit DEF HEAP_ADJUST_SIZE, RoundUp, RoundDown

(* The size __heap_alloc cuts: no less than was asked for, never too small to be freed. *)
LEMMA AllocSizeFacts ==
    ASSUME NEW size \in Nat
    PROVE  /\ AllocSize(size) \in Nat /\ AllocSize(size) % 8 = 0
           /\ size <= AllocSize(size) /\ 24 <= AllocSize(size)
  <1>1. HEAP_ADJUST_SIZE(24) = 24
    BY SizesOf64Bit DEF HEAP_ADJUST_SIZE, RoundUp, RoundDown
  <1> QED BY <1>1, AdjustSize, SizesOf64Bit DEF AllocSize

(* Two extents of bytes share none exactly when one ends before the other. *)
LEMMA ByteOf ==
    ASSUME NEW a, a.mem \in Nat, a.size \in Nat, NEW x
    PROVE  x \in Bytes(a) <=> x \in Nat /\ a.mem <= x /\ x < End(a)
  BY DEF Bytes, End

(* Blocks have no byte in common when one ends before the other starts. *)
LEMMA DisjointBytes ==
    ASSUME NEW a, a.mem \in Nat, a.size \in Nat \ {0},
           NEW b, b.mem \in Nat, b.size \in Nat \ {0}
    PROVE  Bytes(a) \cap Bytes(b) = {} <=> End(a) <= b.mem \/ End(b) <= a.mem
  <1>1. ASSUME End(a) <= b.mem \/ End(b) <= a.mem
        PROVE  Bytes(a) \cap Bytes(b) = {}
    BY <1>1 DEF Bytes, End
  <1>2. ASSUME ~(End(a) <= b.mem), ~(End(b) <= a.mem)
        PROVE  Bytes(a) \cap Bytes(b) # {}
    <2>1. CASE a.mem <= b.mem
      <3>1. b.mem \in Bytes(a) /\ b.mem \in Bytes(b)
        BY <1>2, <2>1 DEF Bytes, End
      <3> QED BY <3>1
    <2>2. CASE b.mem < a.mem
      <3>1. a.mem \in Bytes(a) /\ a.mem \in Bytes(b)
        BY <1>2, <2>2 DEF Bytes, End
      <3> QED BY <3>1
    <2> QED BY <2>1, <2>2
  <1> QED BY <1>1, <1>2

(* A block that shares no byte with the areas of a list is not in the list. *)
LEMMA UnlistedBytes ==
    ASSUME NEW S, GoodHeap(S), NEW mem \in Nat, NEW size \in Nat \ {0},
           Bytes([mem |-> mem, size |-> size]) \cap Held(S) = {}
    PROVE  Unlisted(S, mem, size)
  <1> DEFINE b == [mem |-> mem, size |-> size]
  <1> SUFFICES ASSUME NEW a \in S PROVE End(a) <= mem \/ mem + size <= a.mem
    BY DEF Unlisted
  <1>1. a.mem \in Nat /\ a.size \in Nat \ {0}
    BY DEF GoodHeap, IsArea, Area
  <1>2. Bytes(a) \cap Bytes(b) = {}
    BY DEF Held
  <1>3. b.mem = mem /\ b.size = size
    OBVIOUS
  <1> HIDE DEF b
  <1>4. End(a) <= b.mem \/ End(b) <= a.mem
    BY <1>1, <1>2, <1>3, DisjointBytes
  <1> QED BY <1>3, <1>4 DEF End

(***************************************************************************)
(* Some areas of a list, and a block, become one area of the same bytes    *)
(* that touches no other.                                                  *)
(***************************************************************************)
Replaces(S, gone, area, block, r) ==
    /\ GoodHeap(S)
    /\ gone \subseteq S
    /\ IsArea(area)
    /\ \A a \in S \ gone : End(a) < area.mem \/ End(area) < a.mem
    /\ Bytes(area) = Bytes(block) \cup Held(gone)
    /\ r = [area |-> area, heap |-> (S \ gone) \cup {area}]

(* An area put in place of the areas it is merged from: the list keeps its order. *)
LEMMA ReplaceAreas ==
    ASSUME NEW S, NEW gone, NEW area, NEW block, NEW r,
           Replaces(S, gone, area, block, r)
    PROVE  /\ GoodHeap(r.heap)
           /\ Held(r.heap) = Held(S) \cup Bytes(block)
           /\ r.area \in r.heap
           /\ r.area = area
           /\ r.heap \subseteq S \cup {area}
  <1> USE DEF Replaces
  <1>1. r.area = area /\ r.heap = (S \ gone) \cup {area}
    OBVIOUS
  <1>2. GoodHeap((S \ gone) \cup {area})
    BY DEF GoodHeap
  <1>3. Held((S \ gone) \cup {area}) = Held(S \ gone) \cup Bytes(area)
    BY DEF Held
  <1>4. Held(S) = Held(S \ gone) \cup Held(gone)
    BY DEF Held
  <1>5. Held(r.heap) = Held(S) \cup Bytes(block)
    BY <1>1, <1>3, <1>4
  <1>6. area \in r.heap /\ r.heap \subseteq S \cup {area}
    BY <1>1
  <1> QED BY <1>1, <1>2, <1>5, <1>6

(* An area of given extent. *)
LEMMA AreaFacts ==
    ASSUME NEW mem \in Nat, NEW size \in Nat \ {0}, mem % 8 = 0, size % 8 = 0
    PROVE  LET a == [mem |-> mem, size |-> size] IN
           /\ IsArea(a) /\ a.mem = mem /\ a.size = size /\ End(a) = mem + size
           /\ \A x : x \in Bytes(a) <=> x \in Nat /\ mem <= x /\ x < mem + size
  BY SizesOf64Bit DEF IsArea, Area, End, Bytes

(* A merged area is again a multiple of the granularity. *)
LEMMA SumOfMultiples ==
    ASSUME NEW m \in Nat, NEW n \in Nat, m % 8 = 0, n % 8 = 0
    PROVE  (m + n) % 8 = 0
  OBVIOUS

(***************************************************************************)
(* __heap_free keeps the list in order, merges the block with what touches *)
(* it, and adds its bytes and no others.                                   *)
(***************************************************************************)
LEMMA HeapFree ==
    ASSUME NEW S, GoodHeap(S),
           NEW mem \in Nat, NEW size \in Nat \ {0}, mem % 8 = 0, size % 8 = 0,
           Unlisted(S, mem, size)
    PROVE  LET block == [mem |-> mem, size |-> size]
               r     == heap_free(S, mem, size)
           IN  /\ GoodHeap(r.heap)
               /\ Held(r.heap) = Held(S) \cup Bytes(block)
               /\ r.area \in r.heap /\ r.heap \subseteq S \cup {r.area}
               /\ r.area.mem <= mem /\ mem + size <= End(r.area)
  <1> DEFINE block == [mem |-> mem, size |-> size]
             end   == mem + size
             rest  == {a \in S : End(a) >= mem}
             fa    == First(rest)
             next  == {a \in rest \ {fa} : a.mem = end}
             r     == heap_free(S, mem, size)
             merge(gone, area) == [area |-> area, heap |-> (S \ gone) \cup {area}]
             Goal  == /\ GoodHeap(r.heap)
                      /\ Held(r.heap) = Held(S) \cup Bytes(block)
                      /\ r.area \in r.heap /\ r.heap \subseteq S \cup {r.area}
                      /\ r.area.mem <= mem /\ end <= End(r.area)
  <1>1. \A a \in S : /\ a.mem \in Nat /\ a.size \in Nat \ {0}
                     /\ a.mem % 8 = 0 /\ a.size % 8 = 0
                     /\ End(a) = a.mem + a.size
    BY SizesOf64Bit DEF GoodHeap, IsArea, Area, End
  <1>2. \A a, b \in S : a # b => End(a) < b.mem \/ End(b) < a.mem
    BY DEF GoodHeap
  <1>3. \A a \in S : End(a) <= mem \/ end <= a.mem
    BY DEF Unlisted
  <1>4. /\ IsArea(block) /\ block.mem = mem /\ End(block) = end
        /\ \A x : x \in Bytes(block) <=> x \in Nat /\ mem <= x /\ x < end
    BY AreaFacts
  <1>5. rest # {} => fa \in rest /\ \A b \in rest : fa.mem <= b.mem
    BY FirstIsLeast DEF GoodHeap, IsArea
  <1>6. /\ (rest = {} \/ fa.mem > end) => r = merge({}, block)
        /\ (rest # {} /\ ~(fa.mem > end) /\ fa.mem = end) =>
              LET prev == {a \in S \ rest : End(a) = mem} IN
              r = merge({fa} \cup prev, EndingAt(End(fa), fa.size + size + SizeOf(prev)))
        /\ (rest # {} /\ ~(fa.mem > end) /\ fa.mem # end /\ next # {}) =>
              r = merge({fa} \cup next, EndingAt(End(First(next)), fa.size + size + SizeOf(next)))
        /\ (rest # {} /\ ~(fa.mem > end) /\ fa.mem # end /\ next = {}) =>
              r = merge({fa}, EndingAt(End(fa) + size, fa.size + size))
    BY Zenon DEF heap_free
  <1>7. SUFFICES Goal
    OBVIOUS
  <1>8. CASE rest = {} \/ fa.mem > end
    <2>1. r = merge({}, block)
      BY <1>6, <1>8
    <2>2. \A a \in S \ {} : End(a) < block.mem \/ End(block) < a.mem
      BY <1>8, <1>5, <1>1, <1>4
    <2>3. Bytes(block) = Bytes(block) \cup Held({})
      BY DEF Held
    <2> HIDE DEF r, block, rest, fa
    <2>4. /\ GoodHeap(r.heap) /\ Held(r.heap) = Held(S) \cup Bytes(block)
          /\ r.area \in r.heap /\ r.area = block /\ r.heap \subseteq S \cup {block}
      <3>1. {} \subseteq S /\ IsArea(block)
        BY <1>4
      <3>2. r = [area |-> block, heap |-> (S \ {}) \cup {block}]
        BY <2>1
      <3>3. Replaces(S, {}, block, block, r)
        BY <2>2, <2>3, <3>1, <3>2 DEF Replaces
      <3> QED BY <3>3, ReplaceAreas
    <2> QED BY <2>4, <1>4
  <1>9. CASE rest # {} /\ ~(fa.mem > end) /\ fa.mem = end
    <2> DEFINE area == [mem |-> mem, size |-> fa.size + size]
               prev == {a \in S \ rest : End(a) = mem}
    <2>1. fa \in S /\ fa.mem = end /\ fa.size \in Nat \ {0} /\ fa.size % 8 = 0 /\ End(fa) = end + fa.size
      BY <1>9, <1>5, <1>1
    <2>2. prev = {}
      BY <1>1
    <2>3. EndingAt(End(fa), fa.size + size + 0) = area
      BY <2>1 DEF EndingAt
    <2>4. r = merge({fa} \cup prev, EndingAt(End(fa), fa.size + size + SizeOf(prev)))
      BY <1>6, <1>9
    <2>5. SizeOf(prev) = 0 /\ {fa} \cup prev = {fa}
      BY <2>2 DEF SizeOf
    <2>6. /\ IsArea(area) /\ area.mem = mem /\ End(area) = end + fa.size
          /\ \A x : x \in Bytes(area) <=> x \in Nat /\ mem <= x /\ x < end + fa.size
      <3>1. fa.size + size \in Nat \ {0} /\ (fa.size + size) % 8 = 0
        BY <2>1, SumOfMultiples
      <3>2. mem + (fa.size + size) = end + fa.size
        BY <2>1
      <3> DEFINE total == fa.size + size
      <3>3. total \in Nat \ {0} /\ total % 8 = 0 /\ mem + total = end + fa.size
        BY <3>1, <3>2
      <3>4. area = [mem |-> mem, size |-> total]
        OBVIOUS
      <3> HIDE DEF total, area, r, block, rest, fa, prev
      <3>5. /\ IsArea(area) /\ area.mem = mem /\ End(area) = mem + total
            /\ \A x : x \in Bytes(area) <=> x \in Nat /\ mem <= x /\ x < mem + total
        BY <3>3, <3>4, AreaFacts
      <3> QED BY <3>3, <3>5
    <2>7. \A x : x \in Bytes(fa) <=> x \in Nat /\ end <= x /\ x < end + fa.size
      BY <2>1 DEF Bytes
    <2>8. \A a \in S \ {fa} : End(a) < mem \/ fa.mem <= a.mem
      BY <1>1, <1>5, <1>9
    <2> HIDE DEF r, block, rest, area, prev, fa
    <2>9. r = [area |-> area, heap |-> (S \ {fa}) \cup {area}]
      BY <2>3, <2>4, <2>5
    <2>10. \A a \in S \ {fa} : End(a) < area.mem \/ End(area) < a.mem
      BY <2>1, <2>6, <2>8, <1>1, <1>2
    <2>11. Bytes(area) = Bytes(block) \cup Held({fa})
      <3>1. Held({fa}) = Bytes(fa)
        BY DEF Held
      <3>2. \A x : x \in Bytes(area) <=> x \in Bytes(block) \/ x \in Bytes(fa)
        BY <2>1, <2>6, <2>7, <1>4
      <3> QED BY <3>1, <3>2
    <2>12. /\ GoodHeap(r.heap) /\ Held(r.heap) = Held(S) \cup Bytes(block)
           /\ r.area \in r.heap /\ r.area = area /\ r.heap \subseteq S \cup {area}
      <3>1. {fa} \subseteq S /\ IsArea(area)
        BY <2>1, <2>6
      <3>2. Replaces(S, {fa}, area, block, r)
        BY <2>9, <2>10, <2>11, <3>1 DEF Replaces
      <3> QED BY <3>2, ReplaceAreas
    <2> QED BY <2>12, <2>1, <2>6
  <1>10. CASE rest # {} /\ ~(fa.mem > end) /\ fa.mem # end
    <2>1. /\ fa \in S /\ fa.mem \in Nat /\ fa.size \in Nat \ {0}
          /\ fa.mem % 8 = 0 /\ fa.size % 8 = 0
          /\ End(fa) = mem /\ End(fa) = fa.mem + fa.size
      BY <1>10, <1>5, <1>1, <1>3
    <2>2. \A a \in S \ {fa} : a \in rest => fa.mem <= a.mem
      BY <1>5
    <2>3. \A a \in S \ {fa} : End(a) < fa.mem \/ a.mem >= end
      <3> SUFFICES ASSUME NEW a \in S \ {fa} PROVE End(a) < fa.mem \/ a.mem >= end
        OBVIOUS
      <3>1. End(a) < fa.mem \/ mem < a.mem
        BY <2>1, <1>2
      <3> QED BY <3>1, <1>1, <1>3
    <2>4. \A x : x \in Bytes(fa) <=> x \in Nat /\ fa.mem <= x /\ x < mem
      BY <2>1 DEF Bytes
    <2>5. CASE next = {}
      <3> DEFINE area == [mem |-> fa.mem, size |-> fa.size + size]
      <3>1. EndingAt(End(fa) + size, fa.size + size) = area
        BY <2>1 DEF EndingAt
      <3>2. r = merge({fa}, EndingAt(End(fa) + size, fa.size + size))
        BY <1>6, <1>10, <2>5
      <3>3. /\ IsArea(area) /\ area.mem = fa.mem /\ End(area) = end
            /\ \A x : x \in Bytes(area) <=> x \in Nat /\ fa.mem <= x /\ x < end
        <4>1. fa.size + size \in Nat \ {0} /\ (fa.size + size) % 8 = 0
          BY <2>1, SumOfMultiples
        <4>2. fa.mem + (fa.size + size) = end
          BY <2>1
        <4> HIDE DEF fa
        <4> QED BY <4>1, <4>2, <2>1, AreaFacts
      <3>4. \A a \in S \ {fa} : End(a) < fa.mem \/ end < a.mem
        <4> SUFFICES ASSUME NEW a \in S \ {fa}, ~(End(a) < fa.mem) PROVE end < a.mem
          OBVIOUS
        <4>1. a.mem >= end
          BY <2>3
        <4>2. a \in rest
          BY <4>1, <1>1
        <4>3. a.mem # end
          BY <4>2, <2>5
        <4> QED BY <4>1, <4>3, <1>1
      <3> HIDE DEF r, block, rest, area, fa
      <3>5. r = [area |-> area, heap |-> (S \ {fa}) \cup {area}]
        BY <3>1, <3>2
      <3>6. Bytes(area) = Bytes(block) \cup Held({fa})
        <4>1. Held({fa}) = Bytes(fa)
          BY DEF Held
        <4>2. \A x : x \in Bytes(area) <=> x \in Bytes(block) \/ x \in Bytes(fa)
          BY <3>3, <2>4, <2>1, <1>4
        <4> QED BY <4>1, <4>2
      <3>7. /\ GoodHeap(r.heap) /\ Held(r.heap) = Held(S) \cup Bytes(block)
            /\ r.area \in r.heap /\ r.area = area /\ r.heap \subseteq S \cup {area}
        <4>1. {fa} \subseteq S /\ IsArea(area)
          BY <2>1, <3>3
        <4>2. \A a \in S \ {fa} : End(a) < area.mem \/ End(area) < a.mem
          BY <3>3, <3>4
        <4>3. Replaces(S, {fa}, area, block, r)
          BY <3>5, <3>6, <4>1, <4>2 DEF Replaces
        <4> QED BY <4>3, ReplaceAreas
      <3> QED BY <3>7, <3>3, <2>1
    <2>6. CASE next # {}
      <3> DEFINE nx   == First(next)
                 area == [mem |-> fa.mem, size |-> fa.size + size + nx.size]
      <3>1. nx \in next
        BY <2>6, FirstIsLeast DEF GoodHeap, IsArea
      <3>2. /\ nx \in S /\ nx # fa /\ nx.mem = end
            /\ nx.size \in Nat \ {0} /\ nx.size % 8 = 0 /\ End(nx) = end + nx.size
        BY <3>1, <1>1
      <3>3. next = {nx}
        <4>1. ASSUME NEW a \in next, a # nx PROVE FALSE
          <5>1. a \in S /\ a.mem = end
            OBVIOUS
          <5> QED BY <5>1, <4>1, <3>2, <1>1, <1>2
        <4> QED BY <3>1, <4>1
      <3>4. EndingAt(End(nx), fa.size + size + nx.size) = area
        <4>1. End(nx) - (fa.size + size + nx.size) = fa.mem
          <5>1. mem = fa.mem + fa.size /\ fa.mem \in Nat /\ fa.size \in Nat
            BY <2>1
          <5>2. End(nx) = mem + size + nx.size /\ nx.size \in Nat
            BY <3>2
          <5> HIDE DEF fa, nx
          <5> QED BY <5>1, <5>2
        <4> QED BY <4>1 DEF EndingAt
      <3>5. r = merge({fa} \cup next, EndingAt(End(nx), fa.size + size + SizeOf(next)))
        BY <1>6, <1>10, <2>6
      <3>6. SizeOf(next) = nx.size
        BY <2>6 DEF SizeOf
      <3>7. /\ IsArea(area) /\ area.mem = fa.mem /\ End(area) = end + nx.size
            /\ \A x : x \in Bytes(area) <=> x \in Nat /\ fa.mem <= x /\ x < end + nx.size
        <4>1. fa.size + size + nx.size \in Nat \ {0} /\ (fa.size + size + nx.size) % 8 = 0
          BY <2>1, <3>2, SumOfMultiples
        <4>2. fa.mem + (fa.size + size + nx.size) = end + nx.size
          BY <2>1, <3>2
        <4> HIDE DEF fa, nx
        <4> QED BY <4>1, <4>2, <2>1, AreaFacts
      <3>8. \A x : x \in Bytes(nx) <=> x \in Nat /\ end <= x /\ x < end + nx.size
        BY <3>2 DEF Bytes
      <3> HIDE DEF r, block, rest, area, nx, next, fa
      <3>9. r = [area |-> area, heap |-> (S \ {fa, nx}) \cup {area}]
        <4>1. {fa} \cup next = {fa, nx}
          BY <3>3
        <4> QED BY <3>4, <3>5, <3>6, <4>1
      <3>10. \A a \in S \ {fa, nx} : End(a) < area.mem \/ End(area) < a.mem
        <4> SUFFICES ASSUME NEW a \in S, a # fa, a # nx, ~(End(a) < fa.mem)
                     PROVE  end + nx.size < a.mem
          BY <3>7
        <4>1. a.mem >= end
          BY <2>3
        <4>2. End(a) < nx.mem \/ End(nx) < a.mem
          BY <3>2, <1>2
        <4> QED BY <4>1, <4>2, <3>2, <1>1
      <3>11. Bytes(area) = Bytes(block) \cup Held({fa, nx})
        <4>1. Held({fa, nx}) = Bytes(fa) \cup Bytes(nx)
          BY DEF Held
        <4>2. \A x : x \in Bytes(area) <=> x \in Bytes(block) \/ x \in Bytes(fa) \/ x \in Bytes(nx)
          BY <3>2, <3>7, <3>8, <2>4, <2>1, <1>4
        <4> QED BY <4>1, <4>2
      <3>12. /\ GoodHeap(r.heap) /\ Held(r.heap) = Held(S) \cup Bytes(block)
             /\ r.area \in r.heap /\ r.area = area /\ r.heap \subseteq S \cup {area}
        <4>1. {fa, nx} \subseteq S /\ IsArea(area)
          BY <2>1, <3>2, <3>7
        <4>2. Replaces(S, {fa, nx}, area, block, r)
          BY <3>9, <3>10, <3>11, <4>1 DEF Replaces
        <4> QED BY <4>2, ReplaceAreas
      <3> QED BY <3>12, <3>7, <3>2, <2>1
    <2> QED BY <2>5, <2>6
  <1> QED BY <1>8, <1>9, <1>10

-----------------------------------------------------------------------------
(***************************************************************************)
(* __heap_free_area_alloc: the front of an area leaves the list, in blocks *)
(* of the granularity, and what is left can hold a descriptor.             *)
(***************************************************************************)
LEMMA AreaAlloc ==
    ASSUME NEW S, GoodHeap(S), NEW fa \in S,
           NEW size \in Nat \ {0}, size % 8 = 0, size <= fa.size
    PROVE  LET taken == Taken(fa, size)
               block == [mem |-> fa.mem, size |-> taken]
               left  == heap_free_area_alloc(S, fa, size)
           IN  /\ taken \in Nat /\ taken % 8 = 0 /\ size <= taken /\ taken <= fa.size
               /\ GoodHeap(left)
               /\ Bytes(block) \subseteq Held(S)
               /\ Held(left) = Held(S) \ Bytes(block)
               /\ \A a \in left : a \in S \/ 56 <= a.size
  <1> DEFINE taken == Taken(fa, size)
             block == [mem |-> fa.mem, size |-> taken]
             left  == heap_free_area_alloc(S, fa, size)
  <1>1. /\ IsArea(fa) /\ fa.mem \in Nat /\ fa.size \in Nat \ {0}
        /\ fa.mem % 8 = 0 /\ fa.size % 8 = 0 /\ End(fa) = fa.mem + fa.size
    BY SizesOf64Bit DEF GoodHeap, IsArea, Area, End
  <1>2. \A x : x \in Bytes(fa) <=> x \in Nat /\ fa.mem <= x /\ x < fa.mem + fa.size
    BY <1>1 DEF Bytes
  <1>3. /\ taken \in Nat \ {0} /\ taken % 8 = 0 /\ size <= taken /\ taken <= fa.size
        /\ taken # fa.size => taken + 56 <= fa.size
    BY <1>1, SizesOf64Bit DEF Taken
  <1>4. \A x : x \in Bytes(block) <=> x \in Nat /\ fa.mem <= x /\ x < fa.mem + taken
    BY <1>1, <1>3, AreaFacts
  <1>5. Held(S) = Held(S \ {fa}) \cup Bytes(fa)
    BY DEF Held
  <1>6. Held(S \ {fa}) \cap Bytes(fa) = {}
    <2> SUFFICES ASSUME NEW a \in S \ {fa}, NEW x \in Bytes(a), x \in Bytes(fa) PROVE FALSE
      BY DEF Held
    <2>1. a.mem \in Nat /\ a.size \in Nat
      BY DEF GoodHeap, IsArea, Area
    <2>2. End(a) < fa.mem \/ End(fa) < a.mem
      BY DEF GoodHeap
    <2> QED BY <2>1, <2>2, <1>1, <1>2 DEF Bytes, End
  <1>7. GoodHeap(S \ {fa})
    BY DEF GoodHeap
  <1>8. CASE taken = fa.size
    <2>1. left = S \ {fa}
      BY <1>8 DEF heap_free_area_alloc
    <2>2. \A x : x \in Bytes(block) <=> x \in Bytes(fa)
      BY <1>2, <1>4, <1>8
    <2> HIDE DEF taken, block, left
    <2>3. Held(left) = Held(S) \ Bytes(block) /\ Bytes(block) \subseteq Held(S)
      BY <2>1, <2>2, <1>5, <1>6
    <2> QED BY <2>1, <2>3, <1>3, <1>7 DEF block, taken, left
  <1>9. CASE taken # fa.size
    <2> DEFINE rem == [mem |-> fa.mem + taken, size |-> fa.size - taken]
    <2>1. Extent(fa.mem + taken, End(fa)) = rem
      BY <1>1, <1>3 DEF Extent
    <2>2. left = (S \ {fa}) \cup {rem}
      BY <1>9, <2>1 DEF heap_free_area_alloc
    <2>3. /\ fa.mem + taken \in Nat /\ (fa.mem + taken) % 8 = 0
          /\ fa.size - taken \in Nat \ {0} /\ (fa.size - taken) % 8 = 0
          /\ fa.size - taken >= 56
      BY <1>1, <1>3, <1>9
    <2>4. /\ IsArea(rem) /\ rem.mem = fa.mem + taken /\ End(rem) = End(fa) /\ rem.size >= 56
          /\ \A x : x \in Bytes(rem) <=> x \in Nat /\ fa.mem + taken <= x /\ x < fa.mem + fa.size
      <3>1. fa.mem + taken + (fa.size - taken) = fa.mem + fa.size
        BY <1>1, <1>3
      <3> HIDE DEF taken
      <3> QED BY <2>3, <3>1, <1>1, AreaFacts
    <2>5. \A a \in S \ {fa} : End(a) < rem.mem \/ End(rem) < a.mem
      <3> SUFFICES ASSUME NEW a \in S \ {fa} PROVE End(a) < rem.mem \/ End(rem) < a.mem
        OBVIOUS
      <3>1. a.mem \in Nat /\ a.size \in Nat
        BY DEF GoodHeap, IsArea, Area
      <3>2. End(a) < fa.mem \/ End(fa) < a.mem
        BY DEF GoodHeap
      <3> HIDE DEF rem, taken
      <3> QED BY <3>1, <3>2, <2>4, <1>1, <1>3 DEF End
    <2> HIDE DEF taken, block, left, rem
    <2>6. GoodHeap((S \ {fa}) \cup {rem})
      BY <1>7, <2>4, <2>5 DEF GoodHeap
    <2>7. Held((S \ {fa}) \cup {rem}) = Held(S \ {fa}) \cup Bytes(rem)
      BY DEF Held
    <2>8. /\ \A x : x \in Bytes(fa) <=> x \in Bytes(block) \/ x \in Bytes(rem)
          /\ \A x : ~(x \in Bytes(block) /\ x \in Bytes(rem))
      BY <1>1, <1>2, <1>3, <1>4, <2>4
    <2>9. Held(left) = Held(S) \ Bytes(block) /\ Bytes(block) \subseteq Held(S)
      BY <2>2, <2>7, <2>8, <1>5, <1>6
    <2>10. \A a \in left : a \in S \/ 56 <= a.size
      BY <2>2, <2>4
    <2>11. GoodHeap(left)
      BY <2>2, <2>6
    <2> QED BY <2>9, <2>10, <2>11, <1>3 DEF block, taken, left
  <1> QED BY <1>8, <1>9

(* __heap_alloc takes a block that is large enough out of the list. *)
LEMMA HeapAlloc ==
    ASSUME NEW S, GoodHeap(S), NEW size \in Nat, Fitting(S, size) # {}
    PROVE  LET got == heap_alloc(S, size)
           IN  /\ IsArea(got.block)
               /\ AllocSize(size) <= got.block.size
               /\ GoodHeap(got.heap)
               /\ Bytes(got.block) \subseteq Held(S)
               /\ Held(got.heap) = Held(S) \ Bytes(got.block)
               /\ \A a \in got.heap : a \in S \/ 56 <= a.size
  <1> DEFINE got  == heap_alloc(S, size)
             fa   == First(Fitting(S, size))
             want == AllocSize(size)
             blk  == [mem |-> fa.mem, size |-> Taken(fa, want)]
  <1>1. want \in Nat \ {0} /\ want % 8 = 0
    BY AllocSizeFacts
  <1>2. fa \in S /\ want <= fa.size
    <2>1. Fitting(S, size) \subseteq Area
      BY DEF GoodHeap, IsArea, Fitting
    <2>2. fa \in Fitting(S, size)
      BY <2>1, FirstIsLeast
    <2>3. fa.size \in Nat
      BY <2>1, <2>2 DEF Area
    <2> QED BY <2>2, <2>3, <1>1 DEF Fitting
  <1>3. got.block = blk /\ got.heap = heap_free_area_alloc(S, fa, want)
    BY DEF heap_alloc
  <1> HIDE DEF got, fa, want
  <1>4. /\ Taken(fa, want) \in Nat /\ Taken(fa, want) % 8 = 0
        /\ want <= Taken(fa, want)
        /\ GoodHeap(got.heap)
        /\ Bytes(blk) \subseteq Held(S)
        /\ Held(got.heap) = Held(S) \ Bytes(blk)
        /\ \A a \in got.heap : a \in S \/ 56 <= a.size
    BY <1>1, <1>2, <1>3, AreaAlloc
  <1>5. fa.mem \in Nat /\ fa.mem % 8 = 0
    BY <1>2, SizesOf64Bit DEF GoodHeap, IsArea, Area
  <1>6. IsArea(blk) /\ blk.size = Taken(fa, want)
    <2>1. Taken(fa, want) \in Nat \ {0}
      BY <1>1, <1>4
    <2> QED BY <2>1, <1>4, <1>5, AreaFacts
  <1> QED BY <1>3, <1>4, <1>6 DEF got, want
=============================================================================
