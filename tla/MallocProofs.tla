---------------------------- MODULE MallocProofs ----------------------------
(***************************************************************************)
(* Proofs about Malloc, for every page size, every arena, every sequence   *)
(* of calls and any number of blocks: free areas and blocks never overlap, *)
(* no byte is lost or made up, no block or area reaches into memory that   *)
(* is not mapped, and callers get what they asked for.                     *)
(*                                                                         *)
(* The argument is about sets of bytes.  Ledger says how the bytes of the  *)
(* free list, the bytes in use and the memory the allocator was given fit  *)
(* together; every helper of the code is shown to keep the ledger while    *)
(* it moves the bytes of one block.                                        *)
(***************************************************************************)
EXTENDS Malloc, HeapProofs

(* Pages as whole numbers of the unit the code rounds to. *)
LEMMA PageFacts ==
    /\ PageSize \in Nat \ {0} /\ PageSize > 56 /\ PageSize % 8 = 0
    /\ StaticBase \in Nat /\ StaticBase % 8 = 0
    /\ InitialArea = [mem |-> StaticBase, size |-> 256]
    /\ End(InitialArea) = StaticBase + 256
    /\ Arena \subseteq Nat
    /\ \A n \in Arena : \/ n * PageSize > StaticBase + 256
                        \/ n * PageSize + PageSize < StaticBase
  <1>1. HEAP_ADJUST_SIZE(256) = 256
    BY SizesOf64Bit DEF HEAP_ADJUST_SIZE, RoundUp, RoundDown
  <1>2. /\ InitialArea = [mem |-> StaticBase, size |-> 256]
        /\ End(InitialArea) = StaticBase + 256
    BY <1>1 DEF InitialArea, End
  <1> QED BY <1>2, MallocAssumption, SizesOf64Bit

(* Division with remainder ... *)
LEMMA DivFacts ==
    ASSUME NEW x \in Nat, NEW unit \in Nat \ {0}
    PROVE  /\ x \div unit \in Nat /\ x % unit \in 0 .. unit - 1
           /\ x = unit * (x \div unit) + (x % unit)
  OBVIOUS

(* ... of which there is only one. *)
LEMMA DivUnique ==
    ASSUME NEW x \in Nat, NEW unit \in Nat \ {0}, NEW q \in Nat, NEW r \in 0 .. unit - 1,
           x = unit * q + r
    PROVE  x \div unit = q /\ x % unit = r
  OBVIOUS

(* Multiples of a unit are in the order of their factors. *)
LEMMA MultOrder ==
    ASSUME NEW unit \in Nat \ {0}, NEW k \in Int, NEW n \in Int
    PROVE  /\ k <= n <=> k * unit <= n * unit
           /\ k < n <=> k * unit < n * unit
           /\ k * unit \in Int
           /\ (k + n) * unit = k * unit + n * unit
           /\ (n + 1) * unit = n * unit + unit
           /\ (n - 1) * unit = n * unit - unit
  OBVIOUS

(* A multiple of a multiple of 8 is a multiple of 8. *)
LEMMA MultOfEight ==
    ASSUME NEW unit \in Nat \ {0}, unit % 8 = 0, NEW k \in Nat
    PROVE  (k * unit) % 8 = 0 /\ k * unit \in Nat
  <1> DEFINE u == unit \div 8
             j == k * u
  <1>1. unit = 8 * u /\ u \in Nat
    BY DivFacts
  <1> HIDE DEF u
  <1>2. k * unit = 8 * j /\ j \in Nat
    BY <1>1
  <1> HIDE DEF j
  <1>3. (8 * j) % 8 = 0
    BY <1>2
  <1>4. 8 * j \in Nat
    BY <1>2
  <1> QED BY <1>2, <1>3, <1>4

(* Addresses of pages. *)
LEMMA PageAddress ==
    ASSUME NEW n \in Nat
    PROVE  n * PageSize \in Nat /\ (n * PageSize) % 8 = 0
  BY PageFacts, MultOfEight

(* RoundDown and RoundUp give the multiples of the unit on either side. *)
LEMMA Rounding ==
    ASSUME NEW x \in Nat, NEW unit \in Nat \ {0}
    PROVE  /\ \E k \in Nat : RoundDown(x, unit) = k * unit
           /\ RoundDown(x, unit) \in Nat
           /\ RoundDown(x, unit) <= x /\ x < RoundDown(x, unit) + unit
           /\ \E k \in Nat : RoundUp(x, unit) = k * unit
           /\ RoundUp(x, unit) \in Nat
           /\ x <= RoundUp(x, unit) /\ RoundUp(x, unit) < x + unit
  <1>1. ASSUME NEW y \in Nat
        PROVE  /\ RoundDown(y, unit) = (y \div unit) * unit /\ y \div unit \in Nat
               /\ RoundDown(y, unit) \in Nat
               /\ RoundDown(y, unit) <= y /\ y < RoundDown(y, unit) + unit
    BY DivFacts DEF RoundDown
  <1>2. x + (unit - 1) \in Nat
    OBVIOUS
  <1>3. /\ RoundUp(x, unit) = ((x + (unit - 1)) \div unit) * unit
        /\ (x + (unit - 1)) \div unit \in Nat
        /\ RoundUp(x, unit) \in Nat
        /\ x <= RoundUp(x, unit) /\ RoundUp(x, unit) < x + unit
    <2>1. RoundUp(x, unit) = RoundDown(x + (unit - 1), unit)
      BY DEF RoundUp
    <2> HIDE DEF RoundUp
    <2>2. /\ RoundDown(x + (unit - 1), unit) = ((x + (unit - 1)) \div unit) * unit
          /\ (x + (unit - 1)) \div unit \in Nat
          /\ RoundDown(x + (unit - 1), unit) \in Nat
          /\ RoundDown(x + (unit - 1), unit) <= x + (unit - 1)
          /\ x + (unit - 1) < RoundDown(x + (unit - 1), unit) + unit
      BY <1>1, <1>2
    <2>3. ASSUME NEW d \in Nat, d <= x + (unit - 1), x + (unit - 1) < d + unit
          PROVE  x <= d /\ d < x + unit
      BY <2>3
    <2> QED BY <2>1, <2>2, <2>3
  <1> QED BY <1>1, <1>3

(* A byte is on exactly one page. *)
LEMMA ByteOnPage ==
    ASSUME NEW n \in Nat, NEW x
    PROVE  x \in Bytes(Page(n)) <=> x \in Nat /\ n * PageSize <= x /\ x < n * PageSize + PageSize
  <1>1. Page(n).mem = n * PageSize /\ Page(n).size = PageSize /\ n * PageSize \in Nat
    BY PageFacts DEF Page
  <1> QED BY <1>1, PageFacts DEF Bytes, End

(* Every byte is in a page. *)
LEMMA HasPage ==
    ASSUME NEW x \in Nat
    PROVE  \E n \in Nat : n * PageSize <= x /\ x < n * PageSize + PageSize
  <1>1. /\ x \div PageSize \in Nat /\ x % PageSize \in 0 .. PageSize - 1
        /\ x = PageSize * (x \div PageSize) + (x % PageSize)
    <2>1. PageSize \in Nat \ {0}
      BY PageFacts
    <2> QED BY ONLY <2>1, x \in Nat, DivFacts
  <1>2. PageSize * (x \div PageSize) = (x \div PageSize) * PageSize
    BY <1>1, PageFacts
  <1>3. (x \div PageSize) * PageSize \in Nat
    BY <1>1, PageFacts
  <1>4. /\ (x \div PageSize) * PageSize <= x
        /\ x < (x \div PageSize) * PageSize + PageSize
    <2> DEFINE y == (x \div PageSize) * PageSize
               z == x % PageSize
    <2>1. y \in Nat /\ z \in 0 .. PageSize - 1 /\ x = y + z
      BY <1>1, <1>2, <1>3
    <2> HIDE DEF y, z
    <2>2. y <= x /\ x < y + PageSize
      BY <2>1, PageFacts
    <2> QED BY <2>2 DEF y
  <1> QED BY <1>1, <1>4

(* The pages between two multiples of the page size, and their bytes. *)
LEMMA PagesBetween ==
    ASSUME NEW k \in Nat, NEW m \in Nat, NEW n \in Nat,
           NEW x \in Nat, n * PageSize <= x, x < n * PageSize + PageSize
    PROVE  k <= n /\ n < m <=> k * PageSize <= x /\ x < m * PageSize
  <1>1. k <= n <=> k * PageSize <= x
    <2>1. k <= n => k * PageSize <= n * PageSize
      BY PageFacts, MultOrder
    <2>2. ~(k <= n) => n + 1 <= k
      OBVIOUS
    <2>3. n + 1 <= k => n * PageSize + PageSize <= k * PageSize
      BY PageFacts, MultOrder
    <2>4. n * PageSize \in Int /\ k * PageSize \in Int
      BY PageFacts, MultOrder
    <2> QED BY <2>1, <2>2, <2>3, <2>4, PageFacts
  <1>2. n < m <=> x < m * PageSize
    <2>1. n < m => n + 1 <= m
      OBVIOUS
    <2>2. n + 1 <= m => n * PageSize + PageSize <= m * PageSize
      BY PageFacts, MultOrder
    <2>3. ~(n < m) => m * PageSize <= n * PageSize
      BY PageFacts, MultOrder
    <2>4. n * PageSize \in Int /\ m * PageSize \in Int
      BY PageFacts, MultOrder
    <2> QED BY <2>1, <2>2, <2>3, <2>4, PageFacts
  <1> QED BY <1>1, <1>2
-----------------------------------------------------------------------------
(***************************************************************************)
(* The ledger.  S is a free list in good order, U the bytes in use and M   *)
(* the mapped pages: together S and U are the memory given, and share no   *)
(* byte.  When no caller asks memalign for 8 bytes or less, every area can *)
(* hold its descriptor.                                                    *)
(***************************************************************************)
Roomy(S) == (\A size \in AlignedRequests : size > 8) => \A a \in S : DescriptorSize <= a.size

Ledger(S, U, M) ==
    /\ GoodHeap(S)
    /\ Roomy(S)
    /\ M \subseteq Arena
    /\ Held(S) \cap U = {}
    /\ Held(S) \cup U = Held(Given(M))

(* __heap_alloc moves the bytes of its block from the list to those in use. *)
LEMMA LedgerAlloc ==
    ASSUME NEW S, NEW U, NEW M, Ledger(S, U, M), NEW size \in Nat, Fitting(S, size) # {}
    PROVE  LET got == heap_alloc(S, size)
           IN  /\ IsArea(got.block) /\ AllocSize(size) <= got.block.size
               /\ Bytes(got.block) \cap U = {}
               /\ Ledger(got.heap, U \cup Bytes(got.block), M)
  <1> DEFINE got == heap_alloc(S, size)
  <1>1. /\ IsArea(got.block)
        /\ AllocSize(size) <= got.block.size
        /\ GoodHeap(got.heap)
        /\ Bytes(got.block) \subseteq Held(S)
        /\ Held(got.heap) = Held(S) \ Bytes(got.block)
        /\ \A a \in got.heap : a \in S \/ 56 <= a.size
    BY HeapAlloc DEF Ledger
  <1> HIDE DEF got
  <1>2. \A a \in got.heap : a.size \in Nat
    BY <1>1 DEF GoodHeap, IsArea, Area
  <1>3. Roomy(got.heap)
    BY <1>1, <1>2, SizesOf64Bit DEF Ledger, Roomy
  <1>4. Ledger(got.heap, U \cup Bytes(got.block), M)
    BY <1>1, <1>3 DEF Ledger
  <1>5. Bytes(got.block) \cap U = {}
    BY <1>1 DEF Ledger
  <1> QED BY <1>1, <1>4, <1>5 DEF got

(* __heap_free moves the bytes of a block in use to the list. *)
LEMMA LedgerFree ==
    ASSUME NEW S, NEW U, NEW M, Ledger(S, U, M),
           NEW mem \in Nat, NEW size \in Nat \ {0}, mem % 8 = 0, size % 8 = 0,
           Bytes([mem |-> mem, size |-> size]) \subseteq U,
           Roomy({[mem |-> mem, size |-> size]})
    PROVE  LET r     == heap_free(S, mem, size)
               block == [mem |-> mem, size |-> size]
           IN  /\ Ledger(r.heap, U \ Bytes(block), M)
               /\ r.area \in r.heap
               /\ r.area.mem <= mem /\ mem + size <= End(r.area)
  <1> DEFINE r     == heap_free(S, mem, size)
             block == [mem |-> mem, size |-> size]
  <1>1. block.size = size
    OBVIOUS
  <1>2. Unlisted(S, mem, size)
    BY UnlistedBytes DEF Ledger
  <1>3. /\ GoodHeap(r.heap)
        /\ Held(r.heap) = Held(S) \cup Bytes(block)
        /\ r.area \in r.heap /\ r.heap \subseteq S \cup {r.area}
        /\ r.area.mem <= mem /\ mem + size <= End(r.area)
    BY <1>2, HeapFree DEF Ledger
  <1> HIDE DEF r, block
  <1>4. r.area.mem \in Nat /\ r.area.size \in Nat
    BY <1>3 DEF GoodHeap, IsArea, Area
  <1>5. size <= r.area.size
    BY <1>3, <1>4 DEF End
  <1>6. Roomy(r.heap)
    BY <1>1, <1>3, <1>4, <1>5, SizesOf64Bit DEF Ledger, Roomy, block
  <1>7. Ledger(r.heap, U \ Bytes(block), M)
    BY <1>3, <1>6 DEF Ledger, block
  <1> QED BY <1>3, <1>7 DEF r, block

(* The same for the bytes from start up to end, of which there may be none. *)
LEMMA LedgerReturn ==
    ASSUME NEW S, NEW U, NEW M, Ledger(S, U, M),
           NEW start \in Nat, NEW end \in Nat, start % 8 = 0, end % 8 = 0,
           end <= start \/ end - start >= 24,
           start .. end - 1 \subseteq U
    PROVE  Ledger(Return(S, start, end), U \ (start .. end - 1), M)
  <1>1. CASE ~(end > start)
    <2>1. start .. end - 1 = {}
      BY <1>1
    <2>2. Return(S, start, end) = S
      BY <1>1 DEF Return
    <2> QED BY <2>1, <2>2
  <1>2. CASE end > start
    <2> DEFINE size  == end - start
               block == [mem |-> start, size |-> size]
    <2>1. size \in Nat \ {0} /\ size % 8 = 0 /\ size >= 24 /\ start + size = end
      BY <1>2
    <2>2. Return(S, start, end) = heap_free(S, start, size).heap
      BY <1>2 DEF Return
    <2> HIDE DEF size
    <2>3. Bytes(block) = start .. end - 1
      BY <2>1 DEF Bytes, End
    <2>4. Roomy({block})
      BY <2>1, SizesOf64Bit DEF Roomy
    <2>5. Bytes(block) \subseteq U
      BY <2>3
    <2>6. Ledger(heap_free(S, start, size).heap, U \ Bytes(block), M)
      BY <2>1, <2>4, <2>5, LedgerFree
    <2> QED BY <2>2, <2>3, <2>6
  <1> QED BY <1>1, <1>2
-----------------------------------------------------------------------------
(* A byte of the memory given is in initial_fa or on a mapped page. *)
LEMMA GivenByte ==
    ASSUME NEW M \in SUBSET Arena, NEW x
    PROVE  x \in Held(Given(M)) <=>
             \/ x \in Nat /\ StaticBase <= x /\ x < StaticBase + 256
             \/ \E n \in M : x \in Nat /\ n * PageSize <= x /\ x < n * PageSize + PageSize
  <1>1. x \in Bytes(InitialArea) <=> x \in Nat /\ StaticBase <= x /\ x < StaticBase + 256
    BY PageFacts DEF Bytes, End
  <1>2. \A n \in M : x \in Bytes(Page(n)) <=> x \in Nat /\ n * PageSize <= x /\ x < n * PageSize + PageSize
    BY PageFacts, ByteOnPage
  <1>3. x \in Held(Given(M)) <=> x \in Bytes(InitialArea) \/ \E n \in M : x \in Bytes(Page(n))
    BY DEF Held, Given
  <1> QED BY <1>1, <1>2, <1>3

(* Pages(k * PageSize, m * PageSize) are the pages from k up to m. *)
LEMMA PagesNumbered ==
    ASSUME NEW k \in Nat, NEW m \in Nat
    PROVE  Pages(k * PageSize, m * PageSize) = {n \in Arena : k <= n /\ n < m}
  <1> SUFFICES ASSUME NEW n \in Arena
               PROVE  k * PageSize <= n * PageSize /\ n * PageSize < m * PageSize
                        <=> k <= n /\ n < m
    BY DEF Pages
  <1>1. n \in Nat
    BY PageFacts
  <1> QED BY <1>1, PageFacts, MultOrder

(* mmap gives bytes that are in nobody's hands. *)
LEMMA Mapping ==
    ASSUME NEW M \in SUBSET Arena, NEW k \in Nat, NEW m \in Nat,
           \A n \in k .. m - 1 : n \in Arena \ M
    PROVE  LET new   == Pages(k * PageSize, m * PageSize)
               bytes == k * PageSize .. m * PageSize - 1
           IN  /\ M \cup new \in SUBSET Arena
               /\ Held(Given(M)) \cap bytes = {}
               /\ Held(Given(M \cup new)) = Held(Given(M)) \cup bytes
  <1> DEFINE new   == Pages(k * PageSize, m * PageSize)
             bytes == k * PageSize .. m * PageSize - 1
  <1>1. new = {n \in Arena : k <= n /\ n < m}
    BY PagesNumbered
  <1>2. k * PageSize \in Nat /\ m * PageSize \in Nat
    BY PageFacts
  <1> HIDE DEF new
  <1>3. M \cup new \in SUBSET Arena
    BY <1>1
  <1>4. ASSUME NEW x \in bytes
        PROVE  /\ \E n \in new : n * PageSize <= x /\ x < n * PageSize + PageSize
               /\ x \notin Held(Given(M))
    <2>1. x \in Nat /\ k * PageSize <= x /\ x < m * PageSize
      BY <1>2
    <2>2. PICK n \in Nat : n * PageSize <= x /\ x < n * PageSize + PageSize
      BY <2>1, HasPage
    <2>3. k <= n /\ n < m
      BY <2>1, <2>2, PagesBetween
    <2>4. n \in Arena \ M
      BY <2>3
    <2>5. n \in new
      BY <2>3, <2>4, <1>1
    <2>6. ~(StaticBase <= x /\ x < StaticBase + 256)
      BY <2>1, <2>2, <2>4, PageFacts
    <2>7. ASSUME NEW i \in M, i * PageSize <= x, x < i * PageSize + PageSize
          PROVE  FALSE
      <3>1. i \in Nat
        BY PageFacts
      <3>2. n <= i /\ i < n + 1
        <4>1. (n + 1) * PageSize = n * PageSize + PageSize
          BY PageFacts, MultOrder
        <4> QED BY <3>1, <2>7, <2>1, <2>2, <4>1, PagesBetween
      <3> QED BY <3>1, <3>2, <2>4
    <2>8. x \notin Held(Given(M))
      BY <2>6, <2>7, GivenByte
    <2> QED BY <2>2, <2>5, <2>8
  <1>5. ASSUME NEW n \in new, NEW x \in Nat, n * PageSize <= x, x < n * PageSize + PageSize
        PROVE  x \in bytes
    <2>1. n \in Nat /\ k <= n /\ n < m
      BY <1>1, PageFacts
    <2>2. k * PageSize <= x /\ x < m * PageSize
      BY <1>5, <2>1, PagesBetween
    <2> QED BY <2>2, <1>2
  <1>6. ASSUME NEW x PROVE x \in Held(Given(M \cup new)) <=> x \in Held(Given(M)) \/ x \in bytes
    <2> HIDE DEF bytes
    <2>1. x \in Held(Given(M \cup new)) <=>
             \/ x \in Nat /\ StaticBase <= x /\ x < StaticBase + 256
             \/ \E n \in M \cup new : x \in Nat /\ n * PageSize <= x /\ x < n * PageSize + PageSize
      BY <1>3, GivenByte
    <2>2. x \in Held(Given(M)) <=>
             \/ x \in Nat /\ StaticBase <= x /\ x < StaticBase + 256
             \/ \E n \in M : x \in Nat /\ n * PageSize <= x /\ x < n * PageSize + PageSize
      BY GivenByte
    <2>3. x \in bytes => x \in Nat
      BY <1>2 DEF bytes
    <2> QED BY <2>1, <2>2, <2>3, <1>4, <1>5
  <1> HIDE DEF bytes
  <1>7. Held(Given(M)) \cap bytes = {} /\ Held(Given(M \cup new)) = Held(Given(M)) \cup bytes
    BY <1>4, <1>6
  <1> QED BY <1>3, <1>7 DEF new, bytes

(* munmap takes the bytes of its pages back, and no others. *)
LEMMA Unmapping ==
    ASSUME NEW M \in SUBSET Arena, NEW k \in Nat, NEW m \in Nat
    PROVE  LET gone == Pages(k * PageSize, m * PageSize)
           IN  \A x : x \in Held(Given(M \ gone)) <=>
                        /\ x \in Held(Given(M))
                        /\ \/ x \in Nat /\ StaticBase <= x /\ x < StaticBase + 256
                           \/ x \notin k * PageSize .. m * PageSize - 1
  <1> DEFINE gone  == Pages(k * PageSize, m * PageSize)
             bytes == k * PageSize .. m * PageSize - 1
  <1>1. gone = {n \in Arena : k <= n /\ n < m}
    BY PagesNumbered
  <1>2. k * PageSize \in Nat /\ m * PageSize \in Nat
    BY PageFacts
  <1> HIDE DEF gone
  <1> SUFFICES ASSUME NEW x
               PROVE  x \in Held(Given(M \ gone)) <=>
                        /\ x \in Held(Given(M))
                        /\ \/ x \in Nat /\ StaticBase <= x /\ x < StaticBase + 256
                           \/ x \notin bytes
    BY DEF gone
  <1>3. \A y : y \in bytes <=> y \in Nat /\ k * PageSize <= y /\ y < m * PageSize
    BY <1>2
  <1> HIDE DEF bytes
  <1>4. ASSUME x \in Nat, NEW n \in M, n * PageSize <= x, x < n * PageSize + PageSize
        PROVE  /\ n \in gone <=> x \in bytes
               /\ ~(StaticBase <= x /\ x < StaticBase + 256)
    <2>1. n \in Nat /\ n \in Arena
      BY PageFacts
    <2>2. k <= n /\ n < m <=> k * PageSize <= x /\ x < m * PageSize
      BY <1>4, <2>1, PagesBetween
    <2>3. /\ n * PageSize \in Nat
          /\ n * PageSize > StaticBase + 256 \/ n * PageSize + PageSize < StaticBase
      BY <2>1, PageFacts
    <2> QED BY <1>4, <2>1, <2>2, <2>3, <1>1, <1>3, PageFacts
  <1>5. x \in Held(Given(M)) <=>
          \/ x \in Nat /\ StaticBase <= x /\ x < StaticBase + 256
          \/ \E n \in M : x \in Nat /\ n * PageSize <= x /\ x < n * PageSize + PageSize
    BY GivenByte
  <1>6. x \in Held(Given(M \ gone)) <=>
          \/ x \in Nat /\ StaticBase <= x /\ x < StaticBase + 256
          \/ \E n \in M \ gone : x \in Nat /\ n * PageSize <= x /\ x < n * PageSize + PageSize
    <2>1. M \ gone \in SUBSET Arena
      OBVIOUS
    <2> QED BY <2>1, GivenByte
  <1> QED BY <1>4, <1>5, <1>6

(***************************************************************************)
(* The bytes next to initial_fa are never given, so an extent of bytes     *)
(* that are given lies in initial_fa or on mapped pages, on one side.      *)
(***************************************************************************)
LEMMA InOnePart ==
    ASSUME NEW M \in SUBSET Arena,
           NEW a, a.mem \in Nat, a.size \in Nat \ {0}, Bytes(a) \subseteq Held(Given(M))
    PROVE  \/ StaticBase <= a.mem /\ End(a) <= StaticBase + 256
           \/ StaticBase + 256 < a.mem
           \/ End(a) < StaticBase
  <1>1. \A n \in M : /\ n * PageSize \in Nat
                     /\ \/ n * PageSize > StaticBase + 256
                        \/ n * PageSize + PageSize < StaticBase
    BY PageFacts
  <1>2. StaticBase + 256 \notin Held(Given(M))
    <2>1. \A n \in M : ~(/\ n * PageSize <= StaticBase + 256
                         /\ StaticBase + 256 < n * PageSize + PageSize)
      BY <1>1, PageFacts
    <2> QED BY <2>1, PageFacts, GivenByte
  <1>3. StaticBase - 1 \notin Held(Given(M))
    <2>1. \A n \in M : ~(/\ n * PageSize <= StaticBase - 1
                         /\ StaticBase - 1 < n * PageSize + PageSize)
      BY <1>1, PageFacts
    <2>2. ~(StaticBase <= StaticBase - 1)
      BY PageFacts
    <2> QED BY <2>1, <2>2, GivenByte
  <1>4. End(a) = a.mem + a.size /\ End(a) \in Nat
    BY DEF End
  <1>5. \A x : x \in Bytes(a) <=> x \in Nat /\ a.mem <= x /\ x < End(a)
    BY ByteOf
  <1>6. ~(a.mem <= StaticBase + 256 /\ StaticBase + 256 < End(a))
    BY <1>2, <1>5, PageFacts
  <1>7. ~(a.mem < StaticBase /\ StaticBase <= End(a))
    <2> SUFFICES ASSUME a.mem < StaticBase, StaticBase <= End(a) PROVE FALSE
      OBVIOUS
    <2>1. StaticBase - 1 \in Nat /\ a.mem <= StaticBase - 1 /\ StaticBase - 1 < End(a)
      BY <1>4, PageFacts
    <2> QED BY <1>3, <1>5, <2>1
  <1> QED BY <1>4, <1>6, <1>7, PageFacts

(* A multiple of 8 that is at least a size is at least what is allocated for it. *)
LEMMA AllocSizeFits ==
    ASSUME NEW total \in Nat, NEW length \in Nat, length % 8 = 0, total <= length, 24 <= length
    PROVE  AllocSize(total) <= length
  <1>1. HEAP_ADJUST_SIZE(24) = 24
    BY SizesOf64Bit DEF HEAP_ADJUST_SIZE, RoundUp, RoundDown
  <1>2. ASSUME NEW size \in Nat, size % 8 = 0, size < total + 8
        PROVE  size <= length
    BY <1>2
  <1>3. HEAP_ADJUST_SIZE(total) <= length
    BY <1>2, AdjustSize
  <1> QED BY <1>1, <1>3, SizesOf64Bit DEF AllocSize

(* malloc_from_heap asks mmap for whole pages, and enough of them. *)
LEMMA ExtendSizeFacts ==
    ASSUME NEW total \in Nat
    PROVE  \E k \in Nat \ {0} : /\ ExtendSize(total) = k * PageSize
                                /\ ExtendSize(total) \div PageSize = k
                                /\ AllocSize(total) <= k * PageSize
                                /\ (k * PageSize) % 8 = 0
  <1>1. PICK k \in Nat \ {0} : ExtendSize(total) = k * PageSize /\ total <= k * PageSize
    <2>1. CASE total < PageSize
      <3>1. ExtendSize(total) = 1 * PageSize
        BY <2>1, PageFacts DEF ExtendSize
      <3> QED BY <2>1, <3>1, PageFacts
    <2>2. CASE ~(total < PageSize)
      <3>1. ExtendSize(total) = RoundUp(total, PageSize)
        BY <2>2 DEF ExtendSize
      <3>2. PICK k \in Nat : RoundUp(total, PageSize) = k * PageSize
        BY PageFacts, Rounding
      <3>3. total <= k * PageSize
        BY <3>2, PageFacts, Rounding
      <3>4. k # 0
        BY <2>2, <3>3, PageFacts
      <3> QED BY <3>1, <3>2, <3>3, <3>4
    <2> QED BY <2>1, <2>2
  <1>2. (k * PageSize) % 8 = 0 /\ k * PageSize \in Nat
    BY PageAddress
  <1>3. PageSize <= k * PageSize
    <2>1. 1 <= k
      OBVIOUS
    <2>2. 1 * PageSize <= k * PageSize
      BY <2>1, PageFacts, MultOrder
    <2> QED BY <2>2, PageFacts
  <1>4. AllocSize(total) <= k * PageSize
    BY <1>1, <1>2, <1>3, PageFacts, AllocSizeFits
  <1>5. (k * PageSize) \div PageSize = k
    BY <1>2, PageFacts, DivUnique
  <1> QED BY <1>1, <1>2, <1>4, <1>5

(***************************************************************************)
(* Whatever heap malloc_from_heap takes the block from keeps the ledger    *)
(* and has an area that is big enough.                                     *)
(***************************************************************************)
LEMMA SourcesKeepLedger ==
    ASSUME NEW U, Ledger(free, U, mapped), NEW size \in Nat, NEW src \in Sources(size)
    PROVE  /\ Ledger(src.heap, U, src.pages)
           /\ Fitting(src.heap, size + 8) # {}
  <1> DEFINE total  == size + 8
             length == ExtendSize(total)
  <1>1. total \in Nat /\ MALLOC_HEADER_SIZE = 8
    BY DEF MALLOC_HEADER_SIZE
  <1>2. CASE InHeap(size)
    <2>1. src.heap = free /\ src.pages = mapped
      BY <1>2 DEF Sources
    <2>2. Fitting(free, total) # {}
      BY <1>1, <1>2 DEF InHeap
    <2> QED BY <2>1, <2>2
  <1>3. CASE ~InHeap(size)
    <2>1. PICK page \in Arena :
            /\ Available(page, length)
            /\ src.heap = heap_free(free, page * PageSize, length).heap
            /\ src.pages = mapped \cup Pages(page * PageSize, page * PageSize + length)
      BY <1>1, <1>3 DEF Sources
    <2>2. PICK k \in Nat \ {0} :
            /\ length = k * PageSize
            /\ length \div PageSize = k
            /\ AllocSize(total) <= k * PageSize
            /\ (k * PageSize) % 8 = 0
      BY <1>1, ExtendSizeFacts
    <2> HIDE DEF length
    <2> DEFINE mem   == page * PageSize
               m     == page + k
               new   == Pages(mem, m * PageSize)
               bytes == mem .. m * PageSize - 1
               block == [mem |-> mem, size |-> length]
               r     == heap_free(free, mem, length)
    <2>3. page \in Nat /\ m \in Nat /\ mem \in Nat /\ mem % 8 = 0
      <3>1. page \in Nat /\ m \in Nat
        BY PageFacts
      <3>2. mem \in Nat /\ mem % 8 = 0
        BY <3>1, PageAddress
      <3> QED BY <3>1, <3>2
    <2>4. m * PageSize = mem + length
      BY <2>2, <2>3, PageFacts, MultOrder
    <2>5. length \in Nat \ {0} /\ length % 8 = 0 /\ 24 <= length /\ AllocSize(total) <= length
      <3>1. length \in Nat
        BY <2>2, PageFacts
      <3>2. 24 <= AllocSize(total) /\ AllocSize(total) \in Nat
        BY <1>1, AllocSizeFacts
      <3> QED BY <2>2, <3>1, <3>2
    <2>6. \A n \in page .. m - 1 : n \in Arena \ mapped
      <3>1. length \div PageSize = k
        BY <2>2
      <3>2. \A n \in page .. page + k - 1 : n \in Arena \ mapped
        BY <2>1, <3>1, Zenon DEF Available
      <3>3. page + k - 1 = m - 1
        BY <2>3
      <3> QED BY <3>2, <3>3, Zenon
    <2>7. /\ mapped \cup new \in SUBSET Arena
          /\ Held(Given(mapped)) \cap bytes = {}
          /\ Held(Given(mapped \cup new)) = Held(Given(mapped)) \cup bytes
      <3>1. mapped \in SUBSET Arena
        BY DEF Ledger
      <3> HIDE DEF m
      <3> QED BY <2>3, <2>6, <3>1, Mapping
    <2>8. Bytes(block) = bytes
      <3> HIDE DEF mem, m
      <3> QED BY <2>3, <2>4 DEF Bytes, End
    <2>9. src.pages = mapped \cup new /\ src.heap = r.heap
      BY <2>1, <2>4
    <2> HIDE DEF mem, m, new, bytes
    <2>10. Ledger(free, U \cup bytes, mapped \cup new)
      BY <2>7 DEF Ledger
    <2>11. /\ Ledger(r.heap, (U \cup bytes) \ bytes, mapped \cup new)
           /\ r.area \in r.heap
           /\ r.area.mem <= mem /\ mem + length <= End(r.area)
      <3>1. Roomy({block})
        BY <2>5, SizesOf64Bit DEF Roomy
      <3>2. Bytes(block) \subseteq U \cup bytes
        BY <2>8
      <3>3. /\ Ledger(r.heap, (U \cup bytes) \ Bytes(block), mapped \cup new)
            /\ r.area \in r.heap
            /\ r.area.mem <= mem /\ mem + length <= End(r.area)
        BY <2>3, <2>5, <2>10, <3>1, <3>2, LedgerFree
      <3> QED BY <2>8, <3>3
    <2>12. (U \cup bytes) \ bytes = U
      BY <2>7 DEF Ledger
    <2> HIDE DEF r
    <2>13. Fitting(r.heap, total) # {}
      <3>1. r.area.mem \in Nat /\ r.area.size \in Nat
        BY <2>11 DEF Ledger, GoodHeap, IsArea, Area
      <3>2. length <= r.area.size
        BY <2>3, <2>5, <2>11, <3>1 DEF End
      <3>3. AllocSize(total) \in Nat
        BY <1>1, AllocSizeFacts
      <3>4. r.area.size >= AllocSize(total)
        BY <2>5, <3>1, <3>2, <3>3
      <3> QED BY <2>11, <3>4 DEF Fitting
    <2> QED BY <2>9, <2>11, <2>12, <2>13
  <1> QED BY <1>2, <1>3

(***************************************************************************)
(* free_to_heap unmaps whole pages inside the area, and what is left at    *)
(* either end is nothing or can hold a descriptor.                         *)
(***************************************************************************)
TrimmedPages(fa, k, m) ==
    /\ unmap_start(fa) = k * PageSize /\ unmap_end(fa) = m * PageSize
    /\ fa.mem <= k * PageSize /\ k * PageSize < m * PageSize /\ m * PageSize <= End(fa)
    /\ fa.mem = k * PageSize \/ k * PageSize - fa.mem >= 24
    /\ m * PageSize = End(fa) \/ End(fa) - m * PageSize >= 24

(* What __malloc_trim unmaps of a large area: whole pages, with room for a descriptor on either side. *)
LEMMA TrimRange ==
    ASSUME NEW fa, fa.mem \in Nat, fa.size \in Nat, fa.size >= 8 * PageSize
    PROVE  \E k \in Nat, m \in Nat : TrimmedPages(fa, k, m)
  <1>1. End(fa) \in Nat /\ End(fa) = fa.mem + fa.size
    BY DEF End
  <1>2. PICK k \in Nat : /\ unmap_start(fa) = k * PageSize /\ k * PageSize \in Nat
                         /\ fa.mem <= k * PageSize
                         /\ k * PageSize < fa.mem + 2 * PageSize
                         /\ fa.mem = k * PageSize \/ k * PageSize - fa.mem >= 24
    <2> DEFINE up == RoundUp(fa.mem, PageSize)
    <2>1. /\ \E k \in Nat : up = k * PageSize
          /\ up \in Nat /\ fa.mem <= up /\ up < fa.mem + PageSize
      BY PageFacts, Rounding
    <2>2. unmap_start(fa) = IF up > fa.mem /\ up - fa.mem < 56 THEN up + PageSize ELSE up
      BY SizesOf64Bit DEF unmap_start
    <2> HIDE DEF up
    <2>3. PICK j \in Nat : up = j * PageSize
      BY <2>1
    <2>4. (j + 1) * PageSize = up + PageSize /\ j + 1 \in Nat
      BY <2>3, PageFacts, MultOrder
    <2>5. CASE up > fa.mem /\ up - fa.mem < 56
      <3>1. unmap_start(fa) = up + PageSize
        BY <2>2, <2>5
      <3>2. /\ up + PageSize \in Nat /\ fa.mem <= up + PageSize
            /\ up + PageSize < fa.mem + 2 * PageSize
            /\ (up + PageSize) - fa.mem >= 24
        BY <2>1, PageFacts
      <3> QED BY <2>4, <3>1, <3>2
    <2>6. CASE ~(up > fa.mem /\ up - fa.mem < 56)
      <3>1. unmap_start(fa) = up
        BY <2>2, <2>6
      <3>2. fa.mem = up \/ up - fa.mem >= 24
        BY <2>1, <2>6
      <3>3. up < fa.mem + 2 * PageSize
        BY <2>1, PageFacts
      <3> QED BY <2>1, <2>3, <3>1, <3>2, <3>3
    <2> QED BY <2>5, <2>6
  <1>3. PICK m \in Nat : /\ unmap_end(fa) = m * PageSize /\ m * PageSize \in Nat
                         /\ m * PageSize <= End(fa)
                         /\ End(fa) - 2 * PageSize < m * PageSize
                         /\ m * PageSize = End(fa) \/ End(fa) - m * PageSize >= 24
    <2> DEFINE down == RoundDown(End(fa), PageSize)
    <2>1. /\ \E j \in Nat : down = j * PageSize
          /\ down \in Nat /\ down <= End(fa) /\ End(fa) < down + PageSize
      BY <1>1, PageFacts, Rounding
    <2>2. unmap_end(fa) = IF End(fa) > down /\ End(fa) - down < 56 THEN down - PageSize ELSE down
      BY SizesOf64Bit DEF unmap_end
    <2> HIDE DEF down
    <2>3. PICK j \in Nat : down = j * PageSize
      BY <2>1
    <2>4. j # 0
      <3>1. j = 0 => down = 0
        BY <2>3, PageFacts
      <3> QED BY <3>1, <2>1, <1>1, PageFacts
    <2>5. (j - 1) * PageSize = down - PageSize /\ j - 1 \in Nat
      BY <2>3, <2>4, PageFacts, MultOrder
    <2>6. CASE End(fa) > down /\ End(fa) - down < 56
      <3>1. unmap_end(fa) = down - PageSize
        BY <2>2, <2>6
      <3>2. /\ down - PageSize <= End(fa)
            /\ End(fa) - 2 * PageSize < down - PageSize
            /\ End(fa) - (down - PageSize) >= 24
        BY <2>1, <1>1, PageFacts
      <3>3. down - PageSize \in Nat
        BY <2>5, PageAddress
      <3> QED BY <2>5, <3>1, <3>2, <3>3
    <2>7. CASE ~(End(fa) > down /\ End(fa) - down < 56)
      <3>1. unmap_end(fa) = down
        BY <2>2, <2>7
      <3>2. down = End(fa) \/ End(fa) - down >= 24
        BY <2>1, <2>7, <1>1
      <3>3. End(fa) - 2 * PageSize < down
        BY <2>1, <1>1, PageFacts
      <3> QED BY <2>1, <2>3, <3>1, <3>2, <3>3
    <2> QED BY <2>6, <2>7
  <1> DEFINE x == k * PageSize
             y == m * PageSize
  <1>4. x < y
    <2>1. x \in Nat /\ x < fa.mem + 2 * PageSize
      BY <1>2
    <2>2. y \in Nat /\ End(fa) - 2 * PageSize < y
      BY <1>3
    <2> HIDE DEF x, y
    <2> QED BY <2>1, <2>2, <1>1, PageFacts
  <1>5. TrimmedPages(fa, k, m)
    BY <1>2, <1>3, <1>4 DEF TrimmedPages
  <1> QED BY <1>5

(* Trimming an area keeps the ledger of the pages that are left. *)
LEMMA LedgerTrim ==
    ASSUME NEW S, NEW U, NEW M, Ledger(S, U, M), NEW fa \in S, fa.size >= 8 * PageSize
    PROVE  Ledger(Trim(S, fa), U, M \ Pages(unmap_start(fa), unmap_end(fa)))
  <1>1. /\ fa.mem \in Nat /\ fa.size \in Nat \ {0}
        /\ fa.mem % 8 = 0 /\ fa.size % 8 = 0
        /\ End(fa) = fa.mem + fa.size
    BY SizesOf64Bit DEF Ledger, GoodHeap, IsArea, Area, End
  <1>2. PICK k \in Nat, m \in Nat : TrimmedPages(fa, k, m)
    BY <1>1, TrimRange
  <1> DEFINE us    == k * PageSize
             ue    == m * PageSize
             front == fa.mem .. us - 1
             tail  == ue .. End(fa) - 1
             gone  == us .. ue - 1
             S1    == Return(S \ {fa}, fa.mem, us)
             S2    == Return(S1, ue, End(fa))
             N     == M \ Pages(us, ue)
  <1>3. /\ unmap_start(fa) = us /\ unmap_end(fa) = ue
        /\ fa.mem <= us /\ us < ue /\ ue <= End(fa)
        /\ fa.mem = us \/ us - fa.mem >= 24
        /\ ue = End(fa) \/ End(fa) - ue >= 24
    BY <1>2 DEF TrimmedPages
  <1>4. us \in Nat /\ us % 8 = 0 /\ ue \in Nat /\ ue % 8 = 0
    BY PageAddress
  <1>5. End(fa) \in Nat /\ End(fa) % 8 = 0
    BY <1>1, SumOfMultiples
  <1>6. Trim(S, fa) = S2 /\ N = M \ Pages(unmap_start(fa), unmap_end(fa))
    BY <1>3 DEF Trim
  <1>7. \A x : x \in Held(Given(N)) <=>
                 /\ x \in Held(Given(M))
                 /\ \/ x \in Nat /\ StaticBase <= x /\ x < StaticBase + 256
                    \/ x \notin gone
    BY Unmapping DEF Ledger
  <1> HIDE DEF us, ue, S1, S2, N
  <1>8. Held(S) = Held(S \ {fa}) \cup Bytes(fa)
    BY DEF Held
  <1>9. Held(S \ {fa}) \cap Bytes(fa) = {}
    <2> SUFFICES ASSUME NEW a \in S \ {fa}, NEW x \in Bytes(a), x \in Bytes(fa) PROVE FALSE
      BY DEF Held
    <2>1. a.mem \in Nat /\ a.size \in Nat
      BY DEF Ledger, GoodHeap, IsArea, Area
    <2>2. End(a) < fa.mem \/ End(fa) < a.mem
      BY DEF Ledger, GoodHeap
    <2> QED BY <2>1, <2>2, <1>1 DEF Bytes, End
  <1>10. Ledger(S \ {fa}, U \cup Bytes(fa), M)
    BY <1>8, <1>9 DEF Ledger, GoodHeap, Roomy
  <1>11. \A x : /\ x \in Bytes(fa) <=> x \in front \/ x \in gone \/ x \in tail
                /\ ~(x \in gone /\ (x \in front \/ x \in tail))
                /\ ~(x \in front /\ x \in tail)
    BY <1>1, <1>3, <1>4, <1>5 DEF Bytes
  <1>12. \A x \in gone : x \in Nat /\ ~(StaticBase <= x /\ x < StaticBase + 256)
    <2>1. Bytes(fa) \subseteq Held(Given(M))
      BY <1>8 DEF Ledger
    <2>2. \/ StaticBase <= fa.mem /\ End(fa) <= StaticBase + 256
          \/ StaticBase + 256 < fa.mem \/ End(fa) < StaticBase
      BY <2>1, <1>1, InOnePart DEF Ledger
    <2>3. fa.size > 256
      BY <1>1, PageFacts
    <2>4. StaticBase + 256 < fa.mem \/ End(fa) < StaticBase
      BY <2>2, <2>3, <1>1, PageFacts
    <2> QED BY <2>4, <1>1, <1>3, <1>4, <1>5, PageFacts
  <1>13. Ledger(S1, (U \cup Bytes(fa)) \ front, M)
    <2>1. front \subseteq U \cup Bytes(fa)
      BY <1>11
    <2>2. us <= fa.mem \/ us - fa.mem >= 24
      BY <1>1, <1>3, <1>4
    <2> QED BY <2>1, <2>2, <1>1, <1>4, <1>10, LedgerReturn DEF S1
  <1>14. Ledger(S2, ((U \cup Bytes(fa)) \ front) \ tail, M)
    <2>1. tail \subseteq (U \cup Bytes(fa)) \ front
      BY <1>11
    <2>2. End(fa) <= ue \/ End(fa) - ue >= 24
      BY <1>3, <1>4, <1>5
    <2> QED BY <2>1, <2>2, <1>4, <1>5, <1>13, LedgerReturn DEF S2
  <1>15. U \cap Bytes(fa) = {}
    BY <1>8 DEF Ledger
  <1> HIDE DEF front, tail, gone
  <1>16. ((U \cup Bytes(fa)) \ front) \ tail = U \cup gone
    BY <1>11, <1>15
  <1>17. Ledger(S2, U \cup gone, M)
    BY <1>14, <1>16
  <1>18. \A x : x \in Held(Given(N)) <=> x \in Held(Given(M)) /\ x \notin gone
    BY <1>7, <1>12
  <1>19. U \cap gone = {}
    BY <1>11, <1>15
  <1>20. Ledger(S2, U, N)
    <2>1. N \subseteq Arena
      BY DEF Ledger, N
    <2>2. Held(S2) \cap gone = {} /\ Held(S2) \cap U = {}
      BY <1>17 DEF Ledger
    <2>3. Held(S2) \cup U \cup gone = Held(Given(M))
      BY <1>17 DEF Ledger
    <2>4. Held(S2) \cup U = Held(Given(N))
      BY <2>2, <2>3, <1>18, <1>19
    <2> QED BY <2>1, <2>2, <2>4, <1>17 DEF Ledger
  <1> QED BY <1>6, <1>20

(* free_to_heap moves the bytes of a block in use to the list, or unmaps them. *)
LEMMA FreeToHeapKeepsLedger ==
    ASSUME NEW S, NEW U, NEW M, Ledger(S, U, M),
           NEW b, b.mem \in Nat, b.size \in Nat \ {0}, b.mem % 8 = 0, b.size % 8 = 0,
           Bytes(b) \subseteq U, Roomy({b})
    PROVE  LET after == free_to_heap(S, M, b)
           IN  Ledger(after.heap, U \ Bytes(b), after.pages)
  <1> DEFINE block == [mem |-> b.mem, size |-> b.size]
             r     == heap_free(S, b.mem, b.size)
             after == free_to_heap(S, M, b)
  <1>1. Bytes(block) = Bytes(b)
    BY DEF Bytes, End
  <1>2. Roomy({block})
    BY DEF Roomy
  <1>3. Ledger(r.heap, U \ Bytes(b), M) /\ r.area \in r.heap
    BY <1>1, <1>2, LedgerFree
  <1>4. r.area.size \in Nat /\ 8 * PageSize \in Nat
    BY <1>3, PageFacts DEF Ledger, GoodHeap, IsArea, Area
  <1>5. CASE r.area.size < 8 * PageSize
    <2>1. after.heap = r.heap /\ after.pages = M
      BY <1>5 DEF free_to_heap, MALLOC_UNMAP_THRESHOLD
    <2> QED BY <2>1, <1>3
  <1>6. CASE ~(r.area.size < 8 * PageSize)
    <2>1. /\ after.heap = Trim(r.heap, r.area)
          /\ after.pages = M \ Pages(unmap_start(r.area), unmap_end(r.area))
      BY <1>6 DEF free_to_heap, MALLOC_UNMAP_THRESHOLD
    <2>2. r.area.size >= 8 * PageSize
      BY <1>4, <1>6
    <2> HIDE DEF r, after
    <2>3. Ledger(Trim(r.heap, r.area), U \ Bytes(b), M \ Pages(unmap_start(r.area), unmap_end(r.area)))
      BY <2>2, <1>3, LedgerTrim
    <2>4. Ledger(after.heap, U \ Bytes(b), after.pages)
      BY <2>1, <2>3
    <2> QED BY <2>4 DEF after
  <1> QED BY <1>5, <1>6

(* realloc_grow takes the front of the area behind a block. *)
LEMMA LedgerAreaAlloc ==
    ASSUME NEW S, NEW U, NEW M, Ledger(S, U, M), NEW fa \in S,
           NEW size \in Nat \ {0}, size % 8 = 0, size <= fa.size
    PROVE  LET taken == Taken(fa, size)
               block == [mem |-> fa.mem, size |-> taken]
           IN  /\ taken \in Nat /\ taken % 8 = 0 /\ size <= taken
               /\ Bytes(block) \cap U = {}
               /\ Ledger(heap_free_area_alloc(S, fa, size), U \cup Bytes(block), M)
  <1> DEFINE taken == Taken(fa, size)
             block == [mem |-> fa.mem, size |-> taken]
             left  == heap_free_area_alloc(S, fa, size)
  <1>1. /\ taken \in Nat /\ taken % 8 = 0 /\ size <= taken
        /\ GoodHeap(left)
        /\ Bytes(block) \subseteq Held(S)
        /\ Held(left) = Held(S) \ Bytes(block)
        /\ \A a \in left : a \in S \/ 56 <= a.size
    BY AreaAlloc DEF Ledger
  <1> HIDE DEF taken, block, left
  <1>2. \A a \in left : a.size \in Nat
    BY <1>1 DEF GoodHeap, IsArea, Area
  <1>3. Roomy(left)
    BY <1>1, <1>2, SizesOf64Bit DEF Ledger, Roomy
  <1>4. Ledger(left, U \cup Bytes(block), M) /\ Bytes(block) \cap U = {}
    BY <1>1, <1>3 DEF Ledger
  <1> QED BY <1>1, <1>4 DEF taken, block, left

(* The address memalign chooses in the block it got. *)
LEMMA AlignedAddrFacts ==
    ASSUME NEW tot \in Nat, tot % 8 = 0, NEW a \in Nat, a >= 8, a % 8 = 0
    PROVE  LET addr == AlignedAddr(tot, a)
           IN  /\ addr \in Nat /\ addr % 8 = 0 /\ addr % a = 0
               /\ tot <= addr /\ addr <= tot + 2 * a
               /\ addr = tot \/ addr - tot >= 24
  <1> DEFINE addr == AlignedAddr(tot, a)
             up   == RoundUp(tot, a)
             far  == RoundUp(tot + 24, a)
  <1>1. ASSUME NEW x \in Nat
        PROVE  /\ RoundUp(x, a) \in Nat /\ RoundUp(x, a) % 8 = 0 /\ RoundUp(x, a) % a = 0
               /\ x <= RoundUp(x, a) /\ RoundUp(x, a) < x + a
    <2>0. a \in Nat \ {0}
      OBVIOUS
    <2>1. PICK k \in Nat : RoundUp(x, a) = k * a
      BY <2>0, Rounding
    <2>2. (k * a) % 8 = 0 /\ k * a \in Nat
      BY <2>0, MultOfEight
    <2>3. (k * a) % a = 0
      <3>1. k * a = a * k + 0 /\ 0 \in 0 .. a - 1
        BY <2>0
      <3> QED BY <2>0, <2>2, <3>1, DivUnique
    <2>4. RoundUp(x, a) \in Nat /\ x <= RoundUp(x, a) /\ RoundUp(x, a) < x + a
      BY <2>0, Rounding
    <2> QED BY <2>1, <2>2, <2>3, <2>4
  <1>2. /\ up \in Nat /\ up % 8 = 0 /\ up % a = 0 /\ tot <= up /\ up < tot + a
        /\ far \in Nat /\ far % 8 = 0 /\ far % a = 0
        /\ tot + 24 <= far /\ far < (tot + 24) + a
    <2>1. tot + 24 \in Nat
      OBVIOUS
    <2> QED BY <1>1, <2>1
  <1>3. addr = IF up # tot /\ up - tot < 24 THEN far ELSE up
    BY SizesOf64Bit DEF AlignedAddr
  <1> HIDE DEF addr, up, far
  <1>4. CASE up # tot /\ up - tot < 24
    <2>1. a >= 16
      BY <1>2, <1>4
    <2>2. far <= tot + 2 * a
      BY <1>2, <2>1
    <2>3. addr = far
      BY <1>3, <1>4
    <2>4. /\ addr \in Nat /\ addr % 8 = 0 /\ addr % a = 0
          /\ tot <= addr /\ addr <= tot + 2 * a
          /\ addr = tot \/ addr - tot >= 24
      BY <1>2, <2>2, <2>3
    <2> QED BY <2>4 DEF addr
  <1>5. CASE ~(up # tot /\ up - tot < 24)
    <2>1. addr = up
      BY <1>3, <1>5
    <2>2. /\ addr \in Nat /\ addr % 8 = 0 /\ addr % a = 0
          /\ tot <= addr /\ addr <= tot + 2 * a
          /\ addr = tot \/ addr - tot >= 24
      BY <1>2, <1>5, <2>1
    <2> QED BY <2>2 DEF addr
  <1> QED BY <1>4, <1>5

(***************************************************************************)
(* memalign keeps a block with the aligned address and the bytes behind it *)
(* that were asked for, and gives the rest of the block it got back.       *)
(***************************************************************************)
Alignable(got, U, M, a, size) ==
    /\ Ledger(got.heap, U \cup Bytes(got.block), M)
    /\ IsArea(got.block) /\ Bytes(got.block) \cap U = {}
    /\ a \in Nat /\ a >= 8 /\ a % 8 = 0 /\ size \in Nat /\ size % 8 = 0
    /\ 8 + size + 2 * a <= got.block.size

(* What it makes of it: an aligned block, and books that still balance. *)
AlignedWell(r, U, M, a, size) ==
    /\ IsArea(r.block) /\ 8 + size <= r.block.size
    /\ (r.block.mem + 8) % a = 0
    /\ Bytes(r.block) \cap U = {}
    /\ Ledger(r.heap, U \cup Bytes(r.block), M)

(* memalign gives back what is in front of the aligned block and behind it, and all of that. *)
LEMMA AlignedKeepsLedger ==
    ASSUME NEW U, NEW M, NEW got, NEW a, NEW size, Alignable(got, U, M, a, size),
           NEW r, r = Aligned(got, a, size)
    PROVE  AlignedWell(r, U, M, a, size)
  <1> USE DEF Alignable
  <1> DEFINE block == got.block
             addr  == AlignedAddr(Addr(block), a)
             base  == addr - 8
             tot   == End(block)
             end   == IF addr + size + 40 < tot THEN addr + size ELSE tot
             kept  == [mem |-> base, size |-> end - base]
             front == block.mem .. base - 1
             tail  == end .. tot - 1
             F1    == Return(got.heap, block.mem, base)
             F2    == Return(F1, end, tot)
  <1>1. /\ block.mem \in Nat /\ block.size \in Nat
        /\ block.mem % 8 = 0 /\ block.size % 8 = 0
        /\ tot = block.mem + block.size /\ Addr(block) = block.mem + 8
    BY SizesOf64Bit DEF IsArea, Area, End, Addr, MALLOC_HEADER_SIZE
  <1>2. tot \in Nat /\ tot % 8 = 0 /\ Addr(block) \in Nat /\ Addr(block) % 8 = 0
    BY <1>1
  <1>3. /\ addr \in Nat /\ addr % 8 = 0 /\ addr % a = 0
        /\ block.mem + 8 <= addr /\ addr <= (block.mem + 8) + 2 * a
        /\ addr = block.mem + 8 \/ addr - (block.mem + 8) >= 24
    BY <1>1, <1>2, AlignedAddrFacts
  <1>4. MALLOC_REALLOC_MIN_FREE_SIZE = 40 /\ MALLOC_HEADER_SIZE = 8
    BY SizesOf64Bit DEF MALLOC_REALLOC_MIN_FREE_SIZE, MALLOC_HEADER_SIZE
  <1>5. block.mem + (addr - Addr(block)) = base
    <2> HIDE DEF addr
    <2> QED BY <1>1, <1>3
  <1>6. r.block = kept /\ r.heap = F2
    BY <1>4, <1>5 DEF Aligned, Extent
  <1> HIDE DEF addr, tot, F1, F2
  <1>7. /\ base \in Nat /\ base % 8 = 0 /\ base + 8 = addr
        /\ block.mem <= base /\ (base = block.mem \/ base - block.mem >= 24)
        /\ addr + size <= tot
    <2> DEFINE bm == block.mem
               bs == block.size
    <2>1. bm \in Nat /\ bs \in Nat /\ tot = bm + bs /\ 8 + size + 2 * a <= bs
      BY <1>1
    <2>2. /\ addr \in Nat /\ addr % 8 = 0
          /\ bm + 8 <= addr /\ addr <= (bm + 8) + 2 * a
          /\ addr = bm + 8 \/ addr - (bm + 8) >= 24
      BY <1>3
    <2> HIDE DEF bm, bs
    <2>3. /\ base \in Nat /\ base % 8 = 0 /\ base + 8 = addr
          /\ bm <= base /\ (base = bm \/ base - bm >= 24)
      <3>1. base \in Nat /\ base + 8 = addr /\ bm <= base
        BY <2>1, <2>2
      <3>2. base = bm \/ base - bm >= 24
        BY <2>1, <2>2
      <3>3. (addr - 8) % 8 = 0
        BY <2>1, <2>2
      <3> QED BY <3>1, <3>2, <3>3
    <2>4. addr + size <= tot
      BY <2>1, <2>2
    <2> QED BY <2>3, <2>4 DEF bm
  <1>8. /\ end \in Nat /\ end % 8 = 0 /\ addr + size <= end /\ end <= tot
        /\ end = tot \/ tot - end >= 24
    BY <1>2, <1>3, <1>7
  <1> HIDE DEF base, end
  <1>9. end - base \in Nat \ {0} /\ (end - base) % 8 = 0 /\ 8 + size <= end - base /\ base + (end - base) = end
    BY <1>7, <1>8
  <1>10. /\ IsArea(kept) /\ kept.mem = base /\ kept.size = end - base
         /\ \A x : x \in Bytes(kept) <=> x \in Nat /\ base <= x /\ x < end
    <2> DEFINE size2 == end - base
    <2>1. size2 \in Nat \ {0} /\ size2 % 8 = 0 /\ base + size2 = end
      BY <1>9
    <2> HIDE DEF size2
    <2>2. LET k == [mem |-> base, size |-> size2]
          IN  /\ IsArea(k) /\ k.mem = base /\ k.size = size2
              /\ \A x : x \in Bytes(k) <=> x \in Nat /\ base <= x /\ x < end
      BY <2>1, <1>7, AreaFacts
    <2> QED BY <2>2 DEF size2
  <1>11. \A x : x \in Bytes(block) <=> x \in Nat /\ block.mem <= x /\ x < tot
    BY <1>1, ByteOf DEF tot
  <1>12. \A x : /\ x \in Bytes(block) <=> x \in front \/ x \in Bytes(kept) \/ x \in tail
                /\ ~(x \in Bytes(kept) /\ (x \in front \/ x \in tail))
                /\ ~(x \in front /\ x \in tail)
    <2> DEFINE bm == block.mem
    <2>1. bm \in Nat /\ bm <= base /\ base <= end /\ end <= tot
      BY <1>1, <1>2, <1>3, <1>7, <1>8
    <2>2. \A x : x \in front <=> x \in Nat /\ bm <= x /\ x < base
      BY <2>1, <1>7
    <2>3. \A x : x \in tail <=> x \in Nat /\ end <= x /\ x < tot
      BY <2>1, <1>2, <1>8
    <2> HIDE DEF front, tail, kept, bm
    <2>4. \A x : x \in Bytes(block) <=> x \in Nat /\ bm <= x /\ x < tot
      BY <1>11 DEF bm
    <2> QED BY <2>1, <2>2, <2>3, <2>4, <1>2, <1>7, <1>8, <1>10
  <1>13. Ledger(F1, (U \cup Bytes(block)) \ front, M)
    <2>1. front \subseteq U \cup Bytes(block)
      BY <1>12
    <2>2. base <= block.mem \/ base - block.mem >= 24
      BY <1>1, <1>7
    <2> QED BY <2>1, <2>2, <1>1, <1>7, LedgerReturn DEF F1
  <1>14. Ledger(F2, ((U \cup Bytes(block)) \ front) \ tail, M)
    <2>1. tail \subseteq (U \cup Bytes(block)) \ front
      BY <1>12
    <2>2. tot <= end \/ tot - end >= 24
      BY <1>2, <1>8
    <2> QED BY <2>1, <2>2, <1>2, <1>8, <1>13, LedgerReturn DEF F2
  <1> HIDE DEF front, tail, kept
  <1>15. ((U \cup Bytes(block)) \ front) \ tail = U \cup Bytes(kept) /\ Bytes(kept) \cap U = {}
    BY <1>12
  <1>16. (kept.mem + 8) % a = 0 /\ 8 + size <= kept.size
    BY <1>3, <1>7, <1>9, <1>10
  <1> QED BY <1>6, <1>10, <1>14, <1>15, <1>16 DEF AlignedWell

-----------------------------------------------------------------------------
(***************************************************************************)
(* The inductive invariant.  Every block is what its caller was promised,  *)
(* blocks share no byte, and the ledger holds with the blocks' bytes in    *)
(* use.  NoOverlap and Conservation are not inductive: that a block given  *)
(* back touches no free area, and that a trimmed area is on whole mapped   *)
(* pages, both need the other.                                             *)
(***************************************************************************)
BlockOK(b) ==
    /\ b \in [mem : Nat, size : Nat \ {0}, need : Nat, align : Nat \ {0}]
    /\ b.mem % 8 = 0 /\ b.size % 8 = 0
    /\ 8 + b.need <= b.size
    /\ (b.mem + 8) % b.align = 0

Blocks(L) ==
    /\ \A b \in L : BlockOK(b)
    /\ \A b, c \in L : b # c => Bytes(b) \cap Bytes(c) = {}
    /\ Roomy(L)

Balanced(F, L, M) == Blocks(L) /\ Ledger(F, Held(L), M)

MallocInv == Balanced(free, live, mapped)

(* A step gives one block, takes one back, does both, or neither. *)
CallStep(L, K) ==
    \/ K = L
    \/ \E c \in K : c \notin L /\ K = L \cup {c}
    \/ \E b \in L : K = L \ {b}
    \/ \E b \in L, c \in K : K = (L \ {b}) \cup {c}

(* The bytes of a caller's block. *)
LEMMA BlockFacts ==
    ASSUME NEW b, BlockOK(b)
    PROVE  /\ b.mem \in Nat /\ b.size \in Nat \ {0} /\ b.need \in Nat /\ b.align \in Nat \ {0}
           /\ b.mem \in Bytes(b)
           /\ End(b) = b.mem + b.size /\ End(b) \in Nat
           /\ \A x : x \in Bytes(b) <=> x \in Nat /\ b.mem <= x /\ x < End(b)
  BY DEF BlockOK, Bytes, End

(* Taking a block back leaves the bytes of the others. *)
LEMMA DropBlock ==
    ASSUME NEW L, Blocks(L), NEW b \in L
    PROVE  /\ Blocks(L \ {b})
           /\ Bytes(b) \subseteq Held(L)
           /\ Held(L \ {b}) = Held(L) \ Bytes(b)
           /\ Roomy({b})
  <1>1. Blocks(L \ {b}) /\ Roomy({b})
    BY DEF Blocks, Roomy
  <1>2. Held(L) = Held(L \ {b}) \cup Bytes(b)
    BY DEF Held
  <1>3. Held(L \ {b}) \cap Bytes(b) = {}
    BY DEF Held, Blocks
  <1> QED BY <1>1, <1>2, <1>3

(* A block that shares no byte with the others is a new one. *)
LEMMA AddBlock ==
    ASSUME NEW L, Blocks(L), NEW c, BlockOK(c), Roomy({c}), Bytes(c) \cap Held(L) = {}
    PROVE  /\ Blocks(L \cup {c})
           /\ Held(L \cup {c}) = Held(L) \cup Bytes(c)
           /\ c \notin L
  <1>1. Held(L \cup {c}) = Held(L) \cup Bytes(c)
    BY DEF Held
  <1>2. \A b \in L : Bytes(b) \cap Bytes(c) = {}
    BY DEF Held
  <1>3. Blocks(L \cup {c})
    BY <1>2 DEF Blocks, Roomy
  <1>4. c \notin L
    BY <1>2, BlockFacts
  <1> QED BY <1>1, <1>3, <1>4

(* A block the callers get in addition. *)
LEMMA GiveBlock ==
    ASSUME NEW F, NEW L, NEW M, NEW c, Blocks(L), BlockOK(c), Roomy({c}),
           Bytes(c) \cap Held(L) = {}, Ledger(F, Held(L) \cup Bytes(c), M)
    PROVE  Balanced(F, L \cup {c}, M) /\ CallStep(L, L \cup {c})
  <1>1. Blocks(L \cup {c}) /\ Held(L \cup {c}) = Held(L) \cup Bytes(c) /\ c \notin L
    BY AddBlock
  <1> QED BY <1>1 DEF Balanced, CallStep

(* A block the callers get in place of another. *)
LEMMA ReplaceBlock ==
    ASSUME NEW F, NEW L, NEW M, NEW b \in L, NEW c, Blocks(L), BlockOK(c), Roomy({c}),
           Bytes(c) \cap Held(L \ {b}) = {}, Ledger(F, Held(L \ {b}) \cup Bytes(c), M)
    PROVE  Balanced(F, (L \ {b}) \cup {c}, M) /\ CallStep(L, (L \ {b}) \cup {c})
  <1>1. Blocks(L \ {b})
    BY DropBlock
  <1>2. /\ Blocks((L \ {b}) \cup {c})
        /\ Held((L \ {b}) \cup {c}) = Held(L \ {b}) \cup Bytes(c)
    BY <1>1, AddBlock
  <1> QED BY <1>2 DEF Balanced, CallStep

(* A block as it comes from __heap_alloc, in the hands of its caller. *)
LEMMA OwnedFacts ==
    ASSUME NEW block, IsArea(block), NEW need \in Nat, NEW align \in Nat \ {0},
           8 + need <= block.size, (block.mem + 8) % align = 0
    PROVE  LET c == Owned(block, need, align)
           IN  BlockOK(c) /\ Bytes(c) = Bytes(block) /\ c.size = block.size
  <1>1. /\ block.mem \in Nat /\ block.size \in Nat \ {0}
        /\ block.mem % 8 = 0 /\ block.size % 8 = 0
    BY SizesOf64Bit DEF IsArea, Area
  <1> QED BY <1>1 DEF Owned, BlockOK, Bytes, End

(* The alignments malloc promises, up to that of the granularity. *)
LEMMA AlignedToEight ==
    ASSUME NEW mem \in Nat, mem % 8 = 0
    PROVE  /\ (mem + 8) % 1 = 0 /\ (mem + 8) % 2 = 0 /\ (mem + 8) % 4 = 0
           /\ (mem + 8) % 8 = 0
  OBVIOUS

(* malloc_from_heap: a block of at least size bytes behind the header. *)
LEMMA FromHeap ==
    ASSUME MallocInv, NEW size \in Nat, NEW src \in Sources(size)
    PROVE  LET got == malloc_from_heap(size, src.heap)
           IN  /\ IsArea(got.block)
               /\ 8 + size <= got.block.size /\ 24 <= got.block.size
               /\ Bytes(got.block) \cap Held(live) = {}
               /\ Ledger(got.heap, Held(live) \cup Bytes(got.block), src.pages)
  <1> DEFINE got == malloc_from_heap(size, src.heap)
  <1>1. Ledger(src.heap, Held(live), src.pages) /\ Fitting(src.heap, size + 8) # {}
    BY SourcesKeepLedger DEF MallocInv, Balanced
  <1>2. got = heap_alloc(src.heap, size + 8) /\ size + 8 \in Nat
    BY DEF malloc_from_heap, MALLOC_HEADER_SIZE
  <1> HIDE DEF got
  <1>3. /\ IsArea(got.block) /\ AllocSize(size + 8) <= got.block.size
        /\ Bytes(got.block) \cap Held(live) = {}
        /\ Ledger(got.heap, Held(live) \cup Bytes(got.block), src.pages)
    BY <1>1, <1>2, LedgerAlloc
  <1>4. 8 + size <= got.block.size /\ 24 <= got.block.size
    <2>1. size + 8 <= AllocSize(size + 8) /\ 24 <= AllocSize(size + 8) /\ AllocSize(size + 8) \in Nat
      BY <1>2, AllocSizeFacts
    <2>2. got.block.size \in Nat
      BY <1>3 DEF IsArea, Area
    <2> QED BY <2>1, <2>2, <1>3
  <1> QED BY <1>3, <1>4 DEF got

(* One lemma for each call: it keeps the invariant and is a step the callers expect. *)
Kept == MallocInv' /\ CallStep(live, live')

(* A call that fails changes nothing. *)
LEMMA UnchangedKeeps ==
    ASSUME MallocInv, UNCHANGED <<free, live, mapped>>
    PROVE  Kept
  BY DEF Kept, MallocInv, Balanced, CallStep

(* malloc: from the free list, from new pages, or not at all. *)
LEMMA ServeKeeps ==
    ASSUME MallocInv, NEW size \in Nat, NEW need \in Nat, need <= size, Serve(size, need)
    PROVE  Kept
  <1>1. CASE mmap_fails(size)
    BY <1>1, UnchangedKeeps DEF mmap_fails
  <1>2. CASE \E src \in Sources(size) :
               LET got == malloc_from_heap(size, src.heap) IN
               /\ free' = got.heap
               /\ mapped' = src.pages
               /\ live' = live \cup {Owned(got.block, need, MALLOC_ALIGNMENT)}
    <2>1. PICK src \in Sources(size) :
               LET got == malloc_from_heap(size, src.heap) IN
               /\ free' = got.heap
               /\ mapped' = src.pages
               /\ live' = live \cup {Owned(got.block, need, MALLOC_ALIGNMENT)}
      BY <1>2
    <2> DEFINE got == malloc_from_heap(size, src.heap)
               c   == Owned(got.block, need, 8)
    <2>2. free' = got.heap /\ mapped' = src.pages /\ live' = live \cup {c}
      BY <2>1 DEF MALLOC_ALIGNMENT
    <2>3. /\ IsArea(got.block)
          /\ 8 + size <= got.block.size /\ 24 <= got.block.size
          /\ Bytes(got.block) \cap Held(live) = {}
          /\ Ledger(got.heap, Held(live) \cup Bytes(got.block), src.pages)
      BY FromHeap
    <2> HIDE DEF got
    <2>4. BlockOK(c) /\ Bytes(c) = Bytes(got.block) /\ c.size = got.block.size
      <3>1. got.block.mem \in Nat /\ got.block.size \in Nat /\ got.block.mem % 8 = 0
        BY <2>3, SizesOf64Bit DEF IsArea, Area
      <3>2. 8 + need <= got.block.size /\ (got.block.mem + 8) % 8 = 0
        BY <2>3, <3>1
      <3> QED BY <2>3, <3>2, OwnedFacts
    <2> HIDE DEF c
    <2>5. Roomy({c})
      BY <2>3, <2>4, SizesOf64Bit DEF Roomy
    <2>6. Balanced(got.heap, live \cup {c}, src.pages) /\ CallStep(live, live \cup {c})
      BY <2>3, <2>4, <2>5, GiveBlock DEF MallocInv, Balanced
    <2> QED BY <2>2, <2>6 DEF Kept, MallocInv
  <1> QED BY <1>1, <1>2 DEF Serve

(* The division in calloc refuses exactly the products that would wrap. *)
LEMMA CallocFits ==
    ASSUME NEW nmemb \in Nat, NEW lsize \in Nat, NEW size \in Nat,
           nmemb # 0 => lsize = size \div nmemb
    PROVE  lsize * nmemb \in Nat /\ lsize * nmemb <= size
  <1>1. CASE nmemb = 0
    BY <1>1
  <1>2. CASE nmemb # 0
    <2>1. nmemb \in Nat \ {0} /\ lsize = size \div nmemb
      BY <1>2
    <2>2. size = nmemb * lsize + (size % nmemb) /\ size % nmemb \in 0 .. nmemb - 1
      BY <2>1, DivFacts
    <2> DEFINE p == lsize * nmemb
               r == size % nmemb
    <2>3. p \in Nat /\ nmemb * lsize = p
      OBVIOUS
    <2>4. r \in Nat /\ size = p + r
      BY <2>1, <2>2, <2>3
    <2> HIDE DEF p, r
    <2>5. p <= size
      BY <2>3, <2>4
    <2> QED BY <2>3, <2>5 DEF p
  <1> QED BY <1>1, <1>2

(* calloc: malloc with a product that wraps, promising no more than was allocated. *)
LEMMA CallocKeeps ==
    ASSUME MallocInv, NEW nmemb \in 0 .. Word - 1, NEW lsize \in 0 .. Word - 1,
           calloc(nmemb, lsize)
    PROVE  Kept
  <1> DEFINE size == (lsize * nmemb) % Word
  <1>1. size \in Nat
    <2>1. Word \in Nat \ {0} /\ lsize * nmemb \in Nat
      BY MallocAssumption
    <2> QED BY <2>1, DivFacts
  <1>2. (nmemb # 0 => lsize = size \div nmemb) /\ Serve(size, lsize * nmemb)
    BY DEF calloc
  <1> HIDE DEF size
  <1>3. nmemb \in Nat /\ lsize \in Nat
    BY MallocAssumption
  <1>4. lsize * nmemb \in Nat /\ lsize * nmemb <= size
    BY <1>1, <1>2, <1>3, CallocFits
  <1> QED BY <1>1, <1>2, <1>4, ServeKeeps

(* free, with the trimming of the area the block has become part of. *)
LEMMA FreeKeeps ==
    ASSUME MallocInv, NEW b \in live, free_block(b)
    PROVE  Kept
  <1> DEFINE after == free_to_heap(free, mapped, b)
  <1>1. /\ Blocks(live \ {b})
        /\ Bytes(b) \subseteq Held(live)
        /\ Held(live \ {b}) = Held(live) \ Bytes(b)
        /\ Roomy({b})
    BY DropBlock DEF MallocInv, Balanced
  <1>2. b.mem \in Nat /\ b.size \in Nat \ {0} /\ b.mem % 8 = 0 /\ b.size % 8 = 0
    BY DEF MallocInv, Balanced, Blocks, BlockOK
  <1>3. Ledger(after.heap, Held(live) \ Bytes(b), after.pages)
    BY <1>1, <1>2, FreeToHeapKeepsLedger DEF MallocInv, Balanced
  <1>4. free' = after.heap /\ mapped' = after.pages /\ live' = live \ {b}
    BY DEF free_block
  <1> HIDE DEF after
  <1>5. Balanced(free', live', mapped')
    BY <1>1, <1>3, <1>4 DEF Balanced
  <1> QED BY <1>4, <1>5 DEF Kept, MallocInv, CallStep

(* The size realloc looks for. *)
LEMMA ReallocSizeFacts ==
    ASSUME NEW new_size \in Nat
    PROVE  /\ ReallocSize(new_size) \in Nat /\ ReallocSize(new_size) % 8 = 0
           /\ 8 + new_size <= ReallocSize(new_size) /\ 24 <= ReallocSize(new_size)
  <1>1. new_size + 8 \in Nat /\ ReallocSize(new_size) = AllocSize(new_size + 8)
    BY DEF ReallocSize, MALLOC_HEADER_SIZE
  <1> QED BY <1>1, AllocSizeFacts

(* A block of another size in the place of b. *)
LEMMA ResizedFacts ==
    ASSUME NEW b, BlockOK(b), NEW size \in Nat \ {0}, size % 8 = 0,
           NEW need \in Nat, 8 + need <= size
    PROVE  LET c == Resized(b, size, need)
           IN  /\ BlockOK(c) /\ c.size = size
               /\ \A x : x \in Bytes(c) <=> x \in Nat /\ b.mem <= x /\ x < b.mem + size
  <1> DEFINE c == Resized(b, size, need)
  <1>1. /\ c \in [mem : Nat, size : Nat \ {0}, need : Nat, align : Nat \ {0}]
        /\ c.mem = b.mem /\ c.size = size /\ c.need = need /\ c.align = 8
    <2>1. c = [[[b EXCEPT !.size = size] EXCEPT !.need = need] EXCEPT !.align = 8]
      BY DEF Resized, MALLOC_ALIGNMENT
    <2>2. b \in [mem : Nat, size : Nat \ {0}, need : Nat, align : Nat \ {0}]
      BY DEF BlockOK
    <2> DEFINE T  == [mem : Nat, size : Nat \ {0}, need : Nat, align : Nat \ {0}]
               b1 == [b EXCEPT !.size = size]
               b2 == [b1 EXCEPT !.need = need]
    <2>3. b1 \in T /\ b1.mem = b.mem /\ b1.size = size
      BY <2>2
    <2> HIDE DEF c, b1
    <2>4. b2 \in T /\ b2.mem = b.mem /\ b2.size = size /\ b2.need = need
      BY <2>3
    <2> HIDE DEF b2
    <2>5. c = [b2 EXCEPT !.align = 8]
      BY <2>1 DEF b1, b2
    <2> QED BY <2>4, <2>5
  <1>2. b.mem \in Nat /\ b.mem % 8 = 0
    BY DEF BlockOK
  <1> HIDE DEF c
  <1>3. (b.mem + 8) % 8 = 0
    BY <1>2
  <1>4. BlockOK(c)
    BY <1>1, <1>2, <1>3 DEF BlockOK
  <1>5. \A x : x \in Bytes(c) <=> x \in Nat /\ b.mem <= x /\ x < b.mem + size
    BY <1>1, <1>2, <1>4, BlockFacts
  <1> QED BY <1>1, <1>4, <1>5 DEF c

(* realloc, when the free area behind the block has room for the rest. *)
LEMMA ReallocGrowKeeps ==
    ASSUME MallocInv, NEW b \in live, NEW new_size \in Nat, realloc_grow(b, new_size)
    PROVE  Kept
  <1> DEFINE want  == ReallocSize(new_size)
             short == want - b.size
             extra == HEAP_ADJUST_SIZE(short)
  <1>1. /\ BlockOK(b) /\ b.mem \in Nat /\ b.size \in Nat \ {0}
        /\ b.size % 8 = 0 /\ b.mem % 8 = 0
    BY DEF MallocInv, Balanced, Blocks, BlockOK
  <1>2. want \in Nat /\ want > b.size /\ 8 + new_size <= want /\ 24 <= want
    BY ReallocSizeFacts DEF realloc_grow
  <1>3. PICK fa \in Growth(b, new_size) :
          /\ free' = heap_free_area_alloc(free, fa, extra)
          /\ live' = (live \ {b}) \cup {Resized(b, b.size + Taken(fa, extra), new_size)}
    BY DEF realloc_grow
  <1>4. fa \in free /\ fa.mem = End(b) /\ fa.size >= extra
    BY <1>3 DEF Growth, AreasAt
  <1> HIDE DEF want
  <1>5. short \in Nat \ {0} /\ want = b.size + short
    BY <1>1, <1>2
  <1> HIDE DEF short
  <1>6. extra \in Nat \ {0} /\ extra % 8 = 0 /\ short <= extra
    BY <1>5, AdjustSize
  <1> HIDE DEF extra
  <1> DEFINE taken == Taken(fa, extra)
             block == [mem |-> fa.mem, size |-> taken]
             left  == heap_free_area_alloc(free, fa, extra)
             c     == Resized(b, b.size + taken, new_size)
  <1>7. extra <= fa.size
    <2>1. fa.size \in Nat
      BY <1>4 DEF MallocInv, Balanced, Ledger, GoodHeap, IsArea, Area
    <2> QED BY <1>4, <1>6, <2>1
  <1>8. /\ taken \in Nat /\ taken % 8 = 0 /\ extra <= taken
        /\ Bytes(block) \cap Held(live) = {}
        /\ Ledger(left, Held(live) \cup Bytes(block), mapped)
    BY <1>4, <1>6, <1>7, LedgerAreaAlloc DEF MallocInv, Balanced
  <1>9. free' = left /\ live' = (live \ {b}) \cup {c} /\ mapped' = mapped
    BY <1>3 DEF realloc_grow
  <1> HIDE DEF taken, left
  <1>10. b.size + taken \in Nat \ {0} /\ (b.size + taken) % 8 = 0 /\ 8 + new_size <= b.size + taken
    BY <1>1, <1>2, <1>5, <1>6, <1>8
  <1>11. /\ BlockOK(c) /\ c.size = b.size + taken
         /\ \A x : x \in Bytes(c) <=> x \in Nat /\ b.mem <= x /\ x < b.mem + (b.size + taken)
    BY <1>1, <1>10, ResizedFacts
  <1>12. \A x : x \in Bytes(block) <=> x \in Nat /\ b.mem + b.size <= x /\ x < b.mem + (b.size + taken)
    <2>1. block.mem = b.mem + b.size /\ block.size = taken
      BY <1>4 DEF End
    <2> HIDE DEF block
    <2> QED BY <2>1, <1>1, <1>8 DEF Bytes, End
  <1> HIDE DEF block, c
  <1>13. Bytes(c) = Bytes(b) \cup Bytes(block)
    <2>1. \A x : x \in Bytes(b) <=> x \in Nat /\ b.mem <= x /\ x < b.mem + b.size
      BY <1>1, BlockFacts
    <2> DEFINE m == b.mem
               s == b.size
    <2>2. m \in Nat /\ s \in Nat /\ taken \in Nat
      BY <1>1, <1>8
    <2>3. /\ \A x : x \in Bytes(b) <=> x \in Nat /\ m <= x /\ x < m + s
          /\ \A x : x \in Bytes(block) <=> x \in Nat /\ m + s <= x /\ x < m + (s + taken)
          /\ \A x : x \in Bytes(c) <=> x \in Nat /\ m <= x /\ x < m + (s + taken)
      BY <2>1, <1>11, <1>12
    <2> HIDE DEF m, s
    <2>4. \A x : x \in Bytes(c) <=> x \in Bytes(b) \/ x \in Bytes(block)
      BY <2>2, <2>3
    <2> QED BY <2>4
  <1>14. /\ Bytes(b) \subseteq Held(live)
         /\ Held(live \ {b}) = Held(live) \ Bytes(b)
    BY DropBlock DEF MallocInv, Balanced
  <1>15. /\ Bytes(c) \cap Held(live \ {b}) = {}
         /\ Held(live \ {b}) \cup Bytes(c) = Held(live) \cup Bytes(block)
    BY <1>8, <1>13, <1>14
  <1>16. Roomy({c})
    <2>1. 24 <= c.size
      BY <1>1, <1>2, <1>5, <1>6, <1>8, <1>11
    <2> QED BY <2>1, SizesOf64Bit DEF Roomy
  <1>17. Balanced(left, (live \ {b}) \cup {c}, mapped) /\ CallStep(live, (live \ {b}) \cup {c})
    BY <1>8, <1>11, <1>15, <1>16, ReplaceBlock DEF MallocInv, Balanced
  <1> QED BY <1>9, <1>17 DEF Kept, MallocInv

(* realloc, when the contents have to move. *)
LEMMA ReallocCopyKeeps ==
    ASSUME MallocInv, NEW b \in live, NEW new_size \in Nat, realloc_copy(b, new_size)
    PROVE  Kept
  <1> DEFINE size == ReallocSize(new_size) - MALLOC_HEADER_SIZE
  <1>1. size \in Nat /\ new_size <= size
    BY ReallocSizeFacts DEF MALLOC_HEADER_SIZE
  <1>2. CASE mmap_fails(size)
    BY <1>2, UnchangedKeeps DEF mmap_fails
  <1>3. CASE ~mmap_fails(size)
    <2>1. PICK src \in Sources(size) :
            LET got   == malloc_from_heap(size, src.heap)
                after == free_to_heap(got.heap, src.pages, b) IN
            /\ free' = after.heap
            /\ mapped' = after.pages
            /\ live' = (live \ {b}) \cup {Owned(got.block, new_size, MALLOC_ALIGNMENT)}
      BY <1>3 DEF realloc_copy
    <2> HIDE DEF size
    <2> DEFINE got   == malloc_from_heap(size, src.heap)
               after == free_to_heap(got.heap, src.pages, b)
               c     == Owned(got.block, new_size, 8)
    <2>2. free' = after.heap /\ mapped' = after.pages /\ live' = (live \ {b}) \cup {c}
      BY <2>1 DEF MALLOC_ALIGNMENT
    <2>3. /\ IsArea(got.block)
          /\ 8 + size <= got.block.size /\ 24 <= got.block.size
          /\ Bytes(got.block) \cap Held(live) = {}
          /\ Ledger(got.heap, Held(live) \cup Bytes(got.block), src.pages)
      BY <1>1, FromHeap
    <2> HIDE DEF got
    <2>4. BlockOK(c) /\ Bytes(c) = Bytes(got.block) /\ c.size = got.block.size
      <3>1. got.block.mem \in Nat /\ got.block.size \in Nat /\ got.block.mem % 8 = 0
        BY <2>3, SizesOf64Bit DEF IsArea, Area
      <3>2. 8 + new_size <= got.block.size /\ (got.block.mem + 8) % 8 = 0
        BY <1>1, <2>3, <3>1
      <3> QED BY <2>3, <3>2, OwnedFacts
    <2> HIDE DEF c
    <2>5. Roomy({c})
      BY <2>3, <2>4, SizesOf64Bit DEF Roomy
    <2>6. /\ Bytes(b) \subseteq Held(live)
          /\ Held(live \ {b}) = Held(live) \ Bytes(b)
          /\ Roomy({b})
      BY DropBlock DEF MallocInv, Balanced
    <2>7. b.mem \in Nat /\ b.size \in Nat \ {0} /\ b.mem % 8 = 0 /\ b.size % 8 = 0
      BY DEF MallocInv, Balanced, Blocks, BlockOK
    <2>8. Ledger(after.heap, (Held(live) \cup Bytes(got.block)) \ Bytes(b), after.pages)
      <3>1. Bytes(b) \subseteq Held(live) \cup Bytes(got.block)
        BY <2>6
      <3> QED BY <2>3, <2>6, <2>7, <3>1, FreeToHeapKeepsLedger
    <2> HIDE DEF after
    <2>9. /\ (Held(live) \cup Bytes(got.block)) \ Bytes(b) = Held(live \ {b}) \cup Bytes(c)
          /\ Bytes(c) \cap Held(live \ {b}) = {}
      BY <2>3, <2>4, <2>6
    <2>10. /\ Balanced(after.heap, (live \ {b}) \cup {c}, after.pages)
           /\ CallStep(live, (live \ {b}) \cup {c})
      <3>1. Blocks(live) /\ Ledger(after.heap, Held(live \ {b}) \cup Bytes(c), after.pages)
        BY <2>8, <2>9 DEF MallocInv, Balanced
      <3> QED BY <2>4, <2>5, <2>9, <3>1, ReplaceBlock
    <2> QED BY <2>2, <2>10 DEF Kept, MallocInv
  <1> QED BY <1>2, <1>3

(* realloc, when the block is large enough: its tail is freed if it can be. *)
LEMMA ReallocShrinkKeeps ==
    ASSUME MallocInv, NEW b \in live, NEW new_size \in Nat, realloc_shrink(b, new_size)
    PROVE  Kept
  <1> DEFINE size == ReallocSize(new_size)
  <1>1. /\ BlockOK(b) /\ b.mem \in Nat /\ b.size \in Nat \ {0}
        /\ b.size % 8 = 0 /\ b.mem % 8 = 0
    BY DEF MallocInv, Balanced, Blocks, BlockOK
  <1>2. /\ size \in Nat /\ size % 8 = 0 /\ size <= b.size
        /\ 8 + new_size <= size /\ 24 <= size
    BY ReallocSizeFacts DEF realloc_shrink
  <1>3. MALLOC_REALLOC_MIN_FREE_SIZE = 40 /\ mapped' = mapped
    BY SizesOf64Bit DEF MALLOC_REALLOC_MIN_FREE_SIZE, realloc_shrink
  <1>4. /\ Bytes(b) \subseteq Held(live)
        /\ Held(live \ {b}) = Held(live) \ Bytes(b)
    BY DropBlock DEF MallocInv, Balanced
  <1>5. \A x : x \in Bytes(b) <=> x \in Nat /\ b.mem <= x /\ x < b.mem + b.size
    BY <1>1, BlockFacts
  <1>6. CASE size + 40 <= b.size
    <2> DEFINE c    == Resized(b, size, new_size)
               mem  == b.mem + size
               rest == b.size - size
               r    == heap_free(free, mem, rest)
               gone == [mem |-> mem, size |-> rest]
    <2>1. free' = r.heap /\ live' = (live \ {b}) \cup {c}
      BY <1>3, <1>6 DEF realloc_shrink
    <2> HIDE DEF size, r
    <2>2. /\ mem \in Nat /\ mem % 8 = 0 /\ rest \in Nat \ {0} /\ rest % 8 = 0
          /\ 40 <= rest /\ mem + rest = b.mem + b.size
      BY <1>1, <1>2, <1>6
    <2>3. /\ BlockOK(c) /\ c.size = size
          /\ \A x : x \in Bytes(c) <=> x \in Nat /\ b.mem <= x /\ x < b.mem + size
      BY <1>1, <1>2, ResizedFacts
    <2> HIDE DEF c, rest
    <2>4. \A x : x \in Bytes(gone) <=> x \in Nat /\ b.mem + size <= x /\ x < b.mem + b.size
      <3> HIDE DEF mem
      <3>1. \A x : x \in Bytes(gone) <=> x \in Nat /\ mem <= x /\ x < b.mem + b.size
        BY <2>2, AreaFacts
      <3> QED BY <3>1 DEF mem
    <2>5. Roomy({gone})
      BY <2>2, SizesOf64Bit DEF Roomy
    <2>6. \A x : /\ x \in Bytes(b) <=> x \in Bytes(c) \/ x \in Bytes(gone)
                 /\ ~(x \in Bytes(c) /\ x \in Bytes(gone))
      <3> DEFINE m == b.mem
                 s == b.size
      <3>1. /\ m \in Nat /\ s \in Nat /\ size \in Nat /\ size <= s
            /\ \A x : x \in Bytes(b) <=> x \in Nat /\ m <= x /\ x < m + s
            /\ \A x : x \in Bytes(c) <=> x \in Nat /\ m <= x /\ x < m + size
            /\ \A x : x \in Bytes(gone) <=> x \in Nat /\ m + size <= x /\ x < m + s
        BY <1>1, <1>2, <1>5, <2>3, <2>4
      <3> HIDE DEF m, s, gone
      <3> QED BY <3>1
    <2>7. Ledger(r.heap, Held(live) \ Bytes(gone), mapped)
      <3>1. Bytes(gone) \subseteq Held(live)
        BY <2>6, <1>4
      <3> HIDE DEF mem
      <3> QED BY <3>1, <2>2, <2>5, LedgerFree DEF MallocInv, Balanced, r
    <2> HIDE DEF gone
    <2>8. /\ Held(live) \ Bytes(gone) = Held(live \ {b}) \cup Bytes(c)
          /\ Bytes(c) \cap Held(live \ {b}) = {}
      BY <2>6, <1>4
    <2>9. Roomy({c})
      BY <1>2, <2>3, SizesOf64Bit DEF Roomy
    <2>10. /\ Balanced(r.heap, (live \ {b}) \cup {c}, mapped)
           /\ CallStep(live, (live \ {b}) \cup {c})
      <3>1. Blocks(live) /\ Ledger(r.heap, Held(live \ {b}) \cup Bytes(c), mapped)
        BY <2>7, <2>8 DEF MallocInv, Balanced
      <3> QED BY <2>3, <2>8, <2>9, <3>1, ReplaceBlock
    <2> QED BY <2>1, <2>10, <1>3 DEF Kept, MallocInv
  <1>7. CASE ~(size + 40 <= b.size)
    <2> DEFINE c == Resized(b, b.size, new_size)
    <2>1. free' = free /\ live' = (live \ {b}) \cup {c}
      BY <1>3, <1>7 DEF realloc_shrink
    <2>2. 8 + new_size <= b.size /\ 24 <= b.size
      BY <1>1, <1>2
    <2>3. /\ BlockOK(c) /\ c.size = b.size
          /\ \A x : x \in Bytes(c) <=> x \in Nat /\ b.mem <= x /\ x < b.mem + b.size
      BY <1>1, <2>2, ResizedFacts
    <2> HIDE DEF c
    <2>4. Bytes(c) = Bytes(b)
      <3>1. \A x : x \in Bytes(c) <=> x \in Bytes(b)
        BY <1>5, <2>3
      <3> QED BY <3>1
    <2>5. Roomy({c})
      BY <2>2, <2>3, SizesOf64Bit DEF Roomy
    <2>6. Held(live \ {b}) \cup Bytes(c) = Held(live) /\ Bytes(c) \cap Held(live \ {b}) = {}
      BY <1>4, <2>4
    <2>7. /\ Balanced(free, (live \ {b}) \cup {c}, mapped)
          /\ CallStep(live, (live \ {b}) \cup {c})
      <3>1. Blocks(live) /\ Ledger(free, Held(live \ {b}) \cup Bytes(c), mapped)
        BY <2>6 DEF MallocInv, Balanced
      <3> QED BY <2>3, <2>5, <2>6, <3>1, ReplaceBlock
    <2> QED BY <2>1, <2>7, <1>3 DEF Kept, MallocInv
  <1> QED BY <1>6, <1>7

(* memalign, of a block large enough for any alignment. *)
LEMMA MemalignKeeps ==
    ASSUME MallocInv, NEW alignment \in Alignments, NEW size \in AlignedRequests,
           memalign(alignment, size)
    PROVE  Kept
  <1> DEFINE adjusted == HEAP_ADJUST_SIZE(size)
             total    == adjusted + 2 * alignment
  <1>1. /\ alignment \in Nat \ {0} /\ size \in Nat
        /\ alignment \in {1, 2, 4} \/ (alignment >= 8 /\ alignment % 8 = 0)
    BY MallocAssumption
  <1>2. adjusted \in Nat /\ adjusted % 8 = 0 /\ size <= adjusted
    BY <1>1, AdjustSize
  <1>3. total \in Nat
    BY <1>1, <1>2
  <1>4. CASE mmap_fails(total)
    BY <1>4, UnchangedKeeps DEF mmap_fails
  <1>5. CASE ~mmap_fails(total)
    <2>1. PICK src \in Sources(total) :
            LET got    == malloc_from_heap(total, src.heap)
                result == IF alignment < MALLOC_ALIGNMENT THEN got
                          ELSE Aligned(got, alignment, adjusted) IN
            /\ free' = result.heap
            /\ mapped' = src.pages
            /\ live' = live \cup {Owned(result.block, size, alignment)}
      BY <1>5 DEF memalign
    <2> DEFINE got    == malloc_from_heap(total, src.heap)
               result == IF alignment < 8 THEN got ELSE Aligned(got, alignment, adjusted)
               c      == Owned(result.block, size, alignment)
    <2>2. free' = result.heap /\ mapped' = src.pages /\ live' = live \cup {c}
      BY <2>1 DEF MALLOC_ALIGNMENT
    <2> HIDE DEF adjusted
    <2>3. /\ IsArea(got.block)
          /\ 8 + total <= got.block.size /\ 24 <= got.block.size
          /\ Bytes(got.block) \cap Held(live) = {}
          /\ Ledger(got.heap, Held(live) \cup Bytes(got.block), src.pages)
      BY <1>3, FromHeap
    <2> HIDE DEF got
    <2>4. got.block.size \in Nat /\ got.block.mem \in Nat /\ got.block.mem % 8 = 0
      BY <2>3, SizesOf64Bit DEF IsArea, Area
    <2>5. /\ IsArea(result.block) /\ 8 + adjusted <= result.block.size
          /\ (result.block.mem + 8) % alignment = 0
          /\ Bytes(result.block) \cap Held(live) = {}
          /\ Ledger(result.heap, Held(live) \cup Bytes(result.block), src.pages)
      <3>1. CASE alignment < 8
        <4>1. result = got /\ alignment \in {1, 2, 4}
          BY <3>1, <1>1
        <4>2. (got.block.mem + 8) % alignment = 0
          BY <2>4, <4>1, AlignedToEight
        <4>3. 8 + adjusted <= got.block.size
          BY <1>1, <1>2, <2>3, <2>4
        <4> QED BY <2>3, <4>1, <4>2, <4>3
      <3>2. CASE ~(alignment < 8)
        <4>1. result = Aligned(got, alignment, adjusted)
          BY <3>2
        <4>2. alignment \in Nat /\ alignment >= 8 /\ alignment % 8 = 0
          BY <3>2, <1>1
        <4>3. 8 + adjusted + 2 * alignment <= got.block.size
          BY <1>1, <1>2, <2>3, <2>4
        <4> HIDE DEF result
        <4>4. Alignable(got, Held(live), src.pages, alignment, adjusted)
          BY <1>2, <2>3, <4>2, <4>3 DEF Alignable
        <4>5. AlignedWell(result, Held(live), src.pages, alignment, adjusted)
          BY ONLY <4>1, <4>4, AlignedKeepsLedger
        <4> QED BY ONLY <4>5 DEF AlignedWell
      <3> QED BY <3>1, <3>2
    <2> HIDE DEF result
    <2>6. result.block.size \in Nat
      BY <2>5 DEF IsArea, Area
    <2>7. BlockOK(c) /\ Bytes(c) = Bytes(result.block) /\ c.size = result.block.size
      <3>1. 8 + size <= result.block.size
        BY <1>1, <1>2, <2>5, <2>6
      <3> QED BY <1>1, <2>5, <3>1, OwnedFacts
    <2> HIDE DEF c
    <2>8. Roomy({c})
      <3>1. size > 8 => 24 <= result.block.size
        BY <1>1, <1>2, <2>5, <2>6
      <3> QED BY <2>7, <3>1, SizesOf64Bit DEF Roomy
    <2>9. Balanced(result.heap, live \cup {c}, src.pages) /\ CallStep(live, live \cup {c})
      BY <2>5, <2>7, <2>8, GiveBlock DEF MallocInv, Balanced
    <2> QED BY <2>2, <2>9 DEF Kept, MallocInv
  <1> QED BY <1>4, <1>5

(* Every call, and every step of the specification. *)
LEMMA NextKeeps ==
    ASSUME MallocInv, [Next]_vars
    PROVE  Kept
  <1>1. Requests \subseteq Nat /\ Callocs \subseteq (0 .. Word - 1) \X (0 .. Word - 1)
    BY MallocAssumption
  <1>2. ASSUME NEW size \in Requests, malloc(size) PROVE Kept
    <2>1. size \in Nat /\ size <= size
      BY <1>1
    <2> QED BY <1>2, <2>1, ServeKeeps DEF malloc
  <1>3. ASSUME NEW c \in Callocs, calloc(c[1], c[2]) PROVE Kept
    BY <1>1, <1>3, CallocKeeps
  <1>4. ASSUME NEW b \in live, free_block(b) PROVE Kept
    BY <1>4, FreeKeeps
  <1>5. ASSUME NEW b \in live, NEW size \in Requests, realloc_grow(b, size) PROVE Kept
    BY <1>1, <1>5, ReallocGrowKeeps
  <1>6. ASSUME NEW b \in live, NEW size \in Requests, realloc_copy(b, size) PROVE Kept
    BY <1>1, <1>6, ReallocCopyKeeps
  <1>7. ASSUME NEW b \in live, NEW size \in Requests, realloc_shrink(b, size) PROVE Kept
    BY <1>1, <1>7, ReallocShrinkKeeps
  <1>8. ASSUME NEW alignment \in Alignments, NEW size \in AlignedRequests,
               memalign(alignment, size)
        PROVE  Kept
    BY <1>8, MemalignKeeps
  <1>9. CASE Dead
    BY <1>9, UnchangedKeeps DEF Dead, vars
  <1>10. CASE UNCHANGED vars
    BY <1>10, UnchangedKeeps DEF vars
  <1> QED BY <1>2, <1>3, <1>4, <1>5, <1>6, <1>7, <1>8, <1>9, <1>10 DEF Next

(* At first there is no page, no area and no block. *)
LEMMA InitBalanced == Init => MallocInv
  <1> SUFFICES ASSUME Init PROVE MallocInv
    OBVIOUS
  <1>1. free = {InitialArea} /\ live = {} /\ mapped = {}
    BY DEF Init
  <1>2. IsArea(InitialArea) /\ InitialArea.size = 256
    BY PageFacts, SizesOf64Bit DEF IsArea, Area
  <1>3. Held({}) = {} /\ Given({}) = {InitialArea}
    BY DEF Held, Given
  <1>4. Blocks({})
    BY DEF Blocks, Roomy
  <1>5. GoodHeap({InitialArea}) /\ Roomy({InitialArea})
    BY <1>2, SizesOf64Bit DEF GoodHeap, Roomy
  <1>6. Ledger({InitialArea}, {}, {})
    BY <1>3, <1>5 DEF Ledger
  <1> QED BY <1>1, <1>3, <1>4, <1>6 DEF MallocInv, Balanced

(* The allocator's books balance in every state it can reach. *)
THEOREM AlwaysBalanced == Spec => []MallocInv
  <1>1. MallocInv /\ [Next]_vars => MallocInv'
    BY NextKeeps DEF Kept
  <1> QED BY <1>1, InitBalanced, PTL DEF Spec

-----------------------------------------------------------------------------
(* An extent of given bytes is in memory, to the last page it touches. *)
LEMMA ExtentInMemory ==
    ASSUME mapped \in SUBSET Arena,
           NEW a, a.mem \in Nat, a.size \in Nat \ {0}, Bytes(a) \subseteq Held(Given(mapped))
    PROVE  InMemory(a)
  <1>1. End(a) \in Nat /\ End(a) = a.mem + a.size
    BY DEF End
  <1>2. \A x : x \in Bytes(a) <=> x \in Nat /\ a.mem <= x /\ x < End(a)
    BY ByteOf
  <1>3. CASE StaticBase <= a.mem /\ End(a) <= StaticBase + 256
    BY <1>3, PageFacts DEF InMemory
  <1>4. CASE StaticBase + 256 < a.mem \/ End(a) < StaticBase
    <2>1. PICK k \in Nat : RoundDown(a.mem, PageSize) = k * PageSize
      BY PageFacts, Rounding
    <2>2. PICK m \in Nat : RoundUp(End(a), PageSize) = m * PageSize
      BY <1>1, PageFacts, Rounding
    <2>3. /\ k * PageSize \in Nat /\ k * PageSize <= a.mem /\ a.mem < k * PageSize + PageSize
          /\ m * PageSize \in Nat /\ m * PageSize < End(a) + PageSize
      <3>1. k * PageSize \in Nat /\ m * PageSize \in Nat
        BY PageAddress
      <3>2. k * PageSize <= a.mem /\ a.mem < k * PageSize + PageSize
        BY <2>1, PageFacts, Rounding, ZenonT(30)
      <3>3. m * PageSize < End(a) + PageSize
        <4>1. RoundUp(End(a), PageSize) < End(a) + PageSize
          BY <1>1, PageFacts, Rounding
        <4> QED BY <2>2, <4>1
      <3> QED BY <3>1, <3>2, <3>3
    <2>4. (k * PageSize) \div PageSize = k /\ (m * PageSize) \div PageSize = m
      <3>1. ASSUME NEW j \in Nat PROVE (j * PageSize) \div PageSize = j
        <4>1. j * PageSize = PageSize * j + 0 /\ 0 \in 0 .. PageSize - 1
          BY PageFacts
        <4> QED BY <4>1, PageFacts, PageAddress, DivUnique
      <3> QED BY <3>1
    <2>5. ASSUME NEW n \in k .. m - 1 PROVE n \in mapped
      <3>1. n \in Nat /\ k <= n /\ n + 1 <= m
        OBVIOUS
      <3>2. PICK x \in Bytes(a) : n * PageSize <= x /\ x < n * PageSize + PageSize
        <4>1. CASE n = k
          <5>1. a.mem \in Bytes(a)
            BY <1>1, <1>2
          <5> QED BY <4>1, <5>1, <2>3
        <4>2. CASE n # k
          <5>1. k + 1 <= n
            BY <3>1, <4>2
          <5>2. k * PageSize + PageSize <= n * PageSize
            BY <5>1, <3>1, PageFacts, MultOrder
          <5>3. n * PageSize + PageSize <= m * PageSize
            BY <3>1, PageFacts, MultOrder
          <5>4. n * PageSize \in Nat
            BY <3>1, PageAddress
          <5>5. a.mem <= n * PageSize /\ n * PageSize < End(a)
            <6> DEFINE p == n * PageSize
                       q == k * PageSize
                       r == m * PageSize
            <6>1. /\ p \in Nat /\ q \in Nat /\ r \in Nat
                  /\ q + PageSize <= p /\ p + PageSize <= r
                  /\ a.mem < q + PageSize /\ r < End(a) + PageSize
              BY <2>3, <5>2, <5>3, <5>4
            <6> HIDE DEF p, q, r
            <6>2. a.mem <= p /\ p < End(a)
              BY <6>1, <1>1, PageFacts
            <6> QED BY <6>2 DEF p
          <5>6. n * PageSize \in Bytes(a)
            BY <5>4, <5>5, <1>2
          <5>7. n * PageSize < n * PageSize + PageSize /\ n * PageSize <= n * PageSize
            BY <5>4, PageFacts
          <5> QED BY <5>6, <5>7
        <4> QED BY <4>1, <4>2
      <3>3. /\ x \in Nat /\ ~(StaticBase <= x /\ x < StaticBase + 256)
            /\ x \in Held(Given(mapped))
        BY <1>1, <1>2, <1>4, PageFacts
      <3>4. PICK i \in mapped : i * PageSize <= x /\ x < i * PageSize + PageSize
        BY <3>3, GivenByte
      <3>5. i \in Nat
        BY PageFacts
      <3>6. n <= i /\ i < n + 1
        <4>1. (n + 1) * PageSize = n * PageSize + PageSize /\ n + 1 \in Nat
          BY <3>1, PageFacts, MultOrder
        <4> QED BY <3>1, <3>2, <3>3, <3>4, <3>5, <4>1, PagesBetween
      <3>7. i = n
        BY <3>1, <3>5, <3>6
      <3> QED BY <3>7
    <2> QED BY <2>1, <2>2, <2>4, <2>5 DEF InMemory
  <1> QED BY <1>3, <1>4, InOnePart

(* What the invariant says, in the terms the runs check. *)
LEMMA BalancedImplies ==
    ASSUME MallocInv
    PROVE  /\ HeapCheck
           /\ NoOverlap
           /\ Conservation
           /\ OnlyMapped
           /\ Promised
           /\ (\A size \in AlignedRequests : size > 8) => HoldsDescriptor
  <1> USE DEF MallocInv, Balanced
  <1>1. \A a \in free : a.mem \in Nat /\ a.size \in Nat \ {0}
    BY DEF Ledger, GoodHeap, IsArea, Area
  <1>2. \A b \in live : b.mem \in Nat /\ b.size \in Nat \ {0}
    BY DEF Blocks, BlockOK
  <1>3. HeapCheck
    BY DEF HeapCheck, Ledger, GoodHeap, IsArea
  <1>4. NoOverlap
    <2>1. ASSUME NEW a \in live, NEW b \in live, a # b PROVE End(a) <= b.mem \/ End(b) <= a.mem
      <3>1. Bytes(a) \cap Bytes(b) = {}
        BY <2>1 DEF Blocks
      <3> QED BY <3>1, <1>2, DisjointBytes
    <2>2. ASSUME NEW a \in free, NEW b \in live PROVE End(a) <= b.mem \/ End(b) <= a.mem
      <3>1. Bytes(a) \subseteq Held(free) /\ Bytes(b) \subseteq Held(live)
        BY DEF Held
      <3>2. Bytes(a) \cap Bytes(b) = {}
        BY <3>1 DEF Ledger
      <3> QED BY <3>2, <1>1, <1>2, DisjointBytes
    <2> QED BY <2>1, <2>2 DEF NoOverlap
  <1>5. Conservation
    <2>1. Held(free \cup live) = Held(free) \cup Held(live)
      BY DEF Held
    <2> QED BY <2>1 DEF Conservation, Ledger
  <1>6. OnlyMapped
    <2> SUFFICES ASSUME NEW a \in free \cup live PROVE InMemory(a)
      BY DEF OnlyMapped
    <2>1. Bytes(a) \subseteq Held(Given(mapped))
      BY <1>5 DEF Conservation, Held
    <2>2. mapped \in SUBSET Arena
      BY DEF Ledger
    <2> QED BY <2>1, <2>2, <1>1, <1>2, ExtentInMemory
  <1>7. Promised
    BY DEF Promised, Addr, MALLOC_HEADER_SIZE, Blocks, BlockOK
  <1>8. (\A size \in AlignedRequests : size > 8) => HoldsDescriptor
    <2> SUFFICES ASSUME \A size \in AlignedRequests : size > 8,
                        NEW b \in free \cup live
                 PROVE  b.size >= DescriptorSize
      BY DEF HoldsDescriptor
    <2>1. DescriptorSize <= b.size
      BY DEF Blocks, Ledger, Roomy
    <2> QED BY <2>1, <1>1, <1>2, SizesOf64Bit
  <1> QED BY <1>3, <1>4, <1>5, <1>6, <1>7, <1>8

(***************************************************************************)
(* The free list passes __heap_check after every call.                     *)
(***************************************************************************)
THEOREM ListInOrder == Spec => []HeapCheck
  BY AlwaysBalanced, BalancedImplies, PTL

(***************************************************************************)
(* No byte is ever in two blocks, or in a block and a free area, whatever  *)
(* is allocated, resized, aligned and freed in whatever order.             *)
(***************************************************************************)
THEOREM BlocksApart == Spec => []NoOverlap
  BY AlwaysBalanced, BalancedImplies, PTL

(***************************************************************************)
(* Splitting, merging and trimming lose no byte and make none up.          *)
(***************************************************************************)
THEOREM NoByteLost == Spec => []Conservation
  BY AlwaysBalanced, BalancedImplies, PTL

(***************************************************************************)
(* free unmaps no page that a block or a free area still reaches into.     *)
(***************************************************************************)
THEOREM NeverUnmapped == Spec => []OnlyMapped
  BY AlwaysBalanced, BalancedImplies, PTL

(***************************************************************************)
(* Every block has the bytes its caller asked for, at the alignment asked  *)
(* for: malloc, calloc, realloc and memalign.                              *)
(***************************************************************************)
THEOREM AsPromised == Spec => []Promised
  BY AlwaysBalanced, BalancedImplies, PTL

(***************************************************************************)
(* Every block can hold the descriptor it will be given when it is freed,  *)
(* as long as nobody asks memalign for 8 bytes or less.                    *)
(***************************************************************************)
THEOREM DescriptorFits ==
    ASSUME \A size \in AlignedRequests : size > 8
    PROVE  Spec => []HoldsDescriptor
  <1>1. MallocInv => HoldsDescriptor
    BY BalancedImplies
  <1> QED BY <1>1, AlwaysBalanced, PTL

-----------------------------------------------------------------------------
(* A block as its caller sees it; different blocks look different. *)
Seen(b) == [addr |-> Addr(b), need |-> b.need, align |-> b.align]

(* Callers tell blocks apart, and see no overlap. *)
LEMMA SeenApart ==
    ASSUME NEW L, Blocks(L), NEW b \in L, NEW c \in L, b # c
    PROVE  /\ Seen(b) # Seen(c)
           /\ \/ Seen(b).addr + Seen(b).need <= Seen(c).addr
              \/ Seen(c).addr + Seen(c).need <= Seen(b).addr
  <1>1. /\ b.mem \in Nat /\ b.size \in Nat \ {0} /\ b.need \in Nat /\ 8 + b.need <= b.size
        /\ c.mem \in Nat /\ c.size \in Nat \ {0} /\ c.need \in Nat /\ 8 + c.need <= c.size
    BY DEF Blocks, BlockOK
  <1>2. Bytes(b) \cap Bytes(c) = {}
    BY DEF Blocks
  <1>3. b.mem + b.size <= c.mem \/ c.mem + c.size <= b.mem
    BY <1>1, <1>2, DisjointBytes DEF End
  <1>4. /\ Seen(b).addr = b.mem + 8 /\ Seen(b).need = b.need
        /\ Seen(c).addr = c.mem + 8 /\ Seen(c).need = c.need
    BY DEF Seen, Addr, MALLOC_HEADER_SIZE
  <1>5. Seen(b).addr # Seen(c).addr
    BY <1>1, <1>3, <1>4
  <1>6. b.mem + 8 + b.need <= c.mem + 8 \/ c.mem + 8 + c.need <= b.mem + 8
    BY <1>1, <1>3
  <1> QED BY <1>4, <1>5, <1>6

(* The blocks as callers see them are what Allocator calls sound. *)
LEMMA SeenSound ==
    ASSUME NEW L, Blocks(L)
    PROVE  Callers!Sound({Seen(b) : b \in L})
  <1>1. ASSUME NEW b \in L PROVE Seen(b).addr % Seen(b).align = 0
    BY DEF Seen, Addr, MALLOC_HEADER_SIZE, Blocks, BlockOK
  <1>2. ASSUME NEW b \in L, NEW c \in L, Seen(b) # Seen(c)
        PROVE  Callers!Apart(Seen(b), Seen(c))
    <2>1. b # c
      BY <1>2
    <2> QED BY <2>1, SeenApart DEF Callers!Apart
  <1> QED BY <1>1, <1>2 DEF Callers!Sound

(* A call as its caller sees it. *)
LEMMA StepSeen ==
    ASSUME NEW L, NEW K, Blocks(L), Blocks(K), CallStep(L, K)
    PROVE  LET B == {Seen(b) : b \in L}
               C == {Seen(b) : b \in K}
           IN  \/ C = B
               \/ \E c \in C : c \notin B /\ C = B \cup {c}
               \/ \E b \in B : C = B \ {b}
               \/ \E b \in B, c \in C : C = (B \ {b}) \cup {c}
  <1> DEFINE See(S) == {Seen(b) : b \in S}
  <1>1. ASSUME NEW c \in K, c \notin L, K = L \cup {c}
        PROVE  Seen(c) \in See(K) /\ Seen(c) \notin See(L) /\ See(K) = See(L) \cup {Seen(c)}
    <2>1. Seen(c) \notin See(L)
      <3> SUFFICES ASSUME NEW b \in L, Seen(b) = Seen(c) PROVE FALSE
        OBVIOUS
      <3>1. b \in K /\ b # c
        BY <1>1
      <3> QED BY <3>1, SeenApart
    <2> QED BY <1>1, <2>1
  <1>2. ASSUME NEW b \in L PROVE See(L \ {b}) = See(L) \ {Seen(b)}
    <2>1. \A a \in L : a # b => Seen(a) # Seen(b)
      BY SeenApart
    <2> QED BY <2>1
  <1>3. ASSUME NEW b \in L, NEW c \in K, K = (L \ {b}) \cup {c}
        PROVE  Seen(c) \in See(K) /\ See(K) = (See(L) \ {Seen(b)}) \cup {Seen(c)}
    <2>1. See(K) = See(L \ {b}) \cup {Seen(c)}
      BY <1>3
    <2> QED BY <2>1, <1>2
  <1>4. CASE K = L
    BY <1>4
  <1>5. CASE \E c \in K : c \notin L /\ K = L \cup {c}
    BY <1>5, <1>1
  <1>6. CASE \E b \in L : K = L \ {b}
    BY <1>6, <1>2
  <1>7. CASE \E b \in L, c \in K : K = (L \ {b}) \cup {c}
    <2>1. PICK b \in L, c \in K : K = (L \ {b}) \cup {c}
      BY <1>7
    <2>2. Seen(b) \in See(L) /\ Seen(c) \in See(K) /\ See(K) = (See(L) \ {Seen(b)}) \cup {Seen(c)}
      BY <2>1, <1>3
    <2>3. \E x \in See(L), y \in See(K) : See(K) = (See(L) \ {x}) \cup {y}
      BY <2>2
    <2> QED BY <2>3
  <1> QED BY <1>4, <1>5, <1>6, <1>7 DEF CallStep

(***************************************************************************)
(* Malloc implements Allocator: whatever the code splits, merges, maps and *)
(* unmaps, a call gives its caller at most one new block and takes at most *)
(* one back, and never one that shares a byte with another.                *)
(***************************************************************************)
THEOREM MallocImplements == Spec => Implements
  <1> DEFINE B == {[addr |-> Addr(b), need |-> b.need, align |-> b.align] : b \in live}
  <1>1. Init => Callers!Init
    BY DEF Init, Callers!Init
  <1>2. MallocInv /\ [Next]_vars => [Callers!Next]_B
    <2> SUFFICES ASSUME MallocInv, [Next]_vars PROVE [Callers!Next]_B
      OBVIOUS
    <2>1. Blocks(live) /\ Blocks(live') /\ CallStep(live, live')
      BY NextKeeps DEF Kept, MallocInv, Balanced
    <2> DEFINE C == {Seen(b) : b \in live}
               D == {Seen(b) : b \in live'}
    <2>2. C = B /\ D = B'
      BY DEF Seen, Addr
    <2>3. \/ D = C
          \/ \E c \in D : c \notin C /\ D = C \cup {c}
          \/ \E b \in C : D = C \ {b}
          \/ \E b \in C, c \in D : D = (C \ {b}) \cup {c}
      BY <2>1, StepSeen
    <2>4. Callers!Sound(D)
      BY <2>1, SeenSound
    <2> HIDE DEF C, D
    <2>5. CASE D = C
      BY <2>2, <2>5
    <2>6. CASE D # C
      <3>1. Callers!Sound(B')
        BY <2>2, <2>4
      <3>2. \/ \E c \in B' : c \notin B /\ B' = B \cup {c}
            \/ \E b \in B : B' = B \ {b}
            \/ \E b \in B, c \in B' : B' = (B \ {b}) \cup {c}
        BY <2>2, <2>3, <2>6
      <3> QED BY <3>1, <3>2 DEF Callers!Next, Callers!Allocate, Callers!Release, Callers!Resize
    <2> QED BY <2>5, <2>6
  <1> QED BY <1>1, <1>2, AlwaysBalanced, PTL DEF Spec, Implements, Callers!Spec

=============================================================================
