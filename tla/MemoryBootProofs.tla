-------------------------- MODULE MemoryBootProofs --------------------------
(***************************************************************************)
(* Proofs about how memory_init sets the bitmap of pages up: for every     *)
(* memory map, whatever was loaded where, and every size of a page.        *)
(***************************************************************************)
EXTENDS MemoryBoot, FiniteSetTheorems, WellFoundedInduction, TLAPS

Entry == [addr : Nat, length : Nat, type : Nat]
ByteRange == [addr : Nat, length : Nat]

LEMMA LeastNatural ==
  ASSUME NEW T \in SUBSET Nat, T # {}
  PROVE  \E x \in T : \A y \in T : x <= y
  <1> DEFINE R == {p \in Nat \X Nat : p[1] < p[2]}
  <1>1. OpToRel(<, Nat) = R
    BY DEF OpToRel
  <1>2. IsWellFoundedOn(R, Nat)
    BY <1>1, NatLessThanWellFounded
  <1>3. PICK x \in T : \A y \in T : ~(<<y, x>> \in R)
    <2> HIDE DEF R
    <2> QED BY <1>2, WFMin
  <1>4. ASSUME NEW y \in T PROVE x <= y
    <2>1. x \in Nat /\ y \in Nat
      OBVIOUS
    <2>2. <<y, x>> \in R <=> y < x
      BY <2>1
    <2> QED BY <1>3, <2>1, <2>2
  <1> QED BY <1>4

-----------------------------------------------------------------------------
(* Pages and bytes.                                                        *)
LEMMA Division ==
  ASSUME NEW s \in Nat \ {0}, NEW a \in Nat
  PROVE  /\ a \div s \in Nat
         /\ (a \div s) * s <= a /\ a < (a \div s) * s + s
  OBVIOUS

LEMMA Scaled ==
  ASSUME NEW s \in Nat \ {0}, NEW p \in Int, NEW q \in Int
  PROVE  /\ p * s \in Int /\ (p + 1) * s = p * s + s
         /\ p <= q <=> p * s <= q * s
         /\ p < q <=> p * s < q * s
         /\ p \in Nat => p * s \in Nat
  OBVIOUS

(* Rounding down and up.                                                   *)
LEMMA Rounded ==
  ASSUME NEW s \in Nat \ {0}, NEW a \in Nat, NEW p \in Int
  PROVE  /\ a \div s \in Nat /\ (a + s - 1) \div s \in Nat
         /\ p <= a \div s <=> p * s <= a
         /\ a \div s <= p <=> a < (p + 1) * s
         /\ (a + s - 1) \div s <= p <=> a <= p * s
         /\ p <= (a + s - 1) \div s - 1 <=> p * s < a
  <1> DEFINE d == a \div s
             u == (a + s - 1) \div s
  <1>1. d \in Nat /\ d * s <= a /\ a < d * s + s /\ d * s \in Int
    BY Division, Scaled
  <1>2. a + s - 1 \in Nat
    OBVIOUS
  <1>3. u \in Nat /\ u * s <= a + s - 1 /\ a + s - 1 < u * s + s /\ u * s \in Int
    BY <1>2, Division, Scaled
  <1> HIDE DEF d, u
  <1>4. /\ p * s \in Int /\ (p + 1) * s = p * s + s /\ (d + 1) * s = d * s + s
        /\ (u - 1) * s = u * s - s
    <2>1. u - 1 \in Int /\ d \in Int /\ (u - 1) + 1 = u
      BY <1>1, <1>3
    <2>2. u * s = (u - 1) * s + s /\ (u - 1) * s \in Int
      BY <2>1, Scaled
    <2>3. (u - 1) * s = u * s - s
      BY <1>3, <2>2
    <2> QED BY <2>1, <2>3, Scaled
  <1>5. p <= d <=> p * s <= a
    <2>1. p <= d <=> p * s <= d * s
      BY <1>1, Scaled
    <2>2. p < d + 1 <=> p * s < (d + 1) * s
      <3>1. d + 1 \in Int
        BY <1>1
      <3> QED BY <3>1, Scaled
    <2> QED BY <1>1, <1>4, <2>1, <2>2
  <1>6. d <= p <=> a < (p + 1) * s
    <2>1. d <= p <=> d * s <= p * s
      BY <1>1, Scaled
    <2>2. d < p + 1 <=> d * s < (p + 1) * s
      <3>1. p + 1 \in Int
        OBVIOUS
      <3> QED BY <1>1, <3>1, Scaled
    <2>3. (p + 1) <= d <=> (p + 1) * s <= d * s
      <3>1. p + 1 \in Int
        OBVIOUS
      <3> QED BY <1>1, <3>1, Scaled
    <2> QED BY <1>1, <1>4, <2>1, <2>2, <2>3
  <1>7. u <= p <=> a <= p * s
    <2>1. u <= p <=> u * s <= p * s
      BY <1>3, Scaled
    <2>2. p <= u - 1 <=> p * s <= (u - 1) * s
      <3>1. u - 1 \in Int
        BY <1>3
      <3> QED BY <3>1, Scaled
    <2> QED BY <1>3, <1>4, <2>1, <2>2
  <1>8. p <= u - 1 <=> p * s < a
    <2>1. p <= u - 1 <=> ~(u <= p)
      BY <1>3
    <2> QED BY <1>4, <1>7, <2>1
  <1> QED BY <1>1, <1>3, <1>5, <1>6, <1>7, <1>8 DEF d, u

(* Which pages are inside a range, and which it touches.                   *)
LEMMA PagesInsideAre ==
  ASSUME NEW r, r.addr \in Nat, r.length \in Nat, NEW p
  PROVE  p \in PagesInside(r) <=> p \in Int /\ r.addr <= p * PageSize /\ (p + 1) * PageSize <= End(r)
  <1>1. PageSize \in Nat \ {0} /\ End(r) \in Nat
    BY MemoryBootAssumption DEF End
  <1>2. FirstPageInside(r) \in Nat /\ EndPageInside(r) \in Nat
    BY <1>1, Rounded DEF FirstPageInside, EndPageInside
  <1>3. ASSUME p \in Int
        PROVE  /\ FirstPageInside(r) <= p <=> r.addr <= p * PageSize
               /\ p <= EndPageInside(r) - 1 <=> (p + 1) * PageSize <= End(r)
    <2>1. FirstPageInside(r) <= p <=> r.addr <= p * PageSize
      BY <1>1, <1>3, Rounded DEF FirstPageInside
    <2>2. p + 1 \in Int
      BY <1>3
    <2>3. p + 1 <= EndPageInside(r) <=> (p + 1) * PageSize <= End(r)
      BY <1>1, <2>2, Rounded DEF EndPageInside
    <2>4. p + 1 <= EndPageInside(r) <=> p <= EndPageInside(r) - 1
      BY <1>2, <1>3
    <2> QED BY <2>1, <2>3, <2>4
  <1>4. p \in PagesInside(r) <=> p \in Int /\ FirstPageInside(r) <= p /\ p <= EndPageInside(r) - 1
    BY <1>2 DEF PagesInside
  <1> QED BY <1>3, <1>4

LEMMA PagesTouchedAre ==
  ASSUME NEW r, r.addr \in Nat, r.length \in Nat, NEW p
  PROVE  /\ p \in PagesTouched(r) <=> p \in Int /\ r.addr < (p + 1) * PageSize /\ p * PageSize < End(r)
         /\ p \in PagesTouched(r) => p \in Nat
  <1>1. PageSize \in Nat \ {0} /\ End(r) \in Nat
    BY MemoryBootAssumption DEF End
  <1> DEFINE d == r.addr \div PageSize
             u == (End(r) + PageSize - 1) \div PageSize
  <1>2. d \in Nat /\ u \in Nat
    BY <1>1, Rounded
  <1>3. ASSUME p \in Int
        PROVE  /\ d <= p <=> r.addr < (p + 1) * PageSize
               /\ p <= u - 1 <=> p * PageSize < End(r)
    BY <1>1, <1>3, Rounded
  <1>4. PagesTouched(r) = d .. u - 1
    BY DEF PagesTouched
  <1> HIDE DEF d, u
  <1>5. p \in PagesTouched(r) <=> p \in Int /\ d <= p /\ p <= u - 1
    BY <1>2, <1>4
  <1> QED BY <1>2, <1>3, <1>5

(* A page in memory, and one of the boot loader's, by where they begin.    *)
LEMMA PageBytes ==
  ASSUME NEW p \in Int
  PROVE  /\ p * PageSize \in Int /\ PageSize \in Nat \ {0} /\ (p + 1) * PageSize = p * PageSize + PageSize
         /\ (p + 1) * PageSize \in Int /\ p * PageSize <= (p + 1) * PageSize - 1
  <1>1. PageSize \in Nat \ {0}
    BY MemoryBootAssumption
  <1>2. p * PageSize \in Int /\ (p + 1) * PageSize = p * PageSize + PageSize
    BY <1>1, Scaled
  <1> QED BY <1>1, <1>2

LEMMA BytesInside ==
  ASSUME NEW r, r.addr \in Nat, r.length \in Nat, NEW p \in Int
  PROVE  Bytes(p) \subseteq RangeBytes(r) <=> p \in PagesInside(r)
  <1> DEFINE a == p * PageSize
             b == (p + 1) * PageSize
  <1>0. a \in Int /\ b \in Int /\ a <= b - 1
    BY ONLY p \in Int, PageBytes, Zenon
  <1>1. a \in Int /\ b \in Int /\ a <= b - 1 /\ End(r) \in Nat
    <2> HIDE DEF a, b
    <2> QED BY <1>0 DEF End
  <1>2. Bytes(p) = a .. b - 1 /\ RangeBytes(r) = r.addr .. End(r) - 1
    BY DEF Bytes, RangeBytes
  <1>3. p \in PagesInside(r) <=> r.addr <= a /\ b <= End(r)
    BY PagesInsideAre
  <1> HIDE DEF a, b
  <1>4. ASSUME a .. b - 1 \subseteq r.addr .. End(r) - 1
        PROVE  r.addr <= a /\ b <= End(r)
    <2>1. a \in a .. b - 1 /\ b - 1 \in a .. b - 1
      BY <1>1
    <2>2. a \in r.addr .. End(r) - 1 /\ b - 1 \in r.addr .. End(r) - 1
      BY <1>4, <2>1
    <2> QED BY <1>1, <2>2
  <1>5. ASSUME r.addr <= a, b <= End(r)
        PROVE  a .. b - 1 \subseteq r.addr .. End(r) - 1
    BY <1>1, <1>5
  <1> QED BY <1>2, <1>3, <1>4, <1>5

LEMMA BytesMeet ==
  ASSUME NEW r, r.addr \in Nat, r.length \in Nat, NEW p \in Int
  PROVE  Bytes(p) \cap RangeBytes(r) # {} <=> p \in PagesTouched(r) /\ r.length # 0
  <1> DEFINE a == p * PageSize
             b == (p + 1) * PageSize
  <1>0. a \in Int /\ b \in Int /\ a <= b - 1
    BY ONLY p \in Int, PageBytes, Zenon
  <1>1. a \in Int /\ b \in Int /\ a <= b - 1 /\ End(r) \in Nat /\ End(r) = r.addr + r.length
    <2> HIDE DEF a, b
    <2> QED BY <1>0 DEF End
  <1>2. Bytes(p) = a .. b - 1 /\ RangeBytes(r) = r.addr .. End(r) - 1
    BY DEF Bytes, RangeBytes
  <1>3. p \in PagesTouched(r) <=> r.addr < b /\ a < End(r)
    BY PagesTouchedAre
  <1> HIDE DEF a, b
  <1>4. ASSUME NEW x \in a .. b - 1, x \in r.addr .. End(r) - 1
        PROVE  r.addr < b /\ a < End(r) /\ r.length # 0
    BY <1>1, <1>4
  <1>5. ASSUME r.addr < b, a < End(r), r.length # 0
        PROVE  \E x \in a .. b - 1 : x \in r.addr .. End(r) - 1
    <2>1. CASE a <= r.addr
      <3>1. r.addr \in a .. b - 1 /\ r.addr \in r.addr .. End(r) - 1
        BY <1>1, <1>5, <2>1
      <3> QED BY <3>1
    <2>2. CASE r.addr <= a
      <3>1. a \in a .. b - 1 /\ a \in r.addr .. End(r) - 1
        BY <1>1, <1>5, <2>2
      <3> QED BY <3>1
    <2> QED BY <1>1, <2>1, <2>2
  <1> QED BY <1>2, <1>3, <1>4, <1>5

-----------------------------------------------------------------------------
(* The end of the memory map.                                              *)
LEMMA HighestIs ==
  ASSUME NEW m \in Seq(Entry)
  PROVE  \E h \in {0} \cup {End(m[i]) : i \in DOMAIN m} : \A i \in DOMAIN m : End(m[i]) <= h
  <1>1. Len(m) \in Nat /\ DOMAIN m = 1 .. Len(m) /\ \A i \in 1 .. Len(m) : m[i] \in Entry
    OBVIOUS
  <1>2. \A i \in 1 .. Len(m) : End(m[i]) \in Nat
    BY <1>1 DEF End, Entry
  <1> DEFINE n == Len(m)
             e == [i \in 1 .. n |-> End(m[i])]
             Highest(h, k) == /\ h \in Nat
                              /\ h = 0 \/ \E i \in 1 .. k : h = e[i]
                              /\ \A i \in 1 .. k : e[i] <= h
             Bad == {k \in 0 .. n : ~\E h : Highest(h, k)}
  <1>3. n \in Nat /\ \A i \in 1 .. n : e[i] \in Nat
    BY <1>1, <1>2
  <1> HIDE DEF e
  <1>4. ASSUME Bad # {}
        PROVE  FALSE
    <2>1. Bad \in SUBSET Nat
      BY <1>3
    <2>2. PICK k \in Bad : \A l \in Bad : k <= l
      <3> HIDE DEF Bad
      <3> QED BY <1>4, <2>1, LeastNatural
    <2>3. k \in 0 .. n /\ ~\E h : Highest(h, k)
      OBVIOUS
    <2>4. k # 0
      <3>1. Highest(0, 0)
        OBVIOUS
      <3> QED BY <2>3, <3>1
    <2>5. k - 1 \in 0 .. n /\ ~(k <= k - 1) /\ k \in 1 .. n
      BY <1>3, <2>3, <2>4
    <2>6. PICK h : Highest(h, k - 1)
      BY <2>2, <2>5
    <2>7. \A i \in 1 .. k : i = k \/ i \in 1 .. k - 1
      BY <2>5
    <2>8. \A i \in 1 .. k - 1 : i \in 1 .. k /\ i \in 1 .. n
      BY <2>5
    <2>9. CASE e[k] <= h
      <3>1. Highest(h, k)
        BY <2>6, <2>7, <2>8, <2>9
      <3> QED BY <2>3, <3>1
    <2>10. CASE ~(e[k] <= h)
      <3>1. h <= e[k] /\ e[k] \in Nat
        BY <1>3, <2>5, <2>6, <2>10
      <3>2. \A i \in 1 .. k - 1 : e[i] <= e[k]
        BY <1>3, <2>6, <2>8, <3>1
      <3>3. k \in 1 .. k
        BY <2>5
      <3>4. Highest(e[k], k)
        BY <2>7, <3>1, <3>2, <3>3
      <3> QED BY <2>3, <3>4
    <2> QED BY <2>9, <2>10
  <1>5. PICK h : Highest(h, n)
    BY <1>3, <1>4
  <1>6. \A i \in 1 .. n : e[i] = End(m[i])
    BY DEF e
  <1> QED BY <1>1, <1>5, <1>6

(* Counting the free pages.                                                *)
LEMMA FreePages ==
  ASSUME page_count \in Nat, NEW u \in SUBSET Page
  PROVE  IsFiniteSet(u) /\ IsFiniteSet(Page \ u) /\ Cardinality(Page \ u) \in Nat
  <1>1. IsFiniteSet(Page)
    <2>1. 0 \in Int /\ page_count - 1 \in Int
      OBVIOUS
    <2> QED BY <2>1, FS_Interval DEF Page
  <1>2. IsFiniteSet(Page \ u) /\ IsFiniteSet(u)
    BY <1>1, FS_Subset
  <1> QED BY <1>2, FS_CardinalityType

LEMMA CountFreed ==
  ASSUME page_count \in Nat, used \subseteq Page, NEW pages
  PROVE  Cardinality(Page \ (used \ pages)) = Cardinality(Page \ used) + NewlyFree(pages)
  <1>1. IsFiniteSet(Page \ used) /\ IsFiniteSet(used) /\ Cardinality(Page \ used) \in Nat
    BY FreePages
  <1>2. IsFiniteSet(pages \cap used) /\ Cardinality(pages \cap used) \in Nat
    BY <1>1, FS_Subset, FS_CardinalityType
  <1>3. /\ Page \ (used \ pages) = (Page \ used) \cup (pages \cap used)
        /\ (Page \ used) \cap (pages \cap used) = {}
    OBVIOUS
  <1>4. Cardinality((Page \ used) \cup (pages \cap used)) =
          Cardinality(Page \ used) + Cardinality(pages \cap used) - Cardinality({})
    BY <1>1, <1>2, <1>3, FS_Union
  <1>5. Cardinality({}) = 0
    BY FS_EmptySet
  <1> QED BY <1>1, <1>2, <1>3, <1>4, <1>5 DEF NewlyFree

LEMMA CountReserved ==
  ASSUME page_count \in Nat, used \subseteq Page, NEW pages \in SUBSET Page
  PROVE  Cardinality(Page \ (used \cup pages)) = Cardinality(Page \ used) - NewlyUsed(pages)
  <1>1. IsFiniteSet(Page \ used) /\ IsFiniteSet(pages)
    BY FreePages
  <1>2. Cardinality((Page \ used) \ pages) = Cardinality(Page \ used) - Cardinality((Page \ used) \cap pages)
    BY <1>1, FS_Difference
  <1>3. (Page \ used) \ pages = Page \ (used \cup pages) /\ (Page \ used) \cap pages = pages \ used
    OBVIOUS
  <1> QED BY <1>2, <1>3 DEF NewlyUsed

(* The bitmap takes at least a page, and is reserved as a range of pages.  *)
LEMMA StorageIs ==
  ASSUME page_count \in Nat \ {0}, NEW p \in Nat
  PROVE  /\ StoragePages \in Nat \ {0}
         /\ Storage(p).addr = p * PageSize /\ Storage(p).addr \in Nat
         /\ Storage(p).length \in Nat \ {0}
         /\ End(Storage(p)) = (p + StoragePages) * PageSize
         /\ p + StoragePages \in Nat
         /\ \A q : q \in PagesTouched(Storage(p)) <=> q \in p .. p + StoragePages - 1
  <1> DEFINE b == (page_count + BitsPerByte - 1) \div BitsPerByte
             n == StoragePages
             r == Storage(p)
  <1>1. PageSize \in Nat \ {0} /\ BitsPerByte \in Nat \ {0}
    BY MemoryBootAssumption
  <1>2. b \in Nat \ {0}
    <2>1. b \in Nat /\ (b <= 0 <=> page_count <= 0 * BitsPerByte)
      BY <1>1, Rounded
    <2>2. 0 * BitsPerByte = 0
      BY <1>1
    <2> HIDE DEF b
    <2> QED BY <2>1, <2>2
  <1>3. n \in Nat \ {0}
    <2>1. n = (b + PageSize - 1) \div PageSize
      BY DEF StoragePages
    <2> HIDE DEF b, n
    <2>2. n \in Nat /\ (n <= 0 <=> b <= 0 * PageSize)
      BY <1>1, <1>2, <2>1, Rounded
    <2>3. 0 * PageSize = 0
      BY <1>1
    <2> QED BY <1>2, <2>2, <2>3
  <1>4. r.addr = p * PageSize /\ r.length = n * PageSize
    BY DEF Storage
  <1> HIDE DEF b, n, r
  <1>5. r.addr \in Nat /\ r.length \in Nat \ {0} /\ r.addr + r.length = (p + n) * PageSize
    BY <1>1, <1>3, <1>4
  <1>6. End(r) = (p + n) * PageSize
    BY <1>5 DEF End
  <1>7. ASSUME NEW q
        PROVE  q \in PagesTouched(r) <=> q \in p .. p + n - 1
    <2>1. q \in PagesTouched(r) <=> q \in Int /\ p * PageSize < (q + 1) * PageSize /\ q * PageSize < (p + n) * PageSize
      BY <1>4, <1>5, <1>6, PagesTouchedAre
    <2>2. ASSUME q \in Int
          PROVE  (p * PageSize < (q + 1) * PageSize <=> p < q + 1) /\ (q * PageSize < (p + n) * PageSize <=> q < p + n)
      <3>1. q + 1 \in Int /\ p \in Int /\ p + n \in Int
        BY <1>3, <2>2
      <3> QED BY <1>1, <2>2, <3>1, Scaled
    <2> QED BY <1>3, <2>1, <2>2
  <1>8. p + n \in Nat
    BY <1>3
  <1> QED BY <1>3, <1>4, <1>5, <1>6, <1>7, <1>8 DEF n, r

-----------------------------------------------------------------------------
(* The invariant: what is free is what the entries of the map gone through *)
(* hold, without what has been reserved; and the bitmap lies in an entry   *)
(* of the map, off the boot data.                                          *)
Inside(k) == {p \in Page : \E i \in 1 .. k : i \in Available /\ p \in PagesInside(mmap[i])}
Taken(k) == {p \in Page : \E i \in 1 .. k : p \in PagesTouched(Reserved[i])}
Marking == at \in {"available", "reserve", "ready"}

Sizes == /\ mmap \in Seq(Entry) /\ boot \in Seq(ByteRange)
         /\ \A i \in DOMAIN boot : \E j \in DOMAIN mmap : End(boot[i]) <= End(mmap[j])
         /\ at \in {"place", "available", "reserve", "ready"} =>
              page_count # 0 /\ \A i \in DOMAIN mmap : End(mmap[i]) <= page_count * PageSize
Placed == Marking => \E i \in Available : bitmap_at \in StoragePlaces(i)
Free == /\ at \in {"measure", "place"} => used = {} /\ cursor = 0 /\ free_page_count = 0
        /\ at = "available" => cursor <= Len(mmap) /\ Page \ used = Inside(cursor)
        /\ at \in {"reserve", "ready"} => Page \ used = Inside(Len(mmap)) \ Taken(cursor)
        /\ at = "reserve" => cursor < Len(Reserved)
        /\ at = "ready" => cursor = Len(Reserved)
        /\ Marking => free_page_count = Cardinality(Page \ used)
Inv == TypeOK /\ Sizes /\ (at = "measure" => page_count = 0) /\ Placed /\ Free /\ GivesUpOnlyWithoutRoom

LEMMA InvInit == Init => Inv
  <1> SUFFICES ASSUME Init PROVE Inv
    OBVIOUS
  <1>1. mmap \in Seq(Entry) /\ boot \in Seq(ByteRange)
    BY MemoryBootAssumption DEF Init, Entry, ByteRange
  <1>2. TypeOK
    BY DEF Init, TypeOK
  <1>3. Sizes
    BY <1>1 DEF Init, Sizes
  <1> QED BY <1>2, <1>3 DEF Init, Inv, Placed, Free, Marking, GivesUpOnlyWithoutRoom

(* A place for the bitmap, in terms of bytes.                              *)
LEMMA PlacesAre ==
  ASSUME Sizes, page_count \in Nat \ {0}, NEW i \in Available, NEW p
  PROVE  p \in StoragePlaces(i) <=>
           /\ p \in Nat /\ mmap[i].addr <= p * PageSize /\ (p + StoragePages) * PageSize <= End(mmap[i])
           /\ \A b \in DOMAIN boot : ~ranges_overlap(Storage(p), boot[b])
  <1> DEFINE r == mmap[i]
             f == FirstPageInside(r)
             e == EndPageInside(r)
  <1>1. r.addr \in Nat /\ r.length \in Nat
    <2>1. i \in DOMAIN mmap
      BY DEF Available
    <2>2. r \in Entry
      BY <2>1 DEF Sizes
    <2> QED BY <2>2 DEF Entry
  <1>2. End(r) \in Nat /\ PageSize \in Nat \ {0}
    BY <1>1, MemoryBootAssumption DEF End
  <1>3. f \in Nat /\ e \in Nat
    <2>1. /\ f = (r.addr + PageSize - 1) \div PageSize
          /\ e = End(r) \div PageSize
      BY DEF FirstPageInside, EndPageInside
    <2> HIDE DEF r, e, f
    <2> QED BY ONLY <1>1, <1>2, <2>1, 0 \in Int, Rounded
  <1>4. StoragePages \in Nat \ {0}
    <2>1. 0 \in Nat
      OBVIOUS
    <2> QED BY <2>1, StorageIs
  <1>5. ASSUME p \in Int
        PROVE  /\ f <= p <=> r.addr <= p * PageSize
               /\ p <= e - StoragePages <=> (p + StoragePages) * PageSize <= End(r)
    <2>1. f <= p <=> r.addr <= p * PageSize
      BY <1>1, <1>2, <1>5, Rounded DEF FirstPageInside
    <2>2. p + StoragePages \in Int
      BY <1>4, <1>5
    <2>3. p + StoragePages <= e <=> (p + StoragePages) * PageSize <= End(r)
      BY <1>2, <2>2, Rounded DEF EndPageInside
    <2> HIDE DEF e, f
    <2>4. p + StoragePages <= e <=> p <= e - StoragePages
      BY <1>3, <1>4, <1>5
    <2> QED BY <2>1, <2>3, <2>4
  <1>6. p \in StoragePlaces(i) <=> p \in f .. e - StoragePages /\ \A b \in DOMAIN boot : ~ranges_overlap(Storage(p), boot[b])
    BY DEF StoragePlaces
  <1> HIDE DEF e, f, r
  <1>7. p \in f .. e - StoragePages <=> p \in Nat /\ f <= p /\ p <= e - StoragePages
    BY <1>3, <1>4
  <1> QED BY <1>5, <1>6, <1>7 DEF r

LEMMA MeasureStep ==
  ASSUME Inv, MeasureMemory
  PROVE  Inv'
  <1> DEFINE highest == CHOOSE h \in {0} \cup {End(mmap[i]) : i \in DOMAIN mmap} :
                          \A i \in DOMAIN mmap : End(mmap[i]) <= h
  <1>1. /\ highest \in {0} \cup {End(mmap[i]) : i \in DOMAIN mmap}
        /\ \A i \in DOMAIN mmap : End(mmap[i]) <= highest
    BY HighestIs DEF Inv, Sizes
  <1>2. /\ at = "measure" /\ page_count' = (highest + PageSize - 1) \div PageSize
        /\ at' = IF highest = 0 \/ \E i \in DOMAIN mmap : ~range_end(mmap[i]) THEN "halted" ELSE "place"
        /\ UNCHANGED <<mmap, boot, bitmap_at, used, free_page_count, usable_page_count, cursor>>
    BY DEF MeasureMemory
  <1> HIDE DEF highest
  <1>3. \A i \in DOMAIN mmap : End(mmap[i]) \in Nat
    <2>1. \A i \in DOMAIN mmap : mmap[i] \in Entry
      BY DEF Inv, Sizes
    <2> QED BY <2>1 DEF End, Entry
  <1>4. highest \in Nat
    BY <1>1, <1>3
  <1>5. PageSize \in Nat \ {0}
    BY MemoryBootAssumption
  <1>6. page_count' \in Nat /\ (page_count' <= 0 <=> highest <= 0) /\ highest <= page_count' * PageSize
    <2>1. page_count' \in Nat /\ \A q \in Int : page_count' <= q <=> highest <= q * PageSize
      BY <1>2, <1>4, <1>5, Rounded
    <2>2. 0 * PageSize = 0 /\ page_count' <= page_count' /\ page_count' \in Int /\ 0 \in Int
      BY <1>5, <2>1
    <2> QED BY <2>1, <2>2
  <1>7. page_count' * PageSize \in Nat
    <2>1. \A p \in Nat, n \in Nat \ {0} : p * n \in Nat
      OBVIOUS
    <2> QED BY <1>5, <1>6, <2>1, Zenon
  <1>8. used = {} /\ cursor = 0 /\ free_page_count = 0
    BY <1>2 DEF Inv, Free
  <1>9. TypeOK'
    BY <1>2, <1>6, <1>8 DEF TypeOK, Inv
  <1>10. Sizes'
    <2>1. ASSUME at' = "place"
          PROVE  page_count' # 0 /\ \A i \in DOMAIN mmap : End(mmap[i]) <= page_count' * PageSize
      <3>1. highest # 0
        BY <1>2, <2>1
      <3> QED BY <1>1, <1>3, <1>4, <1>6, <1>7, <3>1
    <2>2. at' \in {"place", "halted"}
      BY <1>2
    <2> QED BY <1>2, <2>1, <2>2 DEF Inv, Sizes, End
  <1>11. GivesUpOnlyWithoutRoom'
    <2> SUFFICES ASSUME at' = "halted" PROVE GivesUpOnlyWithoutRoom'
      BY DEF GivesUpOnlyWithoutRoom
    <2>1. highest = 0 \/ \E i \in DOMAIN mmap : ~range_end(mmap[i])
      BY <1>2
    <2>2. highest = 0 => page_count' = 0
      BY <1>4, <1>6
    <2> QED BY <1>2, <2>1, <2>2 DEF GivesUpOnlyWithoutRoom, range_end
  <1>12. at' # "measure" /\ ~Marking'
    BY <1>2 DEF Marking
  <1> QED BY <1>2, <1>8, <1>9, <1>10, <1>11, <1>12 DEF Inv, Placed, Free, Marking

(* There is no first place only where there is no place at all.            *)
LEMMA NoPlace ==
  ASSUME Sizes, page_count \in Nat \ {0}, find_bitmap_storage = {}, NEW i \in Available
  PROVE  StoragePlaces(i) = {}
  <1> DEFINE Some == {j \in Available : StoragePlaces(j) # {}}
  <1>1. Available \subseteq Nat
    <2>1. DOMAIN mmap \subseteq Nat
      BY DEF Sizes
    <2> QED BY <2>1 DEF Available
  <1>2. ASSUME Some # {}
        PROVE  FALSE
    <2>1. PICK j \in Some : \A k \in Some : j <= k
      <3>1. Some \in SUBSET Nat
        BY <1>1
      <3> HIDE DEF Some
      <3> QED BY <1>2, <3>1, LeastNatural
    <2>2. j \in Available /\ StoragePlaces(j) # {}
      OBVIOUS
    <2>3. \A p \in StoragePlaces(j) : p \in Nat
      BY <2>2, PlacesAre
    <2>4. PICK p \in StoragePlaces(j) : \A q \in StoragePlaces(j) : p <= q
      BY <2>2, <2>3, LeastNatural
    <2>5. \A k \in Available : k < j => StoragePlaces(k) = {}
      <3> SUFFICES ASSUME NEW k \in Available, k < j, StoragePlaces(k) # {}
                   PROVE  FALSE
        OBVIOUS
      <3>1. k \in Some /\ k \in Nat /\ j \in Nat
        BY <1>1, <2>2
      <3>2. j <= k
        <4> HIDE DEF Some
        <4> QED BY <2>1, <3>1
      <3> QED BY <3>1, <3>2
    <2>6. p \in find_bitmap_storage
      BY <2>2, <2>4, <2>5 DEF find_bitmap_storage
    <2> QED BY <2>6
  <1> QED BY <1>2

(* Boot data that overlaps a run of pages is held by one of them.          *)
LEMMA OverlapHeld ==
  ASSUME page_count \in Nat \ {0}, NEW p \in Nat, NEW b \in ByteRange
  PROVE  ranges_overlap(Storage(p), b) <=> \E q \in p .. p + StoragePages - 1 : Bytes(q) \cap RangeBytes(b) # {}
  <1> DEFINE s == PageSize
             n == StoragePages
             e == End(b)
  <1>1. /\ b.addr \in Nat /\ b.length \in Nat /\ e \in Nat /\ e = b.addr + b.length
        /\ s \in Nat \ {0} /\ n \in Nat \ {0}
    <2>1. s \in Nat \ {0} /\ n \in Nat \ {0}
      BY StorageIs, MemoryBootAssumption
    <2>2. b.addr \in Nat /\ b.length \in Nat
      BY DEF ByteRange
    <2>3. e = b.addr + b.length
      BY DEF End
    <2> HIDE DEF s, n, e
    <2> QED BY <2>1, <2>2, <2>3
  <1>2. ranges_overlap(Storage(p), b) <=> b.length # 0 /\ p * s < e /\ b.addr < (p + n) * s
    BY StorageIs DEF ranges_overlap
  <1>3. \A q \in Int : Bytes(q) \cap RangeBytes(b) # {} <=> b.length # 0 /\ b.addr < (q + 1) * s /\ q * s < e
    BY <1>1, BytesMeet, PagesTouchedAre
  <1> HIDE DEF s, n, e
  <1>4. ASSUME NEW q \in p .. p + n - 1, b.length # 0, b.addr < (q + 1) * s, q * s < e
        PROVE  p * s < e /\ b.addr < (p + n) * s
    <2>1. q \in Int /\ q + 1 \in Int /\ p \in Int /\ p + n \in Int /\ p <= q /\ q + 1 <= p + n
      BY <1>1
    <2>2. p * s <= q * s /\ (q + 1) * s <= (p + n) * s
      BY <1>1, <2>1, Scaled
    <2>3. p * s \in Int /\ q * s \in Int /\ (q + 1) * s \in Int /\ (p + n) * s \in Int
      BY <1>1, <2>1, Scaled
    <2> QED BY <1>1, <1>4, <2>2, <2>3
  <1>5. ASSUME b.length # 0, p * s < e, b.addr < (p + n) * s
        PROVE  \E q \in p .. p + n - 1 : b.addr < (q + 1) * s /\ q * s < e
    <2>0. p * s \in Int /\ (p + 1) * s = p * s + s
      BY <1>1, Scaled
    <2>1. CASE b.addr < (p + 1) * s
      <3>1. p \in p .. p + n - 1
        BY <1>1
      <3> QED BY <1>5, <2>1, <3>1
    <2>2. CASE ~(b.addr < (p + 1) * s)
      <3> DEFINE q == b.addr \div s
      <3>1. q \in Nat /\ (q <= q <=> q * s <= b.addr) /\ (q <= q <=> b.addr < (q + 1) * s)
        BY <1>1, Rounded
      <3>2. q <= p <=> b.addr < (p + 1) * s
        <4>1. p \in Int
          OBVIOUS
        <4> QED BY ONLY <1>1, <4>1, Rounded
      <3> HIDE DEF q
      <3>3. q * s \in Int /\ (q + 1) * s \in Int /\ (p + n) * s \in Int
        <4>1. q \in Int /\ q + 1 \in Int /\ p + n \in Int
          BY <1>1, <3>1
        <4> QED BY <1>1, <4>1, Scaled
      <3>4. q * s < (p + n) * s
        BY <1>1, <1>5, <3>1, <3>3
      <3>5. q < p + n
        <4>1. q \in Int /\ p + n \in Int
          BY <1>1, <3>1
        <4> QED BY <1>1, <3>4, <4>1, Scaled
      <3>6. q \in p .. p + n - 1
        BY <1>1, <2>2, <3>1, <3>2, <3>5
      <3>7. q * s < e
        BY <1>1, <1>5, <3>1, <3>3
      <3> QED BY <3>1, <3>6, <3>7
    <2> QED BY <2>1, <2>2
  <1>6. \A q \in p .. p + n - 1 : q \in Int
    BY <1>1
  <1> QED BY <1>2, <1>3, <1>4, <1>5, <1>6 DEF n

LEMMA NoRoom ==
  ASSUME Sizes, page_count \in Nat \ {0}, find_bitmap_storage = {}, NEW i \in Available, NEW p \in Page,
         RangeBytes(Storage(p)) \subseteq RangeBytes(mmap[i])
  PROVE  \E q \in p .. p + StoragePages - 1 : HoldsBootData(q)
  <1> DEFINE r == Storage(p)
             a == p * PageSize
             e == (p + StoragePages) * PageSize
  <1>1. p \in Nat
    BY DEF Page
  <1>2. /\ r.addr = a /\ a \in Nat /\ r.length \in Nat \ {0} /\ End(r) = e /\ End(r) = a + r.length
    <2>1. /\ r.addr = a /\ a \in Nat /\ r.length \in Nat \ {0} /\ End(r) = e
      BY <1>1, StorageIs
    <2>2. End(r) = r.addr + r.length
      BY DEF End
    <2> QED BY <2>1, <2>2
  <1>3. mmap[i].addr \in Nat /\ mmap[i].length \in Nat
    <2>1. mmap[i] \in Entry
      BY DEF Sizes, Available
    <2> QED BY <2>1 DEF Entry
  <1>4. End(mmap[i]) \in Nat
    BY <1>3 DEF End
  <1>5. mmap[i].addr <= a /\ e <= End(mmap[i])
    <2>1. RangeBytes(r) = a .. e - 1 /\ RangeBytes(mmap[i]) = mmap[i].addr .. End(mmap[i]) - 1
      BY <1>2 DEF RangeBytes
    <2> HIDE DEF a, e, r
    <2>2. a \in a .. e - 1 /\ e - 1 \in a .. e - 1
      BY <1>2
    <2>3. a \in mmap[i].addr .. End(mmap[i]) - 1 /\ e - 1 \in mmap[i].addr .. End(mmap[i]) - 1
      BY <2>1, <2>2 DEF r
    <2> QED BY <1>2, <1>3, <1>4, <2>3
  <1>6. PICK b \in DOMAIN boot : ranges_overlap(r, boot[b])
    BY <1>1, <1>5, NoPlace, PlacesAre
  <1>7. boot[b] \in ByteRange
    BY DEF Sizes
  <1>8. \E q \in p .. p + StoragePages - 1 : Bytes(q) \cap RangeBytes(boot[b]) # {}
    BY <1>1, <1>6, <1>7, OverlapHeld
  <1> QED BY <1>8 DEF HoldsBootData

(* What does not change with the marks.                                    *)
LEMMA MapKept ==
  ASSUME UNCHANGED <<mmap, boot, page_count>>
  PROVE  /\ Page' = Page /\ Available' = Available /\ StoragePages' = StoragePages
         /\ \A i : StoragePlaces(i)' = StoragePlaces(i)
  <1>1. Page' = Page /\ Available' = Available /\ StoragePages' = StoragePages
    BY DEF Page, Available, StoragePages
  <1>2. \A i : StoragePlaces(i)' = StoragePlaces(i)
    BY <1>1 DEF StoragePlaces, Storage
  <1> QED BY <1>1, <1>2

LEMMA PlaceStep ==
  ASSUME Inv, PlaceBitmap
  PROVE  Inv'
  <1>1. /\ at = "place" /\ UNCHANGED <<mmap, boot, page_count, free_page_count, usable_page_count, cursor>>
        /\ page_count \in Nat \ {0} /\ cursor = 0 /\ free_page_count = 0 /\ used = {}
    BY DEF PlaceBitmap, Inv, Sizes, TypeOK, Free
  <1>2. Page' = Page /\ Available' = Available /\ StoragePages' = StoragePages
        /\ \A i : StoragePlaces(i)' = StoragePlaces(i)
    BY <1>1, MapKept
  <1>3. Sizes'
    BY <1>1 DEF Inv, Sizes, End, PlaceBitmap
  <1>4. CASE find_bitmap_storage = {} /\ at' = "halted" /\ UNCHANGED <<bitmap_at, used>>
    <2>1. \A i \in Available, p \in Page :
            RangeBytes(Storage(p)) \subseteq RangeBytes(mmap[i]) =>
              \E q \in p .. p + StoragePages - 1 : HoldsBootData(q)
      BY <1>1, <1>4, NoRoom DEF Inv
    <2>2. GivesUpOnlyWithoutRoom'
      BY <1>1, <1>2, <2>1 DEF GivesUpOnlyWithoutRoom, RangeBytes, Storage, HoldsBootData, End, Bytes
    <2>3. TypeOK'
      BY <1>1, <1>2, <1>4 DEF TypeOK, Inv
    <2> QED BY <1>3, <1>4, <2>2, <2>3 DEF Inv, Placed, Free, Marking
  <1>5. ASSUME NEW p \in find_bitmap_storage, bitmap_at' = p, used' = Page, at' = "available"
        PROVE  Inv'
    <2>1. PICK i \in Available : p \in StoragePlaces(i)
      BY DEF find_bitmap_storage
    <2>2. p \in Nat
      BY <1>1, <2>1, PlacesAre DEF Inv
    <2>3. TypeOK'
      BY <1>1, <1>2, <1>5, <2>2 DEF TypeOK, Inv
    <2>4. Placed'
      BY <1>2, <1>5, <2>1 DEF Placed
    <2>5. Free'
      <3>1. Inside(0)' = {} /\ Page' \ used' = {}
        BY <1>2, <1>5 DEF Inside
      <3>2. Cardinality({}) = 0
        BY FS_EmptySet
      <3>3. Len(mmap) \in Nat
        BY DEF Inv, Sizes
      <3>4. cursor' = 0 /\ Inside(cursor)' = Inside(0)'
        BY <1>1
      <3> QED BY <1>1, <1>5, <3>1, <3>2, <3>3, <3>4 DEF Free
    <2> QED BY <1>3, <1>5, <2>3, <2>4, <2>5 DEF Inv, GivesUpOnlyWithoutRoom
  <1> QED BY <1>4, <1>5 DEF PlaceBitmap

LEMMA MarkStep ==
  ASSUME Inv, mark_available_range
  PROVE  Inv'
  <1> DEFINE pages == IF cursor + 1 \in Available THEN PagesInside(mmap[cursor + 1]) ELSE {}
  <1>1. /\ at = "available" /\ at' = "available" /\ cursor < Len(mmap) /\ cursor' = cursor + 1
        /\ used' = used \ pages /\ free_page_count' = free_page_count + NewlyFree(pages)
        /\ UNCHANGED <<mmap, boot, page_count, bitmap_at, usable_page_count>>
    BY DEF mark_available_range
  <1>2. /\ page_count \in Nat /\ used \subseteq Page /\ cursor \in Nat /\ Len(mmap) \in Nat
        /\ Page \ used = Inside(cursor) /\ free_page_count = Cardinality(Page \ used)
    BY <1>1 DEF Inv, TypeOK, Free, Marking, Sizes
  <1>3. Page' = Page /\ Available' = Available /\ StoragePages' = StoragePages
        /\ \A i : StoragePlaces(i)' = StoragePlaces(i)
    BY <1>1, MapKept
  <1>4. Page \ used' = Inside(cursor + 1)
    <2>1. \A i : i \in 1 .. cursor + 1 <=> i \in 1 .. cursor \/ i = cursor + 1
      BY <1>2
    <2>2. \A p \in Page : p \in Inside(cursor + 1) <=> p \in Inside(cursor) \/ p \in pages
      BY <2>1 DEF Inside
    <2> HIDE DEF pages
    <2>3. Inside(cursor + 1) \subseteq Page
      BY DEF Inside
    <2> QED BY <1>1, <1>2, <2>2, <2>3
  <1>5. Inside(cursor)' = Inside(cursor + 1)
    BY <1>1, <1>3 DEF Inside, PagesInside, FirstPageInside, EndPageInside, End
  <1> HIDE DEF pages
  <1>6. free_page_count' = Cardinality(Page \ used')
    BY <1>1, <1>2, CountFreed
  <1>7. free_page_count' \in Nat
    <2>1. used' \in SUBSET Page
      BY <1>1, <1>2
    <2> QED BY <1>2, <1>6, <2>1, FreePages
  <1>8. TypeOK'
    BY <1>1, <1>2, <1>3, <1>7 DEF TypeOK, Inv
  <1>9. Sizes'
    BY <1>1 DEF Inv, Sizes, End
  <1>10. Placed'
    BY <1>1, <1>3 DEF Inv, Placed, Marking
  <1>11. cursor' <= Len(mmap')
    BY <1>1, <1>2
  <1>12. Free'
    BY <1>1, <1>3, <1>4, <1>5, <1>6, <1>11 DEF Free, Marking
  <1> QED BY <1>1, <1>8, <1>9, <1>10, <1>12 DEF Inv, GivesUpOnlyWithoutRoom

LEMMA CountStep ==
  ASSUME Inv, CountUsable
  PROVE  Inv'
  <1>1. /\ at = "available" /\ at' = "reserve" /\ cursor = Len(mmap) /\ cursor' = 0
        /\ usable_page_count' = free_page_count
        /\ UNCHANGED <<mmap, boot, page_count, bitmap_at, used, free_page_count>>
    BY DEF CountUsable
  <1>2. /\ TypeOK /\ Page \ used = Inside(Len(mmap)) /\ free_page_count = Cardinality(Page \ used)
    BY <1>1 DEF Inv, Free, Marking
  <1>3. Page' = Page /\ Available' = Available /\ StoragePages' = StoragePages
        /\ \A i : StoragePlaces(i)' = StoragePlaces(i)
    BY <1>1, MapKept
  <1>4. TypeOK' /\ Sizes'
    BY <1>1, <1>2, <1>3 DEF TypeOK, Inv, Sizes, End
  <1>5. Placed'
    BY <1>1, <1>3 DEF Inv, Placed, Marking
  <1>6. (Inside(Len(mmap)) \ Taken(cursor))' = Inside(Len(mmap))
    <2>1. Inside(Len(mmap))' = Inside(Len(mmap))
      BY <1>1, <1>3 DEF Inside, PagesInside, FirstPageInside, EndPageInside, End
    <2>2. Taken(cursor)' = {}
      BY <1>1 DEF Taken
    <2> QED BY <2>1, <2>2
  <1>7. cursor' < Len(Reserved')
    <2>1. Len(boot') \in Nat
      BY <1>1 DEF Inv, Sizes
    <2>2. \A x : Len(Append(boot', x)) = Len(boot') + 1
      BY <1>1 DEF Inv, Sizes
    <2> QED BY <1>1, <2>1, <2>2 DEF Reserved
  <1>8. Free'
    BY <1>1, <1>2, <1>3, <1>6, <1>7 DEF Free, Marking
  <1> QED BY <1>1, <1>4, <1>5, <1>8 DEF Inv, GivesUpOnlyWithoutRoom

(* What is reserved lies below the end of the map.                         *)
LEMMA ReservedAre ==
  ASSUME Inv, Marking, NEW k \in 1 .. Len(Reserved)
  PROVE  /\ Len(Reserved) = Len(boot) + 1 /\ Len(boot) \in Nat
         /\ k <= Len(boot) => Reserved[k] = boot[k] /\ boot[k] \in ByteRange
         /\ k = Len(boot) + 1 => Reserved[k] = Storage(bitmap_at)
         /\ PagesTouched(Reserved[k]) \subseteq Page
  <1>1. page_count \in Nat \ {0} /\ bitmap_at \in Nat /\ \A i \in DOMAIN mmap : End(mmap[i]) <= page_count * PageSize
    BY DEF Inv, TypeOK, Sizes, Marking
  <1>2. /\ Len(Reserved) = Len(boot) + 1 /\ Len(boot) \in Nat
        /\ \A i \in 1 .. Len(boot) : Reserved[i] = boot[i] /\ boot[i] \in ByteRange
        /\ Reserved[Len(boot) + 1] = Storage(bitmap_at)
    <2>1. ASSUME NEW S, NEW s \in Seq(S), NEW x
          PROVE  /\ Len(Append(s, x)) = Len(s) + 1 /\ Len(s) \in Nat
                 /\ \A i \in 1 .. Len(s) : Append(s, x)[i] = s[i] /\ s[i] \in S
                 /\ Append(s, x)[Len(s) + 1] = x
      OBVIOUS
    <2> QED BY <2>1 DEF Reserved, Inv, Sizes
  <1>3. PICK i \in Available : bitmap_at \in StoragePlaces(i)
    BY DEF Inv, Placed
  <1>4. End(Storage(bitmap_at)) <= End(mmap[i]) /\ i \in DOMAIN mmap
    BY <1>1, <1>3, PlacesAre, StorageIs DEF Inv, Available
  <1>5. \A j \in DOMAIN mmap : End(mmap[j]) \in Nat
    <2>1. \A j \in DOMAIN mmap : mmap[j] \in Entry
      BY DEF Inv, Sizes
    <2> QED BY <2>1 DEF End, Entry
  <1>6. page_count * PageSize \in Nat
    <2>1. PageSize \in Nat /\ page_count \in Nat
      BY <1>1, MemoryBootAssumption
    <2> QED BY ONLY <2>1
  <1>7. /\ Reserved[k].addr \in Nat /\ Reserved[k].length \in Nat
        /\ End(Reserved[k]) <= page_count * PageSize
    <2>1. CASE k <= Len(boot)
      <3>1. k \in 1 .. Len(boot)
        BY <1>2, <2>1
      <3>2. Reserved[k] = boot[k] /\ boot[k] \in ByteRange /\ k \in DOMAIN boot
        BY <1>2, <3>1 DEF Inv, Sizes
      <3>3. boot[k].addr \in Nat /\ boot[k].length \in Nat
        BY <3>2 DEF ByteRange
      <3>4. End(boot[k]) \in Nat
        BY <3>3 DEF End
      <3>5. PICK j \in DOMAIN mmap : End(boot[k]) <= End(mmap[j])
        BY <3>2 DEF Inv, Sizes
      <3> QED BY <1>1, <1>5, <1>6, <3>2, <3>3, <3>4, <3>5
    <2>2. CASE k = Len(boot) + 1
      <3>1. /\ Storage(bitmap_at).addr \in Nat /\ Storage(bitmap_at).length \in Nat
        BY <1>1, StorageIs
      <3>2. End(Storage(bitmap_at)) \in Nat
        BY <3>1 DEF End
      <3> QED BY <1>1, <1>2, <1>4, <1>5, <1>6, <2>2, <3>1, <3>2
    <2> QED BY <1>2, <2>1, <2>2
  <1>8. ASSUME NEW p \in PagesTouched(Reserved[k])
        PROVE  p \in Page
    <2>1. p \in Nat /\ p * PageSize < End(Reserved[k])
      BY <1>7, PagesTouchedAre
    <2>2. PageSize \in Nat \ {0} /\ p \in Int /\ page_count \in Int
      BY <1>1, <2>1, MemoryBootAssumption
    <2>3. p * PageSize \in Int
      BY <2>2, Scaled
    <2>4. End(Reserved[k]) \in Nat
      BY <1>7 DEF End
    <2>5. p * PageSize < page_count * PageSize
      BY ONLY <1>6, <1>7, <2>1, <2>3, <2>4
    <2>6. p < page_count
      BY <2>2, <2>5, Scaled
    <2> QED BY <1>1, <2>1, <2>6 DEF Page
  <1>9. k <= Len(boot) => k \in 1 .. Len(boot)
    BY <1>2
  <1> QED BY <1>2, <1>8, <1>9

LEMMA ReserveStep ==
  ASSUME Inv, reserve_range
  PROVE  Inv'
  <1> DEFINE pages == PagesTouched(Reserved[cursor + 1])
  <1>1. /\ at = "reserve" /\ cursor' = cursor + 1
        /\ used' = used \cup pages /\ free_page_count' = free_page_count - NewlyUsed(pages)
        /\ at' = IF cursor' = Len(Reserved) THEN "ready" ELSE "reserve"
        /\ UNCHANGED <<mmap, boot, page_count, bitmap_at, usable_page_count>>
    BY DEF reserve_range
  <1>2. /\ page_count \in Nat /\ used \subseteq Page /\ cursor \in Nat /\ cursor < Len(Reserved)
        /\ Page \ used = Inside(Len(mmap)) \ Taken(cursor) /\ free_page_count = Cardinality(Page \ used)
        /\ TypeOK /\ Sizes /\ Marking
    BY <1>1 DEF Inv, TypeOK, Free, Marking
  <1>3. Page' = Page /\ Available' = Available /\ StoragePages' = StoragePages
        /\ \A i : StoragePlaces(i)' = StoragePlaces(i)
    BY <1>1, MapKept
  <1>4. Len(Reserved) \in Nat /\ cursor + 1 \in 1 .. Len(Reserved)
    <2>1. Len(Reserved) \in Nat
      <3>1. \A x : Len(Append(boot, x)) \in Nat
        BY <1>2 DEF Sizes
      <3> QED BY <3>1 DEF Reserved
    <2> QED BY <1>2, <2>1
  <1>5. pages \subseteq Page
    BY <1>2, <1>4, ReservedAre
  <1>6. Reserved' = Reserved
    BY <1>1, <1>3 DEF Reserved, Storage
  <1>7. Taken(cursor + 1) = Taken(cursor) \cup pages
    <2>1. \A i : i \in 1 .. cursor + 1 <=> i \in 1 .. cursor \/ i = cursor + 1
      BY <1>2
    <2> QED BY <1>5, <2>1 DEF Taken
  <1>8. /\ Inside(Len(mmap))' = Inside(Len(mmap)) /\ Taken(cursor)' = Taken(cursor + 1)
    <2>1. Inside(Len(mmap))' = Inside(Len(mmap))
      BY <1>1, <1>3 DEF Inside, PagesInside, FirstPageInside, EndPageInside, End
    <2>2. Taken(cursor)' = Taken(cursor + 1)
      BY <1>1, <1>3, <1>6 DEF Taken, PagesTouched, End
    <2> QED BY <2>1, <2>2
  <1> HIDE DEF pages
  <1>9. Page \ used' = Inside(Len(mmap)) \ Taken(cursor + 1)
    BY <1>1, <1>2, <1>7
  <1>10. free_page_count' = Cardinality(Page \ used')
    BY <1>1, <1>2, <1>5, CountReserved
  <1>11. used' \in SUBSET Page
    BY <1>1, <1>2, <1>5
  <1>12. free_page_count' \in Nat
    BY <1>2, <1>10, <1>11, FreePages
  <1>13. TypeOK'
    BY <1>1, <1>2, <1>3, <1>11, <1>12 DEF TypeOK
  <1>14. Sizes' /\ Placed'
    BY <1>1, <1>2, <1>3 DEF Inv, Sizes, End, Placed, Marking
  <1>15. at' = "reserve" => cursor' < Len(Reserved)
    BY <1>1, <1>2, <1>4
  <1>16. Free'
    BY <1>1, <1>3, <1>6, <1>8, <1>9, <1>10, <1>15 DEF Free, Marking
  <1> QED BY <1>1, <1>13, <1>14, <1>16 DEF Inv, GivesUpOnlyWithoutRoom

LEMMA InvStep == Inv /\ [Next]_vars => Inv'
  <1> SUFFICES ASSUME Inv, [Next]_vars PROVE Inv'
    OBVIOUS
  <1>1. CASE UNCHANGED vars
    <2>1. UNCHANGED <<mmap, boot, page_count, bitmap_at, used, free_page_count, usable_page_count, at, cursor>>
      BY <1>1 DEF vars
    <2>2. Page' = Page /\ Available' = Available /\ StoragePages' = StoragePages
          /\ \A i : StoragePlaces(i)' = StoragePlaces(i)
      BY <2>1, MapKept
    <2>3. TypeOK' /\ Sizes' /\ Placed'
      BY <2>1, <2>2 DEF Inv, TypeOK, Sizes, End, Placed, Marking
    <2>4. GivesUpOnlyWithoutRoom'
      BY <2>1, <2>2 DEF Inv, GivesUpOnlyWithoutRoom, RangeBytes, Storage, HoldsBootData, Bytes, End, range_end
    <2>5. Free'
      <3>1. Reserved' = Reserved
        BY <2>1, <2>2 DEF Reserved, Storage
      <3>2. \A k : Inside(k)' = Inside(k) /\ Taken(k)' = Taken(k)
        BY <2>1, <2>2, <3>1 DEF Inside, Taken, PagesInside, PagesTouched, FirstPageInside, EndPageInside, End
      <3>3. Inside(cursor)' = Inside(cursor) /\ Inside(Len(mmap))' = Inside(Len(mmap)) /\ Taken(cursor)' = Taken(cursor)
        BY <2>1, <3>2 DEF Inside, Taken
      <3> QED BY <2>1, <2>2, <3>1, <3>3 DEF Inv, Free, Marking
    <2> QED BY <2>1, <2>3, <2>4, <2>5 DEF Inv
  <1> QED BY <1>1, MeasureStep, PlaceStep, MarkStep, CountStep, ReserveStep DEF Next

LEMMA BootInv == Spec => []Inv
  BY InvInit, InvStep, PTL DEF Spec

-----------------------------------------------------------------------------
LEMMA BootDataPages ==
  ASSUME Inv, at = "ready", NEW p \in Page
  PROVE  /\ HoldsBootData(p) <=> \E i \in DOMAIN boot : p \in PagesTouched(boot[i]) /\ boot[i].length # 0
         /\ HoldsBitmap(p) <=> p \in PagesTouched(Storage(bitmap_at))
         /\ IsRam(p) <=> p \in Inside(Len(mmap))
         /\ p \in Taken(cursor) <=> \/ \E i \in DOMAIN boot : p \in PagesTouched(boot[i])
                                    \/ p \in PagesTouched(Storage(bitmap_at))
  <1>1. /\ page_count \in Nat \ {0} /\ bitmap_at \in Nat /\ Marking /\ cursor = Len(Reserved) /\ p \in Int
        /\ Len(mmap) \in Nat /\ DOMAIN mmap = 1 .. Len(mmap) /\ DOMAIN boot = 1 .. Len(boot)
    BY DEF Inv, TypeOK, Sizes, Marking, Free, Page
  <1>2. \A i \in DOMAIN mmap : mmap[i].addr \in Nat /\ mmap[i].length \in Nat
    <2>1. \A i \in DOMAIN mmap : mmap[i] \in Entry
      BY DEF Inv, Sizes
    <2> QED BY <2>1 DEF Entry
  <1>3. \A i \in DOMAIN boot : boot[i].addr \in Nat /\ boot[i].length \in Nat
    <2>1. \A i \in DOMAIN boot : boot[i] \in ByteRange
      BY DEF Inv, Sizes
    <2> QED BY <2>1 DEF ByteRange
  <1>4. HoldsBootData(p) <=> \E i \in DOMAIN boot : p \in PagesTouched(boot[i]) /\ boot[i].length # 0
    BY <1>1, <1>3, BytesMeet DEF HoldsBootData
  <1>5. HoldsBitmap(p) <=> p \in PagesTouched(Storage(bitmap_at))
    BY <1>1, StorageIs DEF HoldsBitmap
  <1>6. IsRam(p) <=> p \in Inside(Len(mmap))
    <2>1. \A i \in Available : i \in 1 .. Len(mmap) /\ (Bytes(p) \subseteq RangeBytes(mmap[i]) <=> p \in PagesInside(mmap[i]))
      BY <1>1, <1>2, BytesInside DEF Available
    <2> QED BY <2>1 DEF IsRam, Inside
  <1>7. p \in Taken(cursor) <=> \/ \E i \in DOMAIN boot : p \in PagesTouched(boot[i])
                                \/ p \in PagesTouched(Storage(bitmap_at))
    <2>1. Len(boot) \in Nat /\ Len(Reserved) = Len(boot) + 1
      <3>1. \A x : Len(Append(boot, x)) = Len(boot) + 1 /\ Len(boot) \in Nat
        BY DEF Inv, Sizes
      <3> QED BY <3>1 DEF Reserved
    <2>2. \A k \in 1 .. Len(Reserved) : /\ k <= Len(boot) => Reserved[k] = boot[k]
                                        /\ k = Len(boot) + 1 => Reserved[k] = Storage(bitmap_at)
      BY <1>1, ReservedAre
    <2>3. \A k : k \in 1 .. Len(Reserved) <=> k \in 1 .. Len(boot) \/ k = Len(boot) + 1
      BY <2>1
    <2>4. \A k \in 1 .. Len(boot) : k <= Len(boot)
      BY <2>1
    <2> QED BY <1>1, <2>2, <2>3, <2>4 DEF Taken
  <1> QED BY <1>4, <1>5, <1>6, <1>7

(* Whatever the memory map and whatever was loaded where: a page that may  *)
(* be handed out is memory through and through and holds nothing else, and *)
(* the count of such pages is right.                                       *)
THEOREM BootFreePagesAreFree == Spec => []FreePagesAreFree
  <1>1. Inv => FreePagesAreFree
    <2> SUFFICES ASSUME Inv, at = "ready"
                 PROVE  /\ \A p \in Page \ used : IsRam(p) /\ ~HoldsBootData(p) /\ ~HoldsBitmap(p)
                        /\ free_page_count = Cardinality(Page \ used)
      BY DEF FreePagesAreFree, Inv
    <2>1. Page \ used = Inside(Len(mmap)) \ Taken(cursor) /\ free_page_count = Cardinality(Page \ used)
      BY DEF Inv, Free, Marking
    <2> QED BY <2>1, BootDataPages
  <1> QED BY <1>1, BootInv, PTL

(* And every other page that is memory holds something, or has an empty    *)
(* range of the boot data in its middle.                                   *)
THEOREM BootNoPageLost == Spec => []NoPageLost
  <1>1. Inv => NoPageLost
    <2> SUFFICES ASSUME Inv, at = "ready", NEW p \in Page \cap used, IsRam(p), ~HoldsBootData(p), ~HoldsBitmap(p)
                 PROVE  \E i \in DOMAIN boot : boot[i].length = 0 /\ p * PageSize < boot[i].addr
                                               /\ boot[i].addr < (p + 1) * PageSize
      BY DEF NoPageLost
    <2>1. Page \ used = Inside(Len(mmap)) \ Taken(cursor)
      BY DEF Inv, Free
    <2>2. p \in Taken(cursor)
      BY <2>1, BootDataPages
    <2>3. PICK i \in DOMAIN boot : p \in PagesTouched(boot[i]) /\ boot[i].length = 0
      BY <2>2, BootDataPages
    <2>4. boot[i].addr \in Nat /\ boot[i].length \in Nat
      <3>1. boot[i] \in ByteRange
        BY DEF Inv, Sizes
      <3> QED BY <3>1 DEF ByteRange
    <2>5. boot[i].addr < (p + 1) * PageSize /\ p * PageSize < End(boot[i])
      BY <2>3, <2>4, PagesTouchedAre
    <2>6. End(boot[i]) = boot[i].addr
      BY <2>3, <2>4 DEF End
    <2> QED BY <2>3, <2>5, <2>6
  <1> QED BY <1>1, BootInv, PTL

(* The bitmap lies in memory, off whatever the boot loader left.           *)
THEOREM BootBitmapHarmless == Spec => []BitmapHarmless
  <1>1. Inv => BitmapHarmless
    <2> SUFFICES ASSUME Inv, Marking, NEW p \in bitmap_at .. bitmap_at + StoragePages - 1
                 PROVE  IsRam(p) /\ ~HoldsBootData(p)
      BY DEF BitmapHarmless, Marking
    <2>1. page_count \in Nat \ {0} /\ bitmap_at \in Nat /\ Sizes
      BY DEF Inv, TypeOK, Sizes, Marking
    <2>2. PICK i \in Available : bitmap_at \in StoragePlaces(i)
      BY DEF Inv, Placed
    <2>3. /\ mmap[i].addr <= bitmap_at * PageSize /\ (bitmap_at + StoragePages) * PageSize <= End(mmap[i])
          /\ \A b \in DOMAIN boot : ~ranges_overlap(Storage(bitmap_at), boot[b])
      BY <2>1, <2>2, PlacesAre
    <2>4. StoragePages \in Nat \ {0} /\ PageSize \in Nat \ {0}
      BY <2>1, StorageIs, MemoryBootAssumption
    <2>5. /\ p \in Int /\ p + 1 \in Int /\ bitmap_at \in Int /\ bitmap_at + StoragePages \in Int
          /\ bitmap_at <= p /\ p + 1 <= bitmap_at + StoragePages
      BY <2>1, <2>4
    <2>6. bitmap_at * PageSize <= p * PageSize /\ (p + 1) * PageSize <= (bitmap_at + StoragePages) * PageSize
      BY <2>4, <2>5, Scaled
    <2>7. /\ bitmap_at * PageSize \in Int /\ p * PageSize \in Int /\ (p + 1) * PageSize \in Int
          /\ (bitmap_at + StoragePages) * PageSize \in Int
      BY <2>4, <2>5, Scaled
    <2>8. mmap[i].addr \in Nat /\ mmap[i].length \in Nat
      <3>1. mmap[i] \in Entry
        BY <2>1 DEF Sizes, Available
      <3> QED BY <3>1 DEF Entry
    <2>9. End(mmap[i]) \in Nat
      BY <2>8 DEF End
    <2>10. p \in PagesInside(mmap[i])
      <3>1. mmap[i].addr <= p * PageSize /\ (p + 1) * PageSize <= End(mmap[i])
        BY ONLY <2>3, <2>6, <2>7, <2>8, <2>9
      <3> QED BY <2>5, <2>8, <3>1, PagesInsideAre
    <2>11. IsRam(p)
      BY <2>5, <2>8, <2>10, BytesInside DEF IsRam
    <2>12. ~HoldsBootData(p)
      <3>1. \A b \in DOMAIN boot : boot[b] \in ByteRange
        BY <2>1 DEF Sizes
      <3>2. \A b \in DOMAIN boot : ~(Bytes(p) \cap RangeBytes(boot[b]) # {})
        BY <2>1, <2>3, <3>1, OverlapHeld
      <3> QED BY <3>2 DEF HoldsBootData
    <2> QED BY <2>11, <2>12
  <1> QED BY <1>1, BootInv, PTL

(* memory_init finds a place for the bitmap if the map has one.            *)
THEOREM BootGivesUpOnlyWithoutRoom == Spec => []GivesUpOnlyWithoutRoom
  <1>1. Inv => GivesUpOnlyWithoutRoom
    BY DEF Inv
  <1> QED BY <1>1, BootInv, PTL
=============================================================================
