----------------------------- MODULE MemoryBoot -----------------------------
(***************************************************************************)
(* memory_init of kernel/memory.cpp: how the bitmap of physical pages is   *)
(* set up from the boot loader's memory map.  It runs once, before any     *)
(* interrupt or second task, on whatever map the machine has: what can go  *)
(* wrong is the rounding of byte ranges to pages, ranges that touch or     *)
(* cover one another, and the choice of a place for the bitmap itself.     *)
(*                                                                         *)
(* Addresses are bytes, PageSize to a page; available ranges are rounded   *)
(* inwards, boot data outwards.  One step is one loop of memory_init.      *)
(***************************************************************************)
EXTENDS Integers, FiniteSets, Sequences

CONSTANTS PageSize,      \* page_size (4096)
          MemoryLimit,   \* physical_memory_limit
          BitsPerByte,   \* pages told apart by a byte of the bitmap (8)
          Maps,          \* memory maps: sequences of [addr, length, type] records
          BootDatas      \* what the boot loader left: sequences of [addr, length] records

ASSUME MemoryBootAssumption ==
  /\ PageSize \in Nat \ {0} /\ MemoryLimit \in Nat /\ BitsPerByte \in Nat \ {0}
  /\ \A m \in Maps : m \in Seq([addr : Nat, length : Nat, type : Nat])
  /\ \A b \in BootDatas : b \in Seq([addr : Nat, length : Nat])

VARIABLES mmap,              \* the memory map
          boot,              \* kernel, boot information, modules, frame buffer, low memory
          page_count,
          bitmap_at,         \* the first page of the bitmap
          used,              \* the pages whose bit is set
          free_page_count,
          usable_page_count,
          at,                \* the loop memory_init has come to
          cursor             \* the ranges this loop is done with

vars == <<mmap, boot, page_count, bitmap_at, used, free_page_count, usable_page_count, at, cursor>>

Page == 0 .. page_count - 1
Available == {i \in DOMAIN mmap : mmap[i].type = 1}
End(r) == r.addr + r.length
FirstPageInside(r) == (r.addr + PageSize - 1) \div PageSize
EndPageInside(r) == End(r) \div PageSize

(* range_end halts on a range that leaves the physical address space.      *)
range_end(r) == r.addr <= MemoryLimit /\ r.length <= MemoryLimit - r.addr

(* Mutant: a page that only begins inside the range counts as available.   *)
PagesBegunInside(r) == FirstPageInside(r) .. (End(r) + PageSize - 1) \div PageSize - 1

(* Mutant: the last page is left out although it ends with the range.      *)
PagesInsideButLast(r) == FirstPageInside(r) .. EndPageInside(r) - 2

PagesInside(r) == FirstPageInside(r) .. EndPageInside(r) - 1

(* An empty range in the middle of a page still reserves the page.         *)
PagesTouched(r) == r.addr \div PageSize .. (End(r) + PageSize - 1) \div PageSize - 1

ranges_overlap(r, s) == r.length # 0 /\ s.length # 0 /\ r.addr < End(s) /\ s.addr < End(r)
-----------------------------------------------------------------------------
StoragePages == ((page_count + BitsPerByte - 1) \div BitsPerByte + PageSize - 1) \div PageSize
Storage(p) == [addr |-> p * PageSize, length |-> StoragePages * PageSize]

(* Mutant: the place for the bitmap is not compared with the boot data.    *)
StorageIgnoringBootData(i) ==
  FirstPageInside(mmap[i]) .. EndPageInside(mmap[i]) - StoragePages

(* Mutant: the place has to be strictly smaller than what is left.         *)
StorageWithRoomBehind(i) ==
  {p \in FirstPageInside(mmap[i]) .. EndPageInside(mmap[i]) - StoragePages - 1 :
     \A b \in DOMAIN boot : ~ranges_overlap(Storage(p), boot[b])}

(* The places for the bitmap in entry i of the map.                        *)
StoragePlaces(i) ==
  {p \in FirstPageInside(mmap[i]) .. EndPageInside(mmap[i]) - StoragePages :
     \A b \in DOMAIN boot : ~ranges_overlap(Storage(p), boot[b])}

(* The first place in the first entry that has one; as a set.              *)
find_bitmap_storage ==
  {p \in UNION {StoragePlaces(i) : i \in Available} :
     \E i \in Available : /\ p \in StoragePlaces(i) /\ \A q \in StoragePlaces(i) : p <= q
                         /\ \A j \in Available : j < i => StoragePlaces(j) = {}}

MeasureMemory ==
  /\ at = "measure"
  /\ LET highest == CHOOSE h \in {0} \cup {End(mmap[i]) : i \in DOMAIN mmap} :
                      \A i \in DOMAIN mmap : End(mmap[i]) <= h
     IN /\ page_count' = (highest + PageSize - 1) \div PageSize
        /\ at' = IF highest = 0 \/ \E i \in DOMAIN mmap : ~range_end(mmap[i])
                 THEN "halted" ELSE "place"
  /\ UNCHANGED <<mmap, boot, bitmap_at, used, free_page_count, usable_page_count, cursor>>

PlaceBitmap ==
  /\ at = "place"
  /\ \/ \E p \in find_bitmap_storage :
          bitmap_at' = p /\ used' = Page /\ at' = "available"
     \/ find_bitmap_storage = {} /\ at' = "halted" /\ UNCHANGED <<bitmap_at, used>>
  /\ UNCHANGED <<mmap, boot, page_count, free_page_count, usable_page_count, cursor>>

(* The pages whose bit changes, which alone are counted.                   *)
NewlyFree(pages) == Cardinality(pages \cap used)
NewlyUsed(pages) == Cardinality(pages \ used)

(* mark_available_range, for one entry of the map; the others are skipped. *)
mark_available_range ==
  /\ at = "available" /\ cursor < Len(mmap)
  /\ LET pages == IF cursor + 1 \in Available THEN PagesInside(mmap[cursor + 1]) ELSE {}
     IN used' = used \ pages /\ free_page_count' = free_page_count + NewlyFree(pages)
  /\ cursor' = cursor + 1
  /\ UNCHANGED <<mmap, boot, page_count, bitmap_at, usable_page_count, at>>

CountUsable == /\ at = "available" /\ cursor = Len(mmap)
               /\ usable_page_count' = free_page_count
               /\ at' = "reserve" /\ cursor' = 0
               /\ UNCHANGED <<mmap, boot, page_count, bitmap_at, used, free_page_count>>

(* What reserve_boot_data goes through; the place of the bitmap in the     *)
(* order makes no difference.                                              *)
Reserved == Append(boot, Storage(bitmap_at))

reserve_range ==
  /\ at = "reserve"
  /\ LET pages == PagesTouched(Reserved[cursor + 1])
     IN used' = used \cup pages /\ free_page_count' = free_page_count - NewlyUsed(pages)
  /\ cursor' = cursor + 1
  /\ at' = IF cursor' = Len(Reserved) THEN "ready" ELSE at
  /\ UNCHANGED <<mmap, boot, page_count, bitmap_at, usable_page_count>>
-----------------------------------------------------------------------------
(* The map covers what the boot loader loaded.                             *)
Init == /\ mmap \in Maps
        /\ boot \in {b \in BootDatas : \A i \in DOMAIN b : \E j \in DOMAIN mmap : End(b[i]) <= End(mmap[j])}
        /\ page_count = 0 /\ bitmap_at = 0 /\ used = {}
        /\ free_page_count = 0 /\ usable_page_count = 0
        /\ at = "measure" /\ cursor = 0

Next == MeasureMemory \/ PlaceBitmap \/ mark_available_range \/ CountUsable \/ reserve_range

Spec == Init /\ [][Next]_vars
-----------------------------------------------------------------------------
TypeOK == /\ page_count \in Nat /\ bitmap_at \in Nat
          /\ used \subseteq Page
          /\ free_page_count \in Nat /\ usable_page_count \in Nat
          /\ at \in {"measure", "place", "available", "reserve", "ready", "halted"}
          /\ cursor \in Nat

(* Byte by byte: what page p holds.                                        *)
Bytes(p) == p * PageSize .. (p + 1) * PageSize - 1
RangeBytes(r) == r.addr .. End(r) - 1
IsRam(p) == \E i \in Available : Bytes(p) \subseteq RangeBytes(mmap[i])
HoldsBootData(p) == \E i \in DOMAIN boot : Bytes(p) \cap RangeBytes(boot[i]) # {}
HoldsBitmap(p) == p \in bitmap_at .. bitmap_at + StoragePages - 1

(* The allocator may hand out what is memory through and through and       *)
(* holds nothing of the boot loader's, the kernel's or its own: not a byte *)
(* more; and it counts these pages rightly, however the ranges of the map  *)
(* and of the boot data lie to one another.                                *)
FreePagesAreFree ==
  /\ TypeOK
  /\ at = "ready" =>
       /\ \A p \in Page \ used : IsRam(p) /\ ~HoldsBootData(p) /\ ~HoldsBitmap(p)
       /\ free_page_count = Cardinality(Page \ used)

(* No page is lost either, but for the one around an empty boot range.     *)
NoPageLost ==
  at = "ready" =>
    \A p \in Page \cap used :
      \/ ~IsRam(p) \/ HoldsBootData(p) \/ HoldsBitmap(p)
      \/ \E i \in DOMAIN boot : boot[i].length = 0 /\ p * PageSize < boot[i].addr
                                /\ boot[i].addr < (p + 1) * PageSize

(* The bitmap is written before anything is reserved: it has to lie in     *)
(* memory, and on nothing that is still needed.                            *)
BitmapHarmless ==
  at \in {"available", "reserve", "ready"} =>
    \A p \in bitmap_at .. bitmap_at + StoragePages - 1 : IsRam(p) /\ ~HoldsBootData(p)

(* memory_init gives up only where there is no room for the bitmap.        *)
GivesUpOnlyWithoutRoom ==
  at = "halted" =>
    \/ page_count = 0
    \/ \E i \in DOMAIN mmap : ~range_end(mmap[i])
    \/ \A i \in Available, p \in Page :
         RangeBytes(Storage(p)) \subseteq RangeBytes(mmap[i]) =>
           \E q \in p .. p + StoragePages - 1 : HoldsBootData(q)
=============================================================================
