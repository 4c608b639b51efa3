--------------------------- MODULE PageAllocator ---------------------------
(***************************************************************************)
(* The page allocator of kernel/memory.cpp, as memory_init leaves it: a    *)
(* bitmap searched for the first run that is long enough, and a count of   *)
(* the free pages kept beside it.  An allocation is known by its address   *)
(* and by nothing else: whoever frees it says how long it was.             *)
(***************************************************************************)
EXTENDS Integers, FiniteSets

CONSTANTS PageCount,   \* page_count
          Reserved     \* the pages memory_init keeps: low memory, kernel, bitmap, ...

ASSUME PageAllocatorAssumption ==
  PageCount \in Nat /\ Reserved \subseteq 0 .. PageCount - 1 /\ 0 \in Reserved

Page == 0 .. PageCount - 1

VARIABLES used,              \* the pages whose bit is set in page_bitmap
          free_page_count

(* A run of pages as its owner remembers it; the null pointer is NoBlock.  *)
Block == [first : Page, pages : 0 .. PageCount]
NoBlock == [first |-> 0, pages |-> 0]
PagesOf(b) == b.first .. b.first + b.pages - 1

Runs(count) == {f \in 0 .. PageCount - count : (f .. f + count - 1) \cap used = {}}

(* What a search for count pages finds: the first run, or nothing.  As a   *)
(* set of one.                                                             *)
Found(count) ==
  IF count = 0 \/ Runs(count) = {} THEN {NoBlock}
  ELSE {[first |-> f, pages |-> count] : f \in {g \in Runs(count) : \A h \in Runs(count) : g <= h}}

memory_alloc_pages(b) == /\ used' = used \cup PagesOf(b)
                         /\ free_page_count' = free_page_count - b.pages

memory_free_pages(b) == /\ used' = used \ PagesOf(b)
                        /\ free_page_count' = free_page_count + b.pages

memory_init == /\ used = Reserved
               /\ free_page_count = Cardinality(Page \ Reserved)
=============================================================================
