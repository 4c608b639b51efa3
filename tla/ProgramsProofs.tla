--------------------------- MODULE ProgramsProofs ---------------------------
(***************************************************************************)
(* Proofs about programs, their page tables, their layers and the pages    *)
(* behind them: for every number of pages, slots and levels of nesting,    *)
(* and for programs of any sizes.                                          *)
(*                                                                         *)
(* The invariant has four parts that rest on one another: how the calls of *)
(* program_run are nested (Nested, TablesKept), what the innermost of them *)
(* has taken so far (SetUp), whose the layers are (HandlesSound), and      *)
(* whose the pages are (PagesAccounted).                                   *)
(***************************************************************************)
EXTENDS Programs, FiniteSetTheorems, TLAPS

USE PageAllocatorAssumption, ProgramsAssumption DEF None

(* While the innermost program_run has not entered its program.            *)
Setup == Part \cup {"open", "map"}

(* The calls of program_run and the entries to user mode, one in the       *)
(* other: each remembers the one around it, and the one that takes its     *)
(* turn is the innermost.                                                  *)
Nested ==
  /\ at \in {"boot", "ended"} => frames = <<>>
  /\ at \in Setup \cup {"user", "destroy"} => frames # <<>>
  /\ Len(saved) = IF at \in Setup \cup {"destroy"} THEN Len(frames) - 1 ELSE Len(frames)
  /\ \A k \in 1 .. Len(frames) : frames[k].parent = k - 1
  /\ at \in {"boot", "user"} => active_program = Len(frames)
  /\ at \in Setup \cup {"destroy"} => active_program < Len(frames)

(* The page tables in use and saved are those of the programs entered.     *)
TableAt(f, k) == IF k = 0 THEN KernelTable ELSE f[k].pml4.first
TablesKept ==
  /\ \A k \in 1 .. Len(saved) : frames[k].pml4 # NoBlock /\ saved[k] = TableAt(frames, k - 1)
  /\ cr3 = TableAt(frames, Len(saved))

(* What the innermost program has not got yet, and what it has.            *)
Untaken == CASE at \in {"open", "image"} -> Part
             [] at = "stack" -> {"stack", "api", "pml4"}
             [] at = "api" -> {"api", "pml4"}
             [] at = "pml4" -> {"pml4"}
             [] OTHER -> {}
SetUp ==
  /\ at \in Setup => \A h \in Handle : Mine.layers[h] = None
  /\ \A p \in Untaken : Mine[p] = NoBlock
  /\ at \in Part \cup {"open"} => Mine.page_tables = <<>>
  /\ at = "map" => \A p \in Part : Mine[p] # NoBlock

(* What the variables are, but for the two of the page allocator.          *)
Typed ==
  /\ layers \in [Slot -> Block]
  /\ frames \in Seq(AddressSpace)
  /\ \A k \in 1 .. Len(frames) : Len(frames[k].page_tables) <= TableLimit
  /\ active_program \in 0 .. Len(frames)
  /\ cr3 \in Page /\ saved \in Seq(Page)
  /\ examples \in Seq(Slot \cup {None}) /\ console_layer \in Slot \cup {None}
  /\ at \in {"boot", "open", "map", "user", "destroy", "ended", "halted"} \cup Part
  /\ success \in BOOLEAN /\ turn \in {"console", "manager"}
-----------------------------------------------------------------------------
(* Blocks and sequences.                                                   *)

LEMMA NoBlockType == NoBlock \in Block /\ PagesOf(NoBlock) = {} /\ KernelTable \in Page
  BY DEF NoBlock, Block, Page, PagesOf

(* A search finds nothing, or as many pages as it was for, all of them     *)
(* free.                                                                   *)
LEMMA FoundIs ==
  ASSUME used \subseteq Page, NEW n \in Nat, NEW b \in Found(n)
  PROVE  /\ b \in Block
         /\ PagesOf(b) \subseteq Page \ used
         /\ b # NoBlock => b.pages = n /\ n > 0
  <1>1. CASE n = 0 \/ Runs(n) = {}
    BY <1>1, NoBlockType DEF Found
  <1>2. CASE n # 0 /\ Runs(n) # {}
    <2>1. PICK f \in Runs(n) : b = [first |-> f, pages |-> n]
      BY <1>2 DEF Found
    <2>2. f \in 0 .. PageCount - n /\ (f .. f + n - 1) \cap used = {}
      BY <2>1 DEF Runs
    <2> QED BY <1>2, <2>1, <2>2 DEF Block, Page, PagesOf
  <1> QED BY <1>1, <1>2

LEMMA SequenceFacts ==
  ASSUME NEW S, NEW s \in Seq(S)
  PROVE  /\ Len(s) \in Nat /\ s \in [1 .. Len(s) -> S]
         /\ \A x \in S : /\ Append(s, x) \in Seq(S)
                         /\ Len(Append(s, x)) = Len(s) + 1
                         /\ Append(s, x)[Len(s) + 1] = x
                         /\ \A k \in 1 .. Len(s) : Append(s, x)[k] = s[k]
         /\ \A x \in S, i \in 1 .. Len(s) : /\ [s EXCEPT ![i] = x] \in Seq(S)
                                            /\ Len([s EXCEPT ![i] = x]) = Len(s)
  <1>1. /\ Len(s) \in Nat /\ DOMAIN s = 1 .. Len(s) /\ s \in [1 .. Len(s) -> S]
    OBVIOUS
  <1>2. ASSUME NEW x \in S
        PROVE  /\ Append(s, x) \in Seq(S)
               /\ Len(Append(s, x)) = Len(s) + 1
               /\ Append(s, x)[Len(s) + 1] = x
               /\ \A k \in 1 .. Len(s) : Append(s, x)[k] = s[k]
    OBVIOUS
  <1>3. ASSUME NEW x \in S, NEW i \in 1 .. Len(s)
        PROVE  [s EXCEPT ![i] = x] \in Seq(S) /\ Len([s EXCEPT ![i] = x]) = Len(s)
    <2>1. [s EXCEPT ![i] = x] \in [1 .. Len(s) -> S]
      BY <1>1
    <2>2. \A n \in Nat : \A f \in [1 .. n -> S] : f \in Seq(S) /\ Len(f) = n
      OBVIOUS
    <2> QED BY <1>1, <2>1, <2>2
  <1> QED BY <1>1, <1>2, <1>3

LEMMA FrontLast ==
  ASSUME NEW S, NEW s \in Seq(S), s # <<>>
  PROVE  /\ Len(s) \in Nat \ {0}
         /\ Last(s) = s[Len(s)] /\ Last(s) \in S
         /\ Front(s) \in Seq(S) /\ Len(Front(s)) = Len(s) - 1
         /\ \A k \in 1 .. Len(s) - 1 : Front(s)[k] = s[k]
  <1>1. Len(s) \in Nat \ {0} /\ DOMAIN s = 1 .. Len(s)
    OBVIOUS
  <1>2. Last(s) = s[Len(s)] /\ s[Len(s)] \in S
    BY <1>1 DEF Last
  <1>3. Front(s) = SubSeq(s, 1, Len(s) - 1)
    BY DEF Front
  <1>4. /\ SubSeq(s, 1, Len(s) - 1) \in Seq(S)
        /\ Len(SubSeq(s, 1, Len(s) - 1)) = Len(s) - 1
        /\ \A k \in 1 .. Len(s) - 1 : SubSeq(s, 1, Len(s) - 1)[k] = s[k]
    BY <1>1
  <1> QED BY <1>1, <1>2, <1>3, <1>4

(* What a program keeps of its address space when a field changes.         *)
LEMMA WithPart ==
  ASSUME NEW r \in AddressSpace, NEW p \in Part, NEW b \in Block
  PROVE  /\ [r EXCEPT ![p] = b] \in AddressSpace
         /\ [r EXCEPT ![p] = b][p] = b
         /\ \A q \in Part : q # p => [r EXCEPT ![p] = b][q] = r[q]
         /\ [r EXCEPT ![p] = b].layers = r.layers
         /\ [r EXCEPT ![p] = b].page_tables = r.page_tables
         /\ [r EXCEPT ![p] = b].parent = r.parent
  BY DEF AddressSpace, Part

LEMMA WithTables ==
  ASSUME NEW r \in AddressSpace, NEW t \in Seq(Block)
  PROVE  /\ [r EXCEPT !.page_tables = t] \in AddressSpace
         /\ [r EXCEPT !.page_tables = t].page_tables = t
         /\ \A q \in Part : [r EXCEPT !.page_tables = t][q] = r[q]
         /\ [r EXCEPT !.page_tables = t].layers = r.layers
         /\ [r EXCEPT !.page_tables = t].parent = r.parent
  BY DEF AddressSpace, Part

LEMMA WithHandle ==
  ASSUME NEW r \in AddressSpace, NEW h \in Handle, NEW s \in Slot \cup {None}
  PROVE  /\ [r EXCEPT !.layers[h] = s] \in AddressSpace
         /\ [r EXCEPT !.layers[h] = s].layers[h] = s
         /\ \A g \in Handle : g # h => [r EXCEPT !.layers[h] = s].layers[g] = r.layers[g]
         /\ \A q \in Part : [r EXCEPT !.layers[h] = s][q] = r[q]
         /\ [r EXCEPT !.layers[h] = s].page_tables = r.page_tables
         /\ [r EXCEPT !.layers[h] = s].parent = r.parent
  BY DEF AddressSpace, Part

LEMMA AddressSpaceFields ==
  ASSUME NEW r \in AddressSpace
  PROVE  /\ \A q \in Part : r[q] \in Block
         /\ r.pml4 = r["pml4"] /\ r.pml4 \in Block
         /\ r.page_tables \in Seq(Block)
         /\ r.layers \in [Handle -> Slot \cup {None}]
         /\ r.parent \in Nat
  BY DEF AddressSpace, Part

LEMMA NewAddressSpaceIs ==
  ASSUME Typed
  PROVE  /\ NewAddressSpace \in AddressSpace
         /\ \A q \in Part : NewAddressSpace[q] = NoBlock
         /\ \A h \in Handle : NewAddressSpace.layers[h] = None
         /\ NewAddressSpace.page_tables = <<>>
         /\ NewAddressSpace.parent = active_program
  <1>1. active_program \in Nat
    BY DEF Typed
  <1>2. <<>> \in Seq(Block) /\ [h \in Handle |-> None] \in [Handle -> Slot \cup {None}]
    OBVIOUS
  <1> QED BY <1>1, <1>2, NoBlockType DEF NewAddressSpace, AddressSpace, Part

LEMMA MineIs ==
  ASSUME Typed, frames # <<>>
  PROVE  /\ Len(frames) \in Nat \ {0}
         /\ Mine = frames[Len(frames)] /\ Mine \in AddressSpace
         /\ \A p \in AddressSpace : /\ WithMine(p) \in Seq(AddressSpace)
                                    /\ Len(WithMine(p)) = Len(frames)
                                    /\ WithMine(p)[Len(frames)] = p
                                    /\ Last(WithMine(p)) = p
                                    /\ WithMine(p) # <<>>
                                    /\ \A k \in 1 .. Len(frames) - 1 : WithMine(p)[k] = frames[k]
  <1>1. frames \in Seq(AddressSpace)
    BY DEF Typed
  <1>2. /\ Len(frames) \in Nat \ {0}
        /\ Mine = frames[Len(frames)] /\ Mine \in AddressSpace
    BY <1>1, FrontLast, SequenceFacts DEF Mine
  <1>3. ASSUME NEW p \in AddressSpace
        PROVE  /\ WithMine(p) \in Seq(AddressSpace)
               /\ Len(WithMine(p)) = Len(frames)
               /\ WithMine(p)[Len(frames)] = p
               /\ \A k \in 1 .. Len(frames) - 1 : WithMine(p)[k] = frames[k]
    BY <1>1, <1>2, SequenceFacts DEF WithMine
  <1>4. ASSUME NEW p \in AddressSpace
        PROVE  Last(WithMine(p)) = p /\ WithMine(p) # <<>>
    <2>1. WithMine(p) # <<>>
      BY <1>2, <1>3
    <2> QED BY <1>2, <1>3, <2>1 DEF Last
  <1> QED BY <1>2, <1>3, <1>4

LEMMA MineTables ==
  ASSUME Typed, frames # <<>>
  PROVE  Len(Mine.page_tables) <= TableLimit
  BY MineIs DEF Typed

LEMMA AppendedIs ==
  ASSUME Typed
  PROVE  LET f == Append(frames, NewAddressSpace)
         IN /\ f \in Seq(AddressSpace) /\ Len(f) = Len(frames) + 1 /\ f # <<>>
            /\ Len(frames) \in Nat
            /\ f[Len(frames) + 1] = NewAddressSpace
            /\ Last(f) = NewAddressSpace
            /\ \A k \in 1 .. Len(frames) : f[k] = frames[k]
  <1> DEFINE f == Append(frames, NewAddressSpace)
  <1>1. frames \in Seq(AddressSpace) /\ NewAddressSpace \in AddressSpace
    BY NewAddressSpaceIs DEF Typed
  <1>2. /\ f \in Seq(AddressSpace) /\ Len(f) = Len(frames) + 1
        /\ Len(frames) \in Nat
        /\ f[Len(frames) + 1] = NewAddressSpace
        /\ \A k \in 1 .. Len(frames) : f[k] = frames[k]
    BY <1>1, SequenceFacts
  <1>3. f # <<>>
    BY <1>2
  <1>4. Last(f) = NewAddressSpace
    BY <1>2, <1>3 DEF Last
  <1> QED BY <1>2, <1>3, <1>4

LEMMA FrontIs ==
  ASSUME Typed, frames # <<>>
  PROVE  /\ Front(frames) \in Seq(AddressSpace) /\ Len(Front(frames)) = Len(frames) - 1
         /\ \A k \in 1 .. Len(frames) - 1 : Front(frames)[k] = frames[k]
         /\ Len(frames) = 1 => Front(frames) = <<>>
         /\ Len(frames) > 1 => Front(frames) # <<>>
  <1>1. frames \in Seq(AddressSpace)
    BY DEF Typed
  <1>2. /\ Len(frames) \in Nat \ {0}
        /\ Front(frames) \in Seq(AddressSpace) /\ Len(Front(frames)) = Len(frames) - 1
        /\ \A k \in 1 .. Len(frames) - 1 : Front(frames)[k] = frames[k]
    BY <1>1, FrontLast
  <1> QED BY <1>2

-----------------------------------------------------------------------------
(* Each step keeps the types.                                              *)

(* A step that changes the innermost program only.                         *)
LEMMA TypedWithMine ==
  ASSUME Typed, frames # <<>>, NEW p \in AddressSpace,
         Len(p.page_tables) <= TableLimit,
         frames' = WithMine(p),
         layers' \in [Slot -> Block],
         at' \in {"boot", "open", "map", "user", "destroy", "ended", "halted"} \cup Part,
         success' \in BOOLEAN, turn' = turn,
         UNCHANGED <<active_program, cr3, saved, examples, console_layer>>
  PROVE  Typed'
  <1>1. /\ frames' \in Seq(AddressSpace) /\ Len(frames') = Len(frames)
        /\ frames'[Len(frames)] = p
        /\ \A k \in 1 .. Len(frames) - 1 : frames'[k] = frames[k]
        /\ Len(frames) \in Nat \ {0}
    BY MineIs
  <1>2. ASSUME NEW k \in 1 .. Len(frames')
        PROVE  Len(frames'[k].page_tables) <= TableLimit
    <2>1. CASE k = Len(frames)
      BY <1>1, <2>1
    <2>2. CASE k \in 1 .. Len(frames) - 1
      BY <1>1, <2>2 DEF Typed
    <2> QED BY <1>1, <2>1, <2>2
  <1> QED BY <1>1, <1>2 DEF Typed

LEMMA TypedReturned ==
  ASSUME Typed, Nested, frames # <<>>, NEW result \in BOOLEAN, Returned(result),
         at \in {"open", "destroy"},
         UNCHANGED <<layers, cr3, saved, examples, console_layer, success>>
  PROVE  Typed'
  <1>1. /\ frames' \in Seq(AddressSpace) /\ Len(frames') = Len(frames) - 1
        /\ \A k \in 1 .. Len(frames) - 1 : frames'[k] = frames[k]
        /\ Len(frames) \in Nat \ {0}
    BY FrontIs, MineIs DEF Returned
  <1>2. \A k \in 1 .. Len(frames') : Len(frames'[k].page_tables) <= TableLimit
    BY <1>1 DEF Typed
  <1>3. active_program' \in 0 .. Len(frames')
    <2>1. CASE Len(frames) > 1
      <3>1. Mine.parent = Len(frames) - 1
        BY <1>1, MineIs DEF Nested
      <3> QED BY <1>1, <2>1, <3>1 DEF Returned
    <2>2. CASE Len(frames) = 1
      <3>1. active_program = 0
        BY <1>1, <2>2 DEF Typed, Nested, Setup
      <3> QED BY <1>1, <2>2, <3>1 DEF Returned
    <2> QED BY <1>1, <2>1, <2>2
  <1>4. /\ at' \in {"user", "ended", "halted"}
        /\ turn' \in {"console", "manager"}
    BY DEF Returned, Typed
  <1> QED BY <1>1, <1>2, <1>3, <1>4 DEF Typed

-----------------------------------------------------------------------------
(* Each step keeps the nesting.                                            *)

Structure == Typed /\ Nested /\ TablesKept /\ SetUp

LEMMA NestedLengths ==
  ASSUME Typed, Nested
  PROVE  /\ Len(frames) \in Nat
         /\ Len(saved) \in Nat
         /\ Len(saved) <= Len(frames)
         /\ frames # <<>> => Len(frames) > 0
  <1>1. frames \in Seq(AddressSpace) /\ saved \in Seq(Page)
    BY DEF Typed
  <1>2. /\ Len(frames) \in Nat
        /\ Len(saved) \in Nat
        /\ frames # <<>> => Len(frames) > 0
    BY <1>1
  <1>3. Len(saved) <= Len(frames)
    <2>1. Len(saved) = Len(frames) - 1 \/ Len(saved) = Len(frames)
      BY DEF Nested
    <2> QED BY <1>2, <2>1
  <1> QED BY <1>2, <1>3

(* A step in the innermost program_run, or in a system call.               *)
LEMMA NestedWithMine ==
  ASSUME Typed, Nested, TablesKept, frames # <<>>, NEW p \in AddressSpace,
         frames' = WithMine(p), p.parent = Mine.parent,
         \/ at \in Setup \cup {"destroy"} /\ at' \in Setup \cup {"destroy"}
         \/ at = "user" /\ at' = "user" /\ p.pml4 = Mine.pml4,
         UNCHANGED <<active_program, cr3, saved>>
  PROVE  Nested' /\ TablesKept'
  <1>1. /\ frames' \in Seq(AddressSpace) /\ Len(frames') = Len(frames)
        /\ frames' # <<>>
        /\ frames'[Len(frames)] = p /\ Mine = frames[Len(frames)]
        /\ \A k \in 1 .. Len(frames) - 1 : frames'[k] = frames[k]
        /\ Len(frames) \in Nat \ {0}
    BY MineIs
  <1>2. Len(saved) \in Nat /\ Len(saved) <= Len(frames)
    BY NestedLengths
  <1>3. ASSUME NEW k \in 1 .. Len(frames)
        PROVE  frames'[k].parent = k - 1
    <2>1. CASE k = Len(frames)
      BY <1>1, <2>1 DEF Nested
    <2>2. CASE k \in 1 .. Len(frames) - 1
      BY <1>1, <2>2 DEF Nested
    <2>3. k = Len(frames) \/ k \in 1 .. Len(frames) - 1
      BY Len(frames) \in Nat \ {0}
    <2> QED BY <2>1, <2>2, <2>3
  <1>4. Nested'
    BY <1>1, <1>2, <1>3 DEF Nested, Setup, Part
  <1>5. ASSUME NEW k \in 1 .. Len(saved)
        PROVE  frames'[k].pml4 = frames[k].pml4
    <2>1. CASE k = Len(frames)
      <3>1. at = "user"
        BY <1>2, <2>1 DEF Nested
      <3> QED BY <1>1, <2>1, <3>1 DEF Setup, Part
    <2>2. CASE k \in 1 .. Len(frames) - 1
      BY <1>1, <2>2
    <2>3. k = Len(frames) \/ k \in 1 .. Len(frames) - 1
      BY <1>1, <1>2
    <2> QED BY <2>1, <2>2, <2>3
  <1>6. ASSUME NEW k \in 0 .. Len(saved)
        PROVE  TableAt(frames', k) = TableAt(frames, k)
    BY <1>2, <1>5 DEF TableAt
  <1>7. ASSUME NEW k \in 1 .. Len(saved)
        PROVE  frames'[k].pml4 # NoBlock /\ saved'[k] = TableAt(frames', k - 1)
    BY <1>2, <1>5, <1>6 DEF TablesKept
  <1>8. cr3' = TableAt(frames', Len(saved'))
    BY <1>2, <1>6 DEF TablesKept
  <1>9. TablesKept'
    BY <1>2, <1>7, <1>8 DEF TablesKept
  <1> QED BY <1>4, <1>9

LEMMA NestedSame ==
  ASSUME Typed, Nested, TablesKept,
         \/ at \in Setup \cup {"destroy"} /\ at' \in Setup \cup {"destroy"}
         \/ at' = at
         \/ at = "user" /\ at' = "halted",
         UNCHANGED <<frames, active_program, cr3, saved>>
  PROVE  Nested' /\ TablesKept'
  <1>1. Nested'
    BY DEF Nested, Setup, Part
  <1>2. TablesKept'
    BY DEF TablesKept, TableAt
  <1> QED BY <1>1, <1>2

LEMMA NestedRun ==
  ASSUME Typed, Nested, TablesKept, at \in {"boot", "user"}, RunProgram,
         UNCHANGED <<active_program, cr3, saved>>
  PROVE  Nested' /\ TablesKept'
  <1>1. /\ frames' \in Seq(AddressSpace) /\ Len(frames') = Len(frames) + 1
        /\ frames' # <<>>
        /\ frames'[Len(frames) + 1] = NewAddressSpace
        /\ \A k \in 1 .. Len(frames) : frames'[k] = frames[k]
    BY AppendedIs DEF RunProgram
  <1>2. /\ Len(saved) \in Nat /\ Len(saved) <= Len(frames)
        /\ Len(frames) \in Nat
    BY NestedLengths
  <1>3. NewAddressSpace.parent = Len(frames)
    BY NewAddressSpaceIs DEF Nested
  <1>4. ASSUME NEW k \in 1 .. Len(frames) + 1
        PROVE  frames'[k].parent = k - 1
    <2>1. CASE k = Len(frames) + 1
      BY <1>1, <1>2, <1>3, <2>1
    <2>2. CASE k \in 1 .. Len(frames)
      BY <1>1, <1>2, <2>2 DEF Nested
    <2> QED BY <1>2, <2>1, <2>2
  <1>5. Nested'
    BY <1>1, <1>2, <1>4 DEF Nested, Setup, Part, RunProgram
  <1>6. ASSUME NEW k \in 0 .. Len(saved)
        PROVE  TableAt(frames', k) = TableAt(frames, k)
    BY <1>1, <1>2 DEF TableAt
  <1>7. TablesKept'
    BY <1>1, <1>2, <1>6 DEF TablesKept
  <1> QED BY <1>5, <1>7

LEMMA NestedReturned ==
  ASSUME Typed, Nested, TablesKept, frames # <<>>, NEW result \in BOOLEAN, Returned(result),
         at \in {"open", "destroy"}, UNCHANGED <<cr3, saved>>
  PROVE  Nested' /\ TablesKept'
  <1>1. /\ frames' \in Seq(AddressSpace) /\ Len(frames') = Len(frames) - 1
        /\ \A k \in 1 .. Len(frames) - 1 : frames'[k] = frames[k]
        /\ Len(frames) = 1 => frames' = <<>>
        /\ Len(frames) > 1 => frames' # <<>>
        /\ Mine = frames[Len(frames)]
        /\ Len(frames) \in Nat \ {0}
    BY FrontIs, MineIs DEF Returned
  <1>2. Len(saved) = Len(frames) - 1
    BY NestedLengths DEF Nested, Setup
  <1>3. at' = IF Len(frames) > 1 THEN "user" ELSE IF result THEN "ended" ELSE "halted"
    BY DEF Returned
  <1>4. Len(frames) > 1 => active_program' = Len(frames')
    BY <1>1 DEF Returned, Nested
  <1>5. Nested'
    BY <1>1, <1>2, <1>3, <1>4 DEF Nested, Setup, Part
  <1>6. ASSUME NEW k \in 0 .. Len(saved)
        PROVE  TableAt(frames', k) = TableAt(frames, k)
    BY <1>1, <1>2 DEF TableAt
  <1>7. TablesKept'
    BY <1>1, <1>2, <1>6 DEF TablesKept
  <1> QED BY <1>5, <1>7

LEMMA SetUpOutside ==
  ASSUME at' \in {"boot", "user", "destroy", "ended", "halted"}
  PROVE  SetUp'
  BY DEF SetUp, Untaken, Setup, Part

LEMMA LayerCreatedType ==
  ASSUME Typed, used \subseteq Page, NEW n \in Nat, NEW s \in Slot, LayerCreated(n, s)
  PROVE  layers' \in [Slot -> Block]
  <1>1. PICK b \in Found(n) \ {NoBlock} : layers' = [layers EXCEPT ![s] = b]
    BY DEF LayerCreated
  <1> QED BY <1>1, FoundIs DEF Typed

LEMMA LayerDestroyedType ==
  ASSUME Typed, NEW s \in Slot, layer_destroy(s)
  PROVE  layers' \in [Slot -> Block]
  BY NoBlockType DEF layer_destroy, Typed

(* One of the four allocations.                                            *)
LEMMA AllocateStep ==
  ASSUME Structure, used \subseteq Page, NEW part \in Part, NEW pages \in Nat,
         NEW next \in Part \cup {"map"}, AllocatePart(part, pages, next),
         \/ part = "image" /\ next = "stack"
         \/ part = "stack" /\ next = "api"
         \/ part = "api" /\ next = "pml4"
         \/ part = "pml4" /\ next = "map"
  PROVE  Structure'
  <1>1. PICK b \in Found(pages) : frames' = WithMine([Mine EXCEPT ![part] = b])
    BY DEF AllocatePart
  <1> DEFINE p == [Mine EXCEPT ![part] = b]
  <1>2. at = part /\ frames # <<>> /\ at \in Setup
    BY DEF AllocatePart, Structure, Nested, Setup
  <1>3. Mine \in AddressSpace /\ b \in Block
    BY <1>1, <1>2, MineIs, FoundIs DEF Structure
  <1>4. /\ p \in AddressSpace /\ p[part] = b
        /\ \A q \in Part : q # part => p[q] = Mine[q]
        /\ p.layers = Mine.layers /\ p.page_tables = Mine.page_tables /\ p.parent = Mine.parent
    BY <1>3, WithPart
  <1>5. Mine' = p
    BY <1>1, <1>2, <1>4, MineIs DEF Structure, Mine
  <1>6. Len(p.page_tables) <= TableLimit
    BY <1>2, <1>4, MineIs DEF Structure, Typed
  <1>7. /\ \/ at' = "destroy" /\ success' = FALSE
           \/ at' = next /\ success' = success
        /\ at' = "map" => \A q \in Part : p[q] # NoBlock
        /\ UNCHANGED <<layers, active_program, cr3, saved, examples, console_layer, turn>>
    BY <1>1, <1>5 DEF AllocatePart, Mine, Part
  <1>8. Typed'
    <2>1. /\ at' \in {"boot", "open", "map", "user", "destroy", "ended", "halted"} \cup Part
          /\ success' \in BOOLEAN /\ layers' \in [Slot -> Block] /\ turn' = turn
      BY <1>7 DEF Structure, Typed, Part
    <2> QED BY <1>1, <1>2, <1>4, <1>6, <1>7, <2>1, TypedWithMine DEF Structure
  <1>9. Nested' /\ TablesKept'
    <2>1. at \in Setup \cup {"destroy"} /\ at' \in Setup \cup {"destroy"}
      BY <1>2, <1>7 DEF Setup, Part
    <2> QED BY <1>1, <1>2, <1>4, <1>7, <2>1, NestedWithMine DEF Structure
  <1>10. SetUp'
    <2>1. CASE at' = "destroy"
      BY <2>1, SetUpOutside
    <2>2. CASE at' = next
      <3>1. \A h \in Handle : p.layers[h] = None
        BY <1>2, <1>4 DEF Structure, SetUp
      <3>2. \A q \in Untaken' : q \in Untaken /\ q # part /\ q \in Part
        BY <1>2, <2>2 DEF Untaken, Part
      <3>3. \A q \in Untaken' : p[q] = NoBlock
        BY <1>4, <3>2 DEF Structure, SetUp
      <3>4. p.page_tables = <<>>
        BY <1>2, <1>4 DEF Structure, SetUp
      <3> QED BY <1>5, <1>7, <3>1, <3>3, <3>4 DEF SetUp
    <2> QED BY <1>7, <2>1, <2>2
  <1> QED BY <1>8, <1>9, <1>10 DEF Structure

(* map_user_page.                                                          *)
LEMMA MapStep ==
  ASSUME Structure, used \subseteq Page, MapPages
  PROVE  Structure'
  <1>1. at = "map" /\ frames # <<>> /\ at \in Setup
    BY DEF MapPages, Structure, Nested, Setup
  <1>2. PICK b \in IF Len(Mine.page_tables) = TableLimit THEN {NoBlock} ELSE Found(1) :
          frames' = IF b = NoBlock THEN frames
                    ELSE WithMine([Mine EXCEPT !.page_tables = Append(@, b)])
    BY DEF MapPages, allocate_page_table
  <1>3. \/ at' = "destroy" /\ success' = FALSE /\ frames' = frames
        \/ at' = "map" /\ success' = success
    BY <1>1 DEF MapPages
  <1>4. UNCHANGED <<layers, active_program, cr3, saved, examples, console_layer, turn>>
    BY DEF MapPages
  <1>5. at' \in Setup \cup {"destroy"} /\ success' \in BOOLEAN
    BY <1>3 DEF Structure, Typed, Setup, Part
  <1>6. CASE frames' = frames
    <2>1. Typed'
      BY <1>3, <1>4, <1>5, <1>6 DEF Structure, Typed, Setup, Part
    <2>2. Nested' /\ TablesKept'
      BY <1>1, <1>4, <1>5, <1>6, NestedSame DEF Structure
    <2>3. SetUp'
      BY <1>1, <1>3, <1>6 DEF Structure, SetUp, Setup, Part, Untaken, Mine
    <2> QED BY <2>1, <2>2, <2>3 DEF Structure
  <1>7. CASE frames' # frames
    <2> DEFINE t == Append(Mine.page_tables, b)
               p == [Mine EXCEPT !.page_tables = t]
    <2>1. b # NoBlock /\ Len(Mine.page_tables) # TableLimit /\ b \in Found(1)
      BY <1>2, <1>7
    <2>2. Mine \in AddressSpace /\ b \in Block /\ Mine.page_tables \in Seq(Block)
      BY <1>1, <2>1, MineIs, FoundIs, AddressSpaceFields DEF Structure
    <2>3. frames' = WithMine(p) /\ at' = "map" /\ success' = success
      BY <1>2, <1>3, <1>7, <2>1
    <2>4. t \in Seq(Block) /\ Len(t) = Len(Mine.page_tables) + 1
      BY <2>2, SequenceFacts
    <2>5. /\ p \in AddressSpace /\ p.page_tables = t
          /\ \A q \in Part : p[q] = Mine[q]
          /\ p.layers = Mine.layers /\ p.parent = Mine.parent
      BY <2>2, <2>4, WithTables
    <2>6. Len(p.page_tables) <= TableLimit
      <3>1. Len(Mine.page_tables) <= TableLimit /\ Len(Mine.page_tables) \in Nat
        BY <1>1, <2>2, MineIs, SequenceFacts DEF Structure, Typed
      <3> QED BY <2>1, <2>4, <2>5, <3>1
    <2>7. Typed'
      <3>1. /\ at' \in {"boot", "open", "map", "user", "destroy", "ended", "halted"} \cup Part
            /\ success' \in BOOLEAN /\ layers' \in [Slot -> Block] /\ turn' = turn
        BY <1>4, <1>5, <2>3 DEF Structure, Typed
      <3> QED BY <1>1, <1>4, <2>3, <2>5, <2>6, <3>1, TypedWithMine DEF Structure
    <2>8. Nested' /\ TablesKept'
      BY <1>1, <1>4, <1>5, <2>3, <2>5, NestedWithMine DEF Structure
    <2>9. Mine' = p
      BY <1>1, <2>3, <2>5, MineIs DEF Structure, Mine
    <2>10. SetUp'
      <3>1. \A h \in Handle : p.layers[h] = None
        BY <1>1, <2>5 DEF Structure, SetUp
      <3>2. \A q \in Part : p[q] # NoBlock
        BY <1>1, <2>5 DEF Structure, SetUp
      <3> QED BY <2>3, <2>9, <3>1, <3>2 DEF SetUp, Untaken, Part
    <2> QED BY <2>7, <2>8, <2>10 DEF Structure
  <1> QED BY <1>6, <1>7

LEMMA RunStep ==
  ASSUME Structure, at \in {"boot", "user"}, RunProgram,
         UNCHANGED <<layers, active_program, cr3, saved, examples, console_layer, success, turn>>
  PROVE  Structure'
  <1>1. /\ frames' = Append(frames, NewAddressSpace) /\ at' = "open"
        /\ frames' \in Seq(AddressSpace) /\ Len(frames') = Len(frames) + 1
        /\ Len(frames) \in Nat
        /\ frames'[Len(frames) + 1] = NewAddressSpace
        /\ \A k \in 1 .. Len(frames) : frames'[k] = frames[k]
        /\ Mine' = NewAddressSpace
    BY AppendedIs DEF RunProgram, Structure, Mine
  <1>2. ASSUME NEW k \in 1 .. Len(frames')
        PROVE  Len(frames'[k].page_tables) <= TableLimit
    <2>1. CASE k = Len(frames) + 1
      BY <1>1, <2>1, NewAddressSpaceIs DEF Structure
    <2>2. CASE k \in 1 .. Len(frames)
      BY <1>1, <2>2 DEF Structure, Typed
    <2> QED BY <1>1, <2>1, <2>2
  <1>3. Typed'
    BY <1>1, <1>2 DEF Structure, Typed
  <1>4. Nested' /\ TablesKept'
    BY NestedRun DEF Structure
  <1>5. SetUp'
    BY <1>1, NewAddressSpaceIs DEF Structure, SetUp, Untaken
  <1> QED BY <1>3, <1>4, <1>5 DEF Structure

LEMMA OpenStep ==
  ASSUME Structure, OpenProgram
  PROVE  Structure'
  <1>1. at = "open" /\ at \in Setup /\ frames # <<>>
    BY DEF OpenProgram, Structure, Nested, Setup
  <1>2. CASE at' = "image" /\ UNCHANGED <<frames, active_program, turn>>
    <2>1. Typed'
      BY <1>2 DEF OpenProgram, Structure, Typed, Part
    <2>2. at' \in Setup
      BY <1>2 DEF Setup, Part
    <2>3. Nested' /\ TablesKept'
      BY <1>1, <1>2, <2>2, NestedSame DEF OpenProgram, Structure
    <2>4. SetUp'
      BY <1>1, <1>2 DEF Structure, SetUp, Untaken, Mine
    <2> QED BY <2>1, <2>3, <2>4 DEF Structure
  <1>3. CASE Returned(FALSE)
    <2>1. UNCHANGED <<layers, cr3, saved, examples, console_layer, success>>
      BY DEF OpenProgram
    <2>2. Typed' /\ Nested' /\ TablesKept'
      BY <1>1, <1>3, <2>1, TypedReturned, NestedReturned DEF Structure
    <2>3. SetUp'
      BY <1>3, SetUpOutside DEF Returned
    <2> QED BY <2>2, <2>3 DEF Structure
  <1> QED BY <1>2, <1>3 DEF OpenProgram

LEMMA EnterStep ==
  ASSUME Structure, EnterUser
  PROVE  Structure'
  <1>1. /\ at = "map" /\ at \in Setup /\ frames # <<>> /\ at' = "user"
        /\ UNCHANGED <<layers, frames, examples, console_layer, success, turn>>
        /\ active_program' = Len(frames) /\ saved' = Append(saved, cr3) /\ cr3' = Mine.pml4.first
    BY DEF EnterUser, Structure, Nested, Setup
  <1>2. /\ Len(frames) \in Nat \ {0} /\ Mine = frames[Len(frames)]
        /\ Mine.pml4 \in Block /\ Mine["pml4"] = Mine.pml4
    BY <1>1, MineIs, AddressSpaceFields DEF Structure
  <1>3. Len(saved) = Len(frames) - 1
    BY <1>1 DEF Structure, Nested
  <1>4. saved \in Seq(Page) /\ cr3 \in Page
    BY DEF Structure, Typed
  <1>5. /\ saved' \in Seq(Page) /\ Len(saved') = Len(frames)
        /\ saved'[Len(frames)] = cr3
        /\ \A k \in 1 .. Len(frames) - 1 : saved'[k] = saved[k]
    BY <1>1, <1>2, <1>3, <1>4, SequenceFacts
  <1>6. Mine.pml4 # NoBlock
    BY <1>1, <1>2 DEF Structure, SetUp, Part
  <1>7. cr3' \in Page
    BY <1>1, <1>2 DEF Block
  <1>8. Typed'
    BY <1>1, <1>2, <1>5, <1>7 DEF Structure, Typed
  <1>9. Nested'
    BY <1>1, <1>2, <1>5 DEF Structure, Nested, Setup, Part
  <1>10. ASSUME NEW k \in 0 .. Len(frames)
         PROVE  TableAt(frames', k) = TableAt(frames, k)
    BY <1>1 DEF TableAt
  <1>11. ASSUME NEW k \in 1 .. Len(frames)
         PROVE  frames'[k].pml4 # NoBlock /\ saved'[k] = TableAt(frames', k - 1)
    <2>1. CASE k = Len(frames)
      <3>1. cr3 = TableAt(frames, k - 1)
        BY <1>3, <2>1 DEF Structure, TablesKept
      <3>2. frames'[k] = Mine
        BY <1>1, <1>2, <2>1
      <3>3. saved'[k] = cr3
        BY <1>5, <2>1
      <3>4. TableAt(frames', k - 1) = TableAt(frames, k - 1)
        BY <1>10, <1>2
      <3> QED BY <1>6, <3>1, <3>2, <3>3, <3>4
    <2>2. CASE k \in 1 .. Len(frames) - 1
      <3>1. frames[k].pml4 # NoBlock /\ saved[k] = TableAt(frames, k - 1)
        BY <1>3, <2>2 DEF Structure, TablesKept
      <3>2. TableAt(frames', k - 1) = TableAt(frames, k - 1)
        BY <1>10, <1>2
      <3> QED BY <1>1, <1>5, <2>2, <3>1, <3>2
    <2> QED BY <1>2, <2>1, <2>2
  <1>12. cr3' = TableAt(frames', Len(frames))
    BY <1>1, <1>2 DEF TableAt
  <1>13. TablesKept'
    <2>1. \A k \in 1 .. Len(saved') : frames'[k].pml4 # NoBlock /\ saved'[k] = TableAt(frames', k - 1)
      BY <1>5, <1>11
    <2>2. cr3' = TableAt(frames', Len(saved'))
      BY <1>5, <1>12
    <2> QED BY <2>1, <2>2 DEF TablesKept
  <1>14. SetUp'
    BY <1>1, SetUpOutside
  <1> QED BY <1>8, <1>9, <1>13, <1>14 DEF Structure

LEMMA LeaveStep ==
  ASSUME Structure, LeaveUser
  PROVE  Structure'
  <1>1. /\ at = "user" /\ frames # <<>> /\ at' = "destroy" /\ active_program' = 0
        /\ saved' = Front(saved) /\ cr3' = Last(saved) /\ success' \in BOOLEAN
        /\ UNCHANGED <<layers, frames, examples, console_layer, turn>>
    BY DEF LeaveUser, LeftUser, Running, Structure, Nested
  <1>2. Len(frames) \in Nat \ {0} /\ Len(saved) = Len(frames) /\ saved \in Seq(Page)
    BY <1>1, MineIs DEF Structure, Nested, Typed, Setup, Part
  <1>3. saved # <<>>
    BY <1>2
  <1>4. /\ saved' \in Seq(Page) /\ Len(saved') = Len(frames) - 1
        /\ \A k \in 1 .. Len(frames) - 1 : saved'[k] = saved[k]
        /\ cr3' = saved[Len(frames)] /\ cr3' \in Page
    BY <1>1, <1>2, <1>3, FrontLast
  <1>5. Typed'
    BY <1>1, <1>2, <1>4 DEF Structure, Typed
  <1>6. Nested'
    BY <1>1, <1>2, <1>4 DEF Structure, Nested, Setup, Part
  <1>7. \A k \in 0 .. Len(frames) : TableAt(frames', k) = TableAt(frames, k)
    BY <1>1 DEF TableAt
  <1>8. \A k \in 1 .. Len(frames) : frames[k].pml4 # NoBlock /\ saved[k] = TableAt(frames, k - 1)
    BY <1>2 DEF Structure, TablesKept
  <1>9. \A k \in 1 .. Len(frames) - 1 : frames'[k].pml4 # NoBlock /\ saved'[k] = TableAt(frames', k - 1)
    BY <1>1, <1>2, <1>4, <1>7, <1>8
  <1>10. cr3' = TableAt(frames', Len(frames) - 1)
    <2>1. Len(frames) \in 1 .. Len(frames) /\ Len(frames) - 1 \in 0 .. Len(frames)
      BY <1>2
    <2>2. TableAt(frames', Len(frames) - 1) = TableAt(frames, Len(frames) - 1)
      BY <1>7, <2>1
    <2> QED BY <1>4, <1>8, <2>1, <2>2
  <1>11. TablesKept'
    <2>1. \A k \in 1 .. Len(saved') : frames'[k].pml4 # NoBlock /\ saved'[k] = TableAt(frames', k - 1)
      BY <1>4, <1>9
    <2>2. cr3' = TableAt(frames', Len(saved'))
      BY <1>1, <1>4, <1>10
    <2> QED BY <2>1, <2>2 DEF TablesKept
  <1>12. SetUp'
    BY <1>1, SetUpOutside
  <1> QED BY <1>5, <1>6, <1>11, <1>12 DEF Structure

(* A program gets a layer, or loses one: in a system call, or at its end.  *)
LEMMA HandleStep ==
  ASSUME Structure, frames # <<>>, at \in {"user", "destroy"}, at' = at,
         NEW h \in Handle, NEW s \in Slot \cup {None},
         frames' = WithMine([Mine EXCEPT !.layers[h] = s]),
         layers' \in [Slot -> Block],
         UNCHANGED <<active_program, cr3, saved, examples, console_layer, success, turn>>
  PROVE  Structure'
  <1> DEFINE p == [Mine EXCEPT !.layers[h] = s]
  <1>1. Mine \in AddressSpace
    BY MineIs DEF Structure
  <1>2. /\ p \in AddressSpace /\ p.page_tables = Mine.page_tables /\ p.parent = Mine.parent
        /\ p.pml4 = Mine.pml4
    BY <1>1, WithHandle, AddressSpaceFields DEF Part
  <1>3. Len(p.page_tables) <= TableLimit
    <2>1. Len(Mine.page_tables) <= TableLimit
      BY MineTables DEF Structure
    <2> QED BY <1>2, <2>1
  <1>4. Typed'
    BY <1>2, <1>3, TypedWithMine DEF Structure, Typed
  <1>5. Nested' /\ TablesKept'
    BY <1>2, NestedWithMine DEF Structure
  <1>6. SetUp'
    BY SetUpOutside
  <1> QED BY <1>4, <1>5, <1>6 DEF Structure

(* A step that leaves the programs alone.                                  *)
LEMMA OutsideStep ==
  ASSUME Structure,
         \/ at = "map" /\ at' = "destroy"
         \/ at' = at
         \/ at = "user" /\ at' = "halted",
         layers' \in [Slot -> Block], success' \in BOOLEAN, turn' \in {"console", "manager"},
         examples' \in Seq(Slot \cup {None}), console_layer' \in Slot \cup {None},
         UNCHANGED <<frames, active_program, cr3, saved>>
  PROVE  Structure'
  <1>1. Typed'
    BY DEF Structure, Typed
  <1>2. Nested' /\ TablesKept'
    BY NestedSame DEF Structure, Setup
  <1>3. SetUp'
    BY SetUpOutside DEF Structure, SetUp, Untaken, Setup, Mine
  <1> QED BY <1>1, <1>2, <1>3 DEF Structure

LEMMA StructureInit == Init => Structure
  <1> SUFFICES ASSUME Init PROVE Structure
    OBVIOUS
  <1>1. /\ frames = <<>> /\ saved = <<>> /\ examples = <<>> /\ at = "boot" /\ active_program = 0
        /\ console_layer = 0 /\ cr3 = KernelTable /\ turn = "console" /\ success = FALSE
        /\ layers \in [Slot -> Block]
    BY NoBlockType DEF Init
  <1>2. Len(frames) = 0 /\ Len(saved) = 0
    BY <1>1
  <1>3. frames \in Seq(AddressSpace) /\ saved \in Seq(Page) /\ examples \in Seq(Slot \cup {None})
    BY <1>1
  <1>4. Typed
    <2>1. \A k \in 1 .. Len(frames) : Len(frames[k].page_tables) <= TableLimit
      BY <1>2
    <2>2. active_program \in 0 .. Len(frames)
      BY <1>1, <1>2
    <2>3. cr3 \in Page
      BY <1>1, NoBlockType
    <2> QED BY <1>1, <1>3, <2>1, <2>2, <2>3 DEF Typed
  <1>5. Nested
    BY <1>1, <1>2 DEF Nested, Setup, Part
  <1>6. TablesKept
    BY <1>1, <1>2 DEF TablesKept, TableAt
  <1>7. SetUp
    BY <1>1 DEF SetUp, Setup, Part, Untaken
  <1> QED BY <1>4, <1>5, <1>6, <1>7 DEF Structure

LEMMA StructureStep ==
  ASSUME Structure, used \subseteq Page, [Next]_vars
  PROVE  Structure'
  <1>1. /\ layers \in [Slot -> Block] /\ success \in BOOLEAN /\ turn \in {"console", "manager"}
        /\ examples \in Seq(Slot \cup {None}) /\ console_layer \in Slot \cup {None}
    BY DEF Structure, Typed
  <1>2. ASSUME at = "user"
        PROVE  frames # <<>> /\ Active = Mine /\ \A p : WithActive(p) = WithMine(p)
    <2>1. frames # <<>> /\ active_program = Len(frames)
      BY <1>2 DEF Structure, Nested
    <2> QED BY <2>1, MineIs DEF Structure, Active, WithActive, WithMine
  <1>3. CASE ConsoleStarts
    BY <1>3, RunStep DEF ConsoleStarts
  <1>4. CASE OpenProgram
    BY <1>4, OpenStep
  <1>5. CASE AllocateImage
    <2>1. PICK n \in ImageSizes : AllocatePart("image", n, "stack")
      BY <1>5 DEF AllocateImage
    <2> QED BY <2>1, AllocateStep DEF Part
  <1>6. CASE AllocateStack
    BY <1>6, AllocateStep DEF AllocateStack, Part
  <1>7. CASE AllocateApi
    BY <1>7, AllocateStep DEF AllocateApi, Part
  <1>8. CASE AllocatePml4
    BY <1>8, AllocateStep DEF AllocatePml4, Part
  <1>9. CASE MapPages
    BY <1>9, MapStep
  <1>10. CASE LoadFails
    BY <1>1, <1>10, OutsideStep DEF LoadFails
  <1>11. CASE EnterUser
    BY <1>11, EnterStep
  <1>12. CASE DestroyLayer
    <2>1. PICK h \in Handle : /\ Mine.layers[h] # None
                              /\ layer_destroy(Mine.layers[h])
                              /\ frames' = WithMine([Mine EXCEPT !.layers[h] = None])
      BY <1>12 DEF DestroyLayer
    <2>2. frames # <<>> /\ at = "destroy"
      BY <1>12 DEF DestroyLayer, Structure, Nested
    <2>3. Mine.layers[h] \in Slot
      BY <2>1, <2>2, MineIs, AddressSpaceFields DEF Structure
    <2>4. layers' \in [Slot -> Block]
      BY <2>1, <2>3, LayerDestroyedType DEF Structure
    <2> QED BY <1>12, <2>1, <2>2, <2>4, HandleStep DEF DestroyLayer
  <1>13. CASE DestroyTable
    <2>1. PICK i \in DOMAIN Mine.page_tables :
            frames' = WithMine([Mine EXCEPT !.page_tables[i] = NoBlock])
      BY <1>13 DEF DestroyTable
    <2> DEFINE t == [Mine.page_tables EXCEPT ![i] = NoBlock]
               p == [Mine EXCEPT !.page_tables = t]
    <2>2. /\ frames # <<>> /\ at = "destroy"
          /\ UNCHANGED <<layers, active_program, cr3, saved, examples, console_layer, at, success, turn>>
      BY <1>13 DEF DestroyTable, Structure, Nested
    <2>3. Mine \in AddressSpace /\ Mine.page_tables \in Seq(Block)
      BY <2>2, MineIs, AddressSpaceFields DEF Structure
    <2>4. t \in Seq(Block) /\ Len(t) = Len(Mine.page_tables)
      <3>1. i \in 1 .. Len(Mine.page_tables)
        BY <2>3
      <3> QED BY <2>3, <3>1, NoBlockType, SequenceFacts
    <2>5. /\ p \in AddressSpace /\ p.page_tables = t /\ p.parent = Mine.parent
          /\ p.layers = Mine.layers
      BY <2>3, <2>4, WithTables
    <2>6. Len(p.page_tables) <= TableLimit
      BY <2>2, <2>4, <2>5, MineTables DEF Structure
    <2>7. frames' = WithMine(p)
      BY <2>1
    <2>8. Typed'
      BY <1>1, <2>2, <2>5, <2>6, <2>7, TypedWithMine DEF Structure
    <2>9. Nested' /\ TablesKept'
      BY <2>2, <2>5, <2>7, NestedWithMine DEF Structure
    <2>10. SetUp'
      BY <2>2, SetUpOutside
    <2> QED BY <2>8, <2>9, <2>10 DEF Structure
  <1>14. CASE DestroyPages
    <2>1. /\ frames # <<>> /\ at = "destroy" /\ Returned(success)
          /\ UNCHANGED <<layers, cr3, saved, examples, console_layer, success>>
      BY <1>14 DEF DestroyPages, Structure, Nested
    <2>2. Typed' /\ Nested' /\ TablesKept'
      BY <1>1, <2>1, TypedReturned, NestedReturned DEF Structure
    <2>3. SetUp'
      BY <2>1, SetUpOutside DEF Returned
    <2> QED BY <2>2, <2>3 DEF Structure
  <1>15. CASE LeaveUser
    BY <1>15, LeaveStep
  <1>16. CASE SyscallYield
    BY <1>1, <1>16, OutsideStep DEF SyscallYield
  <1>17. CASE SyscallRunProgram
    BY <1>17, RunStep DEF SyscallRunProgram, Running
  <1>18. CASE ensure_console_layer
    <2>1. PICK s \in Slot : LayerCreated(ConsolePages, s) /\ console_layer' = s
      BY <1>18 DEF ensure_console_layer
    <2>2. layers' \in [Slot -> Block]
      BY <2>1, LayerCreatedType DEF Structure
    <2> QED BY <1>1, <1>18, <2>1, <2>2, OutsideStep DEF ensure_console_layer
  <1>19. CASE SyscallLayerCreate
    <2>1. PICK n \in LayerSizes, h \in FreeHandles, s \in Slot :
            LayerCreated(n, s) /\ frames' = WithActive([Active EXCEPT !.layers[h] = s])
      BY <1>19 DEF SyscallLayerCreate
    <2>2. layers' \in [Slot -> Block]
      BY <2>1, LayerCreatedType DEF Structure
    <2>3. h \in Handle /\ at = "user" /\ frames' = WithMine([Mine EXCEPT !.layers[h] = s])
      BY <1>2, <1>19, <2>1 DEF SyscallLayerCreate, Running, FreeHandles
    <2> QED BY <1>2, <1>19, <2>2, <2>3, HandleStep DEF SyscallLayerCreate
  <1>20. CASE SyscallLayerDestroy
    <2>1. PICK h \in Handle : program_layer(h) # None /\ layer_destroy(program_layer(h)) /\ HandleCleared(h)
      BY <1>20 DEF SyscallLayerDestroy
    <2>2. at = "user" /\ frames # <<>> /\ frames' = WithMine([Mine EXCEPT !.layers[h] = None])
      BY <1>2, <1>20, <2>1 DEF SyscallLayerDestroy, Running, HandleCleared
    <2>3. program_layer(h) \in Slot
      BY <1>2, <2>1, <2>2, MineIs, AddressSpaceFields DEF Structure, program_layer
    <2>4. layers' \in [Slot -> Block]
      BY <2>1, <2>3, LayerDestroyedType DEF Structure
    <2> QED BY <1>20, <2>2, <2>4, HandleStep DEF SyscallLayerDestroy
  <1>21. CASE SyscallListDirectory
    BY <1>1, <1>21, OutsideStep DEF SyscallListDirectory, Running
  <1>22. CASE CreateExample
    <2>1. /\ layers' \in [Slot -> Block]
          /\ examples' \in Seq(Slot \cup {None})
      <3>1. PICK n \in LayerSizes :
              \/ \E s \in Slot : LayerCreated(n, s) /\ examples' = Append(examples, s)
              \/ LayerRefused(n) /\ examples' = Append(examples, None) /\ UNCHANGED <<memory, layers>>
        BY <1>22 DEF CreateExample
      <3>2. \A s \in Slot \cup {None} : Append(examples, s) \in Seq(Slot \cup {None})
        BY <1>1, SequenceFacts
      <3> QED BY <1>1, <3>1, <3>2, LayerCreatedType DEF Structure
    <2> QED BY <1>1, <1>22, <2>1, OutsideStep DEF CreateExample
  <1>23. CASE ComposeRow
    BY <1>1, <1>23, OutsideStep DEF ComposeRow
  <1>24. CASE UNCHANGED vars
    BY <1>1, <1>24, OutsideStep DEF vars
  <1> QED BY <1>3, <1>4, <1>5, <1>6, <1>7, <1>8, <1>9, <1>10, <1>11, <1>12, <1>13, <1>14, <1>15,
             <1>16, <1>17, <1>18, <1>19, <1>20, <1>21, <1>22, <1>23, <1>24 DEF Next, Kernel, User

-----------------------------------------------------------------------------
(* Handles and layers: HandlesSound, said of levels and handles instead of *)
(* claims.                                                                 *)

Handles ==
  /\ \A k, l \in 1 .. Len(frames), g, h \in Handle :
       frames[k].layers[g] # None /\ frames[k].layers[g] = frames[l].layers[h] => k = l /\ g = h
  /\ \A k \in 1 .. Len(frames), h \in Handle :
       frames[k].layers[h] # None =>
         /\ \A i \in 1 .. Len(examples) : examples[i] # frames[k].layers[h]
         /\ console_layer # frames[k].layers[h]
  /\ console_layer # None => \A i \in 1 .. Len(examples) : examples[i] # console_layer
  /\ \A s \in Slot : layers[s] # NoBlock <=>
       \/ \E k \in 1 .. Len(frames), h \in Handle : frames[k].layers[h] = s
       \/ \E i \in 1 .. Len(examples) : examples[i] = s
       \/ console_layer = s

LEMMA KeptIs ==
  ASSUME Typed, NEW s
  PROVE  s \in Kept <=> /\ s # None
                        /\ s = console_layer \/ \E i \in 1 .. Len(examples) : examples[i] = s
  <1>1. examples \in [1 .. Len(examples) -> Slot \cup {None}]
    BY SequenceFacts DEF Typed
  <1>2. Range(examples) = {examples[i] : i \in 1 .. Len(examples)}
    BY <1>1 DEF Range
  <1> QED BY <1>2 DEF Kept

LEMMA ClaimsAre ==
  ASSUME Typed, NEW c
  PROVE  c \in Claims <=> \E k \in 1 .. Len(frames), h \in Handle :
                            c = <<k, h>> /\ frames[k].layers[h] # None
  <1>1. DOMAIN frames = 1 .. Len(frames)
    BY DEF Typed
  <1> QED BY <1>1 DEF Claims, Claimed

LEMMA ClaimedIs ==
  ASSUME NEW k, NEW h
  PROVE  Claimed(<<k, h>>) = frames[k].layers[h]
  BY DEF Claimed

(* The slots that handles name.                                            *)
LEMMA ClaimedSlots ==
  ASSUME Typed, NEW s
  PROVE  s \in {Claimed(c) : c \in Claims} <=>
           s # None /\ \E k \in 1 .. Len(frames), h \in Handle : frames[k].layers[h] = s
  <1>1. ASSUME s \in {Claimed(c) : c \in Claims}
        PROVE  s # None /\ \E k \in 1 .. Len(frames), h \in Handle : frames[k].layers[h] = s
    <2>1. PICK c \in Claims : s = Claimed(c)
      BY <1>1
    <2>2. PICK k \in 1 .. Len(frames), h \in Handle : c = <<k, h>> /\ frames[k].layers[h] # None
      BY ClaimsAre
    <2> QED BY <2>1, <2>2, ClaimedIs
  <1>2. ASSUME s # None, NEW k \in 1 .. Len(frames), NEW h \in Handle, frames[k].layers[h] = s
        PROVE  s \in {Claimed(c) : c \in Claims}
    <2>1. <<k, h>> \in Claims
      BY <1>2, ClaimsAre
    <2>2. Claimed(<<k, h>>) = s
      BY <1>2, ClaimedIs
    <2> QED BY <2>1, <2>2
  <1> QED BY <1>1, <1>2

LEMMA HandlesAreSound ==
  ASSUME Typed
  PROVE  HandlesSound <=> Handles
  <1>2. (\A c, d \in Claims : c # d => Claimed(c) # Claimed(d)) <=>
          \A k, l \in 1 .. Len(frames), g, h \in Handle :
            frames[k].layers[g] # None /\ frames[k].layers[g] = frames[l].layers[h] => k = l /\ g = h
    <2>1. ASSUME \A c, d \in Claims : c # d => Claimed(c) # Claimed(d),
                 NEW k \in 1 .. Len(frames), NEW l \in 1 .. Len(frames),
                 NEW g \in Handle, NEW h \in Handle,
                 frames[k].layers[g] # None, frames[k].layers[g] = frames[l].layers[h]
          PROVE  k = l /\ g = h
      <3>1. <<k, g>> \in Claims /\ <<l, h>> \in Claims
        BY <2>1, ClaimsAre
      <3>2. Claimed(<<k, g>>) = Claimed(<<l, h>>)
        BY <2>1, ClaimedIs
      <3>3. <<k, g>> = <<l, h>>
        BY <2>1, <3>1, <3>2
      <3> QED BY <3>3
    <2>2. ASSUME \A k, l \in 1 .. Len(frames), g, h \in Handle :
                   frames[k].layers[g] # None /\ frames[k].layers[g] = frames[l].layers[h] => k = l /\ g = h,
                 NEW c \in Claims, NEW d \in Claims, Claimed(c) = Claimed(d)
          PROVE  c = d
      <3>1. PICK k \in 1 .. Len(frames), g \in Handle : c = <<k, g>> /\ frames[k].layers[g] # None
        BY ClaimsAre
      <3>2. PICK l \in 1 .. Len(frames), h \in Handle : d = <<l, h>> /\ frames[l].layers[h] # None
        BY ClaimsAre
      <3>3. frames[k].layers[g] = frames[l].layers[h]
        BY <2>2, <3>1, <3>2, ClaimedIs
      <3> QED BY <2>2, <3>1, <3>2, <3>3
    <2> QED BY <2>1, <2>2
  <1>3. ({Claimed(c) : c \in Claims} \cap Kept = {}) <=>
          \A k \in 1 .. Len(frames), h \in Handle :
            frames[k].layers[h] # None =>
              /\ \A i \in 1 .. Len(examples) : examples[i] # frames[k].layers[h]
              /\ console_layer # frames[k].layers[h]
    <2> DEFINE C == {Claimed(c) : c \in Claims}
    <2>1. \A s : s \in C <=> s # None /\ \E k \in 1 .. Len(frames), h \in Handle : frames[k].layers[h] = s
      BY ClaimedSlots
    <2>3. C = {Claimed(c) : c \in Claims}
      OBVIOUS
    <2> HIDE DEF C
    <2>2. (C \cap Kept = {}) <=> \A s \in C : s \notin Kept
      OBVIOUS
    <2>6. \A s \in C : s \notin Kept <=> /\ \A i \in 1 .. Len(examples) : examples[i] # s
                                        /\ console_layer # s
      BY <2>1, KeptIs
    <2>4. ASSUME \A s \in C : s \notin Kept,
                 NEW k \in 1 .. Len(frames), NEW h \in Handle, frames[k].layers[h] # None
          PROVE  /\ \A i \in 1 .. Len(examples) : examples[i] # frames[k].layers[h]
                 /\ console_layer # frames[k].layers[h]
      <3>1. frames[k].layers[h] \in C
        BY <2>1, <2>4
      <3> QED BY <2>6, <2>4, <3>1
    <2>5. ASSUME \A k \in 1 .. Len(frames), h \in Handle :
                   frames[k].layers[h] # None =>
                     /\ \A i \in 1 .. Len(examples) : examples[i] # frames[k].layers[h]
                     /\ console_layer # frames[k].layers[h],
                 NEW s \in C
          PROVE  s \notin Kept
      <3>1. PICK k \in 1 .. Len(frames), h \in Handle : s # None /\ frames[k].layers[h] = s
        BY <2>1
      <3> QED BY <2>6, <2>5, <3>1
    <2> QED BY <2>2, <2>3, <2>4, <2>5
  <1>4. (console_layer \notin Range(examples) \ {None}) <=>
          (console_layer # None => \A i \in 1 .. Len(examples) : examples[i] # console_layer)
    <2>1. examples \in [1 .. Len(examples) -> Slot \cup {None}]
      BY SequenceFacts DEF Typed
    <2> QED BY <2>1 DEF Range
  <1>5. ASSUME NEW s \in Slot
        PROVE  s \in {Claimed(c) : c \in Claims} \cup Kept <=>
                 \/ \E k \in 1 .. Len(frames), h \in Handle : frames[k].layers[h] = s
                 \/ \E i \in 1 .. Len(examples) : examples[i] = s
                 \/ console_layer = s
    <2>1. s # None
      BY DEF Slot
    <2> QED BY <2>1, ClaimedSlots, KeptIs
  <1>6. \A s \in {Claimed(c) : c \in Claims} \cup Kept : s \in Slot
    <2>1. \A s \in Kept : s \in Slot
      BY KeptIs, SequenceFacts DEF Typed
    <2>2. \A c \in Claims : Claimed(c) \in Slot
      <3>1. \A k \in 1 .. Len(frames), h \in Handle : frames[k].layers[h] \in Slot \cup {None}
        BY AddressSpaceFields, SequenceFacts DEF Typed
      <3> QED BY <3>1, ClaimsAre, ClaimedIs
    <2> QED BY <2>1, <2>2
  <1>7. ({s \in Slot : layers[s] # NoBlock} = {Claimed(c) : c \in Claims} \cup Kept) <=>
          \A s \in Slot : layers[s] # NoBlock <=>
            \/ \E k \in 1 .. Len(frames), h \in Handle : frames[k].layers[h] = s
            \/ \E i \in 1 .. Len(examples) : examples[i] = s
            \/ console_layer = s
    <2> DEFINE C == {Claimed(c) : c \in Claims} \cup Kept
    <2>1. ({s \in Slot : layers[s] # NoBlock} = C) <=> \A s \in Slot : layers[s] # NoBlock <=> s \in C
      <3> HIDE DEF C
      <3>1. C \subseteq Slot
        BY <1>6 DEF C
      <3> QED BY <3>1
    <2> QED BY <2>1, <1>5
  <1> QED BY <1>2, <1>3, <1>4, <1>7 DEF HandlesSound, Handles

(* The programs may come and go as long as their handles stay.             *)
LEMMA HandlesSame ==
  ASSUME Handles, UNCHANGED <<layers, examples, console_layer>>,
         \A k \in 1 .. Len(frames'), h \in Handle :
           frames'[k].layers[h] # None =>
             k \in 1 .. Len(frames) /\ frames'[k].layers[h] = frames[k].layers[h],
         \A k \in 1 .. Len(frames), h \in Handle :
           frames[k].layers[h] # None =>
             k \in 1 .. Len(frames') /\ frames'[k].layers[h] = frames[k].layers[h]
  PROVE  Handles'
  <1>1. ASSUME NEW s, s # None
        PROVE  (\E k \in 1 .. Len(frames'), h \in Handle : frames'[k].layers[h] = s) <=>
                 \E k \in 1 .. Len(frames), h \in Handle : frames[k].layers[h] = s
    BY <1>1
  <1>2. \A s \in Slot : s # None
    BY DEF Slot
  <1>3. ASSUME NEW s \in Slot
        PROVE  layers'[s] # NoBlock <=>
                 \/ \E k \in 1 .. Len(frames'), h \in Handle : frames'[k].layers[h] = s
                 \/ \E i \in 1 .. Len(examples') : examples'[i] = s
                 \/ console_layer' = s
    <2>1. layers[s] # NoBlock <=>
            \/ \E k \in 1 .. Len(frames), h \in Handle : frames[k].layers[h] = s
            \/ \E i \in 1 .. Len(examples) : examples[i] = s
            \/ console_layer = s
      BY DEF Handles
    <2> QED BY <1>1, <1>2, <2>1
  <1>4. ASSUME NEW k \in 1 .. Len(frames'), NEW l \in 1 .. Len(frames'), NEW g \in Handle, NEW h \in Handle,
               frames'[k].layers[g] # None, frames'[k].layers[g] = frames'[l].layers[h]
        PROVE  k = l /\ g = h
    BY <1>4 DEF Handles
  <1>5. ASSUME NEW k \in 1 .. Len(frames'), NEW h \in Handle, frames'[k].layers[h] # None
        PROVE  /\ \A i \in 1 .. Len(examples') : examples'[i] # frames'[k].layers[h]
               /\ console_layer' # frames'[k].layers[h]
    BY <1>5 DEF Handles
  <1>6. console_layer' # None => \A i \in 1 .. Len(examples') : examples'[i] # console_layer'
    BY DEF Handles
  <1> QED BY <1>3, <1>4, <1>5, <1>6 DEF Handles

(* A step that leaves every program's handles alone, or takes the program  *)
(* away that has none.                                                     *)
LEMMA HandlesWithMine ==
  ASSUME Typed, Handles, frames # <<>>, NEW p \in AddressSpace, p.layers = Mine.layers,
         frames' = WithMine(p), UNCHANGED <<layers, examples, console_layer>>
  PROVE  Handles'
  <1>1. /\ Len(frames') = Len(frames) /\ Len(frames) \in Nat \ {0}
        /\ frames'[Len(frames)] = p /\ Mine = frames[Len(frames)]
        /\ \A k \in 1 .. Len(frames) - 1 : frames'[k] = frames[k]
    BY MineIs
  <1>2. ASSUME NEW k \in 1 .. Len(frames)
        PROVE  frames'[k].layers = frames[k].layers
    <2>1. CASE k = Len(frames)
      BY <1>1, <2>1
    <2>2. CASE k \in 1 .. Len(frames) - 1
      BY <1>1, <2>2
    <2> QED BY <1>1, <2>1, <2>2
  <1> QED BY <1>1, <1>2, HandlesSame

LEMMA HandlesReturned ==
  ASSUME Typed, Handles, frames # <<>>, frames' = Front(frames),
         \A h \in Handle : Mine.layers[h] = None, UNCHANGED <<layers, examples, console_layer>>
  PROVE  Handles'
  <1>1. /\ Len(frames') = Len(frames) - 1 /\ Len(frames) \in Nat \ {0}
        /\ Mine = frames[Len(frames)]
        /\ \A k \in 1 .. Len(frames) - 1 : frames'[k] = frames[k]
    BY MineIs, FrontIs
  <1>2. ASSUME NEW k \in 1 .. Len(frames), NEW h \in Handle, frames[k].layers[h] # None
        PROVE  k \in 1 .. Len(frames) - 1
    <2>1. k # Len(frames)
      BY <1>1, <1>2
    <2> QED BY <1>1, <2>1
  <1> QED BY <1>1, <1>2, HandlesSame

LEMMA HandlesRun ==
  ASSUME Typed, Handles, RunProgram, UNCHANGED <<layers, examples, console_layer>>
  PROVE  Handles'
  <1>1. /\ Len(frames') = Len(frames) + 1 /\ Len(frames) \in Nat
        /\ frames'[Len(frames) + 1] = NewAddressSpace
        /\ \A k \in 1 .. Len(frames) : frames'[k] = frames[k]
    BY AppendedIs DEF RunProgram
  <1>2. ASSUME NEW k \in 1 .. Len(frames) + 1, NEW h \in Handle, frames'[k].layers[h] # None
        PROVE  k \in 1 .. Len(frames)
    <2>1. k # Len(frames) + 1
      BY <1>1, <1>2, NewAddressSpaceIs
    <2> QED BY <1>1, <2>1
  <1> QED BY <1>1, <1>2, HandlesSame

Handed(r, h, s) == [r EXCEPT !.layers[h] = s]

LEMMA HandedIs ==
  ASSUME NEW r \in AddressSpace, NEW h \in Handle, NEW s \in Slot \cup {None}
  PROVE  /\ Handed(r, h, s) \in AddressSpace
         /\ Handed(r, h, s).layers[h] = s
         /\ \A g \in Handle : g # h => Handed(r, h, s).layers[g] = r.layers[g]
         /\ Handed(r, h, s).page_tables = r.page_tables
         /\ \A q \in Part : Handed(r, h, s)[q] = r[q]
  BY DEF AddressSpace, Handed, Part

(* Two sequences of address spaces that agree but for one handle.          *)
ButFor(F, G, K, n, h) == \A k \in K, g \in Handle : k # n \/ g # h => G[k].layers[g] = F[k].layers[g]

(* What a handle of the innermost program becomes.                         *)
LEMMA HandleChanged ==
  ASSUME Typed, frames # <<>>, NEW h \in Handle, NEW s \in Slot \cup {None},
         frames' = WithMine([Mine EXCEPT !.layers[h] = s])
  PROVE  /\ Len(frames') = Len(frames) /\ Len(frames) \in 1 .. Len(frames)
         /\ Mine = frames[Len(frames)]
         /\ frames'[Len(frames)].layers[h] = s
         /\ ButFor(frames, frames', 1 .. Len(frames), Len(frames), h)
  <1>1. Mine \in AddressSpace /\ Len(frames) \in Nat \ {0} /\ Mine = frames[Len(frames)]
    BY MineIs
  <1> DEFINE p == Handed(Mine, h, s)
  <1>2. /\ p \in AddressSpace /\ p.layers[h] = s
        /\ \A g \in Handle : g # h => p.layers[g] = Mine.layers[g]
    BY <1>1, HandedIs
  <1>3. frames' = WithMine(p)
    BY DEF Handed
  <1> HIDE DEF p
  <1>4. /\ Len(frames') = Len(frames) /\ frames'[Len(frames)] = p
        /\ \A k \in 1 .. Len(frames) - 1 : frames'[k] = frames[k]
    <2>1. \A q \in AddressSpace : /\ Len(WithMine(q)) = Len(frames)
                                  /\ WithMine(q)[Len(frames)] = q
                                  /\ \A k \in 1 .. Len(frames) - 1 : WithMine(q)[k] = frames[k]
      BY MineIs
    <2> HIDE <1>3
    <2>2. /\ Len(WithMine(p)) = Len(frames)
          /\ WithMine(p)[Len(frames)] = p
          /\ \A k \in 1 .. Len(frames) - 1 : WithMine(p)[k] = frames[k]
      BY <1>2, <2>1
    <2> QED BY <1>3, <2>2
  <1>5. ASSUME NEW k \in 1 .. Len(frames), NEW g \in Handle, k # Len(frames) \/ g # h
        PROVE  frames'[k].layers[g] = frames[k].layers[g]
    <2>1. CASE k = Len(frames)
      BY <1>1, <1>2, <1>4, <1>5, <2>1
    <2>2. CASE k \in 1 .. Len(frames) - 1
      BY <1>4, <2>2
    <2> QED BY <1>1, <2>1, <2>2
  <1>6. Len(frames) \in 1 .. Len(frames)
    BY <1>1
  <1>7. frames'[Len(frames)].layers[h] = s
    BY <1>2, <1>4
  <1> QED BY <1>1, <1>4, <1>5, <1>6, <1>7 DEF ButFor

(* One handle of one program changes: from none to a slot that no other    *)
(* names, or from a slot to none.                                          *)
Distinct(F, K) == \A k, l \in K, f, g \in Handle :
                    F[k].layers[f] # None /\ F[k].layers[f] = F[l].layers[g] => k = l /\ f = g
Names(F, K, t) == \E k \in K, g \in Handle : F[k].layers[g] = t

Moved(F, G, K, n, h) ==
  LET r == F[n].layers[h]
      s == G[n].layers[h]
  IN /\ Distinct(G, K)
     /\ \A t : t # s /\ t # r => (Names(G, K, t) <=> Names(F, K, t))
     /\ Names(G, K, s)
     /\ r # None /\ r # s => ~Names(G, K, r)

LEMMA OneHandle ==
  ASSUME NEW K, NEW F, NEW G, NEW n \in K, NEW h \in Handle, ButFor(F, G, K, n, h),
         Distinct(F, K),
         G[n].layers[h] # None => ~Names(F, K, G[n].layers[h])
  PROVE  Moved(F, G, K, n, h)
  <1>1. PICK s : s = G[n].layers[h]
    OBVIOUS
  <1>2. PICK r : r = F[n].layers[h]
    OBVIOUS
  <1>3. ASSUME NEW t, t # s, t # r
        PROVE  Names(G, K, t) <=> Names(F, K, t)
    <2>1. ASSUME NEW k \in K, NEW g \in Handle, G[k].layers[g] = t
          PROVE  F[k].layers[g] = t
      BY <1>1, <1>3, <2>1 DEF ButFor
    <2>2. ASSUME NEW k \in K, NEW g \in Handle, F[k].layers[g] = t
          PROVE  G[k].layers[g] = t
      BY <1>2, <1>3, <2>2 DEF ButFor
    <2> QED BY <2>1, <2>2 DEF Names
  <1>4. ASSUME NEW k \in K, NEW l \in K, NEW f \in Handle, NEW g \in Handle,
               G[k].layers[f] # None, G[k].layers[f] = G[l].layers[g]
        PROVE  k = l /\ f = g
    <2>1. CASE s # None /\ G[k].layers[f] = s
      <3>1. \A m \in K, e \in Handle : F[m].layers[e] # s
        BY <1>1, <2>1 DEF Names
      <3>2. \A m \in K, e \in Handle : G[m].layers[e] = s => m = n /\ e = h
        BY <3>1 DEF ButFor
      <3>3. (k = n /\ f = h) /\ (l = n /\ g = h)
        BY <1>4, <2>1, <3>2
      <3> QED BY <3>3
    <2>2. CASE s = None \/ G[k].layers[f] # s
      <3>1. G[k].layers[f] # s /\ G[l].layers[g] # s
        BY <1>4, <2>2
      <3>2. G[k].layers[f] = F[k].layers[f]
        BY <1>1, <3>1 DEF ButFor
      <3>3. G[l].layers[g] = F[l].layers[g]
        BY <1>1, <3>1 DEF ButFor
      <3>4. \A a, b \in K, d, e \in Handle :
              F[a].layers[d] # None /\ F[a].layers[d] = F[b].layers[e] => a = b /\ d = e
        BY DEF Distinct
      <3>5. F[k].layers[f] # None /\ F[k].layers[f] = F[l].layers[g]
        BY <1>4, <3>2, <3>3
      <3> HIDE DEF None
      <3> QED BY ONLY <3>4, <3>5, k \in K, l \in K, f \in Handle, g \in Handle
    <2> QED BY <2>1, <2>2
  <1>5. ASSUME r # None, r # s, NEW k \in K, NEW g \in Handle, G[k].layers[g] = r
        PROVE  FALSE
    <2>1. k # n \/ g # h
      BY <1>1, <1>5
    <2>2. F[k].layers[g] = r
      BY <1>5, <2>1 DEF ButFor
    <2> QED BY <1>2, <1>5, <2>1, <2>2 DEF Distinct
  <1> QED BY <1>1, <1>2, <1>3, <1>4, <1>5 DEF Distinct, Names, Moved

(* A slot that is not in use is nobody's.                                  *)
LEMMA NobodysSlot ==
  ASSUME Handles, NEW s \in Slot, layers[s] = NoBlock
  PROVE  /\ \A k \in 1 .. Len(frames), g \in Handle : frames[k].layers[g] # s
         /\ \A i \in 1 .. Len(examples) : examples[i] # s
         /\ console_layer # s
  BY DEF Handles

LEMMA LayerCreatedIs ==
  ASSUME Typed, used \subseteq Page, NEW n \in Nat, NEW s \in Slot, LayerCreated(n, s)
  PROVE  /\ layers[s] = NoBlock /\ layers'[s] # NoBlock
         /\ \A t \in Slot : t # s => layers'[t] = layers[t]
  BY DEF LayerCreated, FreeSlots, Typed

(* What the kernel keeps: its console's layer, and the examples.           *)
Keeps(t) == console_layer = t \/ \E i \in 1 .. Len(examples) : examples[i] = t

LEMMA HandlesSplit ==
  Handles <=>
    /\ Distinct(frames, 1 .. Len(frames))
    /\ \A t : t # None => ~(Names(frames, 1 .. Len(frames), t) /\ Keeps(t))
    /\ console_layer # None => \A i \in 1 .. Len(examples) : examples[i] # console_layer
    /\ \A s \in Slot : layers[s] # NoBlock <=> Names(frames, 1 .. Len(frames), s) \/ Keeps(s)
  <1>1. (\A t : t # None => ~(Names(frames, 1 .. Len(frames), t) /\ Keeps(t))) <=>
          \A k \in 1 .. Len(frames), h \in Handle :
            frames[k].layers[h] # None =>
              /\ \A i \in 1 .. Len(examples) : examples[i] # frames[k].layers[h]
              /\ console_layer # frames[k].layers[h]
    BY DEF Names, Keeps
  <1> QED BY <1>1 DEF Handles, Distinct, Names, Keeps

LEMMA HandlesJoined ==
  ASSUME /\ Distinct(frames', 1 .. Len(frames'))
         /\ \A t : t # None => ~(Names(frames', 1 .. Len(frames'), t) /\ Keeps(t)')
         /\ console_layer' # None => \A i \in 1 .. Len(examples') : examples'[i] # console_layer'
         /\ \A s \in Slot : layers'[s] # NoBlock <=> Names(frames', 1 .. Len(frames'), s) \/ Keeps(s)'
  PROVE  Handles'
  <1>1. \A k \in 1 .. Len(frames'), h \in Handle :
          frames'[k].layers[h] # None =>
            /\ \A i \in 1 .. Len(examples') : examples'[i] # frames'[k].layers[h]
            /\ console_layer' # frames'[k].layers[h]
    <2>1. ASSUME NEW k \in 1 .. Len(frames'), NEW h \in Handle, NEW t, t = frames'[k].layers[h], t # None
          PROVE  (\A i \in 1 .. Len(examples') : examples'[i] # t) /\ console_layer' # t
      <3>1. Names(frames', 1 .. Len(frames'), t)
        BY <2>1 DEF Names
      <3>2. ~Keeps(t)'
        BY <2>1, <3>1
      <3> QED BY <3>2 DEF Keeps
    <2> QED BY <2>1
  <1> QED BY <1>1 DEF Handles, Distinct, Names, Keeps

(* A program gets a layer, loses one.                                      *)
LEMMA HandleGiven ==
  ASSUME Typed, Handles, used \subseteq Page, frames # <<>>,
         NEW n \in Nat, NEW s \in Slot, LayerCreated(n, s),
         NEW h \in Handle, Mine.layers[h] = None,
         frames' = WithMine([Mine EXCEPT !.layers[h] = s]),
         UNCHANGED <<examples, console_layer>>
  PROVE  Handles'
  <1> DEFINE K == 1 .. Len(frames)
  <1>1. /\ Len(frames') = Len(frames) /\ Len(frames) \in K
        /\ frames[Len(frames)].layers[h] = None
        /\ frames'[Len(frames)].layers[h] = s
        /\ ButFor(frames, frames', K, Len(frames), h)
    BY HandleChanged
  <1>2. /\ layers[s] = NoBlock /\ layers'[s] # NoBlock /\ s # None
        /\ \A t \in Slot : t # s => layers'[t] = layers[t] /\ t # None
    BY LayerCreatedIs DEF Slot
  <1>3. K = 1 .. Len(frames) /\ K = 1 .. Len(frames')
    BY <1>1
  <1>4. \A t : Keeps(t)' <=> Keeps(t)
    BY DEF Keeps
  <1> HIDE DEF K
  <1>5. ~Names(frames, K, s) /\ ~Keeps(s) /\ Distinct(frames, K)
    BY <1>2, <1>3, HandlesSplit
  <1>6. /\ Distinct(frames', K)
        /\ \A t : t # s /\ t # None => (Names(frames', K, t) <=> Names(frames, K, t))
        /\ Names(frames', K, s)
    <2>1. ASSUME NEW n0 \in K, n0 = Len(frames)
          PROVE  Moved(frames, frames', K, n0, h)
      BY <1>1, <1>5, <2>1, OneHandle
    <2>2. Moved(frames, frames', K, Len(frames), h)
      BY <1>1, <2>1
    <2> QED BY <1>1, <2>2 DEF Moved
  <1>7. \A t : t # None => ~(Names(frames', K, t) /\ Keeps(t)')
    BY <1>3, <1>4, <1>5, <1>6, HandlesSplit
  <1>8. ASSUME NEW t \in Slot
        PROVE  layers'[t] # NoBlock <=> Names(frames', K, t) \/ Keeps(t)'
    BY <1>2, <1>3, <1>4, <1>6, HandlesSplit
  <1>9. console_layer # None => \A i \in 1 .. Len(examples) : examples[i] # console_layer
    BY DEF Handles
  <1>10. /\ Distinct(frames', 1 .. Len(frames'))
         /\ \A t : t # None => ~(Names(frames', 1 .. Len(frames'), t) /\ Keeps(t)')
         /\ \A t \in Slot : layers'[t] # NoBlock <=> Names(frames', 1 .. Len(frames'), t) \/ Keeps(t)'
    BY <1>3, <1>6, <1>7, <1>8
  <1> QED BY <1>9, <1>10, HandlesJoined

LEMMA HandleTaken ==
  ASSUME Typed, Handles, frames # <<>>,
         NEW h \in Handle, NEW s \in Slot, Mine.layers[h] = s, layer_destroy(s),
         frames' = WithMine([Mine EXCEPT !.layers[h] = None]),
         UNCHANGED <<examples, console_layer>>
  PROVE  Handles'
  <1> DEFINE K == 1 .. Len(frames)
  <1>1. /\ Len(frames') = Len(frames) /\ Len(frames) \in K
        /\ frames[Len(frames)].layers[h] = s
        /\ frames'[Len(frames)].layers[h] = None
        /\ ButFor(frames, frames', K, Len(frames), h)
    BY HandleChanged
  <1>2. /\ layers'[s] = NoBlock /\ s # None
        /\ \A t \in Slot : t # s => layers'[t] = layers[t] /\ t # None
    <2>1. \A t \in Slot : t # None
      BY DEF Slot
    <2> QED BY <2>1 DEF layer_destroy, Typed
  <1>3. K = 1 .. Len(frames) /\ K = 1 .. Len(frames')
    BY <1>1
  <1>4. \A t : Keeps(t)' <=> Keeps(t)
    BY DEF Keeps
  <1> HIDE DEF K
  <1>5. Names(frames, K, s) /\ Distinct(frames, K)
    BY <1>1, <1>3, HandlesSplit DEF Names
  <1>6. /\ Distinct(frames', K)
        /\ \A t : t # s /\ t # None => (Names(frames', K, t) <=> Names(frames, K, t))
        /\ ~Names(frames', K, s)
    <2>1. frames'[Len(frames)].layers[h] # None =>
            ~Names(frames, K, frames'[Len(frames)].layers[h])
      BY <1>1
    <2>2. Moved(frames, frames', K, Len(frames), h)
      BY <1>1, <1>5, <2>1, OneHandle
    <2> QED BY <1>1, <1>2, <2>2 DEF Moved
  <1>7. ~Keeps(s)
    BY <1>2, <1>3, <1>5, HandlesSplit
  <1>8. \A t : t # None => ~(Names(frames', K, t) /\ Keeps(t)')
    BY <1>3, <1>4, <1>6, HandlesSplit
  <1>9. ASSUME NEW t \in Slot
        PROVE  layers'[t] # NoBlock <=> Names(frames', K, t) \/ Keeps(t)'
    BY <1>2, <1>3, <1>4, <1>6, <1>7, HandlesSplit
  <1>10. console_layer # None => \A i \in 1 .. Len(examples) : examples[i] # console_layer
    BY DEF Handles
  <1>11. /\ Distinct(frames', 1 .. Len(frames'))
         /\ \A t : t # None => ~(Names(frames', 1 .. Len(frames'), t) /\ Keeps(t)')
         /\ \A t \in Slot : layers'[t] # NoBlock <=> Names(frames', 1 .. Len(frames'), t) \/ Keeps(t)'
    BY <1>3, <1>6, <1>8, <1>9
  <1> QED BY <1>10, <1>11, HandlesJoined

(* The kernel makes a layer for itself.                                    *)
LEMMA KernelLayer ==
  ASSUME Typed, Handles, used \subseteq Page, NEW n \in Nat, NEW s \in Slot, LayerCreated(n, s),
         \/ console_layer = None /\ console_layer' = s /\ examples' = examples
         \/ console_layer' = console_layer /\ examples' = Append(examples, s),
         UNCHANGED frames
  PROVE  Handles'
  <1>1. /\ layers[s] = NoBlock /\ layers'[s] # NoBlock /\ s # None
        /\ \A t \in Slot : t # s => layers'[t] = layers[t]
    BY LayerCreatedIs DEF Slot
  <1>2. /\ \A k \in 1 .. Len(frames), g \in Handle : frames[k].layers[g] # s
        /\ \A i \in 1 .. Len(examples) : examples[i] # s
        /\ console_layer # s
    BY <1>1, NobodysSlot
  <1>3. /\ Len(examples) \in Nat
        /\ Len(Append(examples, s)) = Len(examples) + 1
        /\ Append(examples, s)[Len(examples) + 1] = s
        /\ \A i \in 1 .. Len(examples) : Append(examples, s)[i] = examples[i]
    BY SequenceFacts DEF Typed
  <1>4. ASSUME NEW t, t # None
        PROVE  (console_layer' = t \/ \E i \in 1 .. Len(examples') : examples'[i] = t)
                 <=> (t = s \/ console_layer = t \/ \E i \in 1 .. Len(examples) : examples[i] = t)
    <2>1. CASE examples' = examples /\ console_layer = None /\ console_layer' = s
      BY <1>4, <2>1
    <2>2. CASE console_layer' = console_layer /\ examples' = Append(examples, s)
      <3>1. \A i \in 1 .. Len(examples') : i \in 1 .. Len(examples) \/ i = Len(examples) + 1
        BY <1>3, <2>2
      <3>2. \A i \in 1 .. Len(examples) + 1 : i \in 1 .. Len(examples')
        BY <1>3, <2>2
      <3> QED BY <1>3, <2>2, <3>1, <3>2
    <2> QED BY <2>1, <2>2
  <1>5. console_layer' # None => \A i \in 1 .. Len(examples') : examples'[i] # console_layer'
    <2>1. CASE examples' = examples /\ console_layer = None /\ console_layer' = s
      BY <1>2, <2>1
    <2>2. CASE console_layer' = console_layer /\ examples' = Append(examples, s)
      <3>1. \A i \in 1 .. Len(examples') : i \in 1 .. Len(examples) \/ i = Len(examples) + 1
        BY <1>3, <2>2
      <3> QED BY <1>2, <1>3, <2>2, <3>1 DEF Handles
    <2> QED BY <2>1, <2>2
  <1>6. ASSUME NEW k \in 1 .. Len(frames), NEW g \in Handle, frames[k].layers[g] # None
        PROVE  /\ \A i \in 1 .. Len(examples') : examples'[i] # frames[k].layers[g]
               /\ console_layer' # frames[k].layers[g]
    <2>1. /\ \A i \in 1 .. Len(examples) : examples[i] # frames[k].layers[g]
          /\ console_layer # frames[k].layers[g] /\ frames[k].layers[g] # s
      BY <1>2, <1>6 DEF Handles
    <2> QED BY <1>4, <1>6, <2>1
  <1>7. ASSUME NEW t \in Slot
        PROVE  layers'[t] # NoBlock <=>
                 \/ \E k \in 1 .. Len(frames), g \in Handle : frames[k].layers[g] = t
                 \/ \E i \in 1 .. Len(examples') : examples'[i] = t
                 \/ console_layer' = t
    <2>1. t # None
      BY DEF Slot
    <2>2. t # s => (layers'[t] # NoBlock <=>
                      \/ \E k \in 1 .. Len(frames), g \in Handle : frames[k].layers[g] = t
                      \/ \E i \in 1 .. Len(examples) : examples[i] = t
                      \/ console_layer = t)
      BY <1>1 DEF Handles
    <2> QED BY <1>1, <1>4, <2>1, <2>2
  <1>8. \A k, l \in 1 .. Len(frames), g, h \in Handle :
          frames[k].layers[g] # None /\ frames[k].layers[g] = frames[l].layers[h] => k = l /\ g = h
    BY DEF Handles
  <1> QED BY <1>5, <1>6, <1>7, <1>8 DEF Handles

(* A step that changes no handle and no layer.                             *)
LEMMA HandlesUnchanged ==
  ASSUME Handles, UNCHANGED <<frames, layers, examples, console_layer>>
  PROVE  Handles'
  BY DEF Handles

(* An example layer that is refused.                                       *)
LEMMA ExampleRefused ==
  ASSUME Typed, Handles, examples' = Append(examples, None), UNCHANGED <<frames, layers, console_layer>>
  PROVE  Handles'
  <1>1. /\ Len(examples) \in Nat
        /\ Len(examples') = Len(examples) + 1
        /\ examples'[Len(examples) + 1] = None
        /\ \A i \in 1 .. Len(examples) : examples'[i] = examples[i]
    BY SequenceFacts DEF Typed
  <1>2. ASSUME NEW t, t # None
        PROVE  (\E i \in 1 .. Len(examples') : examples'[i] = t) <=> \E i \in 1 .. Len(examples) : examples[i] = t
    <2>1. ASSUME NEW i \in 1 .. Len(examples'), examples'[i] = t
          PROVE  i \in 1 .. Len(examples) /\ examples[i] = t
      <3>1. i # Len(examples) + 1
        BY <1>1, <1>2, <2>1
      <3> QED BY <1>1, <2>1, <3>1
    <2>2. ASSUME NEW i \in 1 .. Len(examples), examples[i] = t
          PROVE  i \in 1 .. Len(examples') /\ examples'[i] = t
      BY <1>1, <2>2
    <2> QED BY <2>1, <2>2
  <1>3. \A t : t # None => (Keeps(t)' <=> Keeps(t))
    BY <1>2 DEF Keeps
  <1>4. \A t \in Slot : t # None
    BY DEF Slot
  <1>5. console_layer' # None => \A i \in 1 .. Len(examples') : examples'[i] # console_layer'
    <2>1. console_layer # None => ~\E i \in 1 .. Len(examples) : examples[i] = console_layer
      BY DEF Handles
    <2> QED BY <1>2, <2>1
  <1>6. /\ Distinct(frames', 1 .. Len(frames'))
        /\ \A t : t # None => ~(Names(frames', 1 .. Len(frames'), t) /\ Keeps(t)')
        /\ \A t \in Slot : layers'[t] # NoBlock <=> Names(frames', 1 .. Len(frames'), t) \/ Keeps(t)'
    BY <1>3, <1>4, HandlesSplit
  <1> QED BY <1>5, <1>6, HandlesJoined

LEMMA HandlesInit == Init => Handles
  <1> SUFFICES ASSUME Init PROVE Handles
    OBVIOUS
  <1>1. frames = <<>> /\ examples = <<>> /\ console_layer = None /\ layers = [s \in Slot |-> NoBlock]
    BY DEF Init
  <1>2. Len(frames) = 0 /\ Len(examples) = 0
    BY <1>1
  <1>3. \A s \in Slot : s # None
    BY DEF Slot
  <1> QED BY <1>1, <1>2, <1>3 DEF Handles

LEMMA HandlesStep ==
  ASSUME Structure, Handles, used \subseteq Page, [Next]_vars
  PROVE  Handles'
  <1>1. Typed
    BY DEF Structure
  <1>2. ASSUME at = "user"
        PROVE  frames # <<>> /\ Active = Mine /\ \A p : WithActive(p) = WithMine(p)
    <2>1. frames # <<>> /\ active_program = Len(frames)
      BY <1>2 DEF Structure, Nested
    <2> QED BY <2>1, MineIs DEF Structure, Active, WithActive, WithMine
  <1>3. ASSUME at \in Part \cup {"open", "map", "destroy"}
        PROVE  frames # <<>>
    BY <1>3 DEF Structure, Nested, Setup
  <1>4. ASSUME NEW part \in Part, NEW n, NEW next, AllocatePart(part, n, next), n \in Nat
        PROVE  Handles'
    <2>1. PICK b \in Found(n) : frames' = WithMine([Mine EXCEPT ![part] = b])
      BY <1>4 DEF AllocatePart
    <2> DEFINE p == [Mine EXCEPT ![part] = b]
    <2>2. frames # <<>> /\ UNCHANGED <<layers, examples, console_layer>>
      BY <1>3, <1>4 DEF AllocatePart
    <2>3. b \in Block /\ Mine \in AddressSpace
      BY <1>1, <1>4, <2>2, FoundIs, MineIs
    <2>4. p \in AddressSpace /\ p.layers = Mine.layers
      BY <2>3, WithPart
    <2> QED BY <1>1, <2>1, <2>2, <2>4, HandlesWithMine
  <1>5. CASE ConsoleStarts
    BY <1>1, <1>5, HandlesRun DEF ConsoleStarts
  <1>6. CASE OpenProgram
    <2>1. at = "open" /\ frames # <<>> /\ UNCHANGED <<layers, examples, console_layer>>
      BY <1>3, <1>6 DEF OpenProgram
    <2>2. CASE UNCHANGED frames
      BY <2>1, <2>2, HandlesUnchanged
    <2>3. CASE Returned(FALSE)
      <3>1. \A h \in Handle : Mine.layers[h] = None
        BY <2>1 DEF Structure, SetUp, Setup
      <3> QED BY <1>1, <2>1, <2>3, <3>1, HandlesReturned DEF Returned
    <2> QED BY <1>6, <2>2, <2>3 DEF OpenProgram
  <1>7. CASE AllocateImage
    BY <1>4, <1>7 DEF AllocateImage, Part
  <1>8. CASE AllocateStack \/ AllocateApi \/ AllocatePml4
    BY <1>4, <1>8 DEF AllocateStack, AllocateApi, AllocatePml4, Part
  <1>9. CASE MapPages
    <2>1. frames # <<>> /\ UNCHANGED <<layers, examples, console_layer>>
      BY <1>3, <1>9 DEF MapPages
    <2>2. PICK b \in Found(1) \cup {NoBlock} :
            frames' = IF b = NoBlock THEN frames
                      ELSE WithMine([Mine EXCEPT !.page_tables = Append(Mine.page_tables, b)])
      BY <1>9 DEF MapPages, allocate_page_table
    <2>3. CASE b = NoBlock
      BY <2>1, <2>2, <2>3, HandlesUnchanged
    <2>4. CASE b # NoBlock
      <3> DEFINE t == Append(Mine.page_tables, b)
                 p == [Mine EXCEPT !.page_tables = t]
      <3>1. b \in Block
        BY <2>2, FoundIs, NoBlockType
      <3>2. Mine \in AddressSpace /\ Mine.page_tables \in Seq(Block)
        BY <1>1, <2>1, MineIs, AddressSpaceFields
      <3>3. t \in Seq(Block)
        BY <3>1, <3>2, SequenceFacts
      <3>4. p \in AddressSpace /\ p.layers = Mine.layers
        BY <3>2, <3>3, WithTables
      <3>5. frames' = WithMine(p)
        BY <2>2, <2>4
      <3> QED BY <1>1, <2>1, <3>4, <3>5, HandlesWithMine
    <2> QED BY <2>3, <2>4
  <1>10. CASE LoadFails
    BY <1>10, HandlesUnchanged DEF LoadFails
  <1>11. CASE EnterUser
    BY <1>11, HandlesUnchanged DEF EnterUser
  <1>12. CASE DestroyLayer
    <2>1. PICK h \in Handle : /\ Mine.layers[h] # None
                              /\ layer_destroy(Mine.layers[h])
                              /\ frames' = WithMine([Mine EXCEPT !.layers[h] = None])
      BY <1>12 DEF DestroyLayer
    <2>2. frames # <<>> /\ UNCHANGED <<examples, console_layer>>
      BY <1>3, <1>12 DEF DestroyLayer
    <2>3. Mine.layers[h] \in Slot
      BY <1>1, <2>1, <2>2, MineIs, AddressSpaceFields
    <2> QED BY <1>1, <2>1, <2>2, <2>3, HandleTaken
  <1>13. CASE DestroyTable
    <2>1. PICK i \in DOMAIN Mine.page_tables :
            frames' = WithMine([Mine EXCEPT !.page_tables[i] = NoBlock])
      BY <1>13 DEF DestroyTable
    <2> DEFINE t == [Mine.page_tables EXCEPT ![i] = NoBlock]
               p == [Mine EXCEPT !.page_tables = t]
    <2>2. frames # <<>> /\ UNCHANGED <<layers, examples, console_layer>>
      BY <1>3, <1>13 DEF DestroyTable
    <2>3. Mine \in AddressSpace /\ Mine.page_tables \in Seq(Block)
      BY <1>1, <2>2, MineIs, AddressSpaceFields
    <2>4. t \in Seq(Block)
      <3>1. i \in 1 .. Len(Mine.page_tables)
        BY <2>3
      <3> QED BY <2>3, <3>1, NoBlockType, SequenceFacts
    <2>5. p \in AddressSpace /\ p.layers = Mine.layers
      BY <2>3, <2>4, WithTables
    <2>6. frames' = WithMine(p)
      BY <2>1
    <2> QED BY <1>1, <2>2, <2>5, <2>6, HandlesWithMine
  <1>14. CASE DestroyPages
    <2>1. /\ frames # <<>> /\ frames' = Front(frames) /\ \A h \in Handle : Mine.layers[h] = None
          /\ UNCHANGED <<layers, examples, console_layer>>
      BY <1>3, <1>14 DEF DestroyPages, Returned
    <2> QED BY <1>1, <2>1, HandlesReturned
  <1>15. CASE LeaveUser \/ SyscallYield \/ SyscallListDirectory \/ ComposeRow \/ UNCHANGED vars
    BY <1>15, HandlesUnchanged DEF LeaveUser, SyscallYield, SyscallListDirectory, ComposeRow, vars
  <1>16. CASE SyscallRunProgram
    BY <1>1, <1>16, HandlesRun DEF SyscallRunProgram
  <1>17. CASE ensure_console_layer
    <2>1. PICK s \in Slot : LayerCreated(ConsolePages, s) /\ console_layer' = s
      BY <1>17 DEF ensure_console_layer
    <2> QED BY <1>1, <1>17, <2>1, KernelLayer DEF ensure_console_layer
  <1>18. CASE SyscallLayerCreate
    <2>1. PICK n \in LayerSizes, h \in FreeHandles, s \in Slot :
            LayerCreated(n, s) /\ frames' = WithActive([Active EXCEPT !.layers[h] = s])
      BY <1>18 DEF SyscallLayerCreate
    <2>2. /\ h \in Handle /\ Mine.layers[h] = None /\ frames # <<>>
          /\ frames' = WithMine([Mine EXCEPT !.layers[h] = s])
      BY <1>2, <1>18, <2>1 DEF SyscallLayerCreate, Running, FreeHandles
    <2>3. n \in Nat /\ UNCHANGED <<examples, console_layer>>
      BY <1>18 DEF SyscallLayerCreate
    <2> QED BY <1>1, <2>1, <2>2, <2>3, HandleGiven
  <1>19. CASE SyscallLayerDestroy
    <2>1. PICK h \in Handle : program_layer(h) # None /\ layer_destroy(program_layer(h)) /\ HandleCleared(h)
      BY <1>19 DEF SyscallLayerDestroy
    <2>2. /\ frames # <<>> /\ frames' = WithMine([Mine EXCEPT !.layers[h] = None])
          /\ program_layer(h) = Mine.layers[h]
      BY <1>2, <1>19, <2>1 DEF SyscallLayerDestroy, Running, HandleCleared, program_layer
    <2>3. program_layer(h) \in Slot
      BY <1>1, <2>1, <2>2, MineIs, AddressSpaceFields
    <2>4. UNCHANGED <<examples, console_layer>>
      BY <1>19 DEF SyscallLayerDestroy
    <2> QED BY <1>1, <2>1, <2>2, <2>3, <2>4, HandleTaken
  <1>20. CASE CreateExample
    <2>1. PICK n \in LayerSizes :
            \/ \E s \in Slot : LayerCreated(n, s) /\ examples' = Append(examples, s)
            \/ LayerRefused(n) /\ examples' = Append(examples, None) /\ UNCHANGED <<memory, layers>>
      BY <1>20 DEF CreateExample
    <2>2. UNCHANGED <<frames, console_layer>> /\ n \in Nat
      BY <1>20 DEF CreateExample
    <2> QED BY <1>1, <2>1, <2>2, KernelLayer, ExampleRefused
  <1> QED BY <1>5, <1>6, <1>7, <1>8, <1>9, <1>10, <1>11, <1>12, <1>13, <1>14, <1>15,
             <1>16, <1>17, <1>18, <1>19, <1>20 DEF Next, Kernel, User

-----------------------------------------------------------------------------
(* Whose the pages are: what happens to a division of a set among owners   *)
(* when one of them gets a part, or some lose theirs.                      *)

Divided(O, F, u) == /\ u = UNION {F[o] : o \in O}
                    /\ \A o, q \in O : o # q => F[o] \cap F[q] = {}

(* But for the members of Q, owners are as they were, or have nothing.     *)
SameBut(Q, O, F, P, G) ==
  /\ \A o \in P : o \notin Q => (o \in O /\ G[o] = F[o]) \/ G[o] = {}
  /\ \A o \in O : o \notin Q => (o \in P /\ G[o] = F[o]) \/ F[o] = {}

LEMMA Took ==
  ASSUME NEW O, NEW F, NEW P, NEW G, NEW u, NEW q \in P, Divided(O, F, u),
         SameBut({q}, O, F, P, G),
         G[q] \cap u = {}, q \in O => F[q] = {}
  PROVE  Divided(P, G, u \cup G[q])
  <1>1. \A o \in O : F[o] \subseteq u
    BY DEF Divided
  <1>2. \A o \in P : o # q => (o \in O /\ G[o] = F[o]) \/ G[o] = {}
    BY DEF SameBut
  <1>3. ASSUME NEW x \in u PROVE x \in UNION {G[o] : o \in P}
    <2>1. PICK o \in O : x \in F[o]
      BY DEF Divided
    <2>2. o # q
      BY <2>1
    <2>3. o \in P /\ G[o] = F[o]
      BY <2>1, <2>2 DEF SameBut
    <2> QED BY <2>1, <2>3
  <1>4. ASSUME NEW o \in P, NEW x \in G[o] PROVE x \in u \cup G[q]
    BY <1>1, <1>2
  <1>5. ASSUME NEW o \in P, NEW r \in P, o # r PROVE G[o] \cap G[r] = {}
    <2>1. CASE o = q
      BY <1>1, <1>2, <1>5, <2>1
    <2>2. CASE r = q
      BY <1>1, <1>2, <1>5, <2>2
    <2>3. CASE o # q /\ r # q
      BY <1>2, <1>5, <2>3 DEF Divided
    <2> QED BY <2>1, <2>2, <2>3
  <1>6. u \cup G[q] = UNION {G[o] : o \in P}
    BY <1>3, <1>4
  <1> QED BY <1>5, <1>6 DEF Divided

LEMMA Lost ==
  ASSUME NEW O, NEW F, NEW P, NEW G, NEW u, NEW Q, Divided(O, F, u),
         SameBut(Q, O, F, P, G),
         \A o \in P : o \in Q => G[o] = {}
  PROVE  Divided(P, G, u \ UNION {F[o] : o \in O \cap Q})
  <1> DEFINE R == UNION {F[o] : o \in O \cap Q}
  <1>1. \A o \in P : (o \in O /\ o \notin Q /\ G[o] = F[o]) \/ G[o] = {}
    BY DEF SameBut
  <1>2. ASSUME NEW x \in u \ R PROVE x \in UNION {G[o] : o \in P}
    <2>1. PICK o \in O : x \in F[o]
      BY DEF Divided
    <2>2. o \notin Q
      BY <2>1
    <2>3. o \in P /\ G[o] = F[o]
      BY <2>1, <2>2 DEF SameBut
    <2> QED BY <2>1, <2>3
  <1>3. ASSUME NEW o \in P, NEW x \in G[o] PROVE x \in u \ R
    <2>1. o \in O /\ o \notin Q /\ x \in F[o]
      BY <1>1
    <2>2. x \in u
      BY <2>1 DEF Divided
    <2>3. ASSUME x \in R PROVE FALSE
      <3>1. PICK r \in O \cap Q : x \in F[r]
        BY <2>3
      <3>2. F[o] \cap F[r] = {}
        BY <2>1, <3>1 DEF Divided
      <3> QED BY <2>1, <3>1, <3>2
    <2> QED BY <2>2, <2>3
  <1>4. ASSUME NEW o \in P, NEW r \in P, o # r PROVE G[o] \cap G[r] = {}
    BY <1>1, <1>4 DEF Divided
  <1>5. u \ R = UNION {G[o] : o \in P}
    BY <1>2, <1>3
  <1> QED BY <1>4, <1>5 DEF Divided

(* The count of the free pages.                                            *)
LEMMA BlockSize ==
  ASSUME NEW b \in Block
  PROVE  IsFiniteSet(PagesOf(b)) /\ Cardinality(PagesOf(b)) = b.pages /\ b.pages \in 0 .. PageCount
  <1>1. b.first \in 0 .. PageCount - 1 /\ b.pages \in 0 .. PageCount
    BY DEF Block, Page
  <1>2. /\ IsFiniteSet(b.first .. b.first + b.pages - 1)
        /\ Cardinality(b.first .. b.first + b.pages - 1) =
             IF b.first > b.first + b.pages - 1 THEN 0 ELSE (b.first + b.pages - 1) - b.first + 1
    <2>1. b.first \in Int /\ b.first + b.pages - 1 \in Int
      BY <1>1
    <2> QED BY <2>1, FS_Interval
  <1> QED BY <1>1, <1>2 DEF PagesOf

LEMMA FreePages ==
  ASSUME NEW u \in SUBSET Page
  PROVE  IsFiniteSet(Page \ u) /\ Cardinality(Page \ u) \in 0 .. PageCount
  <1>1. IsFiniteSet(Page) /\ Cardinality(Page) = PageCount
    <2>1. IsFiniteSet(0 .. PageCount - 1) /\ Cardinality(0 .. PageCount - 1) =
            IF 0 > PageCount - 1 THEN 0 ELSE (PageCount - 1) - 0 + 1
      BY FS_Interval
    <2> QED BY <2>1 DEF Page
  <1>2. IsFiniteSet(Page \ u) /\ Cardinality(Page \ u) <= Cardinality(Page)
    BY <1>1, FS_Subset
  <1>3. Cardinality(Page \ u) \in Nat
    BY <1>2, FS_CardinalityType
  <1> QED BY <1>1, <1>2, <1>3

LEMMA CountTaken ==
  ASSUME NEW u \in SUBSET Page, NEW b \in Block, PagesOf(b) \subseteq Page \ u
  PROVE  Cardinality(Page \ (u \cup PagesOf(b))) = Cardinality(Page \ u) - b.pages
  <1>1. IsFiniteSet(Page \ u) /\ IsFiniteSet(PagesOf(b)) /\ Cardinality(PagesOf(b)) = b.pages
    BY FreePages, BlockSize
  <1>2. (Page \ u) \cap PagesOf(b) = PagesOf(b) /\ Page \ (u \cup PagesOf(b)) = (Page \ u) \ PagesOf(b)
    OBVIOUS
  <1>3. Cardinality((Page \ u) \ PagesOf(b)) = Cardinality(Page \ u) - Cardinality((Page \ u) \cap PagesOf(b))
    BY <1>1, FS_Difference
  <1> QED BY <1>1, <1>2, <1>3

LEMMA CountFreed ==
  ASSUME NEW u \in SUBSET Page, NEW b \in Block, PagesOf(b) \subseteq u
  PROVE  Cardinality(Page \ (u \ PagesOf(b))) = Cardinality(Page \ u) + b.pages
  <1>1. u \ PagesOf(b) \in SUBSET Page /\ PagesOf(b) \subseteq Page \ (u \ PagesOf(b))
    OBVIOUS
  <1>2. Cardinality(Page \ ((u \ PagesOf(b)) \cup PagesOf(b))) = Cardinality(Page \ (u \ PagesOf(b))) - b.pages
    BY <1>1, CountTaken
  <1>3. (u \ PagesOf(b)) \cup PagesOf(b) = u
    OBVIOUS
  <1>4. Cardinality(Page \ u) \in 0 .. PageCount
    BY FreePages
  <1>5. Cardinality(Page \ (u \ PagesOf(b))) \in 0 .. PageCount
    BY <1>1, FreePages
  <1>6. b.pages \in 0 .. PageCount
    BY BlockSize
  <1>7. Cardinality(Page \ u) = Cardinality(Page \ (u \ PagesOf(b))) - b.pages
    BY <1>2, <1>3
  <1> QED BY <1>4, <1>5, <1>6, <1>7

-----------------------------------------------------------------------------
(* Holders and Held, for any address spaces f and layers l.                *)

PartHolders(f) == UNION {{<<"part", k, p>> : p \in Part} : k \in DOMAIN f}
TableHolders(f) == UNION {{<<"table", k, i>> : i \in DOMAIN f[k].page_tables} : k \in DOMAIN f}
LayerHolders == {<<"layer", s>> : s \in Slot}
HoldersOf(f) == {<<"kernel">>} \cup LayerHolders \cup PartHolders(f) \cup TableHolders(f)

HeldIn(f, l, o) == CASE o[1] = "kernel" -> Reserved
                     [] o[1] = "layer" -> PagesOf(l[o[2]])
                     [] o[1] = "part" -> PagesOf(f[o[2]][o[3]])
                     [] o[1] = "table" -> PagesOf(f[o[2]].page_tables[o[3]])

Book(f, l) == [o \in HoldersOf(f) |-> HeldIn(f, l, o)]
Accounts(f, l, u) == Divided(HoldersOf(f), Book(f, l), u)

LEMMA HolderIs ==
  ASSUME NEW f \in Seq(AddressSpace), NEW o
  PROVE  o \in HoldersOf(f) <=>
           \/ o = <<"kernel">>
           \/ \E s \in Slot : o = <<"layer", s>>
           \/ \E k \in 1 .. Len(f), p \in Part : o = <<"part", k, p>>
           \/ \E k \in 1 .. Len(f) : \E i \in 1 .. Len(f[k].page_tables) : o = <<"table", k, i>>
  <1>1. DOMAIN f = 1 .. Len(f)
    OBVIOUS
  <1>2. ASSUME NEW k \in 1 .. Len(f)
        PROVE  DOMAIN f[k].page_tables = 1 .. Len(f[k].page_tables)
    BY AddressSpaceFields, SequenceFacts
  <1>3. o \in PartHolders(f) <=> \E k \in 1 .. Len(f), p \in Part : o = <<"part", k, p>>
    <2>1. o \in PartHolders(f) <=> \E k \in DOMAIN f, p \in Part : o = <<"part", k, p>>
      BY DEF PartHolders
    <2> QED BY <1>1, <2>1
  <1>4. o \in TableHolders(f) <=>
          \E k \in 1 .. Len(f) : \E i \in 1 .. Len(f[k].page_tables) : o = <<"table", k, i>>
    <2>1. o \in TableHolders(f) <=>
            \E k \in DOMAIN f : \E i \in DOMAIN f[k].page_tables : o = <<"table", k, i>>
      BY DEF TableHolders
    <2> QED BY <1>1, <1>2, <2>1
  <1>5. o \in LayerHolders <=> \E s \in Slot : o = <<"layer", s>>
    BY DEF LayerHolders
  <1> QED BY <1>3, <1>4, <1>5 DEF HoldersOf

LEMMA BookIs ==
  ASSUME NEW f \in Seq(AddressSpace), NEW l
  PROVE  /\ <<"kernel">> \in HoldersOf(f) /\ Book(f, l)[<<"kernel">>] = Reserved
         /\ \A s \in Slot : /\ <<"layer", s>> \in HoldersOf(f)
                            /\ Book(f, l)[<<"layer", s>>] = PagesOf(l[s])
         /\ \A k \in 1 .. Len(f), p \in Part : /\ <<"part", k, p>> \in HoldersOf(f)
                                               /\ Book(f, l)[<<"part", k, p>>] = PagesOf(f[k][p])
         /\ \A k \in 1 .. Len(f) : \A i \in 1 .. Len(f[k].page_tables) :
              /\ <<"table", k, i>> \in HoldersOf(f)
              /\ Book(f, l)[<<"table", k, i>>] = PagesOf(f[k].page_tables[i])
  <1>1. <<"kernel">> \in HoldersOf(f) /\ HeldIn(f, l, <<"kernel">>) = Reserved
    BY HolderIs DEF HeldIn
  <1>2. \A s \in Slot : <<"layer", s>> \in HoldersOf(f) /\ HeldIn(f, l, <<"layer", s>>) = PagesOf(l[s])
    BY HolderIs DEF HeldIn
  <1>3. \A k \in 1 .. Len(f), p \in Part :
          <<"part", k, p>> \in HoldersOf(f) /\ HeldIn(f, l, <<"part", k, p>>) = PagesOf(f[k][p])
    BY HolderIs DEF HeldIn
  <1>4. \A k \in 1 .. Len(f) : \A i \in 1 .. Len(f[k].page_tables) :
          /\ <<"table", k, i>> \in HoldersOf(f)
          /\ HeldIn(f, l, <<"table", k, i>>) = PagesOf(f[k].page_tables[i])
    BY HolderIs DEF HeldIn
  <1> QED BY <1>1, <1>2, <1>3, <1>4 DEF Book

LEMMA PartHeld ==
  ASSUME NEW f \in Seq(AddressSpace), NEW l, NEW k \in 1 .. Len(f), NEW p \in Part
  PROVE  <<"part", k, p>> \in HoldersOf(f) /\ Book(f, l)[<<"part", k, p>>] = PagesOf(f[k][p])
  BY BookIs

(* What must stay for two books to agree but for the holders in Q.         *)
BooksAgree(Q, f, l, g, m) ==
  /\ \A s \in Slot : <<"layer", s>> \notin Q => m[s] = l[s]
  /\ \A k \in 1 .. Len(g), p \in Part :
       <<"part", k, p>> \notin Q => (k \in 1 .. Len(f) /\ g[k][p] = f[k][p]) \/ g[k][p] = NoBlock
  /\ \A k \in 1 .. Len(f), p \in Part :
       <<"part", k, p>> \notin Q => (k \in 1 .. Len(g) /\ g[k][p] = f[k][p]) \/ f[k][p] = NoBlock
  /\ \A k \in 1 .. Len(g) : \A i \in 1 .. Len(g[k].page_tables) :
       <<"table", k, i>> \notin Q =>
         k \in 1 .. Len(f) /\ i \in 1 .. Len(f[k].page_tables) /\ g[k].page_tables[i] = f[k].page_tables[i]
  /\ \A k \in 1 .. Len(f) : \A i \in 1 .. Len(f[k].page_tables) :
       <<"table", k, i>> \notin Q =>
         \/ k \in 1 .. Len(g) /\ i \in 1 .. Len(g[k].page_tables) /\ g[k].page_tables[i] = f[k].page_tables[i]
         \/ f[k].page_tables[i] = NoBlock

LEMMA BooksSameBut ==
  ASSUME NEW f \in Seq(AddressSpace), NEW g \in Seq(AddressSpace), NEW l, NEW m, NEW Q,
         BooksAgree(Q, f, l, g, m)
  PROVE  SameBut(Q, HoldersOf(f), Book(f, l), HoldersOf(g), Book(g, m))
  <1> DEFINE O == HoldersOf(f)
             P == HoldersOf(g)
             F == Book(f, l)
             G == Book(g, m)
  <1>1. PagesOf(NoBlock) = {}
    BY NoBlockType
  <1>2. ASSUME NEW o \in P, o \notin Q
        PROVE  (o \in O /\ G[o] = F[o]) \/ G[o] = {}
    <2>1. CASE o = <<"kernel">>
      BY <2>1, BookIs
    <2>2. CASE \E s \in Slot : o = <<"layer", s>>
      <3>1. PICK s \in Slot : o = <<"layer", s>>
        BY <2>2
      <3>2. m[s] = l[s]
        BY <1>2, <3>1 DEF BooksAgree
      <3> QED BY <3>1, <3>2, BookIs
    <2>3. CASE \E k \in 1 .. Len(g), p \in Part : o = <<"part", k, p>>
      <3>1. PICK k \in 1 .. Len(g), p \in Part : o = <<"part", k, p>>
        BY <2>3
      <3>2. (k \in 1 .. Len(f) /\ g[k][p] = f[k][p]) \/ g[k][p] = NoBlock
        BY <1>2, <3>1 DEF BooksAgree
      <3>3. G[o] = PagesOf(g[k][p])
        BY <3>1, BookIs
      <3>4. ASSUME k \in 1 .. Len(f) PROVE o \in O /\ F[o] = PagesOf(f[k][p])
        <4>1. <<"part", k, p>> \in HoldersOf(f) /\ Book(f, l)[<<"part", k, p>>] = PagesOf(f[k][p])
          BY ONLY <3>4, f \in Seq(AddressSpace), p \in Part, PartHeld
        <4> QED BY <3>1, <4>1
      <3> QED BY <1>1, <3>2, <3>3, <3>4
    <2>4. CASE \E k \in 1 .. Len(g) : \E i \in 1 .. Len(g[k].page_tables) : o = <<"table", k, i>>
      <3>1. PICK k \in 1 .. Len(g) : \E i \in 1 .. Len(g[k].page_tables) : o = <<"table", k, i>>
        BY <2>4
      <3>2. PICK i \in 1 .. Len(g[k].page_tables) : o = <<"table", k, i>>
        BY <3>1
      <3>3. k \in 1 .. Len(f) /\ i \in 1 .. Len(f[k].page_tables) /\ g[k].page_tables[i] = f[k].page_tables[i]
        BY <1>2, <3>2 DEF BooksAgree
      <3> QED BY <3>2, <3>3, BookIs
    <2> QED BY <1>2, <2>1, <2>2, <2>3, <2>4, HolderIs
  <1>3. ASSUME NEW o \in O, o \notin Q
        PROVE  (o \in P /\ G[o] = F[o]) \/ F[o] = {}
    <2>1. CASE o = <<"kernel">>
      BY <2>1, BookIs
    <2>2. CASE \E s \in Slot : o = <<"layer", s>>
      <3>1. PICK s \in Slot : o = <<"layer", s>>
        BY <2>2
      <3>2. m[s] = l[s]
        BY <1>3, <3>1 DEF BooksAgree
      <3> QED BY <3>1, <3>2, BookIs
    <2>3. CASE \E k \in 1 .. Len(f), p \in Part : o = <<"part", k, p>>
      <3>1. PICK k \in 1 .. Len(f), p \in Part : o = <<"part", k, p>>
        BY <2>3
      <3>2. (k \in 1 .. Len(g) /\ g[k][p] = f[k][p]) \/ f[k][p] = NoBlock
        BY <1>3, <3>1 DEF BooksAgree
      <3>3. F[o] = PagesOf(f[k][p])
        BY <3>1, BookIs
      <3>4. ASSUME k \in 1 .. Len(g) PROVE o \in P /\ G[o] = PagesOf(g[k][p])
        <4>1. <<"part", k, p>> \in HoldersOf(g) /\ Book(g, m)[<<"part", k, p>>] = PagesOf(g[k][p])
          BY ONLY <3>4, g \in Seq(AddressSpace), p \in Part, PartHeld
        <4> QED BY <3>1, <4>1
      <3> QED BY <1>1, <3>2, <3>3, <3>4
    <2>4. CASE \E k \in 1 .. Len(f) : \E i \in 1 .. Len(f[k].page_tables) : o = <<"table", k, i>>
      <3>1. PICK k \in 1 .. Len(f) : \E i \in 1 .. Len(f[k].page_tables) : o = <<"table", k, i>>
        BY <2>4
      <3>2. PICK i \in 1 .. Len(f[k].page_tables) : o = <<"table", k, i>>
        BY <3>1
      <3>3. \/ k \in 1 .. Len(g) /\ i \in 1 .. Len(g[k].page_tables) /\ g[k].page_tables[i] = f[k].page_tables[i]
            \/ f[k].page_tables[i] = NoBlock
        BY <1>3, <3>2 DEF BooksAgree
      <3>4. F[o] = PagesOf(f[k].page_tables[i])
        BY <3>2, BookIs
      <3>5. k \in 1 .. Len(g) /\ i \in 1 .. Len(g[k].page_tables) =>
              o \in P /\ G[o] = PagesOf(g[k].page_tables[i])
        BY <3>2, BookIs
      <3> QED BY <1>1, <3>3, <3>4, <3>5
    <2> QED BY <1>3, <2>1, <2>2, <2>3, <2>4, HolderIs
  <1> QED BY <1>2, <1>3 DEF SameBut

(* The pages, their holders and their count; and what a step must do to    *)
(* keep them right.                                                        *)
Balanced == /\ used \subseteq Page
            /\ Accounts(frames, layers, used)
            /\ free_page_count = Cardinality(Page \ used)

LEMMA BalancedTaking ==
  ASSUME Balanced, frames \in Seq(AddressSpace), frames' \in Seq(AddressSpace),
         NEW b \in Block, PagesOf(b) \subseteq Page \ used, memory_alloc_pages(b),
         NEW q \in HoldersOf(frames'), Book(frames', layers')[q] = PagesOf(b),
         q \in HoldersOf(frames) => Book(frames, layers)[q] = {},
         BooksAgree({q}, frames, layers, frames', layers')
  PROVE  Balanced'
  <1> DEFINE O == HoldersOf(frames)
             P == HoldersOf(frames')
             F == Book(frames, layers)
             G == Book(frames', layers')
  <1>1. SameBut({q}, O, F, P, G)
    BY BooksSameBut
  <1>2. Divided(O, F, used) /\ G[q] \cap used = {}
    BY DEF Balanced, Accounts
  <1>3. Divided(P, G, used \cup G[q])
    BY <1>1, <1>2, Took
  <1>4. used' = used \cup PagesOf(b) /\ free_page_count' = free_page_count - b.pages
    BY DEF memory_alloc_pages
  <1>5. Cardinality(Page \ (used \cup PagesOf(b))) = Cardinality(Page \ used) - b.pages
    BY CountTaken DEF Balanced
  <1>6. used' \subseteq Page /\ free_page_count' = Cardinality(Page \ used')
    BY <1>4, <1>5 DEF Balanced
  <1>7. Accounts(frames', layers', used')
    BY <1>3, <1>4 DEF Accounts
  <1> QED BY <1>6, <1>7, NoBlockType DEF Balanced, Page

LEMMA BalancedFreeing ==
  ASSUME Balanced, frames \in Seq(AddressSpace), frames' \in Seq(AddressSpace),
         NEW b \in Block, memory_free_pages(b),
         NEW q \in HoldersOf(frames), Book(frames, layers)[q] = PagesOf(b),
         q \in HoldersOf(frames') => Book(frames', layers')[q] = {},
         BooksAgree({q}, frames, layers, frames', layers')
  PROVE  Balanced'
  <1> DEFINE O == HoldersOf(frames)
             P == HoldersOf(frames')
             F == Book(frames, layers)
             G == Book(frames', layers')
  <1>1. SameBut({q}, O, F, P, G)
    BY BooksSameBut
  <1>2. Divided(O, F, used)
    BY DEF Balanced, Accounts
  <1>3. Divided(P, G, used \ UNION {F[o] : o \in O \cap {q}})
    BY <1>1, <1>2, Lost
  <1>4. UNION {F[o] : o \in O \cap {q}} = PagesOf(b)
    OBVIOUS
  <1>5. used' = used \ PagesOf(b) /\ free_page_count' = free_page_count + b.pages
    BY DEF memory_free_pages
  <1>6. PagesOf(b) \subseteq used
    BY <1>2 DEF Divided
  <1>7. Cardinality(Page \ (used \ PagesOf(b))) = Cardinality(Page \ used) + b.pages
    BY <1>6, CountFreed DEF Balanced
  <1>8. used' \subseteq Page /\ free_page_count' = Cardinality(Page \ used')
    BY <1>5, <1>7 DEF Balanced
  <1>9. Accounts(frames', layers', used')
    BY <1>3, <1>4, <1>5 DEF Accounts
  <1> QED BY <1>8, <1>9 DEF Balanced

LEMMA BalancedKeeping ==
  ASSUME Balanced, frames \in Seq(AddressSpace), frames' \in Seq(AddressSpace),
         UNCHANGED memory, BooksAgree({}, frames, layers, frames', layers')
  PROVE  Balanced'
  <1> DEFINE O == HoldersOf(frames)
             P == HoldersOf(frames')
             F == Book(frames, layers)
             G == Book(frames', layers')
  <1>1. SameBut({}, O, F, P, G)
    BY BooksSameBut
  <1>2. Divided(O, F, used)
    BY DEF Balanced, Accounts
  <1>3. Divided(P, G, used \ UNION {F[o] : o \in O \cap {}})
    BY <1>1, <1>2, Lost
  <1>4. used' = used /\ free_page_count' = free_page_count
    BY DEF memory
  <1>5. used \ UNION {F[o] : o \in O \cap {}} = used
    OBVIOUS
  <1>6. Accounts(frames', layers', used')
    BY <1>3, <1>4, <1>5 DEF Accounts
  <1> QED BY <1>4, <1>6 DEF Balanced

(* What the books of the steps have in common.                             *)
SameSpaces(f, g) == /\ Len(g) = Len(f)
                    /\ \A k \in 1 .. Len(f) : /\ \A p \in Part : g[k][p] = f[k][p]
                                              /\ g[k].page_tables = f[k].page_tables

LEMMA AgreeLayer ==
  ASSUME NEW f, NEW g, NEW l, NEW m, NEW s, SameSpaces(f, g), \A t \in Slot : t # s => m[t] = l[t]
  PROVE  BooksAgree({<<"layer", s>>}, f, l, g, m)
  BY DEF BooksAgree, SameSpaces

LEMMA AgreeSame ==
  ASSUME NEW f, NEW g, NEW l, SameSpaces(f, g)
  PROVE  BooksAgree({}, f, l, g, l)
  BY DEF BooksAgree, SameSpaces

(* The innermost address space changes; the others stay.                   *)
OnlyLast(f, g) == /\ Len(f) \in Nat \ {0} /\ Len(g) = Len(f)
                  /\ \A k \in 1 .. Len(f) - 1 : g[k] = f[k]

LEMMA OthersStay ==
  ASSUME NEW f, NEW g, OnlyLast(f, g)
  PROVE  \A k \in 1 .. Len(f) : k = Len(f) \/ g[k] = f[k]
  BY DEF OnlyLast

LEMMA AgreePart ==
  ASSUME NEW f, NEW g, NEW l, NEW p \in Part, OnlyLast(f, g),
         \A q \in Part : q # p => g[Len(f)][q] = f[Len(f)][q],
         g[Len(f)].page_tables = f[Len(f)].page_tables
  PROVE  BooksAgree({<<"part", Len(f), p>>}, f, l, g, l)
  <1>1. \A k \in 1 .. Len(f) : k = Len(f) \/ g[k] = f[k]
    BY OthersStay
  <1>2. Len(g) = Len(f)
    BY DEF OnlyLast
  <1>3. ASSUME NEW k \in 1 .. Len(f), NEW q \in Part, <<"part", k, q>> # <<"part", Len(f), p>>
        PROVE  g[k][q] = f[k][q]
    <2>1. k # Len(f) \/ q # p
      BY <1>3
    <2> QED BY <1>1, <2>1
  <1>4. \A k \in 1 .. Len(f) : g[k].page_tables = f[k].page_tables
    BY <1>1
  <1> QED BY <1>2, <1>3, <1>4 DEF BooksAgree

LEMMA AgreeTables ==
  ASSUME NEW f, NEW g, NEW l, NEW i, OnlyLast(f, g),
         \A q \in Part : g[Len(f)][q] = f[Len(f)][q],
         \A j \in 1 .. Len(g[Len(f)].page_tables) : j # i =>
           j \in 1 .. Len(f[Len(f)].page_tables) /\ g[Len(f)].page_tables[j] = f[Len(f)].page_tables[j],
         \A j \in 1 .. Len(f[Len(f)].page_tables) : j # i =>
           j \in 1 .. Len(g[Len(f)].page_tables) /\ g[Len(f)].page_tables[j] = f[Len(f)].page_tables[j]
  PROVE  BooksAgree({<<"table", Len(f), i>>}, f, l, g, l)
  <1>1. \A k \in 1 .. Len(f) : k = Len(f) \/ g[k] = f[k]
    BY OthersStay
  <1>2. Len(g) = Len(f)
    BY DEF OnlyLast
  <1>3. \A k \in 1 .. Len(f), q \in Part : g[k][q] = f[k][q]
    BY <1>1
  <1>4. ASSUME NEW k \in 1 .. Len(f), NEW j \in 1 .. Len(g[k].page_tables),
               <<"table", k, j>> # <<"table", Len(f), i>>
        PROVE  j \in 1 .. Len(f[k].page_tables) /\ g[k].page_tables[j] = f[k].page_tables[j]
    <2>1. CASE k = Len(f)
      <3>1. j # i
        BY <1>4, <2>1
      <3> QED BY <2>1, <3>1
    <2>2. CASE g[k] = f[k]
      BY <2>2
    <2> QED BY <1>1, <2>1, <2>2
  <1>5. ASSUME NEW k \in 1 .. Len(f), NEW j \in 1 .. Len(f[k].page_tables),
               <<"table", k, j>> # <<"table", Len(f), i>>
        PROVE  j \in 1 .. Len(g[k].page_tables) /\ g[k].page_tables[j] = f[k].page_tables[j]
    <2>1. CASE k = Len(f)
      <3>1. j # i
        BY <1>5, <2>1
      <3> QED BY <2>1, <3>1
    <2>2. CASE g[k] = f[k]
      BY <2>2
    <2> QED BY <1>1, <2>1, <2>2
  <1> QED BY <1>2, <1>3, <1>4, <1>5 DEF BooksAgree

LEMMA AgreeRun ==
  ASSUME NEW f, NEW g, NEW l, Len(f) \in Nat, Len(g) = Len(f) + 1,
         \A k \in 1 .. Len(f) : g[k] = f[k],
         \A p \in Part : g[Len(f) + 1][p] = NoBlock, g[Len(f) + 1].page_tables = <<>>
  PROVE  BooksAgree({}, f, l, g, l) /\ BooksAgree({}, g, l, f, l)
  <1>1. \A k \in 1 .. Len(g) : (k \in 1 .. Len(f) /\ g[k] = f[k]) \/ k = Len(f) + 1
    OBVIOUS
  <1>2. \A k \in 1 .. Len(f) : k \in 1 .. Len(g) /\ g[k] = f[k]
    OBVIOUS
  <1>3. \A i \in 1 .. Len(g[Len(f) + 1].page_tables) : FALSE
    OBVIOUS
  <1>4. \A k \in 1 .. Len(g), p \in Part : (k \in 1 .. Len(f) /\ g[k][p] = f[k][p]) \/ g[k][p] = NoBlock
    BY <1>1
  <1>5. \A k \in 1 .. Len(g) : \A i \in 1 .. Len(g[k].page_tables) : k \in 1 .. Len(f) /\ g[k] = f[k]
    BY <1>1, <1>3
  <1> HIDE DEF NoBlock
  <1> QED BY <1>2, <1>4, <1>5 DEF BooksAgree

(* The end of a program: four blocks at once.                              *)
Without(u, b) == u \ PagesOf(b)

LEMMA FourFreed ==
  ASSUME NEW u \in SUBSET Page, NEW a \in Block, NEW b \in Block, NEW c \in Block, NEW d \in Block,
         PagesOf(a) \subseteq u, PagesOf(b) \subseteq Without(u, a),
         PagesOf(c) \subseteq Without(Without(u, a), b),
         PagesOf(d) \subseteq Without(Without(Without(u, a), b), c)
  PROVE  Cardinality(Page \ Without(Without(Without(Without(u, a), b), c), d)) =
           Cardinality(Page \ u) + a.pages + b.pages + c.pages + d.pages
  <1> DEFINE v == Without(u, a)
             w == Without(v, b)
             x == Without(w, c)
             y == Without(x, d)
  <1>1. v \in SUBSET Page /\ w \in SUBSET Page /\ x \in SUBSET Page
    BY DEF Without
  <1>2. Cardinality(Page \ v) = Cardinality(Page \ u) + a.pages
    BY CountFreed DEF Without
  <1>3. Cardinality(Page \ w) = Cardinality(Page \ v) + b.pages
    BY <1>1, CountFreed DEF Without
  <1>4. Cardinality(Page \ x) = Cardinality(Page \ w) + c.pages
    BY <1>1, CountFreed DEF Without
  <1>5. Cardinality(Page \ y) = Cardinality(Page \ x) + d.pages
    BY <1>1, CountFreed DEF Without
  <1> HIDE DEF v, w, x, y
  <1>6. Cardinality(Page \ y) = Cardinality(Page \ u) + a.pages + b.pages + c.pages + d.pages
    BY <1>2, <1>3, <1>4, <1>5
  <1> QED BY <1>6 DEF v, w, x, y

LEMMA BalancedReturned ==
  ASSUME Typed, Balanced, frames # <<>>, frames' = Front(frames), layers' = layers,
         \A i \in DOMAIN Mine.page_tables : Mine.page_tables[i] = NoBlock,
         used' = used \ UNION {PagesOf(Mine[p]) : p \in Part},
         free_page_count' = free_page_count + Mine.pml4.pages + Mine.api.pages
                                            + Mine.stack.pages + Mine.image.pages
  PROVE  Balanced'
  <1> DEFINE n == Len(frames)
             O == HoldersOf(frames)
             P == HoldersOf(frames')
             F == Book(frames, layers)
             G == Book(frames', layers')
             Q == {<<"part", n, p>> : p \in Part}
  <1>1. /\ frames \in Seq(AddressSpace) /\ n \in Nat \ {0} /\ Mine = frames[n] /\ Mine \in AddressSpace
        /\ frames' \in Seq(AddressSpace) /\ Len(frames') = n - 1
        /\ \A k \in 1 .. n - 1 : frames'[k] = frames[k]
    BY MineIs, FrontIs DEF Typed
  <1>2. \A i \in 1 .. Len(Mine.page_tables) : Mine.page_tables[i] = NoBlock
    <2>1. DOMAIN Mine.page_tables = 1 .. Len(Mine.page_tables)
      BY <1>1, AddressSpaceFields, SequenceFacts
    <2> QED BY <2>1
  <1>3. \A k \in 1 .. n : k = n \/ (k \in 1 .. Len(frames') /\ frames'[k] = frames[k])
    BY <1>1
  <1>4. \A k \in 1 .. Len(frames') : k \in 1 .. n /\ k # n /\ frames'[k] = frames[k]
    BY <1>1
  <1>5. BooksAgree(Q, frames, layers, frames', layers')
    <2>1. \A k \in 1 .. n, p \in Part :
            <<"part", k, p>> \notin Q => k \in 1 .. Len(frames') /\ frames'[k] = frames[k]
      BY <1>3
    <2>2. \A k \in 1 .. n : \A i \in 1 .. Len(frames[k].page_tables) :
            (k \in 1 .. Len(frames') /\ frames'[k] = frames[k]) \/ frames[k].page_tables[i] = NoBlock
      BY <1>1, <1>2, <1>3
    <2> HIDE DEF Q, NoBlock
    <2> QED BY <1>4, <2>1, <2>2 DEF BooksAgree
  <1>6. SameBut(Q, O, F, P, G)
    BY <1>1, <1>5, BooksSameBut
  <1>7. Divided(O, F, used)
    BY DEF Balanced, Accounts
  <1>8. \A o \in P : o \notin Q
    <2>1. ASSUME NEW p \in Part, <<"part", n, p>> \in P PROVE FALSE
      <3>1. PICK k \in 1 .. Len(frames'), r \in Part : <<"part", n, p>> = <<"part", k, r>>
        BY <1>1, <2>1, HolderIs
      <3>2. k = n
        BY <3>1
      <3> QED BY <1>4, <3>2
    <2> QED BY <2>1
  <1>9. Divided(P, G, used \ UNION {F[o] : o \in O \cap Q})
    BY <1>6, <1>7, <1>8, Lost
  <1>10. \A p \in Part : <<"part", n, p>> \in O /\ F[<<"part", n, p>>] = PagesOf(Mine[p])
    <2>1. n \in 1 .. n
      BY <1>1
    <2>2. ASSUME NEW p \in Part
          PROVE  /\ <<"part", n, p>> \in HoldersOf(frames)
                 /\ Book(frames, layers)[<<"part", n, p>>] = PagesOf(frames[n][p])
      BY ONLY <1>1, <2>1, p \in Part, PartHeld
    <2> QED BY <1>1, <2>2
  <1>11. UNION {F[o] : o \in O \cap Q} = UNION {PagesOf(Mine[p]) : p \in Part}
    <2>1. \A o \in O \cap Q : \E p \in Part : F[o] = PagesOf(Mine[p])
      BY <1>10
    <2>2. \A p \in Part : \E o \in O \cap Q : F[o] = PagesOf(Mine[p])
      BY <1>10
    <2> HIDE DEF Q, O, F
    <2> QED BY <2>1, <2>2
  <1>12. Accounts(frames', layers', used')
    BY <1>9, <1>11 DEF Accounts
  <1>13. /\ \A p \in Part : Mine[p] \in Block /\ PagesOf(Mine[p]) \subseteq used
         /\ \A p, r \in Part : p # r => PagesOf(Mine[p]) \cap PagesOf(Mine[r]) = {}
    <2>1. \A p \in Part : PagesOf(Mine[p]) \subseteq used
      BY <1>7, <1>10 DEF Divided
    <2>2. ASSUME NEW p \in Part, NEW r \in Part, p # r
          PROVE  PagesOf(Mine[p]) \cap PagesOf(Mine[r]) = {}
      <3>1. <<"part", n, p>> # <<"part", n, r>>
        BY <2>2
      <3> QED BY <1>7, <1>10, <3>1 DEF Divided
    <2> QED BY <1>1, <2>1, <2>2, AddressSpaceFields
  <1> DEFINE A == PagesOf(Mine["pml4"])
             B == PagesOf(Mine["api"])
             C == PagesOf(Mine["stack"])
             D == PagesOf(Mine["image"])
  <1>14. used' = (((used \ A) \ B) \ C) \ D
    <2>1. UNION {PagesOf(Mine[p]) : p \in Part} = A \cup B \cup C \cup D
      BY DEF Part
    <2> HIDE DEF A, B, C, D
    <2> QED BY <2>1
  <1>15. /\ A \subseteq used /\ B \subseteq used \ A /\ C \subseteq (used \ A) \ B
         /\ D \subseteq ((used \ A) \ B) \ C
    <2>1. /\ A \subseteq used /\ B \subseteq used /\ C \subseteq used /\ D \subseteq used
          /\ A \cap B = {} /\ A \cap C = {} /\ A \cap D = {}
          /\ B \cap C = {} /\ B \cap D = {} /\ C \cap D = {}
      BY <1>13 DEF Part
    <2> HIDE DEF A, B, C, D
    <2> QED BY <2>1
  <1>16. /\ Mine["pml4"] \in Block /\ Mine["api"] \in Block
         /\ Mine["stack"] \in Block /\ Mine["image"] \in Block
    BY <1>13 DEF Part
  <1>17. Cardinality(Page \ ((((used \ A) \ B) \ C) \ D)) =
           Cardinality(Page \ used) + Mine["pml4"].pages + Mine["api"].pages
             + Mine["stack"].pages + Mine["image"].pages
    <2>1. used \in SUBSET Page
      BY DEF Balanced
    <2>2. PICK a \in Block, b \in Block, c \in Block, d \in Block :
            a = Mine["pml4"] /\ b = Mine["api"] /\ c = Mine["stack"] /\ d = Mine["image"]
      BY <1>16
    <2>3. /\ PagesOf(a) \subseteq used /\ PagesOf(b) \subseteq Without(used, a)
          /\ PagesOf(c) \subseteq Without(Without(used, a), b)
          /\ PagesOf(d) \subseteq Without(Without(Without(used, a), b), c)
      BY <1>15, <2>2 DEF Without
    <2>4. Cardinality(Page \ Without(Without(Without(Without(used, a), b), c), d)) =
            Cardinality(Page \ used) + a.pages + b.pages + c.pages + d.pages
      BY ONLY <2>1, <2>3, a \in Block, b \in Block, c \in Block, d \in Block, FourFreed
    <2> QED BY <2>2, <2>4 DEF Without
  <1>18. free_page_count' = Cardinality(Page \ used')
    BY <1>14, <1>17 DEF Balanced
  <1>19. used' \subseteq Page
    BY <1>14 DEF Balanced
  <1> QED BY <1>12, <1>18, <1>19 DEF Balanced

-----------------------------------------------------------------------------
(* Each step keeps the pages accounted for.                                *)

LEMMA SpacesUnchanged == SameSpaces(frames, frames)
  BY DEF SameSpaces

LEMMA BalancedUnchanged ==
  ASSUME Typed, Balanced, UNCHANGED <<memory, frames, layers>>
  PROVE  Balanced'
  BY DEF Balanced, memory

(* An allocation that finds nothing.                                       *)
LEMMA NothingTaken ==
  ASSUME Balanced, memory_alloc_pages(NoBlock)
  PROVE  UNCHANGED memory
  <1>1. used' = used
    BY NoBlockType DEF memory_alloc_pages
  <1>2. free_page_count \in 0 .. PageCount
    BY FreePages DEF Balanced
  <1>3. free_page_count' = free_page_count - 0
    BY DEF memory_alloc_pages, NoBlock
  <1> QED BY <1>1, <1>2, <1>3 DEF memory

LEMMA HandleSpaces ==
  ASSUME Typed, frames # <<>>, NEW h \in Handle, NEW s \in Slot \cup {None},
         frames' = WithMine([Mine EXCEPT !.layers[h] = s])
  PROVE  frames' \in Seq(AddressSpace) /\ SameSpaces(frames, frames')
  <1> DEFINE p == Handed(Mine, h, s)
  <1>1. Mine \in AddressSpace /\ Len(frames) \in Nat \ {0} /\ Mine = frames[Len(frames)]
    BY MineIs
  <1>2. /\ p \in AddressSpace /\ p.page_tables = Mine.page_tables
        /\ \A q \in Part : p[q] = Mine[q]
    BY <1>1, HandedIs
  <1>3. frames' = WithMine(p)
    BY DEF Handed
  <1> HIDE DEF p
  <1>4. /\ WithMine(p) \in Seq(AddressSpace) /\ Len(WithMine(p)) = Len(frames)
        /\ WithMine(p)[Len(frames)] = p
        /\ \A k \in 1 .. Len(frames) - 1 : WithMine(p)[k] = frames[k]
    BY ONLY <1>2, Typed, frames # <<>>, MineIs
  <1>5. \A k \in 1 .. Len(frames) : k = Len(frames) \/ frames'[k] = frames[k]
    BY <1>1, <1>3, <1>4
  <1>6. ASSUME NEW k \in 1 .. Len(frames)
        PROVE  (\A q \in Part : frames'[k][q] = frames[k][q]) /\ frames'[k].page_tables = frames[k].page_tables
    <2>1. CASE k = Len(frames)
      BY <1>1, <1>2, <1>3, <1>4, <2>1
    <2>2. CASE frames'[k] = frames[k]
      BY <2>2
    <2> QED BY <1>5, <2>1, <2>2
  <1> QED BY <1>3, <1>4, <1>6 DEF SameSpaces

LEMMA LayerMade ==
  ASSUME Typed, Balanced, NEW n \in Nat, NEW s \in Slot, LayerCreated(n, s),
         frames' \in Seq(AddressSpace), SameSpaces(frames, frames')
  PROVE  Balanced'
  <1>1. PICK b \in Found(n) \ {NoBlock} : memory_alloc_pages(b) /\ layers' = [layers EXCEPT ![s] = b]
    BY DEF LayerCreated
  <1>2. frames \in Seq(AddressSpace) /\ used \subseteq Page
    BY DEF Typed, Balanced
  <1>3. b \in Block /\ PagesOf(b) \subseteq Page \ used
    BY <1>2, FoundIs
  <1>4. layers[s] = NoBlock /\ layers'[s] = b /\ \A t \in Slot : t # s => layers'[t] = layers[t]
    BY <1>1 DEF LayerCreated, FreeSlots, Typed
  <1> DEFINE q == <<"layer", s>>
  <1>5. q \in HoldersOf(frames') /\ Book(frames', layers')[q] = PagesOf(b)
    BY <1>4, BookIs
  <1>6. Book(frames, layers)[q] = {}
    BY <1>2, <1>4, BookIs, NoBlockType
  <1>7. BooksAgree({q}, frames, layers, frames', layers')
    BY <1>4, AgreeLayer
  <1> HIDE DEF q
  <1> QED BY <1>1, <1>2, <1>3, <1>5, <1>6, <1>7, BalancedTaking

LEMMA LayerGone ==
  ASSUME Typed, Balanced, NEW s \in Slot, layer_destroy(s),
         frames' \in Seq(AddressSpace), SameSpaces(frames, frames')
  PROVE  Balanced'
  <1>1. frames \in Seq(AddressSpace) /\ layers[s] \in Block
    BY DEF Typed
  <1>2. CASE layers[s] = NoBlock
    <2>1. UNCHANGED memory /\ layers' = layers
      BY <1>2 DEF layer_destroy
    <2>2. BooksAgree({}, frames, layers, frames', layers')
      BY <2>1, AgreeSame
    <2> QED BY <1>1, <2>1, <2>2, BalancedKeeping
  <1>3. CASE layers[s] # NoBlock
    <2>1. /\ memory_free_pages(layers[s]) /\ layers'[s] = NoBlock
          /\ \A t \in Slot : t # s => layers'[t] = layers[t]
      BY <1>3 DEF layer_destroy, Typed
    <2> DEFINE q == <<"layer", s>>
    <2>2. q \in HoldersOf(frames) /\ Book(frames, layers)[q] = PagesOf(layers[s])
      BY <1>1, BookIs
    <2>3. Book(frames', layers')[q] = {}
      BY <2>1, BookIs, NoBlockType
    <2>4. BooksAgree({q}, frames, layers, frames', layers')
      BY <2>1, AgreeLayer
    <2> HIDE DEF q
    <2> QED BY <1>1, <2>1, <2>2, <2>3, <2>4, BalancedFreeing
  <1> QED BY <1>2, <1>3

LEMMA MineOnly ==
  ASSUME Typed, frames # <<>>, NEW p \in AddressSpace, frames' = WithMine(p)
  PROVE  /\ frames \in Seq(AddressSpace) /\ frames' \in Seq(AddressSpace)
         /\ OnlyLast(frames, frames') /\ frames'[Len(frames)] = p
         /\ Len(frames) \in 1 .. Len(frames) /\ Len(frames) \in 1 .. Len(frames')
         /\ Mine = frames[Len(frames)] /\ Mine \in AddressSpace
  <1>1. /\ Len(frames) \in Nat \ {0} /\ Mine = frames[Len(frames)] /\ Mine \in AddressSpace
        /\ frames' \in Seq(AddressSpace) /\ Len(frames') = Len(frames)
        /\ frames'[Len(frames)] = p
        /\ \A k \in 1 .. Len(frames) - 1 : frames'[k] = frames[k]
    BY MineIs
  <1>2. OnlyLast(frames, frames')
    BY <1>1 DEF OnlyLast
  <1>3. Len(frames) \in 1 .. Len(frames) /\ Len(frames) \in 1 .. Len(frames')
    BY <1>1
  <1> QED BY <1>1, <1>2, <1>3 DEF Typed

LEMMA PartTaken ==
  ASSUME Typed, Balanced, frames # <<>>, NEW p \in Part, Mine[p] = NoBlock,
         NEW n \in Nat, NEW b \in Found(n), memory_alloc_pages(b),
         frames' = WithMine([Mine EXCEPT ![p] = b]), layers' = layers
  PROVE  Balanced'
  <1>1. b \in Block /\ PagesOf(b) \subseteq Page \ used
    BY FoundIs DEF Balanced
  <1>2. Mine \in AddressSpace
    BY MineIs
  <1> DEFINE r == [Mine EXCEPT ![p] = b]
             q == <<"part", Len(frames), p>>
  <1>3. /\ r \in AddressSpace /\ r[p] = b /\ r.page_tables = Mine.page_tables
        /\ \A t \in Part : t # p => r[t] = Mine[t]
    BY <1>1, <1>2, WithPart
  <1>4. frames' = WithMine(r)
    OBVIOUS
  <1> HIDE DEF r
  <1>5. /\ frames \in Seq(AddressSpace) /\ frames' \in Seq(AddressSpace)
        /\ OnlyLast(frames, frames') /\ frames'[Len(frames)] = r
        /\ Len(frames) \in 1 .. Len(frames) /\ Len(frames) \in 1 .. Len(frames')
        /\ Mine = frames[Len(frames)]
    BY <1>3, <1>4, MineOnly
  <1>6. q \in HoldersOf(frames') /\ Book(frames', layers')[q] = PagesOf(b)
    BY <1>3, <1>5, PartHeld
  <1>7. Book(frames, layers)[q] = {}
    BY <1>5, PartHeld, NoBlockType
  <1>8. BooksAgree({q}, frames, layers, frames', layers')
    BY <1>3, <1>5, AgreePart
  <1> HIDE DEF q
  <1> QED BY <1>1, <1>5, <1>6, <1>7, <1>8, BalancedTaking

LEMMA TableHeld ==
  ASSUME NEW f \in Seq(AddressSpace), NEW l, NEW k \in 1 .. Len(f), NEW i \in 1 .. Len(f[k].page_tables)
  PROVE  /\ <<"table", k, i>> \in HoldersOf(f)
         /\ Book(f, l)[<<"table", k, i>>] = PagesOf(f[k].page_tables[i])
  BY BookIs

LEMMA TableTaken ==
  ASSUME Typed, Balanced, frames # <<>>, NEW b \in Found(1), memory_alloc_pages(b),
         frames' = WithMine([Mine EXCEPT !.page_tables = Append(Mine.page_tables, b)]), layers' = layers
  PROVE  Balanced'
  <1>1. b \in Block /\ PagesOf(b) \subseteq Page \ used
    BY FoundIs DEF Balanced
  <1>2. Mine \in AddressSpace /\ Mine.page_tables \in Seq(Block)
    BY MineIs, AddressSpaceFields
  <1> DEFINE t == Append(Mine.page_tables, b)
             r == [Mine EXCEPT !.page_tables = t]
             m == Len(Mine.page_tables)
             q == <<"table", Len(frames), m + 1>>
  <1>3. /\ t \in Seq(Block) /\ m \in Nat /\ Len(t) = m + 1 /\ t[m + 1] = b
        /\ \A i \in 1 .. m : t[i] = Mine.page_tables[i]
    BY <1>1, <1>2, SequenceFacts
  <1>4. r \in AddressSpace /\ r.page_tables = t /\ \A p \in Part : r[p] = Mine[p]
    BY <1>2, <1>3, WithTables
  <1>5. frames' = WithMine(r)
    OBVIOUS
  <1> HIDE DEF r, t
  <1>6. /\ frames \in Seq(AddressSpace) /\ frames' \in Seq(AddressSpace)
        /\ OnlyLast(frames, frames') /\ frames'[Len(frames)] = r
        /\ Len(frames) \in 1 .. Len(frames) /\ Len(frames) \in 1 .. Len(frames')
        /\ Mine = frames[Len(frames)]
    BY <1>4, <1>5, MineOnly
  <1>7. m + 1 \in 1 .. Len(t)
    BY <1>3
  <1>8. q \in HoldersOf(frames') /\ Book(frames', layers')[q] = PagesOf(b)
    <2>1. m + 1 \in 1 .. Len(frames'[Len(frames)].page_tables)
      BY <1>4, <1>6, <1>7
    <2>2. /\ <<"table", Len(frames), m + 1>> \in HoldersOf(frames')
          /\ Book(frames', layers')[<<"table", Len(frames), m + 1>>] =
               PagesOf(frames'[Len(frames)].page_tables[m + 1])
      BY ONLY <1>6, <2>1, TableHeld
    <2> QED BY <1>3, <1>4, <1>6, <2>2
  <1>9. q \notin HoldersOf(frames)
    <2>1. ASSUME q \in HoldersOf(frames) PROVE FALSE
      <3>1. PICK k \in 1 .. Len(frames) : \E i \in 1 .. Len(frames[k].page_tables) : q = <<"table", k, i>>
        BY <1>6, <2>1, HolderIs
      <3>2. PICK i \in 1 .. Len(frames[k].page_tables) : q = <<"table", k, i>>
        BY <3>1
      <3>3. k = Len(frames) /\ i = m + 1
        BY <3>2
      <3>4. m + 1 \in 1 .. m
        BY <1>6, <3>2, <3>3
      <3> QED BY <1>3, <3>4
    <2> QED BY <2>1
  <1>10. \A i \in 1 .. m + 1 : i # m + 1 => i \in 1 .. m
    BY <1>3
  <1>11. \A i \in 1 .. m : i \in 1 .. m + 1
    BY <1>3
  <1>12. BooksAgree({q}, frames, layers, frames', layers')
    <2>1. \A p \in Part : frames'[Len(frames)][p] = frames[Len(frames)][p]
      BY <1>4, <1>6
    <2>2. \A j \in 1 .. Len(frames'[Len(frames)].page_tables) : j # m + 1 =>
            /\ j \in 1 .. Len(frames[Len(frames)].page_tables)
            /\ frames'[Len(frames)].page_tables[j] = frames[Len(frames)].page_tables[j]
      BY <1>3, <1>4, <1>6, <1>10
    <2>3. \A j \in 1 .. Len(frames[Len(frames)].page_tables) : j # m + 1 =>
            /\ j \in 1 .. Len(frames'[Len(frames)].page_tables)
            /\ frames'[Len(frames)].page_tables[j] = frames[Len(frames)].page_tables[j]
      BY <1>3, <1>4, <1>6, <1>11
    <2> HIDE DEF m
    <2> QED BY <1>6, <2>1, <2>2, <2>3, AgreeTables
  <1> HIDE DEF q
  <1> QED BY <1>1, <1>6, <1>8, <1>9, <1>12, BalancedTaking

LEMMA TableGone ==
  ASSUME Typed, Balanced, frames # <<>>, NEW i \in DOMAIN Mine.page_tables,
         TableFreed(Mine.page_tables[i]),
         frames' = WithMine([Mine EXCEPT !.page_tables[i] = NoBlock]), layers' = layers
  PROVE  Balanced'
  <1>1. Mine \in AddressSpace /\ Mine.page_tables \in Seq(Block)
    BY MineIs, AddressSpaceFields
  <1>2. i \in 1 .. Len(Mine.page_tables) /\ Mine.page_tables[i] \in Block
    BY <1>1
  <1> DEFINE t == [Mine.page_tables EXCEPT ![i] = NoBlock]
             r == [Mine EXCEPT !.page_tables = t]
             b == Mine.page_tables[i]
             q == <<"table", Len(frames), i>>
  <1>3. /\ t \in Seq(Block) /\ Len(t) = Len(Mine.page_tables) /\ t[i] = NoBlock
        /\ \A j \in 1 .. Len(Mine.page_tables) : j # i => t[j] = Mine.page_tables[j]
    <2>1. t \in Seq(Block) /\ Len(t) = Len(Mine.page_tables)
      BY <1>1, <1>2, NoBlockType, SequenceFacts
    <2>2. Mine.page_tables \in [1 .. Len(Mine.page_tables) -> Block]
      BY <1>1, SequenceFacts
    <2> QED BY <1>2, <2>1, <2>2
  <1> HIDE DEF t
  <1>4. r \in AddressSpace /\ r.page_tables = t /\ \A p \in Part : r[p] = Mine[p]
    BY <1>1, <1>3, WithTables
  <1>5. frames' = WithMine(r)
    BY DEF t
  <1> HIDE DEF r
  <1>6. /\ frames \in Seq(AddressSpace) /\ frames' \in Seq(AddressSpace)
        /\ OnlyLast(frames, frames') /\ frames'[Len(frames)] = r
        /\ Len(frames) \in 1 .. Len(frames) /\ Len(frames) \in 1 .. Len(frames')
        /\ Mine = frames[Len(frames)]
    BY <1>4, <1>5, MineOnly
  <1>7. q \in HoldersOf(frames) /\ Book(frames, layers)[q] = PagesOf(b)
    <2>1. i \in 1 .. Len(frames[Len(frames)].page_tables)
      BY <1>2, <1>6
    <2>2. /\ <<"table", Len(frames), i>> \in HoldersOf(frames)
          /\ Book(frames, layers)[<<"table", Len(frames), i>>] = PagesOf(frames[Len(frames)].page_tables[i])
      BY ONLY <1>6, <2>1, TableHeld
    <2> QED BY <1>6, <2>2
  <1>8. Book(frames', layers')[q] = {}
    <2>1. i \in 1 .. Len(frames'[Len(frames)].page_tables)
      BY <1>2, <1>3, <1>4, <1>6
    <2>2. Book(frames', layers')[q] = PagesOf(frames'[Len(frames)].page_tables[i])
      BY ONLY <1>6, <2>1, TableHeld
    <2> QED BY <1>3, <1>4, <1>6, <2>2, NoBlockType
  <1>9. BooksAgree({q}, frames, layers, frames', layers')
    <2>1. \A p \in Part : frames'[Len(frames)][p] = frames[Len(frames)][p]
      BY <1>4, <1>6
    <2>2. \A j \in 1 .. Len(frames'[Len(frames)].page_tables) : j # i =>
            /\ j \in 1 .. Len(frames[Len(frames)].page_tables)
            /\ frames'[Len(frames)].page_tables[j] = frames[Len(frames)].page_tables[j]
      BY <1>3, <1>4, <1>6
    <2>3. \A j \in 1 .. Len(frames[Len(frames)].page_tables) : j # i =>
            /\ j \in 1 .. Len(frames'[Len(frames)].page_tables)
            /\ frames'[Len(frames)].page_tables[j] = frames[Len(frames)].page_tables[j]
      BY <1>3, <1>4, <1>6
    <2> QED BY <1>6, <2>1, <2>2, <2>3, AgreeTables
  <1> HIDE DEF q
  <1> QED BY <1>2, <1>6, <1>7, <1>8, <1>9, BalancedFreeing DEF TableFreed

LEMMA BalancedRun ==
  ASSUME Typed, Balanced, RunProgram, UNCHANGED <<memory, layers>>
  PROVE  Balanced'
  <1>1. /\ frames' \in Seq(AddressSpace) /\ Len(frames') = Len(frames) + 1 /\ Len(frames) \in Nat
        /\ frames'[Len(frames) + 1] = NewAddressSpace
        /\ \A k \in 1 .. Len(frames) : frames'[k] = frames[k]
    BY AppendedIs DEF RunProgram
  <1>2. /\ \A p \in Part : NewAddressSpace[p] = NoBlock
        /\ NewAddressSpace.page_tables = <<>>
    BY NewAddressSpaceIs
  <1>3. BooksAgree({}, frames, layers, frames', layers)
    BY <1>1, <1>2, AgreeRun
  <1> QED BY <1>1, <1>3, BalancedKeeping DEF Typed

(* An attempt that fails when the file is opened: nothing was taken yet.   *)
LEMMA BalancedOpen ==
  ASSUME Typed, Balanced, frames # <<>>, frames' = Front(frames), UNCHANGED <<memory, layers>>,
         \A p \in Part : Mine[p] = NoBlock, Mine.page_tables = <<>>
  PROVE  Balanced'
  <1>1. /\ frames \in Seq(AddressSpace) /\ Len(frames) \in Nat \ {0} /\ Mine = frames[Len(frames)]
        /\ frames' \in Seq(AddressSpace) /\ Len(frames') = Len(frames) - 1
        /\ \A k \in 1 .. Len(frames) - 1 : frames'[k] = frames[k]
    BY MineIs, FrontIs DEF Typed
  <1> DEFINE m == Len(frames')
  <1>2. m \in Nat /\ Len(frames) = m + 1 /\ \A k \in 1 .. m : frames[k] = frames'[k]
    BY <1>1
  <1>3. /\ \A p \in Part : frames[m + 1][p] = NoBlock
        /\ frames[m + 1].page_tables = <<>>
    BY <1>1, <1>2
  <1> HIDE <1>1
  <1>4. BooksAgree({}, frames, layers, frames', layers)
    BY <1>2, <1>3, AgreeRun
  <1> QED BY <1>1, <1>4, BalancedKeeping

LEMMA LayerHeld ==
  ASSUME NEW f \in Seq(AddressSpace), NEW l, NEW s \in Slot
  PROVE  Book(f, l)[<<"layer", s>>] = PagesOf(l[s])
  BY BookIs

LEMMA BalancedInit == Init => Balanced
  <1> SUFFICES ASSUME Init PROVE Balanced
    OBVIOUS
  <1>1. /\ used = Reserved /\ free_page_count = Cardinality(Page \ Reserved)
        /\ frames = <<>> /\ \A s \in Slot : layers[s] = NoBlock
    BY DEF Init, memory_init
  <1>2. frames \in Seq(AddressSpace) /\ Len(frames) = 0
    BY <1>1
  <1> DEFINE O == HoldersOf(frames)
             F == Book(frames, layers)
  <1>3. \A o \in O : o = <<"kernel">> \/ \E s \in Slot : o = <<"layer", s>>
    <2>1. \A k \in 1 .. Len(frames) : FALSE
      BY <1>2
    <2> QED BY <1>2, <2>1, HolderIs
  <1>4. <<"kernel">> \in O /\ F[<<"kernel">>] = Reserved
    BY <1>2, BookIs
  <1>5. \A s \in Slot : F[<<"layer", s>>] = {}
    <2>1. \A s \in Slot : F[<<"layer", s>>] = PagesOf(layers[s])
      BY <1>2, LayerHeld
    <2> QED BY <1>1, <2>1, NoBlockType
  <1>6. \A o \in O : o # <<"kernel">> => F[o] = {}
    BY <1>3, <1>5
  <1> HIDE DEF O, F
  <1>7. used = UNION {F[o] : o \in O}
    BY <1>1, <1>4, <1>6
  <1>8. \A o, q \in O : o # q => F[o] \cap F[q] = {}
    BY <1>6
  <1>9. Accounts(frames, layers, used)
    BY <1>7, <1>8 DEF Accounts, Divided, O, F
  <1>10. used \subseteq Page
    BY <1>1 DEF Page
  <1> QED BY <1>1, <1>9, <1>10 DEF Balanced

LEMMA BalancedStep ==
  ASSUME Structure, Handles, Balanced, [Next]_vars
  PROVE  Balanced'
  <1>1. Typed /\ used \subseteq Page
    BY DEF Structure, Balanced
  <1>2. ASSUME at = "user"
        PROVE  frames # <<>> /\ Active = Mine /\ \A p : WithActive(p) = WithMine(p)
    <2>1. frames # <<>> /\ active_program = Len(frames)
      BY <1>2 DEF Structure, Nested
    <2> QED BY <2>1, MineIs DEF Structure, Active, WithActive, WithMine
  <1>3. ASSUME at \in Part \cup {"open", "map", "destroy"}
        PROVE  frames # <<>>
    BY <1>3 DEF Structure, Nested, Setup
  <1>4. ASSUME NEW part \in Part, NEW n, NEW next, AllocatePart(part, n, next), n \in Nat
        PROVE  Balanced'
    <2>1. PICK b \in Found(n) : memory_alloc_pages(b) /\ frames' = WithMine([Mine EXCEPT ![part] = b])
      BY <1>4 DEF AllocatePart
    <2>2. frames # <<>> /\ layers' = layers
      BY <1>3, <1>4 DEF AllocatePart
    <2>3. part \in Untaken
      BY <1>4 DEF AllocatePart, Untaken, Part
    <2>4. Mine[part] = NoBlock
      BY <2>3 DEF Structure, SetUp
    <2> QED BY <1>1, <1>4, <2>1, <2>2, <2>4, PartTaken
  <1>5. CASE ConsoleStarts
    BY <1>1, <1>5, BalancedRun DEF ConsoleStarts
  <1>6. CASE OpenProgram
    <2>1. at = "open" /\ frames # <<>> /\ UNCHANGED <<memory, layers>>
      BY <1>3, <1>6 DEF OpenProgram
    <2>2. CASE UNCHANGED frames
      BY <1>1, <2>1, <2>2, BalancedUnchanged
    <2>3. CASE Returned(FALSE)
      <3>1. \A p \in Part : Mine[p] = NoBlock
        BY <2>1 DEF Structure, SetUp, Untaken
      <3>2. Mine.page_tables = <<>>
        BY <2>1 DEF Structure, SetUp
      <3> QED BY <1>1, <2>1, <2>3, <3>1, <3>2, BalancedOpen DEF Returned
    <2> QED BY <1>6, <2>2, <2>3 DEF OpenProgram
  <1>7. CASE AllocateImage
    BY <1>4, <1>7 DEF AllocateImage, Part
  <1>8. CASE AllocateStack \/ AllocateApi \/ AllocatePml4
    BY <1>4, <1>8 DEF AllocateStack, AllocateApi, AllocatePml4, Part
  <1>9. CASE MapPages
    <2>1. frames # <<>> /\ layers' = layers
      BY <1>3, <1>9 DEF MapPages
    <2>2. PICK b \in Found(1) \cup {NoBlock} :
            /\ memory_alloc_pages(b)
            /\ frames' = IF b = NoBlock THEN frames
                         ELSE WithMine([Mine EXCEPT !.page_tables = Append(Mine.page_tables, b)])
      BY <1>9 DEF MapPages, allocate_page_table
    <2>3. CASE b = NoBlock
      BY <1>1, <2>1, <2>2, <2>3, NothingTaken, BalancedUnchanged
    <2>4. CASE b # NoBlock
      BY <1>1, <2>1, <2>2, <2>4, TableTaken
    <2> QED BY <2>3, <2>4
  <1>10. CASE LoadFails \/ EnterUser
    BY <1>1, <1>10, BalancedUnchanged DEF LoadFails, EnterUser
  <1>11. CASE DestroyLayer
    <2>1. PICK h \in Handle : /\ Mine.layers[h] # None
                              /\ layer_destroy(Mine.layers[h])
                              /\ frames' = WithMine([Mine EXCEPT !.layers[h] = None])
      BY <1>11 DEF DestroyLayer
    <2>2. frames # <<>>
      BY <1>3, <1>11 DEF DestroyLayer
    <2>3. Mine.layers[h] \in Slot
      BY <1>1, <2>1, <2>2, MineIs, AddressSpaceFields
    <2>4. frames' \in Seq(AddressSpace) /\ SameSpaces(frames, frames')
      BY <1>1, <2>1, <2>2, HandleSpaces
    <2> QED BY <1>1, <2>1, <2>3, <2>4, LayerGone
  <1>12. CASE DestroyTable
    <2>1. PICK i \in DOMAIN Mine.page_tables :
            /\ TableFreed(Mine.page_tables[i])
            /\ frames' = WithMine([Mine EXCEPT !.page_tables[i] = NoBlock])
      BY <1>12 DEF DestroyTable
    <2>2. frames # <<>> /\ layers' = layers
      BY <1>3, <1>12 DEF DestroyTable
    <2> QED BY <1>1, <2>1, <2>2, TableGone
  <1>13. CASE DestroyPages
    <2>1. frames # <<>> /\ frames' = Front(frames) /\ layers' = layers
      BY <1>3, <1>13 DEF DestroyPages, Returned
    <2> QED BY <1>1, <1>13, <2>1, BalancedReturned DEF DestroyPages
  <1>14. CASE LeaveUser \/ SyscallYield \/ SyscallListDirectory \/ ComposeRow \/ UNCHANGED vars
    BY <1>1, <1>14, BalancedUnchanged DEF LeaveUser, SyscallYield, SyscallListDirectory, ComposeRow, vars
  <1>15. CASE SyscallRunProgram
    BY <1>1, <1>15, BalancedRun DEF SyscallRunProgram
  <1>16. CASE ensure_console_layer
    <2>1. PICK s \in Slot : LayerCreated(ConsolePages, s)
      BY <1>16 DEF ensure_console_layer
    <2>2. frames' = frames
      BY <1>16 DEF ensure_console_layer
    <2> QED BY <1>1, <2>1, <2>2, SpacesUnchanged, LayerMade DEF Typed
  <1>17. CASE SyscallLayerCreate
    <2>1. PICK n \in LayerSizes, h \in FreeHandles, s \in Slot :
            LayerCreated(n, s) /\ frames' = WithActive([Active EXCEPT !.layers[h] = s])
      BY <1>17 DEF SyscallLayerCreate
    <2>2. /\ h \in Handle /\ frames # <<>>
          /\ frames' = WithMine([Mine EXCEPT !.layers[h] = s])
      BY <1>2, <1>17, <2>1 DEF SyscallLayerCreate, Running, FreeHandles
    <2>3. frames' \in Seq(AddressSpace) /\ SameSpaces(frames, frames')
      BY <1>1, <2>2, HandleSpaces
    <2> QED BY <1>1, <2>1, <2>3, LayerMade
  <1>18. CASE SyscallLayerDestroy
    <2>1. PICK h \in Handle : program_layer(h) # None /\ layer_destroy(program_layer(h)) /\ HandleCleared(h)
      BY <1>18 DEF SyscallLayerDestroy
    <2>2. /\ frames # <<>> /\ frames' = WithMine([Mine EXCEPT !.layers[h] = None])
          /\ program_layer(h) = Mine.layers[h]
      BY <1>2, <1>18, <2>1 DEF SyscallLayerDestroy, Running, HandleCleared, program_layer
    <2>3. program_layer(h) \in Slot
      BY <1>1, <2>1, <2>2, MineIs, AddressSpaceFields
    <2>4. frames' \in Seq(AddressSpace) /\ SameSpaces(frames, frames')
      BY <1>1, <2>2, HandleSpaces
    <2> QED BY <1>1, <2>1, <2>3, <2>4, LayerGone
  <1>19. CASE CreateExample
    <2>1. PICK n \in LayerSizes :
            \/ \E s \in Slot : LayerCreated(n, s) /\ examples' = Append(examples, s)
            \/ LayerRefused(n) /\ examples' = Append(examples, None) /\ UNCHANGED <<memory, layers>>
      BY <1>19 DEF CreateExample
    <2>2. frames' = frames /\ n \in Nat
      BY <1>19 DEF CreateExample
    <2> QED BY <1>1, <2>1, <2>2, SpacesUnchanged, LayerMade, BalancedUnchanged DEF Typed
  <1> QED BY <1>5, <1>6, <1>7, <1>8, <1>9, <1>10, <1>11, <1>12, <1>13, <1>14, <1>15,
             <1>16, <1>17, <1>18, <1>19 DEF Next, Kernel, User

-----------------------------------------------------------------------------
(* The invariant, and what follows from it.                                *)
Invariant == Structure /\ Handles /\ Balanced

LEMMA InvariantInit == Init => Invariant
  BY StructureInit, HandlesInit, BalancedInit DEF Invariant

LEMMA InvariantStep == Invariant /\ [Next]_vars => Invariant'
  <1> SUFFICES ASSUME Invariant, [Next]_vars PROVE Invariant'
    OBVIOUS
  <1>1. used \subseteq Page
    BY DEF Invariant, Balanced
  <1> QED BY <1>1, StructureStep, HandlesStep, BalancedStep DEF Invariant

LEMMA InvariantAlways == Spec => []Invariant
  BY InvariantInit, InvariantStep, PTL DEF Spec

LEMMA TypesFollow ==
  ASSUME Typed, Balanced
  PROVE  TypeOK
  <1>1. used \subseteq Page /\ free_page_count \in 0 .. PageCount
    BY FreePages DEF Balanced
  <1>2. \A k \in DOMAIN frames : Len(frames[k].page_tables) <= TableLimit
    <2>1. DOMAIN frames = 1 .. Len(frames)
      BY DEF Typed
    <2> QED BY <2>1 DEF Typed
  <1> QED BY <1>1, <1>2 DEF Typed, TypeOK

LEMMA AccountsFollow ==
  ASSUME Typed, Balanced
  PROVE  PagesAccounted
  <1>1. Holders = HoldersOf(frames)
    BY Zenon DEF Holders, HoldersOf, LayerHolders, PartHolders, TableHolders
  <1>2. \A o \in Holders : Held(o) = Book(frames, layers)[o]
    <2>1. \A o : Held(o) = HeldIn(frames, layers, o)
      BY Zenon DEF Held, HeldIn
    <2>2. \A o \in HoldersOf(frames) : Book(frames, layers)[o] = HeldIn(frames, layers, o)
      BY DEF Book
    <2> QED BY <1>1, <2>1, <2>2
  <1>3. /\ used = UNION {Book(frames, layers)[o] : o \in Holders}
        /\ \A o, q \in Holders : o # q => Book(frames, layers)[o] \cap Book(frames, layers)[q] = {}
    BY <1>1 DEF Balanced, Accounts, Divided
  <1> DEFINE H == Holders
             F == Book(frames, layers)
             G(o) == Held(o)
  <1>4. UNION {F[o] : o \in H} = UNION {Held(o) : o \in H}
    <2> HIDE DEF H, F
    <2>1. \A o \in H : Held(o) = F[o]
      BY <1>2 DEF H, F
    <2> QED BY <2>1
  <1>5. \A o, q \in Holders : o # q => Held(o) \cap Held(q) = {}
    BY <1>2, <1>3
  <1>6. used = UNION {Held(o) : o \in Holders}
    BY <1>3, <1>4
  <1>7. TypeOK /\ free_page_count = Cardinality(Page \ used)
    BY TypesFollow DEF Balanced
  <1> QED BY <1>5, <1>6, <1>7 DEF PagesAccounted

(* No page has two holders, none is held without being marked, and none    *)
(* stays in use once its holder is gone, for any sizes of programs and     *)
(* layers and whichever of the allocations failed.                         *)
THEOREM ProgramsPagesAccounted == Spec => []PagesAccounted
  <1>1. Invariant => PagesAccounted
    BY AccountsFollow DEF Invariant, Structure
  <1> QED BY <1>1, InvariantAlways, PTL

(* No handle names a slot that its program no longer has, and a slot is    *)
(* active only as long as somebody can destroy it or the kernel keeps it.  *)
THEOREM ProgramsHandlesSound == Spec => []HandlesSound
  <1>1. Invariant => HandlesSound
    BY HandlesAreSound DEF Invariant, Structure
  <1> QED BY <1>1, InvariantAlways, PTL

LEMMA ActiveFollows ==
  ASSUME Structure
  PROVE  ActiveIsInnermost
  <1>1. Len(frames) \in Nat /\ Len(saved) \in Nat /\ Len(saved) <= Len(frames)
    BY NestedLengths DEF Structure
  <1>2. ASSUME NEW k \in 0 .. Len(saved)
        PROVE  \/ TableAt(frames, k) = KernelTable
               \/ \E j \in DOMAIN frames : frames[j].pml4 # NoBlock /\ frames[j].pml4.first = TableAt(frames, k)
    <2>1. CASE k = 0
      BY <2>1 DEF TableAt
    <2>2. CASE k # 0
      <3>1. k \in 1 .. Len(saved) /\ k \in 1 .. Len(frames)
        BY <1>1, <2>2
      <3>2. frames[k].pml4 # NoBlock
        BY <3>1 DEF Structure, TablesKept
      <3>3. k \in DOMAIN frames
        BY <3>1 DEF Structure, Typed
      <3> QED BY <2>2, <3>2, <3>3 DEF TableAt
    <2> QED BY <2>1, <2>2
  <1>3. ASSUME NEW t \in {cr3} \cup {saved[i] : i \in DOMAIN saved}
        PROVE  t = KernelTable \/ \E k \in DOMAIN frames : frames[k].pml4 # NoBlock /\ frames[k].pml4.first = t
    <2>1. \E k \in 0 .. Len(saved) : t = TableAt(frames, k)
      <3>1. CASE t = cr3
        <4>1. Len(saved) \in 0 .. Len(saved)
          BY <1>1
        <4> QED BY <3>1, <4>1 DEF Structure, TablesKept
      <3>2. CASE \E i \in DOMAIN saved : t = saved[i]
        <4>1. PICK i \in DOMAIN saved : t = saved[i]
          BY <3>2
        <4>2. i \in 1 .. Len(saved)
          BY <4>1 DEF Structure, Typed
        <4>3. i - 1 \in 0 .. Len(saved) /\ t = TableAt(frames, i - 1)
          BY <1>1, <4>1, <4>2 DEF Structure, TablesKept
        <4> QED BY <4>3
      <3> QED BY <3>1, <3>2
    <2> QED BY <1>2, <2>1
  <1>4. ASSUME at = "user"
        PROVE  active_program = Len(frames) /\ Len(saved) = Len(frames) /\ cr3 = Mine.pml4.first
    <2>1. /\ frames # <<>> /\ active_program = Len(frames) /\ Len(saved) = Len(frames)
      BY <1>4 DEF Structure, Nested, Setup, Part
    <2>2. Len(frames) > 0
      BY <2>1, NestedLengths DEF Structure
    <2>3. Mine = frames[Len(frames)]
      BY <2>1, MineIs DEF Structure
    <2>4. cr3 = TableAt(frames, Len(frames))
      BY <2>1 DEF Structure, TablesKept
    <2> QED BY <1>1, <2>1, <2>2, <2>3, <2>4 DEF TableAt
  <1> QED BY <1>3, <1>4 DEF ActiveIsInnermost, TablesAlive

(* While a program runs, the active program and the page table in use are  *)
(* that of the innermost one, at any depth of nesting, and no table that   *)
(* is or will be in use is freed before.                                   *)
THEOREM ProgramsActiveIsInnermost == Spec => []ActiveIsInnermost
  <1>1. Invariant => ActiveIsInnermost
    BY ActiveFollows DEF Invariant
  <1> QED BY <1>1, InvariantAlways, PTL

-----------------------------------------------------------------------------
(* What a step leaves alone.                                               *)
CallersKept == \A k \in (DOMAIN frames) \cap (DOMAIN frames') : k < Len(frames) => frames'[k] = frames[k]
LayersKept == frames # <<>> =>
                \A s \in Slot : layers'[s] # layers[s] =>
                   layers[s] = NoBlock \/ \E h \in Handle : Mine.layers[h] = s

LEMMA CallersStay ==
  ASSUME Typed,
         \/ frames' = frames
         \/ \E p : frames' = WithMine(p)
         \/ RunProgram
         \/ frames # <<>> /\ frames' = Front(frames)
  PROVE  CallersKept
  <1>1. CASE frames' = frames
    BY <1>1 DEF CallersKept
  <1>2. CASE \E p : frames' = WithMine(p)
    BY <1>2 DEF CallersKept, WithMine
  <1>3. CASE RunProgram
    <2>1. DOMAIN frames = 1 .. Len(frames)
      BY DEF Typed
    <2>2. \A k \in 1 .. Len(frames) : frames'[k] = frames[k]
      BY <1>3, AppendedIs DEF RunProgram
    <2> QED BY <2>1, <2>2 DEF CallersKept
  <1>4. CASE frames # <<>> /\ frames' = Front(frames)
    <2>1. DOMAIN frames = 1 .. Len(frames)
      BY DEF Typed
    <2>2. Len(frames) \in Nat \ {0} /\ \A k \in 1 .. Len(frames) - 1 : frames'[k] = frames[k]
      BY <1>4, FrontIs, MineIs
    <2>3. \A k \in 1 .. Len(frames) : k < Len(frames) => k \in 1 .. Len(frames) - 1
      BY <2>2
    <2> QED BY <2>1, <2>2, <2>3 DEF CallersKept
  <1> QED BY <1>1, <1>2, <1>3, <1>4

LEMMA LayersStay ==
  ASSUME Typed,
         \/ layers' = layers
         \/ \E n, s \in Nat : LayerCreated(n, s)
         \/ \E h \in Handle : Mine.layers[h] # None /\ layer_destroy(Mine.layers[h])
  PROVE  LayersKept
  <1>1. CASE layers' = layers
    BY <1>1 DEF LayersKept
  <1>2. CASE \E n, s \in Nat : LayerCreated(n, s)
    <2>1. PICK n \in Nat, s \in Nat : LayerCreated(n, s)
      BY <1>2
    <2> QED BY <2>1 DEF LayerCreated, FreeSlots, LayersKept, Typed
  <1>3. CASE \E h \in Handle : Mine.layers[h] # None /\ layer_destroy(Mine.layers[h])
    <2>1. PICK h \in Handle : layer_destroy(Mine.layers[h])
      BY <1>3
    <2>2. ASSUME NEW s \in Slot, layers'[s] # layers[s]
          PROVE  Mine.layers[h] = s
      BY <2>1, <2>2 DEF layer_destroy, Typed
    <2> QED BY <2>2 DEF LayersKept
  <1> QED BY <1>1, <1>2, <1>3

LEMMA OthersStep ==
  ASSUME Structure, [Next]_vars
  PROVE  CallersKept /\ LayersKept
  <1>1. Typed
    BY DEF Structure
  <1>2. ASSUME at = "user"
        PROVE  frames # <<>> /\ Active = Mine /\ \A p : WithActive(p) = WithMine(p)
    <2>1. frames # <<>> /\ active_program = Len(frames)
      BY <1>2 DEF Structure, Nested
    <2> QED BY <2>1, MineIs DEF Structure, Active, WithActive, WithMine
  <1>3. at \in {"open", "destroy"} => frames # <<>>
    BY DEF Structure, Nested, Setup
  <1>4. \A s \in Slot : s \in Nat
    BY DEF Slot
  <1>5. CASE ConsoleStarts \/ SyscallRunProgram
    BY <1>1, <1>5, CallersStay, LayersStay DEF ConsoleStarts, SyscallRunProgram
  <1>6. CASE OpenProgram
    BY <1>1, <1>3, <1>6, CallersStay, LayersStay DEF OpenProgram, Returned
  <1>7. CASE AllocateImage \/ AllocateStack \/ AllocateApi \/ AllocatePml4
    <2>1. \E part, n, next : AllocatePart(part, n, next)
      BY <1>7 DEF AllocateImage, AllocateStack, AllocateApi, AllocatePml4
    <2> QED BY <1>1, <2>1, CallersStay, LayersStay DEF AllocatePart
  <1>8. CASE MapPages
    <2>1. layers' = layers /\ (frames' = frames \/ \E p : frames' = WithMine(p))
      BY <1>8 DEF MapPages, allocate_page_table
    <2> QED BY <1>1, <2>1, CallersStay, LayersStay
  <1>9. CASE LoadFails \/ EnterUser \/ LeaveUser \/ SyscallYield \/ SyscallListDirectory \/ ComposeRow
             \/ UNCHANGED vars
    <2>1. frames' = frames /\ layers' = layers
      BY <1>9 DEF LoadFails, EnterUser, LeaveUser, SyscallYield, SyscallListDirectory, ComposeRow, vars
    <2> QED BY <1>1, <2>1, CallersStay, LayersStay
  <1>10. CASE DestroyLayer
    <2>1. \E h \in Handle : /\ Mine.layers[h] # None
                            /\ layer_destroy(Mine.layers[h])
                            /\ frames' = WithMine([Mine EXCEPT !.layers[h] = None])
      BY <1>10 DEF DestroyLayer
    <2> QED BY <1>1, <2>1, CallersStay, LayersStay
  <1>11. CASE DestroyTable
    <2>1. layers' = layers /\ \E p : frames' = WithMine(p)
      BY <1>11 DEF DestroyTable
    <2> QED BY <1>1, <2>1, CallersStay, LayersStay
  <1>12. CASE DestroyPages
    BY <1>1, <1>3, <1>12, CallersStay, LayersStay DEF DestroyPages, Returned
  <1>13. CASE ensure_console_layer
    <2>1. frames' = frames /\ \E s \in Slot : LayerCreated(ConsolePages, s)
      BY <1>13 DEF ensure_console_layer
    <2> QED BY <1>1, <1>4, <2>1, CallersStay, LayersStay
  <1>14. CASE SyscallLayerCreate
    <2>1. PICK n \in LayerSizes, h \in FreeHandles, s \in Slot :
            LayerCreated(n, s) /\ frames' = WithActive([Active EXCEPT !.layers[h] = s])
      BY <1>14 DEF SyscallLayerCreate
    <2>2. \E p : frames' = WithMine(p)
      BY <1>2, <1>14, <2>1 DEF SyscallLayerCreate, Running
    <2>3. n \in Nat /\ s \in Nat
      BY <1>4
    <2> QED BY <1>1, <2>1, <2>2, <2>3, CallersStay, LayersStay
  <1>15. CASE SyscallLayerDestroy
    <2>1. PICK h \in Handle : program_layer(h) # None /\ layer_destroy(program_layer(h)) /\ HandleCleared(h)
      BY <1>15 DEF SyscallLayerDestroy
    <2>2. program_layer(h) = Mine.layers[h] /\ \E p : frames' = WithMine(p)
      BY <1>2, <1>15, <2>1 DEF SyscallLayerDestroy, Running, HandleCleared, program_layer
    <2> QED BY <1>1, <2>1, <2>2, CallersStay, LayersStay
  <1>16. CASE CreateExample
    <2>1. PICK n \in LayerSizes :
            \/ \E s \in Slot : LayerCreated(n, s) /\ examples' = Append(examples, s)
            \/ LayerRefused(n) /\ examples' = Append(examples, None) /\ UNCHANGED <<memory, layers>>
      BY <1>16 DEF CreateExample
    <2>2. frames' = frames /\ n \in Nat
      BY <1>16 DEF CreateExample
    <2> QED BY <1>1, <1>4, <2>1, <2>2, CallersStay, LayersStay
  <1> QED BY <1>5, <1>6, <1>7, <1>8, <1>9, <1>10, <1>11, <1>12, <1>13, <1>14, <1>15, <1>16
       DEF Next, Kernel, User

(* A program can touch what is its own, and so can its end: the address    *)
(* spaces of its callers and the layers of all others stay as they are.    *)
THEOREM ProgramsOthersUntouched == Spec => OthersUntouched
  <1>1. Invariant /\ [Next]_vars =>
          [/\ \A k \in (DOMAIN frames) \cap (DOMAIN frames') : k < Len(frames) => frames'[k] = frames[k]
           /\ frames # <<>> =>
                \A s \in Slot : layers'[s] # layers[s] =>
                   layers[s] = NoBlock \/ \E h \in Handle : Mine.layers[h] = s]_vars
    BY OthersStep DEF Invariant, CallersKept, LayersKept
  <1> QED BY <1>1, InvariantAlways, PTL DEF Spec, OthersUntouched
=============================================================================
