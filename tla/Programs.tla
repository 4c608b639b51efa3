------------------------------ MODULE Programs ------------------------------
(***************************************************************************)
(* Programs, their address spaces and their layers: kernel/program.cpp,    *)
(* the layer table of kernel/graphics/layers.cpp, and the entry to and     *)
(* return from user mode in kernel/user.s, over the page allocator.        *)
(*                                                                         *)
(* The console task runs console.elf, which runs other programs; each is a *)
(* call of program_run in the kernel, nested in a system call of the one   *)
(* before.  The layer manager's task gets its turn when a program yields.  *)
(* What programs compute, the contents of files and of layers, and the     *)
(* system calls that change nothing else are left out.                     *)
(***************************************************************************)
EXTENDS PageAllocator, Sequences, SequencesExt

CONSTANTS LayerCount,   \* layer_max_count (16)
          TableLimit,   \* max_page_tables (16)
          StackPages,   \* pages of a user stack (2)
          Depth,        \* levels of nesting that user.s has room for (8)
          KernelTable,  \* the page of the kernel's own page table
          Examples,     \* layers create_examples makes (4)
          ConsolePages, \* pages of the kernel's console layer (150)
          ImageSizes,   \* pages of the programs there are
          LayerSizes,   \* pages of the layers they ask for
          TableCounts   \* page tables that map a program

ASSUME ProgramsAssumption ==
  /\ LayerCount \in Nat /\ TableLimit \in Nat /\ StackPages \in Nat /\ Depth \in Nat
  /\ Examples \in Nat /\ ConsolePages \in Nat \ {0} /\ KernelTable \in Reserved
  /\ ImageSizes \subseteq Nat \ {0} /\ LayerSizes \subseteq Nat /\ TableCounts \subseteq Nat

Slot == 1 .. LayerCount
Handle == 1 .. LayerCount
None == 0

VARIABLES layers,          \* the pixels of every layer slot, NoBlock when it is not active
          frames,          \* the address spaces of the program_run calls, innermost last
          active_program,  \* the level it points to, None for the null pointer
          cr3,             \* the page table in use
          saved,           \* x86_kernel_cr3, up to x86_user_depth
          examples,        \* the slots create_examples got
          console_layer,   \* the slot of the kernel's console, None for the null pointer
          at,              \* where the console task is
          success,         \* what the innermost program_run will return
          turn             \* the task that has the processor

memory == <<used, free_page_count>>
vars == <<memory, layers, frames, active_program, cr3, saved, examples, console_layer, at, success, turn>>

Part == {"image", "stack", "api", "pml4"}
AddressSpace == [image : Block, stack : Block, api : Block, pml4 : Block,
                 page_tables : Seq(Block), layers : [Handle -> Slot \cup {None}],
                 parent : Nat]
NewAddressSpace == [image |-> NoBlock, stack |-> NoBlock, api |-> NoBlock, pml4 |-> NoBlock,
                    page_tables |-> <<>>, layers |-> [h \in Handle |-> None],
                    parent |-> active_program]
Mine == Last(frames)
WithMine(p) == [frames EXCEPT ![Len(frames)] = p]
-----------------------------------------------------------------------------
(* Layers.                                                                 *)
FreeSlots == {s \in Slot : layers[s] = NoBlock}

(* layer_create of n pages that succeeds, in the first inactive slot.      *)
LayerCreated(n, s) ==
  /\ s \in FreeSlots /\ \A t \in FreeSlots : s <= t
  /\ \E b \in Found(n) \ {NoBlock} : memory_alloc_pages(b) /\ layers' = [layers EXCEPT ![s] = b]

(* layer_create that returns 0: no size, no slot or no memory.             *)
LayerRefused(n) == n = 0 \/ FreeSlots = {} \/ Found(n) = {NoBlock}

layer_destroy(s) ==
  IF layers[s] = NoBlock THEN UNCHANGED <<memory, layers>>
  ELSE memory_free_pages(layers[s]) /\ layers' = [layers EXCEPT ![s] = NoBlock]
-----------------------------------------------------------------------------
(* program_run, up to the entry to user mode.                              *)

RunProgram == /\ frames' = Append(frames, NewAddressSpace)
              /\ at' = "open"

(* console_program_main, in the console task.                              *)
ConsoleStarts == /\ at = "boot"
                 /\ RunProgram
                 /\ UNCHANGED <<memory, layers, active_program, cr3, saved, examples, console_layer, success, turn>>

(* Mutant: every return goes to where the first program was entered from.  *)
ReturnedToConsole(result) ==
  /\ frames' = <<>>
  /\ at' = IF result THEN "ended" ELSE "halted"
  /\ turn' = IF at' = "ended" THEN "manager" ELSE turn
  /\ UNCHANGED active_program

(* program_run returns: into the system call of the program that called    *)
(* it, or into console_program_main, which halts if its program failed.    *)
Returned(result) ==
  /\ frames' = Front(frames)
  /\ at' = IF Len(frames) > 1 THEN "user" ELSE IF result THEN "ended" ELSE "halted"
  /\ turn' = IF at' = "ended" THEN "manager" ELSE turn
  /\ active_program' = IF Len(frames) > 1 THEN Mine.parent ELSE active_program

(* The file and its headers are read and checked before anything is taken. *)
OpenProgram == /\ at = "open"
               /\ \/ at' = "image" /\ UNCHANGED <<frames, active_program, turn>>
                  \/ Returned(FALSE)
               /\ UNCHANGED <<memory, layers, cr3, saved, examples, console_layer, success>>

(* The four allocations are all tried before any of them is looked at.     *)
AllocatePart(part, pages, next) ==
  /\ at = part
  /\ \E b \in Found(pages) : memory_alloc_pages(b) /\ frames' = WithMine([Mine EXCEPT ![part] = b])
  /\ IF next = "map" /\ \E p \in Part : Last(frames')[p] = NoBlock
     THEN at' = "destroy" /\ success' = FALSE
     ELSE at' = next /\ UNCHANGED success
  /\ UNCHANGED <<layers, active_program, cr3, saved, examples, console_layer, turn>>

AllocateImage == \E n \in ImageSizes : AllocatePart("image", n, "stack")
AllocateStack == AllocatePart("stack", StackPages, "api")
AllocateApi == AllocatePart("api", 1, "pml4")
AllocatePml4 == AllocatePart("pml4", 1, "map")

(* allocate_page_table, which remembers the table for destroy.             *)
allocate_page_table ==
  \E b \in IF Len(Mine.page_tables) = TableLimit THEN {NoBlock} ELSE Found(1) :
    /\ memory_alloc_pages(b)
    /\ frames' = IF b = NoBlock THEN frames
                 ELSE WithMine([Mine EXCEPT !.page_tables = Append(@, b)])

(* map_user_page takes another table, or fails for want of one.            *)
MapPages == /\ at = "map"
            /\ \E n \in TableCounts : Len(Mine.page_tables) < n
            /\ allocate_page_table
            /\ IF frames' = frames THEN at' = "destroy" /\ success' = FALSE
               ELSE UNCHANGED <<at, success>>
            /\ UNCHANGED <<layers, active_program, cr3, saved, examples, console_layer, turn>>

(* A segment cannot be read, or is writable code, or maps a page twice.    *)
LoadFails == /\ at = "map"
             /\ at' = "destroy" /\ success' = FALSE
             /\ UNCHANGED <<memory, layers, frames, active_program, cr3, saved, examples, console_layer, turn>>

(* x86_enter_user.                                                         *)
EnterUser == /\ at = "map"
             /\ Len(Mine.page_tables) \in TableCounts
             /\ active_program' = Len(frames)
             /\ saved' = Append(saved, cr3)
             /\ cr3' = Mine.pml4.first
             /\ at' = "user"
             /\ UNCHANGED <<memory, layers, frames, examples, console_layer, success, turn>>
-----------------------------------------------------------------------------
(* A program runs; its system calls act on the active program.             *)
Active == frames[active_program]
WithActive(p) == [frames EXCEPT ![active_program] = p]
Running == at = "user" /\ turn = "console"

(* Mutant: the page table of the program that ends stays in use.           *)
LeftWithTable == saved' = Front(saved) /\ UNCHANGED cr3

(* x86_leave_user.                                                         *)
LeftUser == saved' = Front(saved) /\ cr3' = Last(saved)

(* The program exits; or faults, or makes a system call that fails: that   *)
(* ends it too, as does a read or a write of 256 or 257 bytes, whose       *)
(* number of bytes the stub takes for one of the other two results.        *)
LeaveUser == /\ Running
             /\ LeftUser
             /\ success' \in BOOLEAN
             /\ active_program' = None
             /\ at' = "destroy"
             /\ UNCHANGED <<memory, layers, frames, examples, console_layer, turn>>

SyscallYield == /\ Running
                /\ turn' = "manager"
                /\ UNCHANGED <<memory, layers, frames, active_program, cr3, saved, examples, console_layer, at, success>>

(* Nesting is bounded by Depth here; the code has the arrays but no check. *)
SyscallRunProgram == /\ Running
                     /\ Len(frames) < Depth
                     /\ RunProgram
                     /\ UNCHANGED <<memory, layers, active_program, cr3, saved, examples, console_layer, success, turn>>

FreeHandles == {h \in Handle : Active.layers[h] = None}

(* The first free handle gets the layer, if there are both.                *)
SyscallLayerCreate ==
  /\ Running
  /\ \E n \in LayerSizes, h \in FreeHandles, s \in Slot :
       /\ \A g \in FreeHandles : h <= g
       /\ LayerCreated(n, s)
       /\ frames' = WithActive([Active EXCEPT !.layers[h] = s])
  /\ UNCHANGED <<active_program, cr3, saved, examples, console_layer, at, success, turn>>

(* Mutant: a handle is taken for the number of a slot.                     *)
AnyLayer(h) == h

(* The slot a handle of the active program names, None if it names none.   *)
program_layer(h) == Active.layers[h]

(* Mutant: the handle goes on naming the slot of the destroyed layer.      *)
HandleKept(h) == UNCHANGED frames

HandleCleared(h) == frames' = WithActive([Active EXCEPT !.layers[h] = None])

SyscallLayerDestroy ==
  /\ Running
  /\ \E h \in Handle : /\ program_layer(h) # None
                       /\ layer_destroy(program_layer(h))
                       /\ HandleCleared(h)
  /\ UNCHANGED <<active_program, cr3, saved, examples, console_layer, at, success, turn>>

(* The first time text is written or cleared, a layer is made for it; it   *)
(* is the kernel's.  Without slot or memory the text is dropped, and the   *)
(* next call tries again.                                                  *)
ensure_console_layer ==
  /\ Running /\ console_layer = None
  /\ \E s \in Slot : LayerCreated(ConsolePages, s) /\ console_layer' = s
  /\ UNCHANGED <<frames, active_program, cr3, saved, examples, at, success, turn>>

(* The list of a directory's entries takes a page for each of them while   *)
(* the call lasts; if there are not enough, operator new halts the machine.*)
SyscallListDirectory ==
  /\ Running
  /\ at' = "halted"
  /\ UNCHANGED <<memory, layers, frames, active_program, cr3, saved, examples, console_layer, success, turn>>
-----------------------------------------------------------------------------
(* destroy_address_space: every layer, then the pages.                     *)
DestroyLayer ==
  /\ at = "destroy"
  /\ \E h \in Handle :
       /\ Mine.layers[h] # None /\ \A g \in Handle : Mine.layers[g] # None => h <= g
       /\ layer_destroy(Mine.layers[h])
       /\ frames' = WithMine([Mine EXCEPT !.layers[h] = None])
  /\ UNCHANGED <<active_program, cr3, saved, examples, console_layer, at, success, turn>>

(* Mutant: the page tables below the first level are not freed.            *)
TableKept(b) == UNCHANGED memory

TableFreed(b) == memory_free_pages(b)

(* The loop over the page tables: NoBlock stands for those it has freed.   *)
DestroyTable ==
  /\ at = "destroy"
  /\ \A h \in Handle : Mine.layers[h] = None
  /\ \E i \in DOMAIN Mine.page_tables :
       /\ Mine.page_tables[i] # NoBlock
       /\ \A j \in 1 .. i - 1 : Mine.page_tables[j] = NoBlock
       /\ TableFreed(Mine.page_tables[i])
       /\ frames' = WithMine([Mine EXCEPT !.page_tables[i] = NoBlock])
  /\ UNCHANGED <<layers, active_program, cr3, saved, examples, console_layer, at, success, turn>>

DestroyPages ==
  /\ at = "destroy"
  /\ \A h \in Handle : Mine.layers[h] = None
  /\ \A i \in DOMAIN Mine.page_tables : Mine.page_tables[i] = NoBlock
  /\ used' = used \ UNION {PagesOf(Mine[p]) : p \in Part}
  /\ free_page_count' = free_page_count + Mine.pml4.pages + Mine.api.pages
                                        + Mine.stack.pages + Mine.image.pages
  /\ Returned(success)
  /\ UNCHANGED <<layers, cr3, saved, examples, console_layer, success>>
-----------------------------------------------------------------------------
(* layer_manager_main: its layers, then row after row of the screen.  A    *)
(* row is composed from the layers as they are; nothing is kept of them    *)
(* across scheduler_yield.                                                 *)
CreateExample ==
  /\ turn = "manager" /\ Len(examples) < Examples
  /\ \E n \in LayerSizes :
       \/ \E s \in Slot : LayerCreated(n, s) /\ examples' = Append(examples, s)
       \/ LayerRefused(n) /\ examples' = Append(examples, None) /\ UNCHANGED <<memory, layers>>
  /\ UNCHANGED <<frames, active_program, cr3, saved, console_layer, at, success, turn>>

ComposeRow == /\ turn = "manager" /\ Len(examples) = Examples /\ at # "ended"
              /\ turn' = "console"
              /\ UNCHANGED <<memory, layers, frames, active_program, cr3, saved, examples, console_layer, at, success>>
-----------------------------------------------------------------------------
Init == /\ memory_init
        /\ layers = [s \in Slot |-> NoBlock]
        /\ frames = <<>> /\ active_program = None
        /\ cr3 = KernelTable /\ saved = <<>>
        /\ examples = <<>> /\ console_layer = None
        /\ at = "boot" /\ success = FALSE /\ turn = "console"

(* What the kernel does on behalf of the console task, without yielding.   *)
Kernel == \/ ConsoleStarts \/ OpenProgram
          \/ AllocateImage \/ AllocateStack \/ AllocateApi \/ AllocatePml4
          \/ MapPages \/ LoadFails \/ EnterUser
          \/ DestroyLayer \/ DestroyTable \/ DestroyPages

User == \/ LeaveUser \/ SyscallYield \/ SyscallRunProgram
        \/ ensure_console_layer
        \/ SyscallLayerCreate \/ SyscallLayerDestroy \/ SyscallListDirectory

Next == Kernel \/ User \/ CreateExample \/ ComposeRow

Spec == Init /\ [][Next]_vars

(* Nothing makes a program end, or make a system call.                     *)
FairSpec == Spec /\ WF_vars(Kernel) /\ WF_vars(CreateExample \/ ComposeRow)
-----------------------------------------------------------------------------
TypeOK == /\ used \subseteq Page /\ free_page_count \in 0 .. PageCount
          /\ layers \in [Slot -> Block]
          /\ frames \in Seq(AddressSpace)
          /\ \A k \in DOMAIN frames : Len(frames[k].page_tables) <= TableLimit
          /\ active_program \in 0 .. Len(frames)
          /\ cr3 \in Page /\ saved \in Seq(Page)
          /\ examples \in Seq(Slot \cup {None}) /\ console_layer \in Slot \cup {None}
          /\ at \in {"boot", "open", "map", "user", "destroy", "ended", "halted"} \cup Part
          /\ success \in BOOLEAN /\ turn \in {"console", "manager"}

(* Whoever holds pages: the kernel, a part or a page table of an address   *)
(* space, a layer.                                                         *)
Holders == {<<"kernel">>} \cup {<<"layer", s>> : s \in Slot}
           \cup (UNION {{<<"part", k, p>> : p \in Part} : k \in DOMAIN frames})
           \cup (UNION {{<<"table", k, i>> : i \in DOMAIN frames[k].page_tables} : k \in DOMAIN frames})

Held(o) == CASE o[1] = "kernel" -> Reserved
             [] o[1] = "layer" -> PagesOf(layers[o[2]])
             [] o[1] = "part" -> PagesOf(frames[o[2]][o[3]])
             [] o[1] = "table" -> PagesOf(frames[o[2]].page_tables[o[3]])

(* No page has two holders, none is held without being marked as used, and *)
(* none stays in use once its holder is gone, whichever of the allocations *)
(* of a program failed and however it ended; and the count says so.        *)
PagesAccounted ==
  /\ TypeOK
  /\ used = UNION {Held(o) : o \in Holders}
  /\ \A o, q \in Holders : o # q => Held(o) \cap Held(q) = {}
  /\ free_page_count = Cardinality(Page \ used)

(* The claims on layer slots: handles of programs, and the kernel's own.   *)
Claimed(c) == frames[c[1]].layers[c[2]]
Claims == {c \in (DOMAIN frames) \X Handle : Claimed(c) # None}
Kept == (Range(examples) \cup {console_layer}) \ {None}

(* A handle never names a slot that its program no longer has, which may   *)
(* by now be another's or the kernel's; and a slot is active only as long  *)
(* as somebody can destroy it, or the kernel keeps it.                     *)
HandlesSound ==
  /\ \A c, d \in Claims : c # d => Claimed(c) # Claimed(d)
  /\ {Claimed(c) : c \in Claims} \cap Kept = {}
  /\ console_layer \notin Range(examples) \ {None}
  /\ {s \in Slot : layers[s] # NoBlock} = {Claimed(c) : c \in Claims} \cup Kept

(* The page table in use, and those that will be on the return from a      *)
(* program, are never freed, nor part of anything else.                    *)
TablesAlive ==
  \A t \in {cr3} \cup {saved[i] : i \in DOMAIN saved} :
    t = KernelTable \/ \E k \in DOMAIN frames : frames[k].pml4 # NoBlock /\ frames[k].pml4.first = t

(* The kernel takes a program's addresses for those of the active program, *)
(* and reads them through the page table in use: while a program runs,     *)
(* both are that of the innermost one, after every return as after every   *)
(* call, and no table that is or will be in use is freed before.           *)
ActiveIsInnermost ==
  /\ at = "user" => /\ active_program = Len(frames) /\ Len(saved) = Len(frames)
                    /\ cr3 = Mine.pml4.first
  /\ TablesAlive

(* A program can touch what is its own, and so can its end: the address    *)
(* spaces of its callers and the layers of all others stay as they are.    *)
OthersUntouched ==
  [][/\ \A k \in (DOMAIN frames) \cap (DOMAIN frames') : k < Len(frames) => frames'[k] = frames[k]
     /\ frames # <<>> =>
          \A s \in Slot : layers'[s] # layers[s] =>
             layers[s] = NoBlock \/ \E h \in Handle : Mine.layers[h] = s]_vars

(* A program that ends always gives the processor back to the one that ran *)
(* it, and the last one to the console task.                               *)
CallerResumes ==
  /\ \A k \in 2 .. Depth : at = "destroy" /\ Len(frames) = k ~> at = "user" /\ Len(frames) = k - 1
  /\ at = "destroy" /\ Len(frames) = 1 ~> at \in {"ended", "halted"}
=============================================================================
