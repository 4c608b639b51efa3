# A verification of PatrickOS2

PatrickOS2 is a small 64-bit kernel: cooperative tasks, a page allocator, user
programs in address spaces of their own, layers composed on a frame buffer, a
keyboard and a mouse, and a FAT32 driver over a polled ATA disk. This directory
holds TLA+ models of its stateful parts, configurations that check them with
TLC on small instances, and proofs for TLAPS that hold for every size. Paths
below are relative to the root of the repository's sources.

## 1. What the system is made of

| part | source | state it keeps | operations |
|---|---|---|---|
| FAT32, writing | `kernel/fs/fat32/write.cpp` | the volume: allocation table, directory slots, data | create file, create directory, write, rename, remove |
| FAT32, reading | `kernel/fs/fat32/read.cpp` | none | open, read, list |
| mount, ATA | `kernel/fs/fat32/fat32.cpp` | geometry of the volume; the drive behind the ports | mount, read and write a sector |
| scheduler | `kernel/scheduler.cpp` | task slots, stacks, the current task, the interrupt flag | init, create, run, yield, exit |
| kernel start | `kernel/main.cpp`, `kernel/x86.cpp`, `boot/boot.s` | descriptor tables | `kernel_main` |
| memory, start-up | `kernel/memory.cpp` | bitmap of pages, counts | `memory_init` |
| page allocator | `kernel/memory.cpp` | bitmap, `free_page_count` | allocate and free runs of pages |
| programs | `kernel/program.cpp`, `kernel/user.s` | address spaces, `active_program`, saved stacks and page tables | `program_run`, 23 system calls, exceptions |
| layers | `kernel/graphics/layers.cpp` | a table of 16 layers, their pixels and order | create, destroy, draw, compose, raise |
| kernel console | `kernel/console/main.cpp` | its layer, the place of the next character | write |
| cursor, mouse | `kernel/graphics/basic.cpp`, `kernel/devices/ps2mouse.cpp` | position, pixels beneath, packet being received | draw a pixel, interrupt |
| keyboard, input | `kernel/devices/keyboard.cpp`, `kernel/input.cpp` | modifier keys; a ring of characters | interrupt; push, pop |
| console program | `programs/console.cpp` | line being edited, working directory | edit, resolve a path, start a program |
| other programs | `programs/mv.cpp`, `write.cpp`, `touch.cpp`, `mkdir.cpp`, `rm.cpp`, `cat.cpp`, `ls.cpp`, `hello.cpp` | none | take an argument apart, make a system call |

How they interact: `kernel_main` creates two tasks, the console and the layer
manager, and runs the scheduler. The console task runs a program, which runs
others from within a system call; each is an address space on top of its
caller's. A system call enters through an interrupt gate, so it runs with the
interrupts off until it returns or yields. Programs and the compositor share
the layer table; all who need memory share the page bitmap; the two interrupt
handlers share one port with each other, and the input ring and the cursor with
whatever they interrupt; the disk is reached only from system calls and from
`program_run`.

What is hard in this code, with the properties that answer it, is the list
`hazards` of `PROJECT.json`. In short:

* the writing operations consist of several sector writes, each of which may
  fail, or be the last one before the power goes;
* a cooperative scheduler can starve or lose a task without anything failing;
* programs nest, and every way out of one has to restore the caller exactly;
* layer slots, pages and handles are used again by others after their release;
* interrupt handlers change the ring and the cursor between two reads of them;
* keyboard and mouse share a port that also carries the answers to commands, and
  requests for interrupts outlive the bytes they were made for;
* the disk may answer after the driver has stopped waiting for it;
* a line is resolved as one path before a program takes it apart;
* `memory_init` rounds byte ranges to pages, inwards for some, outwards for others.

## 2. The modules

| module | models | state, and what it is in the code |
|---|---|---|
| `InputQueue` | what the input buffer promises: a bounded queue | `queue` |
| `InputBuffer` | `input.cpp`; implements `InputQueue` | `data`, `head`, `tail` are the fields of `input_buffer_t` |
| `Keyboard` | the handler of `keyboard.cpp`; extends `InputBuffer` | `keyboard_shift`, `keyboard_capslock` |
| `Mouse` | the handler of `ps2mouse.cpp` | `mouse_packet`, `left_button` and `packet_count` of `mouse_state`; `garbled` counts how often three bytes were collected that are no packet of the mouse's |
| `Input` | both over one port, with `ps2mouse_init` and the console's line editor; extends the two | `at` (where `kernel_main` is), `port`, `last`, `reply` (the controller), `keys`, `mouse` (bytes in the devices), `pending`, `inService` (the interrupt controller), `line`; and histories of what the user did and meant |
| `Fat32` | `write.cpp`, one action per sector write | `fat` (the table), `slots` (directory entries and marks for data), `op` (the locals of the operation in progress and its next write), `ret`, `faults`, `damaged` |
| `Fat32Read` | `read.cpp`, as operators over the variables of `Fat32` | |
| `Fat32Properties` | what makes the volume sound | |
| `Fat32Ownership` | the inductive invariant behind it: owners of clusters, chains without cycles | |
| `Fat32Layout` | the other half of that invariant: what lies where in directories and files | |
| `FileTree` | what the file system promises its callers: a call, and what it has done to the tree when it returns | `tree`, `call`, `result` |
| `Fat32Tree` | `Fat32` with its caller and a refinement mapping onto `FileTree` | histories: `called`, `outcome`, `struck`, `tree` |
| `Fat32Mount` | mounting, and where the parts of a volume are | |
| `TableStore` | what the driver relies on when it writes a table entry | `table`, `call`, `ret` |
| `Volume` | `fat32_write_fat_entry` over the ports of the drive; implements `TableStore` | `filesystem` (the struct of that name), `call`, `fat_index`, `sector` (the locals), `at` (which wait), `disk`, `drive`, `error` (the drive) |
| `Scheduler` | `scheduler.cpp` under `main.cpp` | `active`, `finished`, `resume` (where the saved stack continues) of each slot, `current`, `count`, `at`, `enabled` (the interrupt flag) |
| `MemoryBoot` | `memory_init` | the boot loader's map, the bitmap and its place, the counts, the loop reached |
| `PageAllocator` | `memory_alloc_pages`, `memory_free_pages` | `used`, `free_page_count` |
| `Programs` | `program.cpp`, `user.s`, the slots of the layer table; extends `PageAllocator` | `frames` (one `program_address_space_t` per nested program, innermost last), `active_program`, `cr3`, `saved` (the page tables kept by `x86_enter_user_asm`), `layers`, `examples` and `console_layer` (the kernel's own layers), `at`, `success`, `turn` |
| `Layers` | `layers.cpp`: what is done to a layer, composition, raising | `layers` (the table) |
| `Cursor` | `draw_pixel` and `graphics_move_cursor`; extends `Layers` | `frame`, `cursor`, `background`, the locals of `draw_pixel` and `layer_compose` (`pixel`, `column`, `offset`) |
| `Screen` | the layer manager's task, the programs that change layers, the mouse; extends `Cursor` | `left_button`, `was_left_button_down`, `click_x` |
| `Shell` | `console.cpp`, and what the other programs make of their argument | `cwd`, `line`, `started` (program, argument and directory handed over), `request` |

`MC…` modules give constants for TLC. `…Proofs` modules hold theorems. Where
components meet, they are composed:

* `Programs` over `PageAllocator`: programs, layers and the console compete for
  the same pages;
* `Input` over `Keyboard`, `Mouse` and `InputBuffer`: from the key to the line;
* `Screen` over `Cursor` and `Layers`: from packet and system call to the picture;
* `Fat32Properties` over `Fat32` and `Fat32Read`: what one half writes, the other reads;
* `Volume` below `Fat32`: its refinement of `TableStore` is what lets `Fat32`
  write an entry in one step, with a failure that may or may not have happened.

The rest meet only through what one may do to the other, and that is modelled
where it bites: tasks that yield or end (`Scheduler`, the compositor's turn in
`Programs`), the fairness of a handler or a task that stands for the scheduler's.

Names of actions are those of the functions; a function with several sector
writes is a set of actions named for the write (`MarkCluster`, `ZeroCluster`,
`LinkCluster`, `WriteEntry`, `CutChain`, `FreeCluster`, …), and `op.step` says
which is next. `PROJECT.json`, under `map`, names the lines of each definition.
A definition introduced by a comment that starts with "Mutant:" is not part of the
model; it is the model of a plausible mistake that the property named in
`PROJECT.json` (`mutants`) detects.

### The disk's faults, and the windows

A sector write may be reported as failed, and may or may not have reached the
platter (`WriteFails`; `ata_write_sector` gives up after a timeout before
or after the transfer). A write may be lost with the power (`PowerLoss`, after
which nothing of the operation is left but the volume). A lookup may miss a name
because a read failed (`Sees`), for the code reports a failed read as "does not
exist". Reads that fail while a chain is being freed have the effect of a failed
write and are covered by it.

The driver is not a journalling one. There are steps after which a fault
leaves a volume that is not sound, and the model says exactly which:

* `HalfRemoved`: `fat32_remove` frees the chain before it deletes the entry;
* `TwiceNamed`: a rename across directories has written the new entry and not
  yet deleted the old one;
* a write reported as failed that did reach the disk: the entry of
  `fat32_create_directory` (whose cluster is then freed), the new entry or the
  dot entries of a rename, the first table entry freed by a remove;
* a lookup that fails to see a name that exists, so that it is created twice;
* a size so near to 4 GiB that the rounding to clusters wraps (`write.cpp:853`).

A fault in a window sets `damaged`; the properties speak of volumes that are not
damaged, and a damaged volume is not used any further (there is no repair
tool). Each disjunct of the windows is needed: without it a run fails.
What remains is the claim: everywhere else a fault costs unused clusters at
worst. Without a fault only one step loses clusters: a write to an empty file
that fails because the volume is full (`GivesUpOnEmptyFile`).

The model starts with an empty volume. The image that the build makes
(`Makefile:55`) is not empty: `mtools` has put directories and files on it, in
clusters one after the other, and with `..` entries of 0, as the format
prescribes, in directories that lie in the root, where `write.cpp` writes the
root's number. A volume with files is reached in the
model by the calls. What distinguishes the image, for the model, is the `..` of 0,
which `fat32_directory_is_descendant` takes for the root as well; the part of
the invariant that says that dots name the parent (`DotsRight`) does not hold of it
as it stands.

### The two sides of the port

`Input` keeps the bytes that wait in the two devices, the one byte in the port,
and the requests of the interrupt controller. `ps2mouse_init` takes bytes out of
the port itself, while their requests stay or not (`Poll`); so a handler may run
for a byte that is gone, and reads the last one again or another device's. The
properties are about what survives that: the user's side (`held`, `light`,
`meant`, `draft`) is a history of what was typed and meant, which no handler
reads.

A key pressed between the command 0x20 and its answer is taken for the
controller's configuration (`ps2mouse.cpp:59`). The answer then lies in the port,
the mouse's first answer cannot come, the wait runs out and `kernel_main` halts:
`ConfigurationKept` says that this is all that happens, and is proved.

### The drive

`Volume` has a drive that works by itself: a wait ends with success, with an
error, or because a million looks at the status were not enough, at which moment
the drive may still be at it. After that (`late`) nothing in the driver tells a
late answer from a timely one, and no property is claimed. The error bits are
never cleared by the driver; a drive that keeps them set makes every later call
fail until the next start. Sectors beyond the 28 bits of the ports are refused,
so a table copy beyond them makes each write report failure after the first copy
has changed. `Fat32` goes on after a failed write: that is the case of a wait
that ran out once.

## 3. The runs

| run | question | bounds, and why they are enough |
|---|---|---|
| `input` | Is what the console reads what was typed and meant, do packets stay aligned, is the port always served, whatever the order of bytes and interrupts? | a letter, another key, Enter, erase, both shift keys and caps lock; a ring of 3 cells and a line of 2, so that both fill up; 4 key movements, or one with a packet, or 3 packets with a lost byte, at any moment from `ps2mouse_init` on; packets at rest with the button pressed, of a step to the left and down, and of eight steps to the right, so that movements with and without bit 3 and the overflow bits follow one another; 2 scan codes in the keyboard |
| `fat32_faults` | Is the volume sound and readable, and everybody else's file untouched, whatever fails and wherever? | 3 clusters of 3 slots, 2 interchangeable names, paths of up to 3 segments, 16 for 2^32, one fault: a directory inside a directory, a directory of two clusters, a full volume, a wrapped size |
| `fat32_returns` | Does every system call come back? | 4 clusters of 2 slots, which the dots fill, and 3 names in one directory, which therefore takes a second cluster, fills that too and is searched through both; one fault. The search along a chain that closes on itself has no step in the model, as it has no end in the code |
| `fat32_tree` | Does each call do what it was asked, all or nothing, and say so? | the volume of `fat32_faults` and six paths, so that files and directories move within a directory, to another one and into themselves, files of one cluster and of two, one write that fails |
| `volume` | Do the parts of a volume lie apart, and is a table entry written in one step, copy after copy? | every boot sector with small fields, valid or not, of up to 9 sectors behind four partition tables, one of them with a partition that passes the last sector number; 2 entries in a sector, up to 2 copies, 3 calls, so that a call meets what a failed one has left; numbers of 16 sectors of which the ports reach 9 |
| `scheduler` | Is no task lost, overtaken twice or deprived of its stack, and does each run again and again? | 5 slots, 2 tasks at the start, every order of creating, yielding, ending and stopping the machine |
| `scheduler_reuse` | Is the slot of a finished task used again? It is not, see 6. | 3 slots |
| `memory_boot` | Is the bitmap exact? | every map of a first entry at the bottom and any second, every place of one piece of boot data; pages of 2 bytes, so that ranges begin and end inside pages |
| `programs` | Are pages, layers, handles and address spaces accounted for, and is the caller always resumed? | 20 pages, 2 layer slots, 3 nested programs; memory runs out in every place, slots are used again by other programs |
| `screen` | What can the mouse's interrupt do to the picture and to a click? | a cursor of 3 pixels on a screen of 3 by 3, which has all overlaps of an old and a new position; three layers with a transparent pixel, one of them created, moved, hidden, filled or destroyed by a program; 2 packets, of a press and of a release, at any moments |
| `shell` | Does a program ask the kernel for what was typed? | every argument of up to 5 tokens (name, `.`, `..`, separator, space) after `rm`, `mv` and `write`, of up to 3 after the others, from the root and from directories of one to three names, all that `cd` leads to; 3 names to a path and 3 tokens to a name, so that both limits are met |
| `shell_usage` | Does a program started without an argument notice? It does not, see 6. | as `shell` |

Bounds by name: `MaxFaults` (faults in a behaviour), `Depth` (nested programs;
the code's arrays have 8 and it does not check), `Mixes`, `MaxPackets` and
`MaxLost` (key movements and packets, lost bytes), `MaxChanges` (changes of the
layers), `MaxCalls` (calls of `fat32_write_fat_entry`), `Longest` (tokens of an
argument), `Top` (bytes of the memory map). The sizes `N`, `Slots`, `ClusterSize`,
`Word`, `PerSector`, `LbaLimit`, `Size`, `LineMax`, `KeyboardQueue`, `PageCount`,
`LayerCount`, `TableLimit`, `StackPages`, `MaxSegments` and `Width` stand for
constants of the code or of the machine.

Runs without deadlock checking are those of systems that may stop: the power is
gone, the kernel halts when all tasks have ended or a device does not answer,
memory is set up, the bound on calls is reached, `operator new` halts the machine
for want of a page.

What the properties say:

* **Input.** `ImplementsQueue`: pushes and pops are those of a bounded queue, a
  full one refusing. `LineAsTyped`: the console's line is what the user meant by
  the keys, at the moment each was pressed, provided no scan code was lost, one
  shift key was held at a time (letting go of one of two clears the only flag),
  the line has room, and the user is never ahead of the console by more characters
  than the ring takes: the handler ignores that a full ring refuses one
  (`keyboard.cpp:49`, `59`).
  `PacketsAlign`: until a byte of the mouse is lost, taken by the other handler or
  read twice, every three bytes collected are a packet the mouse sent. After that
  each such byte costs one packet at most, and each byte of a movement with bit 3 set
  may cost another, for the handler knows a first byte by this bit only. Movements are in
  two's complement: one to eight steps to the left or down have it, eight to fifteen to
  the right or up too, and while the mouse keeps moving like that packets can stay
  out of step.
  `BytesServed`: a byte in the port is fetched, always. `ConfigurationKept`: above.
* **The volume.** `NoCrossLink`: at every moment of every operation no cluster
  has two owners. `NoDanglingEntry`: an entry's chain is allocated to its end.
  `Consistent`: the inductive invariant behind these. Its parts are `Ownership`, who
  points to a cluster and what the operation in progress holds; `ChainsFinite`, no
  chain runs into itself; `Layout`, entries lie only in directories, before the first end
  mark, dots where a directory begins, and neither in a file; `Rooted`, no
  directory hangs below itself, also while one is on its way to another place;
  `Kept`, as long as nothing fails the operation in progress loses hold of no cluster;
  `Sized`, every file has the clusters its size takes, also while it grows.
  `DirectoriesFormTree`, `NamesUnique`: the directories form a tree, with dots
  that agree. `LookupsAgree`: the scan, the paths and the listing of the reading
  half, which are code of their own, find what those of the writing half find.
  `ReadsWhole`: a file that has a name can be opened and read to the last byte of
  its size, from clusters of its own that hold no directory's entries, old or new.
  Whose data they hold it does not say: the model has no bytes of files, and a cluster is
  zeroed when it is allocated. `NoClusterLost`,
  `OthersUntouched`, `OnlyRemovalDrops`: what a step may never do. `OthersUntouched`
  excepts only the one entry that a write, a rename or a removal is for; a call that
  creates something excepts none.
  `CallsReturn`: no call runs for ever along a chain that closes on itself.
  `ImplementsTree`: seen by a caller, on a volume that is not damaged, a call that
  returns success has changed the tree in one step and exactly as it was asked; a
  call that returns an error has not changed it; but when a fault struck the call's
  last write (`broken`), which a caller is told as an error or, by the loss of power, not
  at all, either all of it is done or nothing. That a caller cannot tell `broken` from
  `error` is so in the code: a `create_file` whose entry is reported as not written may
  have created the file. A rename across directories has two entries for a while: the new one
  counts from the moment the old one is deleted. The four histories of
  `Fat32Tree` are what the caller knows, and the tree as it was before the last
  step, for the tree changes with the last write and the call returns after it.
* **The disk.** `LayoutSound`: for each boot sector that mounting accepts, tables
  and clusters are apart, inside the partition, and complete, provided the
  partition itself ends within the sector numbers (mounting looks only at where the
  clusters begin; later ones are refused when they are used). It does not say that
  the table has an entry for each cluster, for mounting does not compare the two: a
  cluster beyond the table is refused when its entry is read or written
  (`read.cpp:33`, `write.cpp:87`, `118`), which `Volume` models (`InTable`).
  `ImplementsTable`: a table entry changes in one step before its call succeeds,
  and no other does. `CopiesFollow`: a copy changes only after the one before it,
  even where an earlier failure made them differ, and success means all of them.
* **The scheduler.** `StacksKept`: creating a task never takes the stack of one
  that waits, runs, or is about to leave its own. `ReturnsOnlyWhenDone`:
  `scheduler_run` comes back to `kernel_main` only when every task has ended, and no
  task is resumed behind its end. The machine may stop before that: the console's task
  calls `halt` when its program cannot be run (`main.cpp:16`), and so does the kernel when it
  works for a task and is out of memory or meets an exception (`TaskHalts`).
  `WaitShrinks`: the search misses nobody, and each turn given to another brings
  a waiting task nearer to its own. `EveryTaskRuns`: each gets its turn again and
  again, unless one stops the machine. `InterruptsLetIn`: a program that runs in a program starts with the
  interrupts off, and they are still let in each time it yields.
* **Memory.** `FreePagesAreFree`: a page is handed out only if all its bytes are
  available and none belongs to boot data. `NoPageLost`: every such page is.
  `BitmapHarmless`: the bitmap overwrites nothing that is read afterwards.
  `GivesUpOnlyWithoutRoom`: it stops only on a map with no place for it.
* **Programs.** `PagesAccounted`: whoever fails or ends in whatever way, each
  page in use has one holder and the count agrees. `HandlesSound`,
  `OthersUntouched`: a handle never reaches another's layer.
  `ActiveIsInnermost`: the processor is always in the address space it takes
  itself to be in, and never in one that has been freed. `CallerResumes`: a
  program that ends gives the processor back to the one that ran it.
* **The screen.** `OnePixelAtATime`: moving the cursor leaves the picture
  beneath as it is, and a drawing that a move overtakes falsifies one pixel at
  most. `AtMostOneHole`: nor does the cursor lose more than one.
  `PictureSettles`: when the mouse rests, the picture becomes what the layers
  show. `ClickRaises`: a press is answered once, however long the button is held,
  and brings the layer seen at the point to the front if it may, moving only the
  layer that was there. What the code does besides, and no property denies: a
  press and release within one frame goes unnoticed; the column and the row of the
  point may be of two positions.
* **The shell.** `RequestAsTyped`: what a program asks of the kernel is what the
  line says word by word, although the shell resolves all of it as one path first
  and the program its parts again. The property names the exceptions: the text of `write` is resolved as if it were a path (`.`,
  `..` and double separators are gone, and each 31 characters a separator is
  inserted); a second word whose `..` takes the first away, or that has no name of
  its own, ends in the message about usage; in a directory whose name has a space,
  `mv` and `write` take that name apart; a path of more than 16 names is cut
  without a word.

### Fairness

* `Fat32`: weak fairness of the operation in progress: a system call owns the
  processor until it returns. Nothing makes programs call.
* `Scheduler`: weak fairness of the kernel's loop, and of "the task yields or
  ends". The second is an assumption about the tasks, and the only one a
  cooperative scheduler can work with; all tasks of the repository satisfy it
  (the layer manager yields after every row, system calls that wait yield).
* `Programs`: weak fairness of the kernel's own steps and of the compositor's;
  nothing makes a program call or end, so the property is conditional on its end.
* `Screen`: weak fairness of the layer manager's steps, which is what the
  scheduler's `EveryTaskRuns` gives its task. Mouse and programs owe nothing.
* `Input`: weak fairness of each handler and of the console's reading while
  characters wait, which is `InterruptsLetIn` and `EveryTaskRuns`. The user, the
  devices and `ps2mouse_init` owe nothing.

## 4. The proofs

| theorem | what it says, for every value of the constants | argument |
|---|---|---|
| `InputBufferSafe`, `InputBufferImplementsQueue` | indices in range, waiting cells written; every step is one of the queue or none | the invariant relates the written cells, from `head` to `tail` around the ring, to the queue |
| `InputImplementsQueue` | the same of the ring in its place, between handler and console with the mouse on the same port | each step of `Input` is a step of `InputBuffer` or leaves it alone, which needs that whatever byte the keyboard's handler reads yields a character or nothing (`BytesTyped`) |
| `InputConfigurationKept` | the kernel runs only with the configuration the controller gave, however many keys are pressed during `ps2mouse_init` | the invariant says where the controller's answer is while it is owed: still to come, or in the port where it keeps the mouse's from coming |
| `InputPacketsAlign` | for whatever packets the mouse may send: no packet is garbled before a byte is lost or doubled, then one at most for each such byte and for each byte of a movement with bit 3 set | the invariant says how far the handler may be from the beginning of a packet, and which bytes have still to pay for it |
| `InputLineAsTyped` | for all tables of characters, every size of ring, line and keyboard, and every order of keys, interrupts and readings, the console's line is the one meant | see below |
| `ProgramsPagesAccounted`, `ProgramsHandlesSound`, `ProgramsActiveIsInnermost`, `ProgramsOthersUntouched` | for any number of pages, layer slots and nested programs, wherever memory runs out: one holder for each page in use, no handle to another's layer, the right address space | see below |
| `ScreenAtMostOneHole`, `ScreenOnePixelAtATime`, `ScreenClickRaises` | for every screen, shape of cursor and table of layers | the position a drawing has read is out of date only after a move, and each move draws the whole cursor again: at most the one pixel in flight can be wrong |
| `BootFreePagesAreFree`, `BootNoPageLost`, `BootBitmapHarmless`, `BootGivesUpOnlyWithoutRoom` | for every memory map, all boot data, every size of a page: the bitmap is exact, and lies where it does no harm | the free pages are those inside the entries gone through, less those that the ranges gone through touch; lemmas on rounding say what that means for bytes |
| `VolumeLayoutSound`, `VolumeCopiesFollow`, `VolumeImplementsTable` | for every boot sector that is accepted, any number of copies and a drive that fails and delays as it likes: the parts lie apart, the copies follow one another, and a table entry changes in one step | the parts are the intervals between ascending starts; the invariant says of each place the driver can be in what the drive is at, and that the copies come past hold the entry |
| `Fat32TypeOK` | the driver's variables keep their types: no count passes zero, no size leaves 32 bits | needs, of each step, what the operation's locals are then |
| `Fat32Ownership`, `Fat32NoCrossLink` | no cluster has two owners, at any step of any operation, with any number of faults outside the windows | see below |
| `Fat32ChainsFinite`, `Fat32NoDanglingEntry` | no chain runs into itself, at any step; between operations the chain of each entry is allocated to its end mark | see below |
| `Fat32Consistent`, `Fat32NamesUnique` | entries lie only in directories, before the end mark of each, with different names, and dots where a directory begins, at every step of every operation; so no directory has a name twice | see below |
| `Fat32DirectoriesFormTree` | between operations every entry is reached from the root, and the dots of a directory name it and the directory that lists it | see below |
| `Fat32OthersUntouched`, `Fat32OnlyRemovalDrops` | no step of an operation disturbs a file that the operation is not for; only a removal takes away the last entry of a chain | from `Consistent`: what the operation in progress writes to is where its lookups found it |
| `Fat32NoClusterLost` | without faults no step of any operation loses a cluster, but for a write that gives up on an empty file | see below |
| `Fat32LookupsAgree`, `Fat32ReadsWhole` | between operations the reading half finds, opens and lists what the writing half finds, and reads each file to its last byte, from clusters that hold no entries | see below |
| `Fat32ImplementsTree` | success: the tree has changed in one step exactly as asked; an error: it has not; a fault in the last write: all or nothing; as long as no fault hits a window | see below |
| `SchedulerTypeOK`, `SchedulerReturnsOnlyWhenDone`, `SchedulerKeepsStacks`, `SchedulerWaitShrinks` | for any number of slots | the used slots are those below `count`; the nearest runnable task exists because distances are natural numbers |

`PagesAccounted` is not inductive either: what a program gives back when it ends
is what its frame says it took. `Nested` and `TablesKept` say how the calls of
`program_run` and the saved page tables lie in one another, `SetUp` what the
innermost has taken so far, step by step, and `HandlesSound` whose the layers are;
the pages in use are then the disjoint union of what the levels, the layers and
the kernel hold, and a step disturbs the last level only.

`LineAsTyped` relates the line to a history that is several queues away from it.
`Understood` follows the bytes: the modifier flags of the handler, changed by the
scan codes in the port and in the keyboard, become what the user takes them to
be, and each of these codes will be taken for what was meant by it
(`Foretold`); what waits in the ring is what was meant by those the handler has
read; and the console's `Edit` follows `Edited`, character by character. No code
may be read twice, which a request left over from `ps2mouse_init` could cause
(`KeyNotStale`). `Edited` is a recursive function, and what it does to a
longer text is shown by least counterexample.

`NoCrossLink` is not inductive: that an operation links a cluster to nobody's
chain depends on what the operation holds. `Ownership` says it without
following a chain: every cluster that the table or
an entry points to is allocated, has one who points to it, and is none of those
the operation in progress holds and has not yet linked; and for each step it
says which clusters these are (the new one, the rest of the chain being freed)
and what has to have happened before. TLC checks `Ownership`, as part of `Consistent`, in `fat32_faults`,
and `Fat32Proofs` shows that each of the steps keeps it: one lemma for
each action, and one for each way in which a step changes the table or a
directory.

`NoDanglingEntry` does follow chains. `NoCycle` says that no set of clusters is
closed under successors, which speaks of single table entries and is kept by each
step (`AppendSound`: a cluster is appended to a chain only when it leads nowhere). A
walk along a chain then never meets a cluster twice, so it ends before it is longer
than the volume has clusters; what the recursive function `Walk` yields is shown
by least counterexample.

`NamesUnique`, `OthersUntouched` and `OnlyRemovalDrops` follow from `Layout`, which
speaks of three things at once: the volume, what the operation in progress has read
of it (the directory does not have the name yet, the slot is still unused, the
chain is that of the file, the directory to remove is barren), and the kind of
each chain. None of it is invariant without the rest: that a new entry lies
before the end mark needs the slot that was found to be still what it was, and
that no step writes into a file's chain as if it were a directory's needs the chains to
be apart, which is `Ownership`. The proof goes by the kinds of change that the
steps make to the volume: a cluster fewer (`VolumeShrunk`), one more at the end of a
chain (`VolumeLinked`), an entry entered, dropped, or written over (`VolumeAdd`,
`VolumeDrop`, `VolumeUpdate`), other dots (`VolumeDots`). Then there is one lemma
for each action, and one for each lookup that says what a call may rely on when it
starts: `ParentOf` and `Directories` are recursive functions, and least
counterexample shows that what they yield is the head of a directory's chain.

`DirectoriesFormTree` needs `Rooted`. `Upward` says without a path that every
directory comes down from the root: of no set of directories lie all the entries
inside the set. Making, dropping and updating entries keeps it; what could
break it is the one step of a rename across directories from which the moved
directory goes by its new entry, `WriteDots`. There `MoveRight` helps:
a set of directories that holds the destination, and the parent of each of its members,
but not the directory that moves. That such a set exists when the call begins is the proof about
`fat32_directory_is_descendant`: the directories its climb comes through are the set,
for the climb follows the dots, the dots name the parents (`DotsRight`), and by `Upward`
it comes to the root within as many steps as there are clusters. That the
levels of `Directories` come to every directory is counted: a level that adds nothing is
the last, and each before it adds a cluster.

`NoClusterLost` compares what leads to a cluster before and after each step. A
step of a call that goes on moves clusters between the chain in hand, the
cluster allocated last and the entries, and a call that ends has to leave all of
them to an entry. `Kept` says which of them that is (`HeldRight`): the
cluster allocated last is by then in the chain of the file or of the directory, the
one to be freed next is the rest of the chain that was cut, and a cluster still
remembered after that is free. A chain that is cut becomes two that hold all of it
(`ChainCut`), the second of which begins at the cluster to be freed next.

`ReadsWhole` needs `Sized`, which counts: a chain reaches as far as the size in the
entry takes (`Reaches`). Appending lengthens a chain by one (`ReachesLinked`), a
cut leaves the part before it (`ReachesCut`), and a write that grows a file changes the
size in its entry only after the last cluster has been appended (`GrowthRight`
says how many are missing until then). A write whose rounding wraps at 4 GiB is
one of the windows, so on a volume that is not damaged a size above zero takes a
cluster.

`LookupsAgree` is about loops written twice. The scan of `read.cpp` is solved turn
by turn: in turn `k` it looks at position `k` of the directory as `write.cpp`
counts them, until the first end mark (`ScanIs`, by least counterexample), so
both find the same first entry of a name; the two descents along a path then come
to the same directory (`DirectoriesSame`). A listing does not give up before the
end, for a chain without an end mark in its slots ends with `EndOfChain`, and it
contains nothing behind an end mark, for nothing live is there (`EndsTidy`).

`ImplementsTree` is shown in two parts. The first knows nothing of disks: a set of
entries that each say their directory (`TreeLike`) pictures a tree (`Pictures`),
for a path leads along at most one way (`GoesOneWay`) and every entry has a path,
no longer than there are clusters (`HasPlace`); an entry that comes, goes, grows or
gets another name or place changes the picture as `Create`, `Remove`, `Write` and
`Rename` of `FileTree` do (`EnterChanges` and the three after it), a directory taking
along all that hangs below it. The second part is the driver: its entries, without the one that a
rename has not finished (`Twigs`), are such a set by `Rooted` and `NamesUnique`'s
invariant, what `Lookup` yields is their picture (`Pictured`), and each step does to
them one of these things or nothing (`CallTurns`). `Upward` says nothing of the
moment between the dots of a moved directory and the deletion of its old entry; the
tree seen then is that of the step before, which only `WriteDots` precedes
(`HalfwaySpares`).
What ties these changes to the call is `LinkedTo`: at every step the paths the caller
gave lead to the entry and the directories the operation has found for them
(`LinkedStays`, with one lemma for the beginning of each operation), so the change
that a step makes is the one asked for (`AskedTurns`). `Pending` says when it comes:
while an operation is in progress the tree is as it was when the call began; the
change comes with the step that ends it, if that is a success, or, if it is a
fault, then or not at all (`PendingStep`). The caller takes the answer one step
later, and as `tree` lags behind by this one step, the change and the return are one
step of `FileTree`.

Assumptions: `GeometryAssumption` (a volume has clusters, the root is one of them, a
directory cluster has room for the dot entries), `CallerAssumption` (paths are not
empty, offsets and lengths fit 32 bits), `ReaderAssumption` (a reader's path is a
sequence of names), `SizeAssumption` (the ring has two cells),
`KeyboardAssumption` (keys that type have characters in both tables; caps lock and
backspace are no shift keys),
`InputAssumption` (a line, a keyboard with room for a scan code),
`MovementsAssumption` (a packet is three bytes, and its first has bit 3 set),
`SchedulerAssumption` (there are tasks, and slots for them), `PageAllocatorAssumption`,
`ProgramsAssumption` (numbers of pages, slots and levels; a program has an image and
a stack), `LayerAssumption`, `CursorAssumption`, `ScreenAssumption` (the screen has
pixels, the cursor a shape, the layouts considered hold layers),
`MemoryBootAssumption` (a page has bytes; a map is a sequence of ranges),
`WordAssumption`, `DriveAssumption` (a sector has entries, the ports take fewer
numbers than 32 bits; the fields of a boot sector are numbers).

Only model-checked: everything that has to happen (`BytesServed`, `EveryTaskRuns`,
`InterruptsLetIn`, `CallerResumes`, `PictureSettles`, the return of the system
calls: liveness under fairness is not provable with the installed provers);
what folds over a text (`Shell`).

## 5. What is not modelled, and why

* The bytes of files and the spelling of names in 8.3 form: data that no control
  depends on. Reads of the disk that fail during `open`, `read` or `list`: each
  makes the call fail and changes nothing.
* What follows a late answer of the drive: which sector its data end up in
  depends on the drive.
* Parsing of ELF fields and of the boot loader's records; checks of user
  addresses: arithmetic on fixed fields without state.
* `keyboard_main` and `ps2mouse_main`, tasks that poll the port: nothing creates
  them. The second and third button, and the position in `mouse_state`: nothing
  reads them. Keys with a prefix byte: the handler takes them for those of the
  number pad, which are keys like others.
* How many pages a layer's pixels take: `layers.cpp:33` computes width times height
  times four in 64 bits, which wraps for sides of 2^31. `Programs` has layers of a number
  of pages, `Screen` of a number of pixels.
* Whose data a cluster of a file holds, and with what an operation overwrites
  them: the model tells data, zeros and directory entries apart.
* Limits of 256 characters on paths; the texts that programs and the console
  write; the loop with which `cat` reads on.
* The timer's handler: its request line stays masked
  (`kernel/scheduler.cpp:26`), so that no timer interrupt ever arrives.
* A read that fails in `fat32_directory_is_descendant`, on the way up from the
  destination of a rename: the directory could be moved into itself. Lookups
  that fail elsewhere are modelled, and count as damage.
* What a ninth nested program would overwrite (`kernel/user.s:50` checks nothing),
  and boot data that lie above the last entry of the memory map: outside the
  models' bounds, and listed as hazards that no property covers.
* The serial port, fonts, the build, descriptor tables and the way to long mode.

## 6. Where the code disagrees with its comments, or with itself

`kernel/scheduler.cpp:117` announces that an idle slot is looked for and used
again. `scheduler_task_exit` sets `finished` and leaves `active` set, and
nothing else clears it; the search takes only slots that are not active. So the
slot of a finished task is never used again: the run `scheduler_reuse` shows
a task ending and the next `scheduler_create_task` returning -1. `StacksKept`
is the other side of it: as no slot is used again, no stack is either, not even
that of a task that is just leaving it.

`programs/rm.cpp:80` (and `touch.cpp`, `mkdir.cpp`) prints "missing path" when its
argument is empty. The shell never hands over an empty argument: it resolves it
against the current directory first (`programs/console.cpp:128`), and nothing
becomes that directory itself. The run `shell_usage` shows `rm` alone asking for
the removal of the current directory, which the kernel grants when it is empty.

## 7. State

All components with a state of their own are modelled. Every safety property of
the runs is a theorem, the refinements included, but for `RequestAsTyped`; with the
liveness properties it is what rests on the bounds of TLC's runs.
