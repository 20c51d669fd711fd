# A verification development for MoltarOS

MoltarOS is a small 32-bit kernel: paging with 4 MB pages, a bitmap heap, a
round-robin scheduler driven by the timer interrupt, a text console with
scrolling, a keyboard and a clock. This directory holds TLA+ modules that model
its core, TLC configurations that check them on small instances, and TLAPS
proofs that hold for every size. Paths below are relative to `src/src/kernel/`.

## The system

| Part | State | Operations | Interacts with |
|---|---|---|---|
| Page allocator (`mm/alloc.c`) | `page_directory`, `frame_bitmap`, `virtual_addr` | `alloc_init`, `alloc_block` | inherits the directory of `x86/boot.asm`; serves the heap and thread stacks |
| Heap (`mm/heap.c`) | list of superblocks, a bitmap and a `used` counter in each | `memheap_init`, `memheap_add_block`, `memheap_alloc`, `memheap_free` | called by `kmalloc`/`kfree` only |
| `kmalloc`, `kfree` (`kernel/mem.c`) | `kheap` | `mem_init`, `kmalloc`, `kfree`, `more_memory` | heap and page allocator; used by array, console, threads |
| Threads (`sched/task.c`, `task_helper.asm`) | `tasks`, `current`, ticks, saved contexts, stacks, IF | `task_init`, `thread_create`, `yield`, `task_switch` | timer interrupt, `INT 255`, page allocator for stacks |
| Array (`ds/array.c`) | `size`, `used`, `data` | `array_create`, `array_add`, `array_get`, `array_remove`, `array_delete`, `array_destroy` | `kmalloc`; holds the console's lines |
| Console (`drivers/vga.c`) | screen buffer, cursor, `lines`, `line_number` | `vga_putc`, scrolling, cursor moves | array, `kmalloc`; written to by log, clock, keyboard |
| Keyboard (`drivers/kbd.c`) | prefix `state` | `keyboard_irq_handler` | console: scrolls, shows the last key |
| Clock (`drivers/rtc.c`, `thread_task` in `kernel/kernel.c`) | none | `rtc_print` | console: the top right corner |
| Log (`include/kernel/logger.h`) | none | `KLOG`, `KPANIC` | console; clears and sets IF |
| Interrupts (`x86/idt.c`, `idt_handler.asm`) | gates, handler table, the two PICs | `idt_init`, `register_interrupt_handler`, `irq_handler`, `idt_handler` | dispatches to timer, keyboard, exceptions |
| GDT (`x86/gdt.c`), exceptions (`x86/exceptions.c`) | descriptors | `gdt_init`, `exceptions_init`, `page_fault_handler` | every interrupt goes through a code descriptor; a page fault ends in `KPANIC` |
| Boot (`kernel/kernel.c`, `include/kernel/multiboot.h`) | how far it has come | `kernel_init`, `kernel_main`, `multiboot_RAM` | calls every initialiser in turn, interrupts on from the first `KINFO` |
| Port I/O, libc | none | | `printf` is used by log, clock and keyboard |

What is hard here: an allocator whose cursor wraps around the address space; a
heap that recognises an allocation only by a byte that differs from its
neighbours'; a scheduler that switches stacks inside interrupt handlers and
creates threads by copying the caller's stack; one cursor shared by a log, a
thread and an interrupt; critical sections made of `cli` and `sti` alone; a boot
that turns interrupts on long before it is ready for them, so that the order of
its initialisers is what keeps handlers out. The full list of hazards, with the line each bites at, is in `PROJECT.json`.

What makes the parts correct:

- pages and frames are handed out once, and panics mean exhaustion;
- allocations are disjoint, a free returns exactly its own blocks, nothing leaks,
  a request that fits is served;
- every suspended task can be resumed, no jump goes to an unset context, no task
  is lost or starved, interrupts come back on;
- the array is a list; the console is a window over a document;
- each writer of the screen leaves the others' cells alone, and the clock is right;
- the copy of a stack is an image of it;
- once there is a table every interrupt finds its handler, none re-enters what it
  interrupted, each is acknowledged and served.

## Modules

| Module | Models | Notes |
|---|---|---|
| `FrameAlloc` | page allocator and boot directory | an address is the number of its 4 MB page |
| `PagePool` | what it promises: fresh pages with fresh frames | abstract |
| `FrameAllocProofs` | proofs | |
| `Heap` | the heap as atomic operations | one size for all superblocks, as in `mem.c` |
| `BlockPool` | what it promises: explicit ownership of blocks | abstract |
| `HeapProofs` | proofs | |
| `HeapScan` | the two nested loops of `memheap_alloc`, step by step | justifies `Heap!FirstFit` |
| `KernelMem` | `kmalloc`, `kfree`, stack pages | composes `FrameAlloc` and `Heap` |
| `KernelMemProofs` | proofs | from those of `FrameAlloc` and `Heap` |
| `Sched` | threads, the interrupt flag, the timer | stacks are sequences of frames |
| `RoundRobin` | what the scheduler promises: a cyclic order and a turn | abstract |
| `SchedProofs` | proofs | |
| `Array`, `ElementList`, `MCArray` | the dynamic array, and a list | |
| `VgaScreen` | the console's operations as functions on a screen | used by the next two |
| `Vga`, `Document` | the console under any caller, and a document with a window | |
| `VgaProofs` | proofs about `Array` and `Vga` | the console keeps its lines in an array |
| `Keyboard`, `Rtc`, `Printf` | scan tables, reading and printing the time, `printf` | constant-level |
| `Console` | log, clock thread and keyboard on one screen | composes `VgaScreen`, `Keyboard`, `Rtc` |
| `ConsoleProofs` | proofs | |
| `StackCopy` | `move_stack` and `copy_stack`, word by word | |
| `LoopProofs` | proofs about `HeapScan` and `StackCopy` | the two loops modelled a step at a time |
| `Pic` | the two interrupt controllers and `init_pic` | constant-level; hardware from how `idt.c` uses it |
| `Descriptors` | GDT, gates, stubs, page fault codes | constant-level |
| `Boot` | the boot order, interrupts at every point of it, dispatch | composes `Pic` and `Descriptors` |
| `BootProofs` | proofs | |

Several definitions have a twin with a fault in its name (`FirstFitOffByOne`,
`ForkBeginNoCli`...). A twin is a mutation of the definition that follows it: with
it in place the named property fails, which shows that the property depends on
that piece of code.

### How state and actions correspond to the code

**FrameAlloc.** A directory entry is the frame it maps or `NotPresent`; the bitmap
is the set of its set bits. `Init` is the directory `boot.asm` is linked with,
`UnmapIdentity` the store that removes the identity mapping, and `alloc_init` and
`AllocBlockHole`/`AllocBlockFull` the functions of `alloc.c`, the latter two
split by the outcome of the search. The 32-bit wrap of `virtual_addr` is the
`% NumFrames` of `NextPage` and `Probe`, since the address space is exactly
`NUM_FRAMES` pages. `phase` records boot progress and the two panics.

**Heap.** `chain` is the list from `heap->head` on; `bitmap` has a byte per
block. The byte after the bitmap, which `memheap_alloc` reads when an allocation
ends with the last block, is `past`, an arbitrary byte. `live` is a history
variable: the allocations returned and not freed. Callers free each pointer once.

**HeapScan.** One bitmap, `i`, `n` and the control point, with every evaluation
of a loop condition a step. `Heap` then uses the result (`FirstFit`).

**KernelMem.** A `kmalloc` that grows the heap is three steps. `pending` and
`call` are the call's argument and control point; `stacks` is a history variable.
The steps of a call are not interleaved with other calls, because every caller
runs with interrupts off or before a handler that allocates is registered.

**Sched.** The interrupt flag, the latched IRQ0, the list (`first`, `next_task`),
`current`, `ticks`, what a `task_t`'s saved registers describe (`context`) and for
each task a stack of frames, the last being what it executes. A handler's frame
goes on top at an interrupt, becomes `resume` when `task_switch` leaves the task,
and is popped by the return through the stub. `perform_task_switch` sets IF while
the resumed task is still inside its handler, so handlers can nest.
`thread_create` is `ForkBegin` (cli, copy, insertion), `ForkConfigure` (the
parent's half) and `ChildStart` (the child's). A jump to a context that was never
set is the phase `wild`. What the stacks contain is the subject of `StackCopy`.

**Array.** `data` is the buffer with unwritten slots as `Junk`; `disposed` is a
history variable, the elements passed to `del` or `kfree`. `remove_elem` stands for `array_remove`, `array_delete` and the variants
with a comparison function.

**VgaScreen, Vga, Console.** A screen is a record of the cursor, the buffer, the
saved lines and `line_number`; each function of `vga.c` is an operator from screen
to screen. `Vga` lets any caller use them in any order; `Console` has the callers
the kernel has. A name of a key is its scan code and length. A round of the clock
reads the hour, the minute and the second at three instants, not before each
other, and prints the text `Printf` makes of them. An escaped scan code without a name has `escaped_to_string` return an
uninitialised pointer; the model chooses among a name, a string too long for the
area and an unreadable address.

**StackCopy.** Memory is a function from word addresses to words. `Call` and
`Return` build a stack of frames, each with the caller's `ebp` and a local that may
point into any live frame, which is what code compiled with frame pointers does.
Then one of the two copies runs a word at a time (`CopyWord`), `move_stack` with
interrupts that use the words below `esp`, and ends with the switch of stacks
(`SwitchStack`) or the child's registers (`ConfigureChild`).

**Pic, Descriptors, Boot.** `Pic` has the request, service and mask registers, fully
nested priorities, non-specific EOI and spurious interrupts. `Descriptors` encodes
descriptors and gates field by field, and `Reaches` says that the CPU gets from a
vector to its stub and back: gate present, address put together again, flat
segments, as many words popped as were pushed. In `Boot` the main thread runs
`MainCode`, a step for each initialiser and log line, and the clock thread
`ClockCode`; a step that uses data a handler uses too (`Uses`) has a beginning and
an end, with IF off in between where the code has a `cli` (`Guarded`). An interrupt
comes whenever IF is on and the controllers present one (`Deliver`), goes through
`irq_handler` (EOI, the test for IRQ7), the handler table and the handler, and
returns; `task_switch` may change the thread on the way and turns interrupts on
inside the handler. Data is as abstract as `NoReentry` allows: which of heap,
console and task list is in use. How long a slice lasts is left open, since `Sched`
has the ticks. The keyboard controller holds one byte and sends no other before it
is read.

## Runs

| Run | Configuration | Shows |
|---|---|---|
| `frames` | 128 pages, kernel at 96 | from boot to exhaustion: frames not shared, bitmap exact, panics honest, `RefinesPool` |
| `heap` | 2 superblocks of 6 blocks, sizes 1, 5, 12 | disjointness, delimitation, no leak, exact counter, no false rejection, `RefinesBlockPool` |
| `heap_scan` | all bitmaps of 8 blocks, needs 1-4 and 9 | first fit, bounded reads, termination |
| `kernel_mem` | 6 pages | one purpose per page, the list remembers, failure only for hopeless sizes, every call ends |
| `sched` | 3 tasks, slices of 2 ticks, stacks 3 deep, under fairness | no wild jump, resumability, complete list, `RefinesRoundRobin`; every task runs, created threads start, interrupts come back |
| `stack` | 4 frames, pages of 11 words | words keep their distance from the top, the child's stack is an image of its parent's |
| `array` | 4 elements, a buffer growing from 1 to 4 | slots within the buffer, no dangling element, `RefinesList` |
| `vga` | 5 x 3 screen, 5 lines, 4 characters | cursor on screen and told to the hardware, window on lines, `RefinesDocument`, unset memory only in reserved columns |
| `console` | 19 x 4 screen with areas of 15 and 10, 4 bytes, 3 instants | writers do not disturb each other, both areas survive logging and scrolling, prefix decoded, names fit, the clock never ahead |
| `boot` | lines 0, 1, 7 and 14, nesting of 2, under fairness | no missing gate after `idt_flush`, no re-entry, no outstanding EOI, honest panics, requests served |

Two more runs check a statement a comment of the code makes and find it
violated; `PROJECT.json` quotes the line for each:

| Run | What happens |
|---|---|
| `kernel_mem_null` | `alloc_block`'s cursor wraps and page 0, address NULL, is handed out: as a superblock it empties the heap's list |
| `stack_move` | `move_stack` redirects pointers relative to `esp`: they do not lead to the copies |

`stack_move` has a consequence for the rest. In the build (no optimisation, frame
pointers) `task_init` returns after `move_stack` through a frame pointer that was
redirected wrongly, to zeroed words at the bottom of the new page. Whether it
survives depends on what the compiler still reads through it; `Sched`, `Boot` and
`Console` are checked on the premise that `task_init` returns.

`HeapRemembers` and `FreshPageSuffices` exclude a superblock at 0:
`kernel_mem_null` shows why.

Other disagreements met while reading, without a run of their own:

- `alloc_block` hands out any of the 1024 frames; `PHYSICAL_MEMORY_END` is never
  read in `alloc.c`, so "Out of Memory" (`alloc.c:90`) is not what the panic means
  on a machine with less than 4 GB.
- `memheap_alloc` of 0 bytes returns a pointer to a block it does not mark; freed
  after that block was given to another caller, it releases that caller's blocks.
  No caller in the kernel does this; `heap` and the heap theorems exclude size 0.
- `kmalloc` announces `PAGE_SIZE` as its limit (`mem.c:23`), but a page also holds
  a header and the bitmap, so sizes just below it panic. `FreshPageSuffices`
  states the limit that holds.
- `array_get` lets the index `used` through (`array.c:37`). Its caller never uses
  it (`WindowOnLines`).
- `rtc_print` shows AM for eastern evenings, 0 to 4 o'clock UTC (`rtc.c:54-62`), and
  noon as AM; only the position on the dial is right, and only up to an hour when
  the hour turns between the reads (`ClockLags`).
- `vga_putc` calls `reserved(x, y)`, but `reserved` takes a row and a column
  (`vga.c:105`): on rows 0 and 1 the test is never true, and a newline there blanks
  the clock ("On reserved spots, handle as a newline", `vga.c:111`).
- The lines of `vga_dynamic_init` are not initialised and `save_buffer` stops at
  column 65 of row 1: after a scroll five columns of row 0 show memory nobody wrote
  (`vga.c:257`). `UnsetOnlyRight` bounds where.
- `escaped_to_string` has no default case and returns an uninitialised pointer for
  an escaped code without an entry (`kbd.c:401`); the handler prints from it.
- `init_pic` ends with a mask of 0 under the comment "Disable all IRQs"
  (`idt.c:134`); a mask of 0 enables them.
- `irq_handler` takes an IRQ7 in service for a spurious one (`idt.c:82`) and sends it no
  EOI: a real IRQ7 comes once. It is the last of the master's lines, so it holds
  back no other, which is why `NothingHeldBack` makes an exception for it alone.
- `INSTRUCTION_FETCH` is 0x16 where the CPU's bit is 0x10 (`exceptions.c:11`): neither a
  write nor a fetch has a case, and the further text is "(null)". `PanicTellsTruth`
  says that it is missing there at most, and right wherever it is printed.
- `copy_stack` compares with `parent->stack_start + PAGE_SIZE` (`task.c:210`), which
  is 0 for a stack on the last page: a thread that forks there has nothing copied.
  Only `kernel_main`, whose stack is on another page, calls `thread_create`.
- An exception without a handler returns to the instruction that caused it, for
  ever (`idt.c:68`).
- A key pressed before `keyboard_init` is acknowledged and its byte not read
  (`idt.c:94`): the controller sends no other, and the keyboard is dead.
- A time of nine characters leaves the last of an older one of ten (`rtc.c:66`).

### Bounds

- 128 pages: `FrameAlloc` is nearly deterministic, so the bound only sets the
  length of the run; it passes the wrap of the cursor, the kernel's entries in
  the middle and exhaustion. The proofs remove it.
- Six blocks, two of them for the bitmap (six bytes in blocks of four): the four left
  are enough for three neighbours and all three identifiers, fragmentation, an
  allocation at the end of the bitmap. Two superblocks: requests the first cannot
  serve.
- Six pages: kernel, stack and four free ones, page 0 among them, so the wrap and
  exhaustion both happen with the heap and stacks competing.
- Three tasks: a child inserted in the middle of the list. `MaxDepth` 3: a nested
  handler on top of a handler. `TICKS_PER_SLICE` 2: a slice that survives a tick.
  The real bound on nesting is the size of the stack.
- `MaxLines` and `MaxPuts`/`MaxBytes`: two or three scrolls with lines above and
  below the window. `CHECK_DEADLOCK FALSE` in the console configurations only
  because these bounds end the behaviours. The screen keeps `Height <= KeyCol`,
  as 25 <= 65, which is what makes the swapped test of `vga_putc` never true.
- Four frames: two callers above `thread_create` and the copying function, so that
  pointers lead to the copying frame, its caller and beyond. Eleven words: the
  boot stack and the page differ in size.
- Lines 0, 1, 7, 14: the timer, the keyboard, the line of the IRQ7 test and a line
  of the slave; spurious interrupts come on 7 and 15. Nesting of 2: a handler
  interrupted after `task_switch` came back to it.
- Instants 23:59:59 UTC, the midnight after it and 3:00:00 of the next day with a
  delay of a second: a minute, an hour and a day that turn between two reads, and
  a negative hour.
- `SizeValues` stands for the 2^32 values of `size_t`, which TLC's integers
  cannot hold; only wrapping to something wider than the screen matters.

### Fairness

- `Sched`: the PIT keeps ticking; the CPU executes the code it is in (weak
  fairness of the steps with interrupts off); a latched interrupt is taken at the
  first instruction with IF set, so strong fairness of `Irq0` although threads
  clear IF again and again; and between two interrupts the CPU executes at least
  one instruction of the frame it returned to, so strong fairness, per task and
  depth, of leaving `task_switch` and of a child's start. Nothing is assumed of
  a thread's own actions: it may yield, fork or loop for ever.
- `KernelMem`: a call under way goes on. `HeapScan`: the loop goes on.
- `Boot`: the threads' steps and the handlers' steps go on (weak fairness), and an
  interrupt presented again and again is taken (strong fairness, as in `Sched`).
  `RequestsServed` itself assumes quiet moments for a line again and again, since
  a timer that always comes first would keep a later line out whatever the code did.

## Proofs

| Theorem | States |
|---|---|
| `TypeCorrect`, `FramesAreExact`, `PanicsAreHonest`, `ImplementsPool` (`FrameAllocProofs`) | `TypeOK`, `FramesExact`, `PanicsHonest`, `RefinesPool` for every directory size and kernel position |
| `HeapTypeCorrect`, `BlocksOwnedExactly`, `AllocationsDelimited`, `UsedCounterExact`, `NothingFalselyRejected` (`HeapProofs`) | the heap's safety for every geometry, any number of superblocks and all positive sizes |
| `ImplementsBlockPool` (`HeapProofs`) | `RefinesBlockPool`, likewise, for superblocks other than NULL |
| `ScanFindsFirstFit`, `ScanReadsStayNear` (`LoopProofs`) | the scan is first fit on bitmaps of every length |
| `EveryPageOnePurpose`, `HeapKeepsItsPages`, `OneRetryIsEnough` (`KernelMemProofs`) | `OnePurposePerPage`, `HeapRemembers`, `FreshPageSuffices` for every directory, page and block size |
| `SchedTypeCorrect`, `NeverJumpsWild`, `SuspendedTasksResumable`, `NoTaskLost` (`SchedProofs`) | the scheduler's safety for any number of tasks, ticks and depth of nesting |
| `ImplementsRoundRobin` (`SchedProofs`) | `RefinesRoundRobin`, likewise |
| `CopyPlacesAlike`, `ChildStackIsImage` (`LoopProofs`) | `PlacedAlike`, `CopyIsomorphic` for every page size and depth of calls |
| `ArrayTypeCorrect`, `NothingDangles`, `ImplementsList` (`VgaProofs`) | `TypeOK`, `NoDanglingElement`, `RefinesList` of `Array` for any elements and sizes |
| `CursorStaysOnScreen`, `WindowStaysOnLines`, `TextIsWritten`, `ImplementsDocument` (`VgaProofs`) | `CursorOnScreen`, `WindowOnLines`, `UnsetOnlyRight`, `RefinesDocument` for every screen, the 80 x 25 one among them, and any number of lines |
| `AreasAreKept`, `WritersKeepApart`, `EveryPrefixCountsOnce`, `EveryNameFits`, `ClockNeverAhead` (`ConsoleProofs`) | `AreasSurvive`, `OthersUndisturbed`, `PrefixCountsOnce`, `NamesFit`, `ClockLags` for every screen of three rows or more, the 80 x 25 one among them, any bytes in any number, log lines of any length and the instants of any day |
| `NoResetAfterIdt`, `EoiBeforeInterrupts`, `ReportsAreTrue`, `NothingReentered` (`BootProofs`) | `FaultOnlyBeforeIdt`, `NothingHeldBack`, `PanicTellsTruth`, `NoReentry` for every set of lines and depth of nesting |

Each inductive invariant has a theorem of its own (`Invariance`, `HeapInvariance`,
`MemoryInvariance`, `SchedInvariance`, `CopyInvariance`, `ArrayInvariance`,
`VgaInvariance`, `ConsoleInvariance`, `BootInvariance`).

Assumptions are the named ASSUMEs of each module: sizes are positive numbers, the
kernel's entry lies inside the directory with its stack's after it, `main` is a
task, a page holds a superblock's header and a block, no stack fills its page, the
reserved columns lie on the screen with no more rows than columns of text, a
cursor position fits two bytes, devices do not sit on the cascade line, the
reserved areas are 15 and 10 columns wide with a row below them, a newline is no
visible character, and one reading of the clock, done with interrupts off, takes
less than a minute. The
real constants satisfy them. Two things are excluded in the statements instead,
where a reader sees them: requests for 0 bytes, in the theorems about the heap and
`KernelMem`, and a superblock at NULL, in `ImplementsBlockPool` alone (in
`HeapRemembers` and `FreshPageSuffices` the properties themselves exclude it).

The inductive invariants:

- **FrameAlloc (`IInv`).** The checked invariants together with what boot leaves
  (`BootExact`) and that the kernel's two pages stay mapped (`KernelMapped`). That
  frames are not shared is not inductive alone: the first free frame is unmapped
  only because the bitmap is exact. A directory with a hole leaves a frame free by
  counting - an injection from fewer than `NumFrames` pages into `NumFrames` frames -
  and that makes the physical panic unreachable.
- **Heap (`HInv`).** Disjointness of live allocations and their delimitation hold
  up each other: a free clears a run of one identifier, which is the allocation's
  own blocks only because the block after it carries another identifier; and a new
  allocation keeps its neighbours delimited because `generate_identifier` avoids
  both. The invariant adds that the blocks of the bitmap stay marked
  (`ReservedMarked`) and that live allocations are non-empty and lie in a superblock
  that was added (`LiveProper`). `NoFalseRejection` follows from the exact counter:
  a run of free blocks is counted among the free ones. The refinement adds
  `AllListed`, that the list leads to every superblock, which a superblock at NULL
  would break.
- **HeapScan (`ScanInv`).** No fit starts before `i`, and the `n` blocks from `i` on
  are free; a run that is too short ends in a used block or at the end, so
  no fit starts inside it.
- **KernelMem (`MemInv`).** The invariants of the two components, each preserved
  by its own lemmas since a step of `KernelMem` is a step of one of them or of both.
  Between them stand `PagesApart` (superblocks and stacks lie in mapped pages, apart
  from each other and the kernel's), `CallProper` (what a call under way knows) and
  `FreshHead`: at the retry the head of the list is a superblock that is empty but for
  its bitmap. That makes the retry fail only for a size beyond a page.
- **Sched (`SInv`, `ListInv`).** `StackShape` says which frames may lie on which;
  `FlagDiscipline` ties IF to the frame the CPU executes (a handler, a `cli` section
  and `forking` run with IF off); `ListClosed` keeps the list within the
  tasks created and `current` the CPU's task; `ForkLocals` describes
  `thread_create`'s variables. A child without a context then exists only while its
  parent is in `forking`, where no interrupt gets in, which is
  `SuspendedResumable`; `NoWildJump` follows. `ListInv` adds that the list has a
  listing, a sequence of all tasks along `next_task`. There is only one, so the order
  that `RefinesRoundRobin` chooses is the one an insertion extends and a switch
  advances in.
- **StackCopy (`CopyInv`).** `OnStack` says that below the top there are frames only,
  each saved `ebp` leading to the next frame, and that words point upwards or nowhere.
  During the copy the words below `addr` have arrived (`CopiedBelow`): those that point
  nowhere as they were and, for `copy_stack`, which redirects relative to the top, the
  others as the image wants them. The old stack stays what it was, also when an
  interrupt uses the words below `esp`.
- **Array (`ArrayInv`).** The checked invariants and that no element is stored twice
  (`StoredOnce`): without it a removal could dispose of an element that stays.
- **Vga (`VgaInv`).** The document has no unset memory in the columns of text. That
  holds of the whole document and not of the saved lines: the lines nobody wrote lie
  in the window, where the document is the screen, and `save_buffer` overwrites
  them before the window moves. The swapped test of `vga_putc` plays no part, because
  no row number reaches `KeyCol`.
- **Console (`ConsoleInv`).** The log's cursor is below the two reserved rows, where
  no character, newline or scroll touches the areas (`draw_buffer` skips them); the
  areas show the name and the time printed last (`Shows`). The cursor's row is
  needed: on rows 0 and 1 the swapped test would let a newline blank the clock. The
  two lines logged before there are areas bring it there. `Heard` says
  that the driver's `state` is 1 exactly after a prefix and that the keys among the
  bytes, numbered, are the events. What `vga_print` does to a text is an induction
  over its characters, made by way of the first character for which the claim
  fails (`LeastElement`, `PrintLoop`): below the areas a text stays below
  (`PrintBelow`), and one that fits its row writes just its cells (`PrintInRow`).
  That a time fits its area is computed from `printf`'s digits (`RtcText`), and that
  it lags by at most an hour from the three reads: within a minute the minute turns
  at most once, so they tell the time of the last one, a minute less or an hour
  less (`ReadingLags`).
- **Boot (`BootInv`).** A handler at work is on top of the running thread with IF
  off, and every other interrupt is on its way back (`OneHandler`); an EOI is due only there (`EoiDue`); the tables, gates and registered
  handlers are those of the boot steps done (`TablesFit`, `HandlersFit`). A step in
  the middle of shared data (`BusyAtStep`) has IF off, or comes before the handlers
  that share it are registered: from this `NoReentry` follows. The controllers'
  vectors, the gates and the segments are in place before the table is loaded, whence
  `FaultOnlyBeforeIdt`.

Only model-checked: liveness (`ScanTerminates`, `KmallocEnds`, `EveryTaskRuns`,
`InterruptsComeBack`, `RequestsServed`), which is beyond this prover. Every invariant,
action property and refinement a passing run checks has its theorem.

## Not modelled

- Colours, and `vga_print_reserved`, which nothing calls.
- What a log line says and the parsing of a format; `printf` is modelled from the
  conversion on. `sprintf`, the string functions and port I/O are used through their
  results.
- The rate `timer_set_handler` writes to the PIT, and time as such.
- What the clock's registers hold during an update; `rtc.c` does not look at the
  update flag.
- Where memory lies: `multiboot_RAM` records it and nothing reads it.
- `zone.c` is a stub, `kbd_hal.h` is used by nothing, `tree.h` neither; of `queue.h`
  the macros the scheduler uses are translated where it uses them.
- The locals of `move_stack` and `copy_stack` themselves, which change while they are
  copied, and sums of addresses that pass the end of the address space
  (`StackCopy`).
- `KTRACE` at level TRACE. The build's level is INFO.
- Double frees and foreign pointers given to `kfree`.

## State of the development

Modelling is complete but for the list above, and every safety property is both
checked and proved. Liveness rests on the runs alone.
