# A TLA+ development for MyOS

MyOS is a 32-bit x86 hobby operating system with a file system, a small
scheduler, ring 3 programs and a desktop.  This directory models the parts of it
whose correctness depends on orders of steps that a test hardly reaches, checks
the models with TLC on small instances, and proves the central facts with TLAPS
for instances of every size.

`PROJECT.json` lists the components, the runs, the source lines behind every
definition, the mutants that show that each property can fail, the findings,
the hazards and the theorems.

## The system

| Part | Source | Modules |
| --- | --- | --- |
| Sector cache of diskfs | `kernel/fs/diskfs/diskfs.c` | `SectorStore`, `SectorCache`, `MCDevices`, `SectorCacheProofs` |
| Sector allocator of diskfs | same | `Extents`, `FirstFitScan`, `FirstFitScanProofs` |
| diskfs: files, directories, journal marker, mount, fsck | same, `tools/build/mkfs.py` | `DiskFS`, `FileStore`, `MCDiskFS`, `DiskFSInvariant`, `DiskFSMutations`, `DiskFSProofs` |
| ATA driver | `kernel/drivers/storage/ata.c` | `Ata`, `MCDevices` |
| Physical memory | `kernel/mm/pmm.c` | `PhysicalMemory`, `MCMemory`, `PhysicalMemoryProofs` |
| Heap | `kernel/mm/heap.c` | `Heap`, `MCMemory` |
| Paging, user processes, their system calls | `kernel/mm/paging.c`, `kernel/core/usermode.c`, `syscall.c` | `AddressSpaces`, `UserPrograms`, `MCMemory` |
| Scheduler, interrupt entry, timer | `kernel/sched`, `arch/x86/interrupts`, `kernel/drivers/platform/timer.c` | `Scheduler`, `MCScheduler`, `SchedulerProofs` |
| Keyboard | `kernel/drivers/input/keyboard.c` | `LossyQueue`, `KeyRing`, `Keyboard`, `MCDevices` |
| Mouse, input events, GUI loop | `kernel/drivers/input/mouse.c`, `kernel/input/input.c`, `kernel/gui/core/gui.cpp` | `InputPath`, `MCDevices` |
| Windows and desktop | `kernel/gui/core/gui.cpp`, `kernel/gui/wm`, `kernel/gui/desktop` | `Windows`, `WindowGeometry`, `MCDesktop`, `WindowsProofs` |
| Repainting and the cursor | `kernel/gui/core/gui.cpp` | `Compositor`, `MCScheduler` |
| Terminal and Notepad | `kernel/gui/apps` | `Terminal`, `Notepad`, `MCDesktop` |
| CMOS clock | `kernel/drivers/platform/rtc.c` | `Rtc`, `MCDevices` |

How they interact.  The Notepad, the Terminal and the user programs call diskfs;
diskfs reads and writes sectors through its cache, and the cache uses the ATA
driver, which polls.  All these callers run in task 0 and diskfs never yields, so
at most one file operation is in progress.  The other two tasks (idle and io)
never touch the file system.  The heap and the loader of programs take pages
from the physical memory manager.  Task 0 ends up in the loop of
`GuiSystem::run`, which polls the input layer, which reads what the keyboard and
mouse interrupts left; the timer interrupt wakes the loop and switches tasks.

The modules are composed where one part relies on what another promises:
`KeyRing` implements `LossyQueue`, and `Keyboard` and `InputPath` use that
queue; `SectorCache` implements `SectorStore`, and `DiskFS` is written against
it; `DiskFS` implements `FileStore`, the store `Notepad` edits;
`UserPrograms` extends `AddressSpaces`; `InputPath` contains the driver, the
input layer and the loop together; `PhysicalMemory` and `Heap` share the
definition of a first fit in `Extents`.

## The modules

### `SectorStore`: what the cache promises

Three variables: `disk` (what survives a power loss), `view` (what `read_sector`
returns) and `dirty` (written and not transferred).  Its actions are a write, a
transfer that succeeds, a transfer that fails (the drive may have taken the data
or not: `ata_write_sector` reports an error both before it sends the data and
after), and power loss.  That a transfer which reports success was done is an
assumption here; `Ata` shows when the driver does not provide it.

### `SectorCache`: the cache

`cache`, `cache_clock` and the local variable of `diskfs_flush` as in the code.
The code runs to completion between two transfers, so one action is the code up
to its next `raw_read_sector` or `raw_write_sector`: a hit, a miss that writes
its victim back, the fill that follows, one slot of a flush, each with its
failing variant, and a reboot.  The clock hand is kept modulo the number of
slots; the counter of the code wraps at 2^32, a multiple of 8.
`ImplementsStore` maps `view` to the content of the slot or of the disk and
`dirty` to the sectors of dirty slots.

### `FirstFitScan`: the allocator loop

One action is one iteration of `alloc_contiguous`.  `Extents` holds the
definition the loop is compared with (`FirstFit`), and is what `DiskFS` uses.

### `DiskFS`: the file system

* State of the code: `superblock` (the inode count and the journal state),
  `inodes`, `bitmap` (as the set of marked sectors), `available`, and `listed`
  (the file list).  The sectors are those of `SectorStore`; the content of a
  metadata sector is the record, set or inode table it encodes.
* `pc` is the step of the operation in progress: `begin` (write_journal(1)),
  `mutate`, `data`, `inode`, `super`, `bitmap`, `commit` (write_journal(0)), or
  `recover` in a mount; `op` holds the local variables.
* A call is the code up to its first transfer (`WriteFile`, `DeleteFile`,
  `RenameFile`, `TruncateFile`).  After the marker is on disk the metadata
  changes in memory (`Grow`, `Overwrite`, `Create`, `Unlink`, `Relink`), and each
  step then gives its sectors to the cache one by one (`WriteSector`; `Evict`
  when the cache transfers a dirty victim) and flushes them in any order
  (`FlushSector`).  `StepDone` goes on to the next step and `CallDone` returns.
  Sectors are transferred in any order because the order in the code depends on
  the slots they happen to be in.
* `WriteSectorFails`, `FlushSectorFails` and `FlushFailed` are failing
  transfers: the operation returns false where it stands.  `EvictByRead` is a
  read between two operations that transfers what a failed one left dirty.
* `Crash` is power loss, at any point; `Mount` and `MountFails` are
  `diskfs_initialize`, with `Validate`.
* `Fsck` is `diskfs_fsck`.

Names are strings and a path is the sequence of its components.  `Names` are
those `inode_name_valid` accepts, `LongNames` the components `path_part` refuses; paths are shorter than `DISKFS_PATH_MAX`, so
that the second lookup of `diskfs_find_file`, which only adds a slash in front,
finds the same file.  What a path reads as is what a program gets that opens it
and reads to the end; `diskfs_read_file`, which the Terminal and Notepad use,
refuses a file larger than its buffer (diskfs.c:702).  `READ_BUFFER_SIZE` and `MAX_FILE_SIZE` are constants, and
bytes are small naturals.

`files`, `request`, `io_failed` and `suspect` are history variables: what each
path read as before the call, the call, whether a transfer failed since the
mount, and whether the image was mounted with the marker set or after a failure.

### `FileStore`: what diskfs promises

A map from paths to contents.  A call is accepted and later either takes effect
as a whole and returns true or has no effect and returns false.

### `Ata`: the disk driver and its drive

The driver is `ata_read_sector` and `ata_write_sector`, one action per turn of a
polling loop, per transfer and per command.  The drive is external: it shows
BSY, DRQ, ERR or nothing, takes a command only without BSY and DRQ, drops an
error when a new command comes, and does its steps, or fails, at any time
between two accesses.  `late` records that the driver gave up while the drive
was busy; from then on the drive's answers may meet the wrong command, and the
safety properties are stated up to that point.

### `PhysicalMemory`: pages

The bitmap is a set of pages, addresses are in bytes.  `PmmInitialize` builds it
from the memory map as `pmm_initialize` does (kernel end, holes, unaligned
regions, the fallback without a map).  One iteration of the scan is one action;
`FreePagesBlock` is the whole of `pmm_free_pages_block` with its checks.

### `Heap`

`blocks` is the list from `heap_head`, with addresses and sizes in one unit that
keeps the proportions of header, smallest split and page.  `kmalloc`,
`kmalloc_aligned` and `kfree` are single actions, for nothing interrupts them
that uses the heap.  `split_block` leaves `page_count` unset: the field takes any
value of `Garbage`.  `OthersTakePage` and `OthersGivePage` are the other users of pages,
which decide whether two regions of the heap are neighbours.

### `AddressSpaces` and `UserPrograms`

A page table is named by its frame; the kernel's static tables have negative
names.  The kernel maps frames one to one below `Identity`.  A step of
`run_loaded_image` that takes a frame is one action, and its failure with all of
the clean-up is part of that action.  The last slot of `owned_tables` is a word
of the next frame, as in the code, and `overwritten` records whose frame it was.
The process table, `wait`, `reap`, descriptors and the check of user buffers are
actions of `UserPrograms`.

### `Scheduler`

`cpu` is the context that executes: its task and its place (task code, hlt,
ring 3, system call, the exit trap).  The timer raises `irq`; it is taken when
the interrupt flag is set, saves the context and runs
`scheduler_schedule_from_interrupt` in the same action, because interrupts are
off there.  `waited` counts, as history, the ticks a runnable task has waited.

### `LossyQueue`, `KeyRing`, `Keyboard`

`KeyRing` is the ring with its head and tail and one slot that stays empty;
`ImplementsQueue` maps it to a queue that refuses the newest item when full.
`Keyboard` is `keyboard_handle_interrupt` for each kind of code, with the prefix,
the modifiers and the two queues.

### `InputPath`

The mouse interrupt, `input_poll_event` with one action per read of something an
interrupt may change, and the loop of `GuiSystem::run` with its batch and its
`hlt`.  `driver` and `polled` count, as history, what the driver saw and what the
polls returned.

### `Windows`

`gui` is the state of the windows, the z counter, the start menu and the request
for a repaint.  Every handler is an operator from desktops to desktops
(`FocusApp`, `OpenWindow`, `CloseApp`, `MinimizeApp`, ...), and an action applies
one, as `handle_event` does, followed by what the handler does last.  A point of
the screen is given by the frames that contain it, by whether a maximized frame
does (it ends above the taskbar) and by what lies below, so the instance chooses
which overlaps exist.  A press the poll missed, a release out of
place and a press whose event was dropped are actions of their own.

### `WindowGeometry`, `Compositor`

`WindowGeometry` is the same windows in pixels, one at a time: default frames,
dragging, resizing and restoring.  `Compositor` is one row of pixels with a back
buffer, the dirty rectangle, the screen, and the cursor drawn over it with what
it covers saved; the two reads of the pointer in `redraw_cursor_overlay` are two
actions.

### `Terminal`, `Notepad`, `Rtc`

The Terminal's rows, view, command and ring of commands; Notepad's text, path and
`dirty_` against a file store that the Terminal changes too (`Cut` is what
`set_path` keeps of a path); the registers of the clock in its four formats,
read one by one.

## What is checked

| Run | Instance | States | Shows |
| --- | --- | --- | --- |
| `first_fit_scan` | every bitmap of 8 sectors, every request | 16 216 | the scan finds the first fit and marks it and nothing else, or there is none |
| `sector_cache` | the cache: 2 slots, 3 sectors, 2 contents; each of the other devices by itself | 626 578 | results are current and `ImplementsStore`; what a successful transfer means; `ImplementsQueue`; modifiers; what polls report; the time read |
| `diskfs_crash` | 3 operations, 2 power losses, 5 data sectors | 804 015 | the guarantees of the marker and of the write order, and `Fsck` against its specification on every image a crash leaves |
| `diskfs_errors` | 2 operations, 2 failing transfers, 1 power loss | 254 125 | memory stays clean, the marker covers every change, every call returns |
| `diskfs_tree` | directories, 2-byte sectors, 3 operations | 117 451 | `ImplementsFileStore` |
| `memory` | 6 pages; a heap of 3 pages; programs in 7 frames | 163 798 | books and first fit of the page allocator; the heap's owners; maps, frames, process table and buffers of programs |
| `scheduler` | 4 tasks with a quantum of 2; a row of 4 pixels | 284 460 | contexts, bounded waits, every task runs; the screen settles |
| `desktop` | 3 windows; 5 kinds of windows on 3 screens; Terminal; Notepad | 466 290 | focus and order, drags, repaints; frames; echo and recall; what a clean text means |

The four runs that end in a violation (`diskfs_overlap`, `diskfs_recovered`,
`diskfs_long`, `diskfs_clash`) are the findings in `PROJECT.json`: a mount does
not look for overlapping extents, a "recovery" only clears the marker, a path
component that is too long ends the path, and a write to the path of a directory
succeeds and creates a file that cannot be read.

### Runs over several parts

`sector_cache`, `memory`, `scheduler` and `desktop` check parts that share no
variable.  Their modules (`MCDevices`, `MCMemory`, `MCScheduler`, `MCDesktop`)
extend one part, the one with theorems, and instantiate the others.  The
variable `part` is chosen in the initial state.  The chosen part takes steps and
the others stay in one initial state, so the states of a run are the sum of the
states of its parts.  A property of a part says `part = "..." =>` the property in
the part's module.  Fairness of the Scheduler's `Pit` and of the Compositor's
`DrawCursor` is one conjunct on their disjunction, which is the same because
only one of them can ever take a step.

`MCDesktop` has a VIEW: of the `z` of windows only the order matters, the frame
to restore only while a window is maximized, and the frame chosen for a window
only where `RestoreGivesBack` asks for it.

### The bounds

* Cache: two slots and three sectors make every access a hit, a miss over a
  clean slot or a miss over a dirty one, in every combination with a failure.
* diskfs: five data sectors and buffers of zero to three sectors make files grow
  into a new extent, shrink, fill the disk and leave a gap that is too small.
  Two crashes are needed for an interrupted recovery and for the overlap finding;
  three operations are what the longest scenario takes (a failed or interrupted
  one, one that reuses what it left, one that shows the damage).
* `Ata`: a wait of three looks lets the drive answer before, during and after it.
* `KeyRing`: five slots wrap and overrun.  `Keyboard`: five bytes are a modifier,
  a key and their releases, one of them extended; buffers of two items overrun.
* `InputPath`: two packets are a press and its release, or two steps of the
  wheel, between any two reads; two keys against a queue of one and a batch of
  two events fill both.
* `Rtc`: one tick during the read, from times around every carry.
* `PhysicalMemory`: maps with holes, unaligned and overlapping regions and none.
* `Heap`: requests that fill a page to the last byte, leave a splittable rest,
  take two or three pages, or are aligned, with three live at a time; an unset
  `page_count` says none, one or two pages.  The heap may start without a page.
* `UserPrograms`: any set of frames may be taken at boot, so every allocation of
  a program that needs six can fail; two slots and three programs reuse a slot.
* `Scheduler`: four tasks, so that one can exit, one yield and one wait.
* `Compositor`: on four pixels a window of two can overlap the cursor's rectangle
  at both of its ends or miss it.
* `Windows`: Terminal, Notepad and one utility window, at points where all frames
  overlap, where one is alone, and on every target of the desktop.
* `Terminal`: three rows of two or three columns, a command that fills its buffer,
  one command more than the history holds.  `Notepad`: a buffer of two characters
  and a path that is cut to another one.

### What the properties leave out

Some properties hold only up to a point, because the code does something else
there and no document contradicts it.

* `MemoryClean` holds through failing transfers because the metadata in memory is
  complete before the first sector is written.  `CleanMarkerMeansClean`,
  `OthersSurviveCrash` and `ChangeIsAtomic` are stated while no transfer failed
  and the image was clean when mounted: a failed operation leaves its changes in
  memory, and the next one commits and clears the marker although some of the
  failed one's sectors were never written.  `ChangeIsAtomic` excludes a write in
  place, which is not atomic.
* `TruncateFileReadFails`: `diskfs_truncate_file` (diskfs.c:695) ignores a failing
  read, writes zeros back and returns true.
* `TrueMeansDone` ends when a wait is given up on a busy drive (`late`), and
  excludes a write whose error the flush command cleared (`missed`, ata.c:87).
* A region is released when a block has the size that its `page_count` says, and
  `split_block` leaves that field unset (heap.c:82).  `OwnersKeepTheirs` holds for
  every value of it.  A region that was joined with the one behind it no longer
  has that size and stays with the heap (heap.c:231).
* `struct address_space` is four bytes larger than its frame (paging.c:127).
  `ProgramSeesItsOwn` says that the word behind it is never the program's; it may
  be a frame taken at boot.  `paging_destroy_address_space` also reads the word
  back (paging.c:152); the model takes it for no address of a frame, which
  `pmm_free_page` would free.  `usermode_run_test` leaks its frames, and
  `FramesReturned` counts them in `leaked`.
* `timer_ticks` enables interrupts inside a system call (timer.c:51); the
  Scheduler models it, and its properties hold all the same.
* Both shift keys share one flag (keyboard.c:164): `NoStuckModifier` says that a
  set flag has a key that is down, not that every key that is down sets one.
* A step of the wheel between the read and the reset of the counter is lost
  (mouse.c:195): `NothingInvented` only says that none is made up.  The loop drops
  the event it polls after its 64th (gui.cpp:950): `InputSettles` excludes it.
* `FocusedOnTop` is about z and `hit_test`.  `draw` paints the windows in a fixed
  order whatever their z (gui.cpp:249), so the window on top for the mouse may be
  painted below another one: the order of painting is not modelled.  With the
  focus on a utility window the keys go to the Terminal (gui.cpp:844), and the
  focused window may be minimized.
* `ValidBufferIsMapped` says that a buffer is mapped, not that ring 3 may use its
  pages: `user_buffer_is_valid` does not look at PAGE_USER (syscall.c:21).
* A press on an entry of the start menu closes the menu, and the release then
  finds something else (gui.cpp:684).  A release without a press is taken as a
  click at its own place (gui.cpp:702).  A utility window that is opened again stays
  minimized (utility_apps.cpp:68).
* `ScreenSettles` allows cursor pixels, for the cursor may be drawn beside the
  rectangle saved for it when the pointer moves in between (gui.cpp:246).
* Terminal and Notepad forget the frame to restore when they are reopened
  (terminal.cpp:205): `RestoreGivesBack` is about the utility windows.
* A back-space at the start of a row erases nothing (terminal.cpp:86), and a
  program may print into the line being typed: `EchoIsCommand` ends there.
* A path longer than 31 characters is cut (notepad.cpp:53): `CleanIsStored`
  excludes it.
* `ReadsTheTime` excludes a minute that ends during the read (rtc.c:41) and, in
  the 12-hour formats, the hours of noon and midnight (rtc.c:58).

### What is taken as one step or left open

* The short sections with interrupts off (timer.c:49, keyboard.c:125,
  usermode.asm:27) are one step of the Scheduler: nothing can come in between.
* `FreePagesBlock` takes unaligned addresses, blocks out of range and pages that
  are free already, but never frees a used page that no allocation returned.
  Counts are at most one more than the pages there are, so the sum at pmm.c:153,
  which wraps at 2^32 in the code for huge counts, is exact.
* `DrawCursor` puts the cursor at the pointer; the hotspot, the size of the text
  cursor and transparent pixels (assets.c:152) change which pixels it covers, not
  when they are saved and restored.
* `MouseInterrupt` of the Compositor moves the pointer anywhere; buttons and the
  wheel of the same handler are in `InputPath`.

### Fairness

* `DiskFS`: weak fairness of the steps of an operation that has been entered.  It
  runs on the processor until it returns, the drive's polling loops are bounded,
  and nothing else is waited for.  Starting an operation, failing transfers and
  power loss are not fair.
* `Scheduler`: the timer ticks (`Pit`), the processor takes an interrupt that
  waits while interrupts are on (`TimerInterrupt`), and a system call or the
  return of a task goes on to its end.  That a task gives up the processor by
  itself is not assumed.
* `InputPath`: the boot task runs (`Poll \/ Turn`), which `TasksKeepRunning` of the
  Scheduler justifies, and the timer ends a `hlt`.  That input arrives is not
  assumed.
* `Compositor`: strong fairness of `FlushDirty`, because the loop handles at most
  64 events before it calls `flush_dirty`, however the mouse keeps redrawing the
  cursor in between; weak fairness of the second half of drawing the cursor.

## What is proved

For every value of the constants that satisfies the named assumptions:

* `FirstFitScanProofs`: `ScanInvariant` (the loop invariant) and
  `ScanFindsFirstFit`.  The invariant says that the run just below the loop
  variable is clear and that every position that was passed over has a marked
  sector within reach.
* `SectorCacheProofs`: `CacheCoherent`, by an inductive invariant that adds to
  "one slot per sector" and "clean slots are durable" what an access waiting for
  its read and a flush in progress rely on; `CacheResultsCurrent`; and
  `CacheImplementsStore`, one lemma per kind of step under the refinement
  mapping.
* `DiskFSProofs`: `DiskFSTypes` (`TypeOK`), `DiskFSMemoryClean` (`MemoryClean`)
  and `DiskFSCleanMarker` (`CleanMarkerMeansClean`), for any layout, paths,
  buffers, and any number of operations, power losses and failing transfers.
* `PhysicalMemoryProofs`: `BooksAgree`, `NoRunIsSkipped` and `AllocatesFirstFit`,
  for any memory map and any sequence of allocations and frees, bad ones included.
* `SchedulerProofs`: `ContextsAreKept`, `TimerKeptOutOnlyBySyscalls`,
  `WaitIsBounded` and `ExitIsFinal`, for any number of tasks and any quantum.
* `WindowsProofs`: `FocusInvariant` and `RepaintsAreAsked`, for any set of utility
  windows and any points of the screen.

### The invariants behind them

**DiskFS.**  The invariant is `IInv` in `DiskFSInvariant`.  None of the
properties is inductive: that the metadata in memory is clean says nothing about
the image, and that an unmarked image is clean says nothing about what the
operation in progress still has to write.  `IInv` adds

* `OpInv`: the operation works on a file that exists, or on none yet, and while
  it writes data the inode has the extent the data needs;
* `StoreInv`: what is not dirty is durable, and a flush that has not failed
  still has to transfer exactly what is dirty;
* `MemInv`: clean metadata, and unused inodes behind the inode count (without
  the second part `alloc_inode` could bring a stale file back);
* `DiskInv`: for each step of an operation, which parts of the image, with and
  without the cache, already agree with memory (`Synced`), and what the step has
  given to the cache (`StepInv`).

`DiskFSInvariant` proves that transfers keep it: a sector of the new disk is one
of the old disk or of the view, and `Synced` holds of both.  `DiskFSMutations`
proves it for the calls and the changes in memory; `ReplaceKeepsGood` is the
heart of all five mutations (one inode is replaced, its old extent is freed, its
new one was free).  `DiskFSProofs` proves it for the steps that write, for power
loss and for the mount.

**PhysicalMemory.**  `IInv` joins `TypeOK`, `Accounting`, `ScanMissesNothing` and
`InRange` (every usable page lies inside the bounds of the scan).  The scan jumps
over a run that is too short in one step.  `ScanMissesNothing` says that each
position behind it has a marked page within reach, and the used page that ended
the run is the reason for every position of the run.

**Scheduler.**  `RunsItsOwn` needs that task 0 never exits, so that a task to
switch to is always found.  `BoundedWait` needs the whole circle: `WaitInv` bounds
the wait of a task by the quanta of the tasks between it and the running one,
`(TASKS - 1 - Distance(current, t)) * QUANTUM + current_quantum`.  A tick adds one
to both sides, and a switch moves the running task closer to `t`
(`DistanceSplits`, `SwitchBound`).

**Windows.**  `Good` says of a desktop that at most one window has the focus, that
it is open and that its z is above the others', which is why `hit_test` finds it
(`FocusedIsHit`); `Bounded` that no window is above
`z_counter_`.  Each handler maps a bounded desktop to a bounded one, and
`FocusAppGood` makes it good again.  The key and release handlers have several
outcomes, so the lemmas are about every element of the set they return.

### What stays with TLC

Liveness, and the facts about recursive functions: paths and `Fsck`.  The proofs
about `DiskFS` only use that a lookup returns a file or nothing.
`ImplementsFileStore` and `ImplementsQueue` are model-checked, and so is
everything about the heap, programs, devices, frames, Terminal and Notepad.  In
the other direction, `LoopInv`, `CacheInv`, `ScanMissesNothing`,
`MaskedOnlyInSyscall`, `ExitedStaysExited` and the type invariants of modules
other than `DiskFS` are proved and not part of a run.

## What is not modelled

* The shell (`kernel/shell`): `shell_run` has no caller.  `kernel_main` ends in
  `gui_run`, and the Terminal has commands of its own.
* Boot code and kernel start: straight-line initialisation in assembly and C.
  The order in which paging is first switched on belongs to it.
* Drawing, fonts, assets and the VGA text console: pure output.  What an
  application draws in its window, and the contents of Files, Monitor and About.
* The output of the Terminal's commands is any text; what a command does to files
  is `DiskFS`, and to programs `UserPrograms`.
* PCI enumeration, serial output and power off: port input and output without
  state.
* The keyboard's layout tables, the set-up of the mouse and the arithmetic of a
  movement: tables and straight-line code.
* The ELF and raw loaders' reading of a file: `UserPrograms` takes their verdict.
* String helpers, system call stubs, the initrd (a constant table) and the build
  tools, other than the image that `mkfs.py` writes.
* Exceptions, whose handlers stop the machine.

## Where to go on

1. `MarkerCoversChanges` and `DurableWhenIdle` as theorems, on top of `IInv`.
2. `OwnersKeepTheirs` of the heap as a theorem: the invariant has to say which
   blocks a region consists of.
3. `TrueMeansDone` under a drive that answers late, once the driver resets it.
