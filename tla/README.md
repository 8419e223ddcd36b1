# A formal model of the lofi kernel

lofi is a small x86-64 kernel started by the Limine bootloader. This directory
holds TLA+ models of its parts, TLC configurations that check them on small
instances, and TLAPS proofs of their main properties for every instance. Paths
such as `Heap.cpp:136` are relative to the component's directory under
`src/kernel/`.

## 1. The system

### 1.1 Parts

| Part | Source | State | Operations | Used by |
|---|---|---|---|---|
| Boot sequence | `main.cpp` | position in `PrepareKernel` | `_start`, `PrepareKernel`, `done` | - |
| Physical page allocator | `Memory/Paging/Pmm/Pmm.cpp` | `FreeList`, `FreeListLength`, `LastAddress`, the stack of freed pages in memory | `CreatePMM`, `AllocatePage`, `AllocateEmptyPage`, `FreePage` | page tables, heap, ACPI, AHCI, disk |
| Page tables | `Memory/Paging/Ptm/Ptm.cpp` | `Pml4`, the tables in memory, cr3 | `CreatePTM`, `MapMemory`, `GetNextPageLevel` | heap, AHCI |
| Kernel heap | `Memory/Heap/Heap.cpp` | `HeapStart`, `HeapEnd`, `LastHeapHDR`, the headers in memory | `CreateHeap`, `malloc`, `free`, `ExpandHeap`, the three header operations | `operator new` and `delete`: PCI, AHCI |
| Interrupts, faults | `Interrupts/`, `Faults/` | the IDT, the interrupt flag | `CreateIdt`, `AddHandler`, `RegisterFaults`, three handlers that print and halt | boot |
| ACPI, PCI | `Acpi/Acpi.cpp`, `IO/IO.cpp` | `AcpiData0`, `IsReady`, which functions were visited | `GetAcpi`, `GetPci`, the `WalkThrough...` functions | boot; starts AHCI |
| AHCI driver | `Ahci/Ahci.cpp` | ports, command list, registers shared with the controller | constructor, `ProbePorts`, `Configure`, `Read`, `StopCommand`, `StartCommand` | disk access |
| Disk access | `Fat/diskio.cpp` | `RootBuffer`, `Root` | `disk_initialize`, `disk_readp` | FAT |
| FAT | `Fat/pff.c` | the mounted `FATFS` (file pointer, current cluster and sector), `DIR` objects | `pf_mount`, `pf_open`, `pf_read`, `pf_lseek`, `pf_opendir`, `pf_readdir` | nothing yet |
| Conversions | `ToString/`, `Memory/Memory.cpp` | none | `uint2str`, `hex2str`, `int2str`, `memcmp`, `strlen` | logging, ACPI, AHCI |
| Output, descriptors | `TTY0/`, `Debug/`, `Memory/Gdt/` | none to follow | | |

Beside the kernel the repository keeps musl 1.2.3, `limine.h` and firmware images.
The kernel is linked with `-nostdlib` and calls none of musl; three of its
concurrent parts are modelled all the same, because a program on this kernel will
stand on them: the internal lock (`thread/__lock.c`), condition variables
(`thread/pthread_cond_timedwait.c`) and the slot allocator (`malloc/mallocng/`).
Paths below `src/musl-1.2.3/src/` are given relative to that directory.

### 1.2 How they interact, and what is hard

The kernel has one processor and one thread. Its concurrency is with devices
(the AHCI controller), with the holders of the memory it hands out, and with
interrupts, which only ever halt. Most of what is hard is therefore in long
sequences of legal calls and in what devices and disks may answer:

* three allocators stacked on each other keep their own bookkeeping *inside*
  the memory they manage: the free stack in usable pages, the tables in pages
  reached by physical address, the heap's headers between its clients' blocks.
  One wrong link and the next call writes into somebody's data;
* memory may run out in the middle of any operation, and `done()` then halts
  with the operation half done;
* sizes are `size_t` and wrap; boundaries are off by a header, a page, a sector;
* code relies on facts established elsewhere: `AhciDriver` on zeroed heap
  memory, `AllocateEmptyPage` on the identity map, `MapMemory` on never changing
  an entry (it never flushes the TLB);
* the AHCI controller may be slow, fail or never answer, and the waits are
  bounded wrongly or not at all;
* the FAT code keeps a file pointer, a cluster and a sector that must agree
  after any mixture of reads, seeks and errors;
* musl's locks avoid system calls by counting waiters in the word they guard, its
  condition variables link nodes that live on the stacks of threads that may time
  out, and its `free` changes a mask without the lock that `malloc` holds.

`PROJECT.json` lists each of these hazards at its line, with the properties that
would catch it, or why there is none.

## 2. Modules

| Module | Role |
|---|---|
| `MemoryMap` | the bootloader's memory map and the loops that scan it (no state) |
| `Pmm`, `MCPmm` | the page allocator |
| `Ptm`, `MCPtm` | the page tables, with the allocator's scan and the callers of `MapMemory` |
| `Heap`, `MCHeap` | the heap |
| `AllocatorSpec` | what `malloc` and `free` promise; `Heap` implements it |
| `Boot`, `MCBoot` | `_start` to the halt, with faults and interrupts at every statement |
| `Devices`, `MCDevices` | `GetAcpi` and `GetPci`, which call each other, and the walk over the buses |
| `Ahci`, `MCAhci` | the AHCI driver and `disk_readp`, with the controller as a process of its own |
| `FatVolume`, `MCFatVolume` | `pf_mount`, `check_fs`, and `get_fat` on the volume they mounted |
| `FatDir`, `MCFatDir` | lookups and listings: `follow_path`, `pf_open`, `pf_opendir`, `pf_readdir` |
| `FatFile`, `MCFatFile` | `pf_read` and `pf_lseek` on the open file |
| `FileSpec` | what an open file promises; `FatFile` implements it |
| `Futex` | the sleepers a wake may pick |
| `MuslLock` | musl's internal lock, with threads that come and go |
| `MuslCond`, `MCMuslCond` | musl's condition variables, with the mutex they requeue to |
| `MuslMalloc`, `MCMuslMalloc` | the slots and groups of one size class of mallocng |
| `HeapLemmas`, `HeapProofs` | theorems about `Heap` |
| `PmmProofs`, `PtmProofs`, `AhciProofs`, `FatFileProofs`, `MuslLockProofs`, `MuslMallocProofs` | theorems about the module they are named after |

Every module that is checked also holds *faulty variants* of some definitions,
each before the definition it varies and marked as such. They are not part
of any specification; they record a plausible mistake that each property is
known to notice (the `mutants` of `PROJECT.json`).

### 2.1 `Heap`

Addresses and lengths count 8-byte words: the `0x10` granule is 2 words, a
`HeapSegmentHeader` 4. `heap.mem` is the whole of memory as a function from words
to values. Headers are not a data structure of the model: `HLength(m, HDR)` reads
the word at `HDR`, `HNext` the next one, and a client's write (`ClientWrite`)
changes words of the same function, so an overlap of data and headers would do
the damage it does in the machine. `heap.last` is `LastHeapHDR`; `heap.segs` is a
history variable, the headers linked and not merged away, which lets properties
speak about the list without following it.

| Action | Code |
|---|---|
| `CreateHeap` | both `CreateHeap` functions, the page of system data included |
| `MallocCall(n)` | `malloc` up to the loop: rounding, the report for size 0 |
| `MallocTake`, `MallocNext` | one iteration of the loop |
| `MallocExpand` | `ExpandHeap` (whole) and the recursive call |
| `Free(p)` | `free` (whole), for a block in use |
| `ClientWrite(p, v)` | a client fills what it asked for |

`SegmentHeaderSplit` writes through `HDR->Next` also when that is null
(`Heap.cpp:136`). Address 0 is mapped by then, so this is a write to word 2; the
model has that word and performs the write. (Formally the write is undefined in
C++; nothing after it in the function or its caller tests the pointer, so the
store is what the compiler emits.)

`frames` counts the memory the heap can still get. When a call needs more, the
kernel halts in `AllocatePage` after the pages there are have been mapped:
`ExpandHeap`'s second disjunct. In its third the rounding has wrapped to 0, no
page is mapped, and the header write faults on the page at `HeapEnd`; the fault
handler halts.

Assumptions: pages are even and hold at least a header and a granule;
`SizeMod > Top`, physical memory ends before the 1 GiB of addresses left above
`HeapStart` does. The code does not check the latter.

### 2.2 `Pmm`

`mem[p]` is page `p` as `W` words, each a page number. The stack of freed pages is
`FreeListLength` words from page `FreeList` on, in `mem`. `AllocatePage` is three
actions: `AllocateStacked` (pop), `AllocateScanned` (scan) and `AllocateFails`;
the parameter says whether `AllocateEmptyPage` called. A holder may fill its page
at any moment (`HolderWrite`) and give it back (`FreePage`).

Nothing reserves the pages under the stack, so the scan will give them out. From
the first `FreePage` that writes to such a page on (`late`), allocator and
holder overwrite each other and no property can hold. The properties are stated
up to that moment. The kernel never calls `FreePage`, so `late` stays false in it;
what the properties say beyond that is that this is the *only* way to break them.

Assumptions: the memory map is sorted and its entries do not overlap, as the
boot protocol promises; a stack holding every page below it ends inside memory.

### 2.3 `Ptm`

Addresses count pages. `tab[p]` is page `p` read as a table; a page handed out for
something else may be filled with entries that lead to page 0 (`WriteData`), so a
walk that strays into data gives a wrong answer. `CreatePTM` is its start, the
iterations of its three `MapMemory` calls and their returns; the later calls, of
one page each, are single steps: `MapSystemData`, `MapHeapPage` (both with the
allocation that precedes the call), `MapDevice`. `AllocateBuffer` stands for all
other pages the kernel takes. `want` is a history variable: the translations
asked for. An allocation that fails leaves the machine as it was at that moment,
some levels linked.

Assumptions: the five ranges of virtual addresses (low memory, the bootloader's
direct map, kernel, system data, heap) do not meet.

### 2.4 `Boot`

`_start` is a sequence of statements, each a record of an operation and its
argument; `AddHandler` is seven of them, a write to each part of the gate (three of
the offset, type, selector), `lidt` and `sti`, because the table it fills is in use
from the first `lidt` on. The processor is the environment: at any statement, and in
a handler, a fault of any vector in `Faults` may be raised, and an interrupt of
`Irqs` when the flag is set. A handler that does not fault prints and halts
(`Handler`). `Deliver` follows the processor's rules: a vector
without a usable gate becomes a general protection fault if it was benign, and a
double fault otherwise; without a usable gate for that, the machine is reset.
Before the kernel's own table is loaded a fault is the bootloader's business
(`elsewhere`).

### 2.5 `Devices`

The two functions call each other, so the model keeps a stack of call frames.
`GetAcpi` has set `AcpiData0` (`Acpi.cpp:19`) when it calls `GetPci` (line 32), so
the call back to it returns at once; `GetPci` sets `IsReady` (`IO.cpp:80`) only
after the walk, so it must not be the first of the two to be called, and in
`PrepareKernel` it is not. The machine halts where the loader has passed no RSDP and
where there is no memory for the page of `GetAcpi` or for a driver; a driver that is
started is taken to return (its waits are the subject of `Ahci`). One iteration of
`GetAcpi`'s loop, one item of the MCFG table and one bus are a step each; a bus is
walked in one step, with all its devices and functions. Lengths wrap: a table
shorter than its header gives a huge count and the search goes astray (`end =
"astray"`), which the properties exclude by speaking of well-formed tables.

### 2.6 `Ahci`

Each reading of a register in a waiting loop is a step of the driver, so the
controller can act between any two. The controller's engines follow the command
bits in their own time; the device is busy for as long as it likes before and
during a command; a command transfers a sector, completes, or fails. After a
failure the port is halted until the driver stops it, which only `Configure` does
(the hardware's rule; the definitions are marked external in `PROJECT.json`).
The constructor's probing of sector 0 and `disk_readp` both go through
`Port::Read`, and `disk_readp` clears the shared buffer first, as the code does.

### 2.7 `FatVolume`, `FatDir`, `FatFile`

The three share the volume at three levels of detail.

`FatVolume` has boot records with the fields `pf_mount` reads and a table on disk
packed as the format has it, byte by byte. `pf_mount` and `check_fs` are one action
per disk access; `get_fat` is the call, one action per access, and the return.
Arithmetic on sectors is modulo `DwordMod`.

`FatDir` has a volume as a table of links and a function from sectors to entries.
A `DIR` keeps an index and a sector that `dir_next` advances separately; an
iteration of `dir_find` or `dir_read` is a step. Names are values and a path is a
sequence of them.

`FatFile` has the links of the table (`get_fat` may also report 1, an error) and a
set of files by first cluster and size. `Chain[f][k]` is the `k`-th cluster of a
file: a constant whose assumption says it follows the table. A byte of the disk is
the pair of its sector and offset, so delivering a wrong byte is visible. An
iteration of either loop is a step. `ABORT` closes the file.

### 2.8 `MuslLock`, `MuslCond`, `MuslMalloc`

An access to memory that another thread may change meanwhile is a step, and so is
a system call; memory is sequentially consistent, as musl's atomics (`a_cas`,
`a_fetch_add`, full barriers) make it. What is coarser than that: in `MuslCond` all
that is done under the lock of the variable is one step, and an attempt at a lock
that fails and is repeated is none; in `MuslMalloc` reads of `avail_mask` by the thread
that has the lock, which nobody else then writes, are part of the step that uses
them, as are the links of the list and the meta of a group that is given back.
Sleeping and waking follow the futex rules: a thread goes to sleep only if the word
still has the value it saw, a wake picks any sleeper, and a sleeper may also wake
for no reason.

`MuslLock` includes the skipping of the lock in a process of one thread:
`need_locks` goes to 1 when `pthread_create` makes the second one, to -1 when the
last but one exits, and to 0 at the next lock; a creation that fails undoes its count,
and with it `need_locks` if no other thread is left (`CreateFails`). An
exiting thread holds a lock of its own (`killlock`, `pthread_create.c:91` to 166), which
the model leaves out.

`MuslCond` keeps the doubly linked list of nodes, the barriers, the requeueing to the
mutex, and the counter a signal waits on while waiters that time out remove
themselves. The mutex is the normal type of `pthread_mutex_timedlock.c` and
`pthread_mutex_unlock.c`, access by access: `MutexTry`, `MutexRead`, `MutexInc`,
`MutexMark`, `MutexWait` and `MutexDec` are the loop that locks it, `MutexUnlock`,
`MutexSwap` and `MutexWake` the reading of the count, the swap and the wake-up, with
other threads between any two. Opening a barrier and notifying a signal are likewise
the store and, later, the wake-up.

`MuslMalloc` keeps `avail_mask` and `freed_mask` as sets, the list of active groups, and
the fast path of `free` that uses neither lock nor list. When a group is activated its
`avail_mask` is stored twice, by `activate_group` and again by `try_avail` without the
slot it hands out (`ActivateStore`, `TakeFirst`), and a `free` may read it in between.

## 3. Model checking

| Run | Instance | Shows |
|---|---|---|
| `heap` | pages of 8 words, 0 to 5 of them, 3 at first, 4 calls of `malloc`, sizes 0, 1, 3, 8 and two that wrap | the list, the blocks and the memory stay consistent; memory not handed out yet is zero; `malloc` ends; `AllocatorSpec` is implemented |
| `pmm` | 6 pages of 2 words, five memory maps | no page shared or lost |
| `ptm` | 4 entries to a table, 256 virtual and 64 physical pages, four memory maps | the tree of tables says what was asked, at every step |
| `boot` | five faults, three interrupts, a stack of three handlers | once the double fault has a handler, everything ends in one; never a half-written gate |
| `devices` | twelve machines | each reachable controller gets one driver; the search ends |
| `ahci` | six ports, two of them with disks and one with a sleeping ATAPI device, 2 probes, 3 rounds of waiting | `Read` delivers, is not written behind, and returns |
| `fat_volume` | 53 disks, 13 clusters each, two tables | the geometry, and the links as stored |
| `fat_dir` | five volumes, seven paths, an index of four bits | lookups and listings agree with the layout |
| `fat_file` | five files, sectors of 2 bytes, two to a cluster | `FileSpec` is implemented |
| `musl_lock` | three threads | mutual exclusion; no lost wake-up |
| `musl_cond` | two waiters and a signaler with two calls each; three waiters taken by a broadcast | no pointer to a dead stack; no lost wake-up; waits that are over return |
| `musl_malloc` | three threads, two groups of one or three slots | slots and groups are kept |

Why the bounds are enough to meet the interesting cases.

* *Heap*: the kernel's own first segment, of 512 pages, is split many times before
  the heap grows; the run starts with three pages of eight words, a payload of 20
  after the header, which three requests of 1 word split three times and one of 8
  uses up with others until the heap has to grow, by one page or two. A page of an
  expansion is a header and a payload of four words, which a request of 3, rounded
  to 4, uses up. Four blocks make every pattern of free and used neighbours around a
  freed one, and the memory may run out at every stage; one size wraps in
  `malloc`'s rounding, one only in `ExpandHeap`'s.
* *Pmm*: two words to a page make the stack cross pages; the maps put the stack in
  the middle, at the end and at page 0, have a usable page 0, adjoining entries
  and no usable memory.
* *Ptm*: four entries to a table make all four levels branch; the maps have pages
  to spare, run out while the heap grows, run out inside `CreatePTM`, and have no
  usable page at all.
* *Boot*: faults with and without a handler, both contributory and benign;
  interrupts whose vectors coincide with exceptions, as those of controllers that
  are not remapped do; addresses that use every part of a gate.
* *Devices*: no MCFG table, one, two and repeated ones, several segments, one bus,
  missing function 0, and four machines with wrong lengths.
* *Ahci*: two probes let a second read meet what the first left; three rounds with
  a limit of one reach the time-out and the end of the wait; one sector number is
  too large for the bytes of the command.
* *FatVolume*: numbers of clusters around both borders between the types, in
  sector 0 or a partition; clusters at the borders of sectors in all three types,
  341 and 682 among them, where a FAT12 entry lies across or next to two sectors;
  the last cluster and the first behind it. `DwordMod` is 2^30 instead of 2^32
  because TLC's integers end at 2^31; the damaged volumes still wrap.
* *FatDir*: directories filled to the last entry, with a file or a deleted entry
  there, and one with room, a fixed root and a chained one, a circular chain that
  the index ends by wrapping, a cluster number that needs its high word.
* *FatFile*: clusters out of order, a circular chain, one that ends too early, a
  file without a cluster; reads and seeks that end inside sectors, on sector
  and on cluster boundaries.
* *MuslLock*: three threads give a holder, one that sleeps and one that spins,
  `need_locks` going through all of its values. *MuslCond*: two calls each let
  what is left of a call, a late wake-up or a count, meet the next. A woken waiter
  with one before and one after it on the list takes three, and three that begin to
  wait, give up and contend for the mutex freely are too many to check liveness of:
  the run has further initial states, each of them reachable, in which three have
  begun to wait, up to two of them, in any place of the list, have given up and are
  about to take their nodes off, and a broadcast has just taken them all
  (`Broadcast`).
  *MuslMalloc*: two groups give a head and another one to move on to; a group is
  full with one slot, or has one or two of its three slots that are not active yet.
  Threads and groups are interchangeable, and `musl_malloc` has only invariants, so
  it uses symmetry.

What the properties say is stated above each of them in the modules.

Fairness is assumed where liveness is checked, and nowhere else:

| Module | Fair | Because |
|---|---|---|
| `Heap` | the steps of `malloc` | the only processor runs the loop; nothing preempts it for good |
| `FatFile`, `FatDir` | the loops of calls in progress | the same; nobody has to call |
| `Devices` | the next step | the boot processor runs on |
| `Ahci` | the driver's steps; each port's controller | the processor runs on; hardware works off what it was given, though it may fail it and though no bound is assumed. Which of its steps it takes is not assumed |
| `MuslLock`, `MuslCond` | the steps of each thread in a call | the scheduler runs every runnable thread. Not fair: calls, time-outs, spurious wake-ups, threads coming and going |

Deadlock is checked in `heap`, `pmm`, `ptm`, `fat_file`, `fat_dir` and `musl_malloc`.
The others may stop: the machine halts or is reset, the search is over, a mount
faults, an AHCI read after a failed one waits for ever, or all threads have made
the bounded number of calls, or sleep with nobody left to signal.

### 3.1 What the models show besides

The properties carry conditions. Each stands for something that the code does not
guard against, and that the model shows to go wrong without the condition:

* `Pmm`: `FreePage` after the scan has given out the pages under the free stack
  (no caller today);
* `ReadDelivers`: bits 24 to 31 of a sector number are sent in no byte of the
  command (`Ahci.cpp:72`);
* `ReadsReturn`: after a task-file error the port is never restarted, so the next
  `Read` on it waits for ever (`Ahci.cpp:94`);
* `OneDriverEach`: the last bus of a segment is not looked at (`IO.cpp:66`);
* `SearchEnds`: a table length below the header's size wraps (`Acpi.cpp:22`);
* `FaultsCaught`: `AddHandler` enables interrupts with the first handler it
  registers (`Interrupts.cpp:43`), and until the double fault has its own, the
  second, a fault or an interrupt whose vector has no gate may reset the machine;
  and a handler that faults while printing recurses until the stack ends;
* `ListsInOrder`: nothing but a directory's own entries is listed in a directory that
  has an end mark or whose last entry is not shown. In one that is full, once
  `pf_readdir` has delivered the last entry, `dir_next` reports the end of the table but
  has already moved `dj->sect` on (`pff.c:556`) and has left `dj->index` where it was;
  `pf_readdir` drops the report (line 1166), and the next call reads the same entry
  number of the following sector, which is not part of the directory, and lists
  it;
* `PointersLive`: the wake-ups that follow the last access to a node or a counter may
  name an address that is no longer theirs, and wake for nothing what sleeps there;
* `MountedAsMade` and `LinksAsStored`: a boot record whose areas exceed the volume is
  mounted with a wrapped number of clusters, and one with clusters of no sectors
  is divided by. A failure to read a mark counts as the mark's absence
  (`pff.c:795`), so that a disk error may be reported as a missing file system.

## 4. Proofs

The theorems hold for every value of the constants that satisfies the modules'
`ASSUME`s: every page size, memory size, memory map, set of request sizes and any
number of calls; every geometry of a volume, every table, sound or damaged, and
every set of files; any number of threads.

**Heap** (`HeapProofs`, on `HeapLemmas`). The inductive invariant `IInv` is the
conjunction of `TypeOK`, `ListIntegrity`, `BlocksAreUsedSegments`, `NoAdjacentFree`,
`WalkSkipsNoFit`, `AtMostTwoExpansions` and four facts that none of them says: the
memory that is left fits below `Top`; before `CreateHeap` nothing is in use; during
`malloc` the size is a rounded, positive one; and after an expansion the last
segment is free and long enough, or short by less than a header when it is the
first (this is what makes the bound of two inductive). The lemmas treat each
header operation once, on an arbitrary record that tiles an arbitrary interval:
`SegmentHeaderSplit`, `SegmentHeaderCombineForward` and `AppendSegment` preserve
the tiling, change only header words and the null word, and say which segments
the result has. From `IInv` follow the invariants, the action property
`BlocksIntact`, and `Refinement`: each step of `Heap` is a step of `AllocatorSpec`
or changes nothing there. `NothingLeaks` is proved from tiling and merging: a
free first segment has a used neighbour or none. `FreshMemoryIsZero` needs one fact
more, `FreshInv`: the memory is zero before `CreateHeap`, and as long as nothing was
freed and the heap has not grown every word behind the header of a free segment
still is. `SegmentHeaderSplit` writes a header into such memory, and the words it
leaves to the segment that it cuts off are among those that were free before.

**Page allocator** (`PmmProofs`). While `late` is false: the stack's pages all lie
above the pages given out (or the stack lies at page 0, which is never given
out), its entries are distinct usable pages below or at `LastAddress`, and
holders and stack together are exactly the usable pages up to `LastAddress`. That
the stack never outgrows its entry while this holds is a counting argument: at
most `LastAddress` pages can be on it.

**Open file** (`FatFileProofs`). The inductive invariant `Inv` is `TypeOK`,
`PositionsAgree`, `SeekOnItsWay` (inside `pf_lseek` the chain has been followed as
far as `fptr` says and what is left leads to the offset asked for; without it
`PositionsAgree`, which says nothing during a seek, is not inductive) and `InCall`
(a read has advanced by what it counts, and what is left is what it may still
deliver). The argument is arithmetic: adding less than what a sector has left
changes neither its sector nor its cluster, a position on a sector boundary that is
not on a cluster boundary stays in its cluster, and `(p - 1) \div bcs` steps by one
exactly on cluster boundaries. `FileImplementsSequence` shows that each step is a
step of `FileSpec` or changes nothing there, from `Inv` and `WritesOnlyBuffer` (the
memory written is exactly the bytes counted): an iteration of `pf_read` delivers
the next bytes of the file, across sectors and clusters.

**Page tables** (`PtmProofs`). `TranslationsAsAsked` speaks of walks from the root,
and a walk says nothing about which other walks a new entry changes. The inductive
invariant therefore has `Leveled`: some assignment of levels, from 4 at the root to
1, makes the tables a tree (an entry of a table above level 1 leads to a table one
level down, no two entries lead to the same one, and tables are usable pages the
scan has passed that hold no data). Linking a fresh page extends the assignment, and
the four digits of an address determine its path and are determined by it, so that
writing one entry changes one translation. Beside it stand `Progress`, how far the
three calls of `MapMemory` in `CreatePTM` have come, and `Areas`, that low memory is
mapped to itself or not at all and that the heap's pages are mapped to pages of data
in order; `HeapPagesApart` is inductive with these. That the scan always ends at a
usable page it has not given out before rests on the least such page, hence on
well-founded induction. From the invariant follow `TablesApart`,
`KernelKeepsItsGround` and the action property `LiveTranslationsStay`.

**Internal lock** (`MuslLockProofs`). `Inv` is `TypeOK`, `MutualExclusion`,
`LockCounts` (the word is the number of threads counted in, with the sign of
`INT_MIN` while it is held), `Alone` (a thread that found the process to have one
thread is the only one until it is done) and `Read` (the values threads hold in
`current` are ones the word can have had). `LockCounts` is what makes a successful
compare-and-swap from an unheld value prove that nobody is inside; `Alone` covers
the paths that skip it. From it also follow the two assertions in comments of
`__lock.c` (`LockAssertions`).

**AHCI driver** (`AhciProofs`). `ReadDelivers` is about the moment `Read` returns, the
invariant `IInv` about what led to it: only the command `Read` waits for can be carried
out (`OneAwaited`); an error it sees is an error of this command (`ErrorsAreNew`, for
which `Read` clears the error bits first); the command table holds the sector and
the buffer of the call in progress (`CommandReady`); the command's bit is clear again
only because the data arrived (`DataThere`). This last would fail on a port that was
stopped during the wait, since stopping clears the bit as well; `NotStopped` says
that neither the port in hand nor the root is stopped while it is read: `Configure`
works on ports behind the root only. `WritesOnlyWhileAwaited` follows from
`OneAwaited` and `CommandReady`.

**Slot allocator** (`MuslMallocProofs`). `SlotsKept` says that
every slot is in one place; the invariant splits it into `Apart`, at most one, and
`Somewhere`, at least one, where the places are the application, the two masks, a
`free` in progress and a mask `malloc` has taken and not stored yet. What makes it
inductive is what each thread knows after its last reading: `Looking` for `malloc`,
which holds the lock while others still set bits of `freed_mask` (the masks it read
can only have grown, and slots that are not active yet are always free: `Inactive`),
and `Freeing` for `free`, whose compare-and-swap succeeds only if the mask is what it
read, and was not empty. `List` says which groups the list must hold: a group leaves
it only when it has nothing free, so the `free` that puts the first slot back takes the
lock and queues it; a group behind the head has slots freed, or gets one from the
thread that is about to. `LockHeld`, `Within` and `Types` are the frame. The theorems
hold for any number of threads and groups and any shapes of groups with
`active_idx` at most `last_idx` (`ShapesAssumption`).

**Only model-checked**: liveness (`MallocTerminates`, `CallsReturn`, `ReadsReturn`,
`SearchEnds`, `SomebodyEnters`, `WaitsReturn`), which needs fairness and is out of
the prover's reach, and everything about `Boot`, `Devices`, `FatVolume`, `FatDir` and
`MuslCond`. `FatDir` compares lookups and listings with recursive functions along
chains and paths, and `MuslCond` follows its list with a recursive operator: what these
compute for every input is induction over data. `FatVolume`'s properties are about
bytes of three packed formats, with fixed widths and products of the record's
fields, and `Boot`'s and `Devices`' about a fixed program on tables of fixed size, where
the runs leave less open than they do for the other parts. What a chain of clusters is
for every length is induction over data as well: `FatFile` therefore takes `Chain` as
a constant with an assumption, which TLC evaluates on the run's instance, where it
is computed from the table.

## 5. Not modelled

Of the kernel:

* `create_name`, which cuts a path into names, and `get_fileinfo`: sequential work
  on characters, without state that outlives the call;
* `uint2str`, `hex2str`, `int2str`, `strlen`, `memcmp`, the terminal and the log: the
  same, or output only;
* `RemapInterruptsForIO` and the end-of-interrupt functions, `GetSizeOfMemory`: no
  callers. `pf_write` is compiled out, `aligned_alloc` declared and not defined;
* the contents of the segment descriptors, a constant table (which table is in use
  is part of `Boot`), and the access bits of page-table entries, the same in all;
* addresses above 4 GiB in command lists (`Ahci.cpp:52` uses the lower halves only):
  in `Ahci` lists are objects, not addresses.

Of musl, by far the larger part of the repository and not linked into the kernel:
mutexes other than the normal type that `MuslCond` needs, semaphores, read-write
locks, barriers, `pthread_once`, thread exit and joining, streams, asynchronous I/O,
the resolver, sorting; process-shared condition variables and cancellation; nested
groups, `realloc` and the framing of slots in mallocng. Its mathematics, string
functions, regular expressions, locale tables, dynamic linker and system-call
wrappers are sequential code over numbers and strings, or calls into another kernel,
and not a matter for a model checker.
