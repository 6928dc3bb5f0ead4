# TLA+ models of the CS24 projects

This directory holds TLA+ specifications of the programs of this repository
(`src/`, projects of an operating-systems course in C), the TLC configurations
that check them on small instances, and TLAPS proofs of what holds on every
instance.

Run from this directory:

    tlc -workers 2 -config Queue.cfg MCQueueClients     # one run
    tlapm QueueProofs.tla                               # one module of proofs

`PROJECT.json` lists the runs, the map from definitions to source lines, the
mutants that show each property can fail, the hazards and the theorems.

## 1. Inventory

The projects are independent programs. Within a project the parts interact as
described here.

| Part | State it keeps | Operations | Interaction |
|---|---|---|---|
| queue (`project05-wduan/src/queue.c`) | doubly linked nodes, head, tail, size, a mutex, a condition variable | init, enqueue, dequeue (blocks), free | called by any number of threads |
| thread pool (`project05-wduan/src/thread_pool.c`) | the threads, a queue of `work_t`, the number of workers | init, add_work, finish; `execute_work` in each worker | owner and workers share the queue; NULL in the queue ends a worker; work may add work |
| pool clients (`project05-wduan/tests`, `password_cracker.c`) | their own counters, mutexes, condition variables | - | call the pool and the queue |
| implicit-list allocator (`project03-wduan/src/mm-implicit.c`) | headers in the heap, `mm_heap_first`, `mm_heap_last` | malloc, free, realloc, calloc | gets memory from `memlib.c` (`mem_sbrk`), driven by `driver/mdriver.c` |
| explicit-list allocator (`project03-wduan/src/mm-explicit.c`) | headers, footers, links inside free payloads, three static pointers | the same | the same |
| malloc driver (`project03-wduan/driver/mdriver.c`) | a trace, the ranges in use, the random data written to each block | read a trace, replay it, check it, time it | calls an allocator |
| WeensyOS kernel (`project04a-wduan/kernel.c`, `k-vmiter.cc`) | process table, `pages[]` with reference counts, page tables in the same memory, current process | start, page_alloc, yield, getpid, faults, timer, schedule | processes (`p-allocator.cc`) enter it by system calls and exceptions, interrupts off; the memory viewer reads all of it |
| TeenyJVM (`project01-wduan`) | pc, operand stack and locals of each activation, heap of int arrays | one step per instruction, calls by recursion | reads a class file that javac made |
| TeenyBASIC compiler (`project02b-wduan`) | the tree, label counters | parse, fold, compile | the output runs with a small runtime |
| directory tree, FAT16 recovery (`pretest-wduan`) | the tree, the position in the disk image | insert a child in order, walk, create, free | recovery builds the tree as it walks, then writes it out |
| side-channel demonstrations (`project04b-wduan`) | none worth the name | timing loops | - |

What is hard in each, and what makes it correct:

* **Queue.** Interleaving of its critical sections; a signal per value with
  newcomers overtaking the thread that was woken; spurious wakeups; freeing a
  node while the struct still names it. Correct: linearizable to a FIFO queue,
  no wakeup lost, no use of a freed node, no leak.
* **Thread pool.** Markers against work in the same queue, ownership of each
  `work_t`, joining workers that may be asleep, freeing the queue under them.
  Correct: each piece of work is performed exactly once, `finish` returns, and
  only when all is performed and nobody is inside the queue.
* **Allocators.** Long sequences of splits and merges; a stale
  `mm_heap_last`; stale footers and links; the end of the heap; sizes at a
  boundary. Correct: the blocks tile the heap, the client's payloads are
  aligned, disjoint and keep their content, and a request fails only when there
  is no room.
* **Kernel.** Page tables, process pages and the viewer's page come from one
  pool and refer to each other by number; iterators cross the ends of tables;
  memory runs out half way. Correct: each process has a memory of its own, each
  page is accounted for, every runnable process gets its turn.
* **JVM.** Integer widths in arithmetic and in branch offsets; a stack without
  types; recursion with fresh, uninitialised locals; several ways out of an
  activation. Correct: code that javac typed stays typed; nothing leaks.
* **Compiler.** Folding and strength reduction, the order of evaluation, labels
  numbered across recursion, pushes and pops. Correct: the code prints what the
  source means, ends when it should and keeps the calling convention.
* **Directory tree and FAT16.** Insertion keeps the children sorted; the walk
  comes back to where it left and ends where the directory ends.

The hazards are listed one by one, at their lines, in `PROJECT.json`.

## 2. What is modelled

| Module | Models | Status |
|---|---|---|
| `FifoQueue` | what `queue.h` promises: an operation is called, takes effect, returns | abstract |
| `Queue` | `queue.c`, step by step; the mapping to `FifoQueue` | complete |
| `QueueClients` | `Queue` under arbitrary callers | complete |
| `QueueProofs` | proofs about both | |
| `WorkPool` | what `thread_pool.h` promises | abstract |
| `ThreadPool` | `thread_pool.c` on top of `Queue`; the refinement of `WorkPool` | complete |
| `ThreadPoolProofs` | proofs about it: the queue in the pool, and who owns the work | |
| `RecursiveWork` | `tests/recursive_add_work.c` on top of `ThreadPool` | complete |
| `Allocator` | what a client of malloc may rely on (what `mdriver.c` checks of a trace) | abstract |
| `ImplicitHeap` | `mm-implicit.c` and `memlib.c`'s break | complete |
| `ImplicitHeapProofs` | proofs about it | |
| `ExplicitHeap` | `mm-explicit.c` and `memlib.c`'s break, word by word | complete |
| `ExplicitHeapProofs` | proofs about it | |
| `PrivateMemory` | what processes may expect of WeensyOS: a memory each | abstract |
| `PageTable` | `k-vmiter.cc`, `kalloc`: tables in physical memory, and the iterators | complete |
| `Kernel` | `kernel.c` on top of `PageTable`, with `p-allocator.cc` as its processes and `k-memviewer.cc` as its auditor; the refinement of `PrivateMemory` | complete |
| `KernelCalls` | the same kernel under processes that make any calls | complete |
| `KernelProofs` | proofs about all three: the invariant, assertions, isolation, private memories | |
| `IteratorProofs` | proofs about `PageTable` and `Kernel`: the iterators, the viewer's account | |
| `Words` | two's complement words of any width, for the two modules below | |
| `Jvm` | `jvm.c`, `heap.c`, and the lookups of `read_class.c` | complete |
| `JvmTypes` | the typing discipline of class files, and what the interpreter owes to code that keeps it | property |
| `JvmProofs` | proofs about both | |
| `Parser` | `ast.c` and `parser.c`, over tokens | complete |
| `Compiler` | `compile.c`, `compiler.c`, and the machine that runs the result | complete |
| `TeenyBasic` | the meaning of programs, and their sources | property |
| `Recover` | `recover.c`, `fat16.c`, `directory_tree.c` | complete |
| `RecoverProofs` | proofs about it | |

The modules whose names begin with `MC` only give values to constants for TLC.

### Queue

Variables `head`, `tail`, `size`, `lock` are the fields of `struct queue`;
`node` and `alloc` are the `malloc`'d nodes; `pc`, `val` and `loc` say where a
thread is inside an operation and what its argument, result and local pointer
are; `live` is whether the struct is allocated. `order` is a history variable,
the nodes in the order in which they were linked; no guard reads it.

An operation is cut where another thread could tell the difference: at each
pthread call, and inside the critical sections between the change of the list
and the change of the struct, so that the mutex has something to protect. A
thread in `pthread_cond_wait` is at `deq_wait`; `EnqSignal` moves any one of
them, if there is one, to `deq_relock`, and `DeqSpurious` moves one without a
signal. The woken thread competes for the mutex with newcomers, as POSIX allows.
`CallEnqueue` and `CallDequeue` are left to the modules that compose the queue
with its callers. `malloc` is taken to succeed, as the code takes it.

### Thread pool

Thread 0 is the owner, threads 1 to `NumWorkers` run `execute_work`. `at` is the
position in `thread_pool.c`; `pc` of `Queue` is the position inside the queue.
A `work_t` is identified with the job it carries, and `works` is the set of
those allocated. The client is any that honours the header: it adds work from
the owner or from running work while the pool is open, and calls `finish` when
no `add_work` is under way. `RecursiveWork` does not assume this; it replaces
that client with the test's own protocol.

### Allocators

Units are words of 8 bytes and `ALIGNMENT` is two of them, so that a request of
b bytes is one of ceil(b/8) words: both allocators add a multiple of 8 to b
before rounding up to 16. In both modules the allocator's state is one record
and each C function is an operator from that record to the next, so that
`mm_realloc` can call the others as the code does. The client names the blocks
it holds, fills each payload it gets, and forgets what it frees.

In `ImplicitHeap` the headers in use are a function from addresses to size and
bit. `coalesce` is given by its result: a free block takes in the free blocks
that follow it, those up to `mm_heap_last`, which is not moved. In
`ExplicitHeap` each word of the heap holds a tag (header or footer), a link, or
the client's content, because the code keeps all of these in the same memory. A
word that nobody will read before it is written is turned into `Junk`, so that
heaps that differ only in such words are one state.

`memset` through the NULL that `mm_malloc` gave `mm_calloc` sets `crashed`.
Nothing happens after that.

`Allocator` is what the driver demands: aligned payloads inside the heap
(`add_range`), which do not overlap and hold what was written (`check_index`).
It asks more than the driver's test for overlap, which does not see a new block
that encloses an old one.

### WeensyOS

`phys` is physical memory: for each page what it contains (a page table with its
entries, or the content of a process's page, told apart as far as the properties
do) and `pages[].refcount`. `ptable`, `current` and the rest are the kernel's
globals. A `vmiter` is the record of its fields, and `Down`, `Find`, `NextVa`,
`NextRange`, `MemoryMap` are its member functions; `ptiter::down` is the
recursive function `PtStep`, one turn of its loop. The number of levels
(`TopLevel`), the entries of a table (`Fanout`) and the memory are constants.
`process_setup` is the composition of its three loops: the kernel's pages
(`NewSpace`), a page for each page of the program (`MapImage`), their contents
(`LoadImage`).

The kernel runs with interrupts off, so that each entry to it is one action that
ends in `run()`, in the endless loop of `schedule()` or in a halt. Every entry
from a process draws the memory map, which takes a page for the viewer the first
time (`Trap`). `Refresh` and `SymbolAt` compute what it draws; the property
`PagesAccounted` is that it never draws an error. Nothing frees pages: `kfree`,
fork and exit are not implemented in this repository.

The assertions of the kernel are `MapAsserts` (those of `vmiter::try_map`, of
each page that is mapped while the kernel starts, `SetupAsserts`, and in each
call), `check_pagetable` and the state of the process in `Run`, and the viewer's,
of its page and of process 0. One that fails sets `mode` to `panic`, or, process
0 being in no list, shows in `ptable`; `AssertionsHold` is that none does.
Addresses and physical addresses are counted in pages, so that the assertions
that they are aligned cannot be stated.

In `Kernel` a process does what `p-allocator.cc` does: it asks
`sys_page_alloc` for the next page of its heap, stores there, and yields;
besides, it may fault or make a call that panics at any time. In `KernelCalls`
it makes any call at any time, `sys_page_alloc` with any page from
`PROC_START_ADDR` to the stack, its program, its stack and what it has allocated
before included, and stores to any page it may write. A page that is replaced in
this way is left over, taken and in no table, as `kernel.c:338-351` leaves it
although `u-lib.hh:93` says that it should be freed. Of `ImplementsPrivateMemory`
there remains what `u-lib.hh:91-92` promises of a replaced page,
`OnlyOwnMemory`: a step changes the memory of its own process, at one address,
to zeros or what it stored. What `KernelCalls` shows is proved (section 4) and is
not among the runs of `PROJECT.json`; `KernelCalls.cfg` is an instance to explore
it with, of two processes, tables of two levels and 17 pages, in which memory can be
used up by replacing one page again and again (87,364 states, two minutes):

    tlc -workers 2 -config KernelCalls.cfg MCKernel

### TeenyJVM

`frames` are the activations of `execute()`, `heap` the arrays by reference,
`blocks` counts what was malloc'd and not freed. A class file is a record of its
constants and methods, an instruction its opcode, its operands bytes of
`ByteBits` bits; ints have `IntBits`. Every instruction is an action, in groups
of those that differ in an operator only; the caller's half of `invokestatic`
comes with the callee's `Return`. Where C leaves signed overflow and wide shifts
undefined the model wraps and masks, as x86-64 code does; a division that traps
and an access out of an array set `status` to `undefined`, where Java throws; a
failed assertion sets it to `abort`.

`JvmTypes` says, without reference to the interpreter, which class files are
well typed: types of stack and locals at each instruction, as a closure over the
paths through a method, found in as many rounds as there are instructions
(`Verified` says that they were enough). `WellFormed` adds what else javac sees
to: operands are bytes, descriptors list the parameters, no two methods have the
same name and descriptor. `VerifiedCodeIsSafe` says that the interpreter's state
is then always of the type it should be.

### TeenyBASIC

`Parser` has one operator per function of `parser.c`, from a position to a node
and the position reached. `Compiler` has the functions of `compile.c`, from a
node and the label counters to instructions, and a machine: registers `rdi`,
`r10`, `rbp`, the flags and the stack, one action per kind of instruction.
`TeenyBasic` gives a program's source and its meaning by recursion over the
tree. A run picks a source, parses and compiles it and executes the code, from
arbitrary garbage on the stack.

### Directory tree and FAT16

An image is a sequence of 32-byte slots, each of them what an entry read there
would be: `follow` can read anything, contents of files included. A name is a
number, in the order of `strcmp`. `calls` is the recursion of `follow`, `adding`
the loop of `add_child_directory_tree`, turn by turn, `todo` the recursion of
`create_tree`, `files` the file system it writes to.

## 3. The runs

| Run | Instance | What it shows |
|---|---|---|
| `queue` | 3 threads, 2 calls each, 3 nodes, 1 spurious wakeup | `QueueInv` (list, counters, lock and local pointers), no bad dereference, no leak, no lost wakeup, linearizability (`ImplementsFifo`); calls complete as the abstract queue's do (`ImplementsFairFifo`); when callers stop, only dequeues on an empty queue are left (`Quiescence`) |
| `pool` | 2 workers, 2 jobs, 4 nodes, 1 spurious wakeup | markers, ownership, what holds when the pool is freed; the pool implements `WorkPool` with its fairness; `finish` returns |
| `recursive_work` | 2 workers, a tree of depth 1 with 2 leaves | **violated**: see below |
| `implicit_heap` | 3 blocks, 14 words, requests of 0 to 5 words | tiling, exact traversals, `used` exactly where the client holds, failure only without room, and the client's contract (`ImplementsAllocator`) |
| `explicit_heap` | 3 blocks, 22 words, requests of 1 to 4 words | the same, with boundary tags and an exact free list |
| `explicit_zero` | 2 blocks, 14 words, requests of 0 to 2 words | **violated**: see below |
| `kernel` | 3 processes in 5 slots, tables of 3 levels and 6 entries, 27 physical pages | isolation; every page accounted for; the iterators exact; each process has a memory of its own (`ImplementsPrivateMemory`); the assertions hold; every runnable process gets its turn (`RoundRobin`) |
| `jvm` | bytes of 2 bits, ints of 4; all well-typed programs of a prologue and 3 instructions among 24, a loop over an array with a recursion, and an instruction TeenyJVM does not know | `VerifiedCodeIsSafe`, `NothingLeaks` |
| `jvm_branch` | bytes of 8 bits, one far branch | **violated**: see below |
| `basic` | words of 4 bits, 2 variables; expressions of up to two operators, statements nested up to three deep, sources with a token missing | `RunsAsWritten`, `CallingConvention`, `EndsAsWritten` |
| `recover` | 1512 images of up to 13 slots | `Sorted`, `OneParent`, from the first entry to the files written |
| `recover_end` | the same images | **violated**: see below |

### The bounds and why they are enough

* Two consumers and a producer are needed for a lost wakeup (one is woken, one
  sleeps on), a third thread or a second call for a newcomer to overtake; three
  nodes give each of the code's cases of size (0, 1, more). One spurious wakeup
  exercises the loop of `queue.c:67`. Values are passed through untouched, so
  two of them (one NULL) tell orders apart.
* Two workers are needed for one to take the other's marker; of two jobs one can
  run while the other is queued, or is added by it. Liveness rules out symmetry,
  and a third job then takes the run from one minute to more than five.
* 14 words are six of the smallest blocks of `mm-implicit.c`; 22 words are five
  of those of `mm-explicit.c`, which is what it takes to have three free blocks
  apart, hence a free list with a middle node. Requests range over sizes that
  fit with and without a remainder.
* In `kernel` the programs have one page, one segment of two pages, and two
  segments; their address spaces cross the end of a table of the lowest level,
  and the three pages left are fewer than the seven the processes ask for, so
  that exhaustion comes in every order. Five slots leave two that are free, at
  both ends of the scan.
* Bytes of two bits and words of four make overflow, the smallest int, shifts
  past the width and both bytes of an offset occur within reach. `MaxFrames`,
  `MaxArrays` and `MaxOutput` stop recursion, allocation and endless printing.
  In `jvm` the branches are near enough for the low byte of an offset to stay
  positive, or the high one to be its sign; `jvm_branch` has the others.
* Two directory levels and three entries per directory let a child be sunk past
  two others and the walk come back between two entries. Directories end in
  slots never written (all zeroes) or in slots that were used; the image may be
  cut off; contents are read as entries where the walk strays into them.
* `MaxSpurious`, `MaxCalls`, `MemoryLeft`, `MaxHeap`, `MaxRequest`, `WalkBound`,
  `MaxFrames`, `MaxArrays`, `MaxOutput` are the bounds; each is named in the
  module that uses it. Only `MaxHeap` is in the code (`MAX_HEAP`, scaled down).
* `WalkBound` cuts nothing off. The loops over an address space run for as many
  turns as they need; the model gives them that many rounds of that many turns
  (22 in the run), so that TLC need not recurse deeply, and `WalkAssumption`,
  which TLC evaluates, says that this is enough.

### Fairness

Queue and pool: weak fairness of each thread's own steps. The threads are kernel
threads that the scheduler runs, and a mutex that is free is granted. Strong
fairness is not needed although threads compete for a mutex, since in these
instances calls and spurious wakeups are finite in number and cannot overtake
for ever. Clients owe nothing: they need not call, add work or finish. Work
functions are assumed to return.

Kernel: weak fairness of the timer interrupt alone, which `init_timer(HZ)` makes
periodic. Processes owe nothing: one that never yields loses the processor to
the timer. Basic: the processor runs on (weak fairness of the next instruction).

### The violations

* `tests/recursive_add_work.c:23-26` hands work to the pool before counting it.
  The worker can run it and count it down first, so that `remaining_work`
  reaches 0 while its parent is still adding; `main` finishes the pool, and what
  is added behind the NULLs is never performed. Fewer lines are printed than
  the Makefile expects (`Makefile:77`).
* `mm-explicit.c:205` rounds a request for 0 bytes to a block of 16, which has
  no room for the two links of a free node. `mm_free` of it writes the links
  over its footer and the header of the next block; `mm_checkheap`
  (`mm-explicit.c:296`) finds header and footer different. With requests of at
  least one byte everything holds (`explicit_heap`).
* `jvm.c:239-243`, and every branch after it, reads both bytes of the offset as
  signed: a low byte of 128 or more is sign-extended over the high one. A
  branch that far leaves the code or arrives where the stack has another shape,
  and the output is not java's (`project01-wduan/Makefile:42`). With nearer
  branches everything holds (`jvm`).
* `recover.c:16` skips hidden entries before it looks for the end of the
  directory, and an attribute of 0 counts as hidden: the all-zero entry that
  ends a directory is skipped, against the comment in line 20, and `follow`
  reads on into what lies behind. Images whose directories end otherwise, or
  fill their clusters up to something that ends the walk, do not show it.

## 4. What is proved

All for any constants that satisfy the assumptions named in the modules
(`QueueAssumption`, `ClientsAssumption`, `PoolAssumption`, `RecoverAssumption`,
`HeapAssumption` of either allocator, `JvmAssumption`, `JvmTypesAssumption`,
`PageTableAssumption`, `KernelAssumption`, `LayoutAssumption`, `ImageAssumption`,
`BootAssumption`, `WalkAssumption`): any number of threads, values, nodes, workers and jobs; any
heap, number of blocks and requests; any disk image; any class files, words and
bytes of any width; page tables of any depth and width, any memory, any number
of processes with any programs. The assumptions give constants their types and
keep apart what the code keeps apart (NULL is no node, `Junk` no client's
content, `NoBlock` no block).

Those about WeensyOS say in addition what its constants and its linker scripts
fix. `LayoutAssumption`: the kernel lies at the start of physical memory and of
every address space, below `PROC_START_ADDR`, and the stack is in the range of
the leaf table that covers the last page below it, or of the next one
(`kernel.hh`: pages 256 and 767, with 512 entries in a table). `ImageAssumption`:
a program has segments, in the order of their addresses, between
`PROC_START_ADDR` and the stack. `BootAssumption` is what `process_setup` relies
on and does not test: memory is not used up when the last process has been set
up, and the pages of a segment are neighbours in physical memory, since the
segment is filled through the physical address of its first page
(`kernel.c:171-173`). It speaks of the state the model's `kernel_start` computes
from the constants, so that TLC decides it for each machine, and it fails where
`kalloc` has to put a page table between two pages of a segment. `WalkAssumption`
restricts no machine: it asks that the model's bound on the turns of an
iteration, which the code does not have, be large enough for the machine.

Two hypotheses are stronger, and a run shows of each that the theorems are false
without it. Those about the explicit allocator assume `MinRequest >= 1`, requests
of one byte or more (run `explicit_zero`). `VerifiedCodeRunsAsTyped` assumes
`BranchesDecode`, that in each branch the low byte of the distance is less than
128 or the high byte is 255, so that jvm.c reads what was written (run
`jvm_branch`). TLC checks in both runs of the interpreter which side of it their
class files are on (`BranchesAssumption` in `MCJvm`).

| Module | Theorem | Says |
|---|---|---|
| `QueueProofs` | `QueueInvariant`, with `TypeCorrect`, `ListCorrect`, `LockCorrect` | `ClientsSpec => []QueueInv` and its parts |
| | `DereferencesCorrect` | no step uses a NULL or freed node |
| | `Linearizable` | `ClientsSpec => ImplementsFifo` |
| | `NoLeaks` | `ClientsSpec => []NoNodeLeak` |
| | `WakeupsSuffice` | `ClientsSpec => []NoLostWakeup` |
| `ThreadPoolProofs` | `PoolQueueInvariant` | `QueueInv` under the pool's threads |
| | `PoolInvariant`, `PoolTypeCorrect` | the pool's inductive invariant and types |
| | `FreedUnused` | `finish` frees the queue only when nobody is inside it |
| | `PoolWorkInvariant` | who owns each `work_t` and each marker |
| | `NothingCutOff`, `MarkersSuffice`, `WorkHasOneOwner`, `FinishWaitsForAll` | `Spec => []` each of `NothingBehindMarkers`, `OneMarkerPerWorker`, `OneOwnerPerWork`, `FinishWaits` |
| | `PoolRefinesWorkPool` | `Spec => Pool!Spec`, the safety part of `ImplementsPool` |
| `ImplicitHeapProofs` | `AllocInvariant` | the heap is sound, and its used blocks are the client's |
| | `AllocTypes`, `HeapIsTiled`, `LoopsVisitAll`, `NothingLeaksOrIsSharedOut`, `NullMeansNoRoom` | `Spec => []` each of the run's invariants |
| | `AllocatorIsImplemented` | `Spec => ImplementsAllocator` |
| `ExplicitHeapProofs` | `AllocInvariant` | the heap is sound, and its used blocks are the client's |
| | `FootersAreHeaders`, `HeapIsCoalesced`, `FreeListIsExact`, `NothingLeaksOrIsSharedOut`, `NullMeansNoRoom` | `Spec => []` each of the run's invariants |
| | `AllocatorIsImplemented` | `Spec => ImplementsAllocator` |
| `RecoverProofs` | `RecoverTypes` | the types of the walk, the tree and the insertion under way |
| | `ChildrenSorted`, `NodesFreedOnce` | `Spec => []Sorted`, `Spec => []OneParent` |
| `KernelProofs` | `KernelInvariant` | the pages have roles that fit their reference counts and the page tables |
| | `KernelTypes`, `KernelIsolates` | `Spec => []` of `KernelTypeOK`, `Isolation` |
| | `NeverPanics` | `Spec => []AssertionsHold`: for `p-allocator.cc`'s processes |
| | `KernelGivesPrivateMemory` | `Spec => ImplementsPrivateMemory` |
| | `CallsNeverPanic`, `CallsIsolated` | `CallSpec => []` of `AssertionsHold`, `Isolation`: for any processes, `sys_page_alloc` with any address that `u-lib.hh:97` allows |
| | `CallsKeepToThemselves` | `CallSpec => OnlyOwnMemory` |
| `IteratorProofs` | `IteratorsAreExact` | `Spec => []IteratorsExact`: `vmiter::find` and `ptiter` |
| | `EveryPageAccounted` | `Spec => []PagesAccounted`: the memory viewer's account |
| `JvmProofs` | `EverythingIsFreed` | `Spec => []NothingLeaks` |
| | `VerifiedCodeRunsAsTyped` | `Spec => []VerifiedCodeIsSafe`, if `BranchesDecode` holds of all class files |

**The queue.** `ListShape`, what the list looks like, is not inductive by
itself, because a thread half way through a dequeue has freed the head while the
struct still names it. `QueueInv` adds that the mutex is held exactly in the
critical sections (`LockDiscipline`, hence at most one thread is half way, lemma
`OneInside`), what the local pointers of that thread name (`LocalPointers`), and
the types. `QueueProofs` has one lemma per action; the lemmas speak of actions
only, so the theorems about `QueueClients` and `ThreadPoolProofs` both use them. For
refinement, the step that links a node is the abstract Enqueue and the step that
takes it out is the abstract Dequeue; every other step is a call, a return or a
stutter, which needs `Links` (the values in the linked nodes do not change) and
`HeadTailSize` (the head is the first of the order).

For `WakeupsSuffice` the invariant is `WakeInv`: if a thread sleeps, the values
in the list are no more than the threads on their way to take one, and these are
finitely many, so that cardinalities can be compared. Linking a value without a
signal breaks nothing because the thread that links counts as on its way until
it has signalled; the signal replaces it by the thread it wakes. A thread goes
to sleep only with the mutex, on an empty list.

**The pool.** The queue is freed after the joins, a join waits for an exited
worker, and a worker exits outside the queue. `PoolInv` relates the loop counter
to the workers joined and says that a thread is inside the queue only while `at`
is a call. `WorkInv` adds what the queue's content means:
every `work_t` allocated is in exactly one place, the hands of the thread that
adds it, the queue, or the hands of the worker that took it; the NULLs linked so
far are those queued and those taken, no worker has taken two, and behind a NULL
there are only NULLs. That no marker overtakes work comes from the client, which
calls `finish` after its last `add_work` has returned, and from `FifoQueue`'s
order. The proof uses the queue only through its refinement: each pool step is a
step of the abstract queue, seen through the mapping in `Queue`.

**The implicit allocator.** `AllocInv` says that the heap is `Sound`, that is,
that the headers tile it, and that the used blocks are those the client holds:
`mm_free` is right only because its argument is one of them. There is a lemma
for each function of `mm-implicit.c` (`Split`, `Extend`, `Coalesce`, `Malloc`,
`Release`) that says which blocks there are after it. The delicate one is
`Coalesce`, which merges runs of any length at once: each block that is left has
one end, where the next begins, and no word has two owners because a header has
only one predecessor. `mm_heap_last` may lie inside a block; it is enough that
no header is beyond the block it lies in (`LoopsVisitAll`). When `mm_realloc`
moves a block it copies the whole old payload, which fits in the new one since
sizes are even and the old block was smaller.

**The explicit allocator.** Here the invariant must speak of words. `Tiled(h, B)`
says that the words of `h` describe the blocks `B`, tag by tag; `Listed(h, F, n)`
that they describe the free list `F[1], ..., F[n]`. Each function is followed
from one such description to the next (`SplitIs`, `MergeIs`, `ExtendIs` for the
tags, `AddIs`, `RemoveIs`, `TakeWholeIs` for the links), and what it does not
touch `Stands`, word for word. `Separate`, that no two free blocks touch, is what
makes one merge on either side enough. Only at the end are the walks of
`ExplicitHeap` (`FreeNode`, `BlockAt`) shown to find `F` and `B`: a list of
different odd words is shorter than the walk, by the pigeonhole principle
(`FewNodes`), and a walk that went wrong would have a first wrong step. So the
first node's stale left link (a hazard) needs no mention: `Listed` does not say
what it holds, and no function's lemma needs to know.

**The tree.** `Sorted` lets the one child that is being sunk be out of order with
those before it, and only with those: it is the child at `adding.index`. A turn
of the loop exchanges it with its predecessor when it is less, and otherwise,
being no less than it, no less than all before it. That an insertion is under way
only inside a directory that exists comes from `TreeTypes`. `OneParent` follows
from `PlaceInv` (lemma `PlacesAreParents`): a node's parent is the directory
it was created in, an exchange permutes the places of one directory, and a new
node's id is new.

**The kernel.** `Isolation` speaks of what a walk through the page tables finds.
It is not inductive, since a walk passes through pages that hold tables, and
nothing in it says that these are not at the same time the data of somebody, or
the tables of somebody else, nor that a page about to be handed out is in no
table. `KernelInv` says that there is an assignment `G` of roles to the physical
pages: each is free, the viewer's, the table of one process at one level for one
range of addresses, or the data of one process at one address. `Layout` relates
it to memory. Each entry of each table names a page whose role is the one that
the entry's own place gives it (`EntriesFit`); a page has a role exactly if it is
counted, once, and no two pages have the same role (`Owned`); and each page with
a role is found where its role says (`Linked`), so that none is lost. For each
process `Holds` adds which addresses it has, `Maps`, and that the tables for all
of them are there.

With roles a walk needs no induction over memory: after i turns it is at the
table whose role is the prefix of the address (`WalkOnPath`), an argument about
digits of addresses in base `Fanout` (`PrefixIs`). From walks the proof goes to
`memory_map`, which adds at most one table for each level, each with a fresh
page and so with a role nobody has, and leaves what every other address finds as
it was; then to the loops of `process_setup`, to `kernel_start`, and to the
actions. A `syscall_page_alloc` cannot run out of memory half way, because the
tables for all addresses up to the stack were made at boot: the stack is mapped
last, in the table of the heap or the one after it. That is why the unchecked
result of `memory_map` (`kernel.c:346`) does no harm, and it is where
`LayoutAssumption` is used. For the refinement, the content found at an address
is the abstract memory's; a trap changes it nowhere, a `PageAlloc` adds one
zeroed page, and a store changes one page that no other address shows.

`Spec` speaks of processes that pass `sys_page_alloc` the next page of their
heap, so that `KernelIsolates` and `NeverPanics` speak of no others. For
`CallSpec` the invariant is weakened in two places, and the same lemmas carry
it: a process's addresses are any set that includes its stack (`HasStack`), which
keeps the tables for all addresses below it, and a page may be counted and
have no role if it was replaced (`Lost`). Replacing a page changes one leaf
entry (`ReplaceIs`); the page that was there is in no other, since no two pages
have one role, so nobody can reach it again (`CallAllocates`). The
assertions of `try_map` hold because all entries above a leaf allow everything,
which is part of `Layout`, and because a table is hung only where none was.

The iterators read tables only, so that `Layout` is all their proofs need.
`find` starts over from the root only where the walk would leave the table it is
at, and otherwise goes on as the walk from the root does (`WalksAgree`,
`FindIs`). The viewer's loop over user pages goes up with every turn by one
page or to the end of an absent range, which hides no page of the user's
(`UserStepIs`), so that it ends (`RunClimbs`) having seen all of them
(`UserPagesAre`). `ptiter` does not go up with every turn: it starts over from
the root when it has come to the end of a table. What does go up is a rank,
whose digits are the leaf table's range that the address is in, the level it
will stop at, and how far down it has come (`Rank`, `PtStepHolds`). Along the way
the pages it has stopped at are those of the tables that its place has passed
(`PastTables`): the tables of lower addresses, and of those for the address it is
at the ones below the level it has come up to. A table is added when it is
passed, hence once and after its children; and at the end all are passed
(`EndPast`). The account of the viewer is then a
matter of roles: the tables of `p` are the pages with the role of a table of `p`
(`TablePagesAre`), the user pages those with the role of its data, and the
console (`UserPagesOf`), and no page has two roles.

TLC cannot evaluate `KernelInv` itself, which claims that some `G` exists out of
too many; it checks the invariants that follow from it.

**The interpreter.** `NothingLeaks` needs no types: `LeakInv` adds to it only
that there is a frame while the program runs and that references are numbered
from 0, and holds of any class file whatever; `JvmTypesAssumption` is not used.

Type soundness is the usual argument, for this interpreter. `SafeInv` says of the
innermost frame that pc, stack and locals are those of a type state of its method
(`Running`); of every other frame that it is in a type state of an
`invokestatic`, without the arguments, and that the frame above it runs the
method which that instruction names (`Waiting`); and that arrays hold ints.
`VerifiedCodeIsSafe` alone is not inductive: it does not say that a caller waits
for the method above it, so that the type of what comes back would be unknown,
nor that main returns nothing. The steps are one lemma per action. What the
instructions share is in `TakenFits`, which takes the items off the stack, and
`ResumeRuns`, which pushes the results and finds the next type state; a call is
the first half of one instruction and the return of the callee the second.
`PopsIs` and `SoundIs` compare the interpreter's own table of pops and pushes
with the types. `find_method` finds the one method that the descriptor names
(`CalleeIs`). The values stay ints by lemmas about words: every operator of
`Apply` but a division that traps gives a word (`ApplyIsInt`), a byte or two make
one (`BytesAreInts`), and the distance read is the distance written
(`DistanceIs`). Instructions that the interpreter does not know stop it, so
nothing is assumed of the code behind them. Division by zero, negative sizes and
indexes out of range are not excluded by types: they set `status` to `undefined`,
where Java throws, and the theorem says nothing of what C does then.

Only model-checked: the compiler, and all liveness (fairness and ENABLED are
beyond the prover). What the
compiler and the parser compute is defined by recursion over trees, about which
the prover can do no induction. Induction over numbers is done by hand where it
is needed: a set of naturals has a least element (`LeastNat`), so a recursive
function that goes wrong has a first place where it does.

The prover's SMT backend takes `DOMAIN s = 1 .. Len(s)` to hold of whatever `Len`
is applied to. The proofs apply it only to what is shown to be a sequence, which
is what `IsSeq` in `JvmProofs` is for.

## 5. Plan

Every component that keeps state is modelled, and every safety property of the
runs is proved but those of the compiler, which stays with TLC: its meaning and
its code are defined by recursion over trees. Nothing else is planned.

## 6. Not modelled

* `password_cracker.c` uses the pool as `ThreadPool`'s client may; its own work
  is string handling around `crypt_r`. Its dictionary, `dictionary_words.h`, is
  72,000 lines of data, more than all the code of the repository: that the map
  covers a small share of the lines is due to it.
* `project04b-wduan` measures cache timings.
* The malloc driver's reading of traces, timing and statistics. Overflow of
  `nmemb * size` in calloc.
* WeensyOS: boot loader, hardware initialisation, console, C library, the
  keyboard's reboot and poweroff at the tick limit, registers; which process the
  viewer shows; the contents of `kernel_pagetable`, which does not change after
  the start. Arguments that `u-lib.hh:97` does not allow `sys_page_alloc`:
  `syscall_page_alloc` does not refuse them (the comment at `kernel.c:332-335`
  says that it falls short of `u-lib.hh`), so that of a process that passes an
  address not aligned, in the kernel's range or beyond the stack no theorem and no
  run says anything; the first stops the kernel (`k-vmiter.cc:73`). The
  properties of the run `kernel`, `RoundRobin` among them, are for processes that
  behave as `p-allocator.cc`'s; `KernelCalls` lifts that for `AssertionsHold` and
  `Isolation`. `p-fork.cc` and `p-forkexit.cc`
  need calls the kernel does not have.
* TeenyJVM: the decoding of class files, and what is printed.
* TeenyBASIC: how characters make tokens (numbers, keywords up to 100 letters,
  comments), the printing of the tree, and sources whose constants divide by
  zero, on which the compiler itself traps. Two kinds of malformed source that
  the parser accepts are not among the run's: a keyword where a factor belongs,
  whose first letter it reads as a variable (`parser.c:170-172`; `factor` in the
  model, where a keyword is one token, finds nothing), and an ELSE whose branch
  fails just before END IF (`parser.c:267`).
* Recovery: the bytes of the boot record, the characters of names, the printed
  tree, and errors of the host's file system other than those a name causes.
  Entries with cluster 0 or 1, from which `fat16.c:27` subtracts 2 unchecked.
* Failure of `malloc` and `pthread_create`, which project05 does not check, is
  an immediate crash and is left out.
