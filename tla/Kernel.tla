--------------------------------- MODULE Kernel --------------------------------
(****************************************************************************)
(* WeensyOS: kernel.c over PageTable, running processes that behave as      *)
(* p-allocator.cc does, except that they may also fault or ask for a call   *)
(* that panics; KernelCalls runs any processes instead.                     *)
(* The kernel runs with interrupts off, so each entry to it,                *)
(* by system call, fault or timer, is one action that ends in run() or in a *)
(* halt.  What memshow() draws is an operator (Refresh, SymbolAt); that the *)
(* viewer keeps a page for itself is part of every trap.                    *)
(****************************************************************************)
EXTENDS PageTable, Integers, FiniteSets

CONSTANTS NPROC,
          Reserved,      \* reserved_physical_address
          KernelImage,   \* pages with exception_entry and kernel_pagetable
          Console,       \* CONSOLE_ADDR
          ProcStart,     \* PROC_START_ADDR
          MemVirtual,    \* MEMSIZE_VIRTUAL
          Image,         \* pid -> the segments of its program, <<first page, pages>>
          WalkBound      \* rounds of as many turns in which an iteration over a table ends

ASSUME KernelAssumption ==
    /\ NPROC \in Nat
    /\ \E n \in 1 .. NPROC - 1 : DOMAIN Image = 1 .. n
    /\ Reserved \cup KernelImage \subseteq Pages \ Allocatable
    /\ Console \in Reserved

Pids      == 0 .. NPROC - 1
Processes == DOMAIN Image
StackPage == MemVirtual - 1

\* The constants of kernel.hh: the kernel's pages are at the start of memory and of
\* every address space, the stack in the range of their last table or the next.
ASSUME LayoutAssumption ==
    /\ ProcStart \in Nat /\ MemVirtual \in Nat
    /\ ProcStart < MemVirtual /\ MemVirtual < VaEnd
    /\ StackPage \div Fanout <= (ProcStart - 1) \div Fanout + 1
    /\ 0 .. ProcStart - 1 \subseteq Pages
    /\ KernelImage \cup {Console} \subseteq 1 .. ProcStart - 1

\* Segments of whole pages, in the order of their addresses, below the stack.
ASSUME ImageAssumption ==
    \A p \in Processes :
       /\ Image[p] \in Seq(Nat \X Nat) /\ Image[p] # <<>>
       /\ \A i \in DOMAIN Image[p] :
             /\ ProcStart <= Image[p][i][1] /\ 0 < Image[p][i][2]
             /\ Image[p][i][1] + Image[p][i][2] <= StackPage
             /\ \A j \in DOMAIN Image[p] :
                   i < j => Image[p][i][1] + Image[p][i][2] <= Image[p][j][1]

\* Enough turns to stop at every page of an address space, and to pass each leaf table
\* as often as an iterator can.
ASSUME WalkAssumption ==
    /\ WalkBound \in Nat
    /\ VaEnd <= WalkBound * WalkBound
    /\ (VaEnd \div Fanout + 1) * ((TopLevel + 1) * (TopLevel + 2)) <= WalkBound * WalkBound

VARIABLES phys,     \* memory contents and pages[].refcount
          ptable,   \* state and page table of each process slot
          current,
          mode,     \* "user" when current runs; "spin" in schedule(); "asked" when a
              \* process asked for a panic; "panic" after a failed assertion or a
              \* fault of the kernel's
          viewer,   \* global_mu.v_: the memory viewer's own page
          at,       \* p-allocator.cc: where the process is
          heap_top

vars == <<phys, ptable, current, mode, viewer, at, heap_top>>

Root(p)       == ptable[p].pagetable
Runnable(pt, p) == pt[p].state = "P_RUNNABLE"

----------------------------------------------------------------------------
(* kernel_start *)

\* map_to_nobody, map_to_kernel_space, map_to_user_space (util.c).
MapIdentity(k, root, va, perm) == MemoryMap(k, root, va, va, perm).k

\* Memory after each page of the kernel's; below, of a segment, and after each segment.
LowMaps(k, root) ==
    LET r[va \in 0 .. ProcStart] ==
            IF va = 0 THEN k ELSE MapIdentity(r[va - 1], root, va - 1, {"P", "W"})
    IN r

MapKernelSpace(k, root) == LowMaps(k, root)[ProcStart]

\* A mutant: the page is counted again, as in the lines that are commented out.
MapNewCounted(k, root, va) ==
    LET pa == FreePage(k)
    IN MemoryMap(Take(Take(k, pa), pa), root, va, pa, PWU).k

\* A new page at va; the result of memory_map is not looked at.
MapNew(k, root, va) ==
    LET pa == FreePage(k)
    IN IF pa = NoPage THEN MemoryMap(k, root, va, 0, PWU).k
       ELSE MemoryMap(Take(k, pa), root, va, pa, PWU).k

MapNewAsserts(k, root, va) ==
    LET pa == FreePage(k)
    IN IF pa = NoPage THEN MapAsserts(k, root, va, 0, PWU)
       ELSE MapAsserts(Take(k, pa), root, va, pa, PWU)

SegmentMaps(k, root, seg) ==
    LET r[n \in 0 .. seg[2]] == IF n = 0 THEN k ELSE MapNew(r[n - 1], root, seg[1] + n - 1)
    IN r

MapSegment(k, root, seg) == SegmentMaps(k, root, seg)[seg[2]]

\* memset and memcpy through the physical address of the segment's first page.
LoadSegment(k, root, seg, pid) ==
    LET pa == Pa(k, Vmiter(k, root, seg[1]))
    IN [k EXCEPT !.mem = [q \in Pages |->
           IF q \in pa .. pa + seg[2] - 1 THEN Data("image", pid, seg[1] + (q - pa))
           ELSE @[q]]]

NewRoot(k, root) == [Take(k, root) EXCEPT !.mem[root] = EmptyTable]

\* A new page table: the kernel's pages, not page 0, and the console for all.
NewSpace(k) ==
    LET root == FreePage(k)
        low  == MapIdentity(MapKernelSpace(NewRoot(k, root), root), root, 0, {})
    IN [k |-> MapIdentity(low, root, Console, PWU), root |-> root]

ImageMaps(k, root, segs) ==
    LET r[i \in 0 .. Len(segs)] == IF i = 0 THEN k ELSE MapSegment(r[i - 1], root, segs[i])
    IN r

MapImage(k, root, segs) == ImageMaps(k, root, segs)[Len(segs)]

LoadImage(k, root, segs, pid) ==
    LET r[i \in 0 .. Len(segs)] == IF i = 0 THEN k ELSE LoadSegment(r[i - 1], root, segs[i], pid)
    IN r[Len(segs)]

process_setup(k, pid) ==
    LET s    == NewSpace(k)
        segs == Image[pid]
    IN [k    |-> MapNew(LoadImage(MapImage(s.k, s.root, segs), s.root, segs, pid), s.root, StackPage),
        root |-> s.root]

\* The assertions of try_map in every memory_map of process_setup.
SetupAsserts(k, pid) ==
    LET s    == NewSpace(k)
        new  == NewRoot(k, s.root)
        low  == MapIdentity(MapKernelSpace(new, s.root), s.root, 0, {})
        segs == Image[pid]
    IN /\ \A va \in 0 .. ProcStart - 1 :
             MapAsserts(LowMaps(new, s.root)[va], s.root, va, va, {"P", "W"})
       /\ MapAsserts(low, s.root, Console, Console, PWU)
       /\ \A i \in DOMAIN segs : \A n \in 0 .. segs[i][2] - 1 :
             MapNewAsserts(SegmentMaps(ImageMaps(s.k, s.root, segs)[i - 1], s.root, segs[i])[n],
                           s.root, segs[i][1] + n)
       /\ MapNewAsserts(LoadImage(MapImage(s.k, s.root, segs), s.root, segs, pid), s.root, StackPage)

\* The first page after the program's: where the heap begins (p-allocator.cc).
End(pid) == LET s == Image[pid][Len(Image[pid])] IN s[1] + s[2]

\* Memory and page tables when p processes have been set up; the set of one element
\* gives what was there before p a value.
Boot == [mem |-> [q \in Pages |-> Junk], refcount |-> [q \in Pages |-> 0]]
Booted[p \in 0 .. Cardinality(Processes)] ==
    LET add(s, t) == [k |-> t.k, roots |-> Append(s.roots, t.root)]
    IN IF p = 0 THEN [k |-> Boot, roots |-> <<>>]
       ELSE CHOOSE y \in {add(s, process_setup(s.k, p)) : s \in {Booted[p - 1]}} : TRUE

kernel_start == Booted[Cardinality(Processes)]
BootAsserts  == \A p \in Processes : SetupAsserts(Booted[p - 1].k, p)

\* What process_setup relies on and does not test: kalloc never fails, and the
\* pages of a segment, which it fills through the first, are neighbours (169-174).
BootAssumes ==
    /\ Free(kernel_start.k) # {}
    /\ \A p \in Processes :
          LET s == NewSpace(Booted[p - 1].k)
              m == MapImage(s.k, s.root, Image[p])
              pa(va) == Pa(m, Vmiter(m, s.root, va))
          IN \A i \in DOMAIN Image[p] : \A n \in 0 .. Image[p][i][2] - 1 :
                pa(Image[p][i][1] + n) = pa(Image[p][i][1]) + n

ASSUME BootAssumption == BootAssumes

Init ==
    \E s \in {kernel_start} :
       /\ phys = s.k
       /\ ptable = [p \in Pids |->
              IF p \in Processes THEN [state |-> "P_RUNNABLE", pagetable |-> s.roots[p]]
              ELSE [state |-> "P_FREE", pagetable |-> NoPage]]
       /\ current = 1
       /\ mode = IF BootAsserts THEN "user" ELSE "panic"
       /\ viewer = NoPage
       /\ at = [p \in Processes |-> "start"]
       /\ heap_top = [p \in Processes |-> End(p)]

----------------------------------------------------------------------------
(* Leaving the kernel *)

\* The kernel runs in the page table of the process: its entry points and its own
\* table must be where they physically are.
check_pagetable(k, root) == \A pa \in KernelImage : Pa(k, Vmiter(k, root, pa)) = pa

\* run(p), with its assertion.
Run(p, k, pt) ==
    /\ current' = p
    /\ mode' = IF Runnable(pt, p) /\ check_pagetable(k, pt[p].pagetable) /\ viewer' # NoPage
               THEN "user" ELSE "panic"

\* A mutant: the search starts from process 0.
ScheduleFromStart(k, pt) ==
    LET next == {p \in Pids \ {current} : Runnable(pt, p)}
    IN IF next = {} THEN Run(current, k, pt)
       ELSE Run(CHOOSE p \in next : \A q \in next : p <= q, k, pt)

\* schedule(): the next runnable process after the current one, which comes last.
Schedule(k, pt) ==
    LET turns == {i \in 1 .. NPROC : Runnable(pt, (current + i) % NPROC)}
    IN IF turns = {} THEN mode' = "spin" /\ UNCHANGED current
       ELSE Run((current + (CHOOSE i \in turns : \A j \in turns : i <= j)) % NPROC, k, pt)

----------------------------------------------------------------------------
(* Entering the kernel *)

\* A mutant: the viewer does not count its page.
ShownUncounted == [k |-> phys, page |-> IF viewer # NoPage THEN viewer ELSE FreePage(phys)]

\* memusage::refresh takes a page for the viewer the first time it is called.
Shown == IF viewer # NoPage \/ FreePage(phys) = NoPage THEN [k |-> phys, page |-> viewer]
         ELSE [k |-> Take(phys, FreePage(phys)), page |-> FreePage(phys)]

\* A trap from user mode, up to memshow().
Trap == mode = "user" /\ viewer' = Shown.page

\* exception(), INT_IRQ + IRQ_TIMER: at any moment of a process.
TimerInterrupt ==
    /\ Trap
    /\ phys' = Shown.k
    /\ Schedule(phys', ptable)
    /\ UNCHANGED <<ptable, at, heap_top>>

MayWrite(p, va) == PWU \subseteq Perm(phys, Vmiter(phys, Root(p), va))

\* exception(), INT_PF: the process used an address it has no page at.
PageFault ==
    /\ Trap
    /\ ~ MayWrite(current, 0)
    /\ phys' = Shown.k
    /\ ptable' = [ptable EXCEPT ![current].state = "P_BROKEN"]
    /\ Schedule(phys', ptable')
    /\ UNCHANGED <<at, heap_top>>

\* SYSCALL_GETPID, the first thing process_main does; it returns to the process.
Getpid ==
    /\ Trap
    /\ at[current] = "start"
    /\ at' = [at EXCEPT ![current] = "loop"]
    /\ phys' = Shown.k
    /\ mode' = IF viewer' = NoPage THEN "panic" ELSE mode
    /\ UNCHANGED <<ptable, current, heap_top>>

\* SYSCALL_YIELD: rand() kept the process from allocating, or it has stopped.
Yield ==
    /\ Trap
    /\ at[current] \in {"loop", "done"}
    /\ phys' = Shown.k
    /\ Schedule(phys', ptable)
    /\ UNCHANGED <<ptable, at, heap_top>>

\* A mutant: without the memset.
syscall_page_alloc_unzeroed(k, addr) ==
    LET pa == FreePage(k)
    IN IF pa = NoPage THEN [k |-> k, result |-> -1]
       ELSE [k |-> MemoryMap(Take(k, pa), Root(current), addr, pa, PWU).k, result |-> 0]

\* A mutant: physical page addr, as the assertion that is commented out has it (339),
\* without that assertion.
syscall_page_alloc_identity(k, addr) ==
    IF addr \notin Pages \/ Free(k) = {} THEN [k |-> k, result |-> -1]
    ELSE [k |-> [MemoryMap(k, Root(current), addr, addr, PWU).k EXCEPT
                    !.refcount[addr] = 1], result |-> 0]

\* syscall_page_alloc(addr).  The result of memory_map is not looked at: what it
\* could not map is zeroed through address -1, a fault of the kernel.  A result of 1
\* is none: the kernel has stopped.
syscall_page_alloc(k, addr) ==
    LET pa == FreePage(k)
        clear(k1, ptr) == IF ptr = NoPage THEN [k |-> k1, result |-> 1]
                          ELSE [k |-> [k1 EXCEPT !.mem[ptr] = Zero], result |-> 0]
        zero(k1) == clear(k1, Pa(k1, Vmiter(k1, Root(current), addr)))
    IN IF pa = NoPage THEN [k |-> k, result |-> -1]
       ELSE IF ~ MapNewAsserts(k, Root(current), addr) THEN [k |-> Take(k, pa), result |-> 1]
       ELSE zero(MemoryMap(Take(k, pa), Root(current), addr, pa, PWU).k)

\* SYSCALL_PAGE_ALLOC, at heap_top unless that has reached the stack.
PageAlloc ==
    /\ Trap
    /\ at[current] = "loop"
    /\ heap_top[current] # StackPage
    /\ \E r \in {syscall_page_alloc(Shown.k, heap_top[current])} :
          /\ phys' = r.k
          /\ at' = [at EXCEPT ![current] = IF r.result < 0 THEN "done" ELSE "write"]
          /\ mode' = IF r.result > 0 \/ viewer' = NoPage THEN "panic" ELSE mode
    /\ UNCHANGED <<ptable, current, heap_top>>

\* SYSCALL_PANIC, a call without a case (SYSCALL_FORK, SYSCALL_EXIT), or an exception
\* without one, such as a division by zero: the kernel panics, as it should.
Panic ==
    /\ Trap
    /\ mode' = "asked"
    /\ phys' = Shown.k
    /\ UNCHANGED <<ptable, current, at, heap_top>>

----------------------------------------------------------------------------
(* In user mode *)

ReachStack ==
    /\ mode = "user"
    /\ at[current] = "loop"
    /\ heap_top[current] = StackPage
    /\ at' = [at EXCEPT ![current] = "done"]
    /\ UNCHANGED <<phys, ptable, current, mode, viewer, heap_top>>

\* The process stores its pid in its new page, and in the console, whose content
\* is left out.
WriteHeap ==
    /\ mode = "user"
    /\ at[current] = "write"
    /\ MayWrite(current, heap_top[current])
    /\ MayWrite(current, Console)
    /\ phys' = [phys EXCEPT !.mem[Pa(phys, Vmiter(phys, Root(current), heap_top[current]))] =
                   Data("stored", current, 0)]
    /\ at' = [at EXCEPT ![current] = "loop"]
    /\ heap_top' = [heap_top EXCEPT ![current] = @ + 1]
    /\ UNCHANGED <<ptable, current, mode, viewer>>

Next == \/ TimerInterrupt \/ PageFault \/ Getpid \/ Yield \/ PageAlloc \/ Panic
        \/ ReachStack \/ WriteHeap

Spec == Init /\ [][Next]_vars

\* The timer is periodic and user mode runs with interrupts on.
FairSpec == Spec /\ WF_vars(TimerInterrupt)

----------------------------------------------------------------------------
(* The memory viewer: what it takes each physical page to be. *)

\* vmiter over a whole address space, as refresh() moves it: the user's pages.
UserStep(k, s) ==
    IF s.it.va >= VaEnd THEN s
    ELSE IF User(k, s.it)
    THEN [it |-> NextVa(k, s.it), seen |-> s.seen \cup {Pa(k, s.it)}]
    ELSE [it |-> NextRange(k, s.it), seen |-> s.seen]
UserPages(k, root) ==
    Rounds(LAMBDA s : UserStep(k, s), LAMBDA s : s.it.va >= VaEnd,
           [it |-> Vmiter(k, root, 0), seen |-> {}], WalkBound).seen

RangeOf(s) == {s[i] : i \in DOMAIN s}

\* The page tables of p, by ptiter, and the root.
TablePages(k, root) == RangeOf(Ptiter(k, root, WalkBound).pages) \cup {root}

\* memusage::refresh: <<p, pa, what>> for each page that is a table of process p, or
\* that p may use.
Refresh ==
    UNION {{<<p, pa, "kernel">> : pa \in TablePages(phys, Root(p))}
           \cup {<<p, pa, "user">> : pa \in UserPages(phys, Root(p))} : p \in Processes}

\* memusage::symbol_at, with v the marks of pa.
SymbolAt(pa, v) ==
    LET pids == {m[1] : m \in v}
        kind == {m[3] : m \in v}
    IN IF pa = Console THEN "C"
       ELSE IF pa \in Pages \ Allocatable THEN
           IF pids # {} THEN "error" ELSE IF pa \in Reserved THEN "R" ELSE "K"
       ELSE IF pids = {} THEN IF pa = viewer THEN "K" ELSE "."
       ELSE IF "user" \in kind /\ ("kernel" \in kind \/ pa = viewer) THEN "error"
       ELSE IF Cardinality(pids) > 1 THEN "S"
       ELSE "process"

----------------------------------------------------------------------------
(* Properties *)

Contents == {Junk, Zero} \cup {Data("stored", p, 0) : p \in Processes}
            \cup {Data("image", p, va) : p \in Processes, va \in 0 .. MemVirtual}

\* The types of the process table (kernel.c:23-25), of pages[] and of physical memory.
KernelTypeOK ==
    /\ \A pa \in Pages : \/ phys.mem[pa] \in Contents
                         \/ /\ IsTable(phys.mem[pa])
                            /\ phys.mem[pa].entry \in
                                  [Index -> [pa : Pages, perm : SUBSET PWU]]
    /\ phys.refcount \in [Pages -> 0 .. 1]
    /\ ptable \in [Pids -> [state : {"P_FREE", "P_RUNNABLE", "P_BROKEN"},
                            pagetable : Allocatable \cup {NoPage}]]
    /\ current \in Processes
    /\ mode \in {"user", "spin", "asked", "panic"}
    /\ viewer \in Allocatable \cup {NoPage}
    /\ at \in [Processes -> {"start", "loop", "write", "done"}]
    /\ heap_top \in [Processes -> 0 .. StackPage]

\* No assertion of the kernel fails but by a process that asks for a panic, and the
\* kernel does not fault: those of try_map (k-vmiter.cc:73-86) while it starts and in
\* every call, run()'s of the state and of the page table (kernel.c:383, k-hardware.cc
\* :305, 309), and the viewer's, of its page and of process 0 (k-memviewer.cc:73, 234).
AssertionsHold == mode # "panic" /\ ptable[0].state = "P_FREE"

\* Below PROC_START_ADDR a process may use the console only; every page it may use
\* above is its own, never a page table, a page of the viewer or of another process
\* (test_script.py, confirm_kernel_isolation and confirm_process_isolation).
Isolation ==
    LET maps == UNION {{<<p, va, Pa(phys, Vmiter(phys, Root(p), va))>> :
                           va \in {w \in 0 .. MemVirtual : User(phys, Vmiter(phys, Root(p), w))}} :
                       p \in Processes}
    IN /\ \A m \in maps :
             IF m[2] < ProcStart THEN m[2] = Console /\ m[3] = Console
             ELSE m[2] < MemVirtual /\ m[3] \in Allocatable \ {viewer} /\ ~ IsTable(phys.mem[m[3]])
       /\ \A m, n \in maps : m[3] = n[3] /\ m[3] # Console => m = n
       /\ \A p \in Processes : {Console, StackPage} \subseteq {m[2] : m \in {n \in maps : n[1] = p}}

\* Every page kalloc gave out is found again by the memory viewer, as one process's
\* or its own, and every other allocatable page is free: nothing is leaked or counted
\* twice, and the viewer's own errors and its sign for a shared page never show
\* (k-memviewer.cc:125-174).
PagesAccounted ==
    LET marks == Refresh
    IN \A pa \in Pages :
          LET sign == SymbolAt(pa, {m \in marks : m[2] = pa})
          IN /\ sign \notin {"error", "S"}
             /\ pa \in Allocatable => (sign = "." <=> phys.refcount[pa] = 0)

\* vmiter::find finds from wherever the iterator stands what a new iterator would,
\* and ptiter passes every table below the root once, and after the tables below it,
\* so that freeing them in that order is safe (k-vmiter.hh:84-92).
IteratorsExact ==
    LET probes   == {0, Console, Fanout - 1, Fanout, StackPage, 2 * Fanout, VaEnd - 1}
        below(t) == {e.pa : e \in {f \in RangeOf(phys.mem[t].entry) : "P" \in f.perm}}
        deeper(S) == S \cup UNION {below(t) : t \in S}
    IN \A p \in Processes :
          LET root  == Root(p)
              its   == {Vmiter(phys, root, va) : va \in probes}
              walk  == Ptiter(phys, root, WalkBound)
              inner == Iterate(deeper, {root}, TopLevel - 1)
          IN /\ \A i, j \in its : Find(phys, i, j.va) = j
             /\ walk.done
             /\ RangeOf(walk.pages) = deeper(inner) \ {root}
             /\ \A i, j \in DOMAIN walk.pages :
                   /\ walk.pages[i] = walk.pages[j] => i = j
                   /\ walk.pages[i] \in inner /\ walk.pages[j] \in below(walk.pages[i]) => j < i

\* The memories as the processes see them, now and as they should be at the start.
Space ==
    UNION {{<<p, it.va, phys.mem[Pa(phys, it)]>> :
               it \in {i \in {Vmiter(phys, Root(p), va) : va \in ProcStart .. StackPage} :
                          User(phys, i)}} : p \in Processes}
LoadedPages(p) == UNION {s[1] .. s[1] + s[2] - 1 : s \in RangeOf(Image[p])}
LoadedSpace ==
    UNION {{<<p, va, Data("image", p, va)>> : va \in LoadedPages(p)}
           \cup {<<p, StackPage, Junk>>} : p \in Processes}

Memory == INSTANCE PrivateMemory WITH
    space <- Space, running <- current, Loaded <- LoadedSpace,
    Values <- {Data("stored", p, 0) : p \in Processes}

\* Each process has a memory of its own: loaded with its program, however its pages
\* are scattered over physical memory, zeroed where it grows, changed by nobody else.
ImplementsPrivateMemory == Memory!Spec

\* The kernel never stops unless a process asks for it, and every runnable process
\* gets its turn, whatever the others do: faults, yields or neither (schedule()).
RoundRobin ==
    \A p \in Processes :
       mode = "user" /\ Runnable(ptable, p) ~> current = p \/ ~ Runnable(ptable, p) \/ mode = "asked"
================================================================================
