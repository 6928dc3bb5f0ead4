------------------------------- MODULE PageTable -------------------------------
(****************************************************************************)
(* Physical pages and x86-64 page tables, as kalloc (kernel.c), vmiter and  *)
(* ptiter (k-vmiter.cc, k-vmiter.hh) and util.c use them.  Addresses are    *)
(* counted in pages.  A page holds a page table or data; k, the state of    *)
(* physical memory, is a record of the pages' contents and the kernel's     *)
(* reference counts (pages[]).  What the code asserts of alignment cannot   *)
(* fail of addresses counted in pages; down()'s panic, on an entry beyond   *)
(* all memory, is in the type of the entries.                               *)
(*                                                                          *)
(* The number of levels and the entries per table are scaled by TopLevel    *)
(* (3 in the code) and Fanout (512).  Large pages (PTE_PS) occur only in    *)
(* the kernel's own table, which no process runs on.                        *)
(****************************************************************************)
EXTENDS Naturals, Sequences

CONSTANTS TopLevel,     \* level of a root table's entries; the leaves are at 0
          Fanout,       \* entries in a table
          Pages,        \* physical pages
          Allocatable,  \* those kalloc may hand out
          NoPage        \* nullptr, and vmiter::pa() of what is not mapped

ASSUME PageTableAssumption ==
    /\ TopLevel \in Nat \ {0}
    /\ Fanout \in Nat \ {0, 1}
    /\ Pages \subseteq Nat
    /\ Allocatable \subseteq Pages
    /\ NoPage \notin Pages

Index == 0 .. Fanout - 1
PWU   == {"P", "W", "U"}

Entry(pa, perm) == [pa |-> pa, perm |-> perm]
EmptyTable      == [entry |-> [i \in Index |-> Entry(0, {})]]
IsTable(c)      == "entry" \in DOMAIN c

\* What a page of data holds: kalloc's 0xCC, zeros, a page of a program image,
\* or what a process stored.
Data(kind, pid, va) == [data |-> <<kind, pid, va>>]
Junk == Data("0xCC", 0, 0)
Zero == Data("zero", 0, 0)

\* Pages covered by one entry of level l, and the entry of va in a table of l.
Spans[l \in 0 .. TopLevel + 1] == IF l = 0 THEN 1 ELSE Fanout * Spans[l - 1]
Span(l)          == Spans[l]
pageindex(va, l) == (va \div Span(l)) % Fanout
VaEnd            == Span(TopLevel + 1)

\* x, then f applied to it again and again; the sets of one element give each value
\* a name.
Iterates(f(_), x, n) ==
    LET r[i \in 0 .. n] == IF i = 0 THEN x
                           ELSE CHOOSE y \in {f(z) : z \in {r[i - 1]}} : TRUE
    IN r
Iterate(f(_), x, n) == Iterates(f, x, n)[n]

\* f applied until done, in n rounds of n turns at most.
Rounds(f(_), done(_), x, n) ==
    Iterate(LAMBDA s : IF done(s) THEN s ELSE Iterate(f, s, n), x, n)

----------------------------------------------------------------------------
(* kalloc *)

Free(k) == {pa \in Allocatable : k.refcount[pa] = 0}

FreePage(k) == IF Free(k) = {} THEN NoPage
               ELSE CHOOSE pa \in Free(k) : \A q \in Free(k) : pa <= q

\* kalloc, having found pa.
Take(k, pa) == [k EXCEPT !.refcount[pa] = @ + 1, !.mem[pa] = Junk]

----------------------------------------------------------------------------
(* vmiter: the table and level of the entry it has reached for va, and the  *)
(* permissions of the levels above.                                         *)

AtRoot(root, va) ==
    [root |-> root, table |-> root, level |-> TopLevel, perm |-> PWU, va |-> va]

At(k, it) == k.mem[it.table].entry[pageindex(it.va, it.level)]

\* One turn of the loop of vmiter::down.
Down(k, it) ==
    LET e == At(k, it)
    IN IF it.level > 0 /\ "P" \in e.perm
       THEN [it EXCEPT !.table = e.pa, !.level = @ - 1, !.perm = @ \cap e.perm]
       ELSE it

\* vmiter::real_find: a move within the table at hand does not start over.
Find(k, it, va) ==
    LET same  == /\ it.level < TopLevel
                 /\ va \div Span(it.level + 1) = it.va \div Span(it.level + 1)
        start == IF same THEN [it EXCEPT !.va = va] ELSE AtRoot(it.root, va)
    IN Iterate(LAMBDA i : Down(k, i), start, TopLevel)

Vmiter(k, root, va) == Find(k, AtRoot(root, 0), va)

Pa(k, it)   == IF "P" \in At(k, it).perm THEN At(k, it).pa ELSE NoPage
Perm(k, it) == LET p == At(k, it).perm \cap it.perm IN IF "P" \in p THEN p ELSE {}
User(k, it) == {"P", "U"} \subseteq Perm(k, it)

\* vmiter::last_va, and next_range, which goes there.
LastVa(it)       == (it.va \div Span(it.level) + 1) * Span(it.level)
NextRange(k, it) == Find(k, it, LastVa(it))

\* vmiter::next: skips a range that is not mapped.
NextVa(k, it) == IF it.level > 0 /\ Perm(k, it) = {} THEN NextRange(k, it)
                 ELSE Find(k, it, it.va + 1)

\* A mutant: processes may only read what is below the new table.
AddTableReadOnly(s) ==
    LET pt == FreePage(s.k)
    IN IF s.it.level = 0 \/ ~ s.ok THEN s
       ELSE IF pt = NoPage THEN [s EXCEPT !.ok = FALSE]
       ELSE LET k1 == [Take(s.k, pt) EXCEPT
                          !.mem[pt] = EmptyTable,
                          !.mem[s.it.table].entry[pageindex(s.it.va, s.it.level)] = Entry(pt, {"P", "U"})]
            IN [s EXCEPT !.k = k1, !.it = Down(k1, s.it)]

\* One turn of the loop of vmiter::try_map: a table for the next level.
AddTable(s) ==
    LET pt == FreePage(s.k)
    IN IF s.it.level = 0 \/ ~ s.ok THEN s
       ELSE IF pt = NoPage THEN [s EXCEPT !.ok = FALSE]
       ELSE LET k1 == [Take(s.k, pt) EXCEPT
                          !.mem[pt] = EmptyTable,
                          !.mem[s.it.table].entry[pageindex(s.it.va, s.it.level)] = Entry(pt, PWU)]
            IN [s EXCEPT !.k = k1, !.it = Down(k1, s.it)]

\* vmiter::try_map when its loop begins, and after each of n turns.
TryMaps(k, root, va, n) ==
    Iterates(AddTable, [k |-> k, it |-> Vmiter(k, root, va), ok |-> TRUE], n)

\* The assertions of try_map: there is a page to map, the tables above allow what is
\* asked, and where a new table is hung none was.
MapAsserts(k, root, va, pa, perm) ==
    "P" \in perm =>
       /\ pa # NoPage
       /\ perm \subseteq Vmiter(k, root, va).perm
       /\ \A n \in 0 .. TopLevel - 1 : \A s \in {TryMaps(k, root, va, TopLevel)[n]} :
             s.ok /\ s.it.level > 0 => "P" \notin At(s.k, s.it).perm

\* memory_map (util.c): vmiter::try_map at va; ok is a result of 0.
MemoryMap(k, root, va, pa, perm) ==
    LET set(s) == IF s.ok /\ s.it.level = 0
                  THEN [s EXCEPT !.k.mem[s.it.table].entry[pageindex(va, 0)] = Entry(pa, perm)]
                  ELSE s
        n == IF perm = {} THEN 0 ELSE TopLevel
    IN set(TryMaps(k, root, va, n)[n])

----------------------------------------------------------------------------
(* ptiter: the page table pages below a root, each after those below it.    *)

\* A mutant: next() stops again at the level it stopped at.
PtStepOnce(k, s) ==
    LET e  == At(k, s)
        va == LastVa(s)
    IN IF s.done THEN s
       ELSE IF "P" \in e.perm /\ ~ s.skip THEN
           IF s.level = s.stop THEN [s EXCEPT !.pages = Append(@, e.pa), !.skip = TRUE]
           ELSE [s EXCEPT !.table = e.pa, !.level = @ - 1]
       ELSE IF va \div Span(s.level + 1) # s.va \div Span(s.level + 1) THEN
           IF s.level = TopLevel THEN [s EXCEPT !.done = TRUE]
           ELSE [s EXCEPT !.stop = s.level, !.level = TopLevel, !.table = s.root, !.skip = FALSE]
       ELSE [s EXCEPT !.va = va, !.skip = FALSE]

\* One turn of the loop of ptiter::down; a page it stops at is added to pages,
\* and next() resumes with skip.
PtStep(k, s) ==
    LET e  == At(k, s)
        va == LastVa(s)
    IN IF s.done THEN s
       ELSE IF "P" \in e.perm /\ ~ s.skip THEN
           IF s.level = s.stop THEN [s EXCEPT !.pages = Append(@, e.pa), !.skip = TRUE, !.stop = 1]
           ELSE [s EXCEPT !.table = e.pa, !.level = @ - 1]
       ELSE IF va \div Span(s.level + 1) # s.va \div Span(s.level + 1) THEN
           IF s.level = TopLevel THEN [s EXCEPT !.done = TRUE]
           ELSE [s EXCEPT !.stop = s.level + 1, !.level = TopLevel, !.table = s.root, !.skip = FALSE]
       ELSE [s EXCEPT !.va = va, !.skip = FALSE]

\* The state in which the constructor's go(0) calls down.
PtStart(root) == [root |-> root, table |-> root, level |-> TopLevel, va |-> 0,
                  stop |-> 1, skip |-> FALSE, done |-> FALSE, pages |-> <<>>]

\* What `for (ptiter it(root); !it.done(); it.next())` visits, if n rounds are enough.
Ptiter(k, root, n) ==
    Rounds(LAMBDA s : PtStep(k, s), LAMBDA s : s.done, PtStart(root), n)
================================================================================
