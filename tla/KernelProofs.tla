----------------------------- MODULE KernelProofs -----------------------------
(****************************************************************************)
(* What is proved of Kernel, for every machine and every set of programs    *)
(* that its assumptions describe: the assertions it models hold, its        *)
(* processes are isolated, and each has the private memory that             *)
(* PrivateMemory describes; and of KernelCalls, the first two and that a    *)
(* process changes no memory but its own.  All of it follows from one       *)
(* invariant: some assignment of roles to the physical pages (Layout) tells *)
(* which table or page of which process each page is, and each process's    *)
(* address space is built from the pages with its roles and no others.      *)
(* KernelInv adds what Kernel's processes have asked for, CallInv allows    *)
(* for pages that KernelCalls' processes have had replaced.  The            *)
(* proofs go from walks of a page table to memory_map, from there to        *)
(* process_setup and kernel_start, and from there to the system calls: of   *)
(* p-allocator.cc's processes, and at the end of any.                       *)
(****************************************************************************)
EXTENDS KernelCalls, FiniteSetTheorems, WellFoundedInduction, TLAPS

\* A set of natural numbers has a least element.
LEMMA LeastNat ==
    ASSUME NEW S \in SUBSET Nat, S # {}
    PROVE  \E a \in S : \A b \in S : a <= b
<1>1. IsWellFoundedOn(OpToRel(<, Nat), Nat)
    BY NatLessThanWellFounded
<1>2. PICK a \in S : \A b \in S : ~ (<<b, a>> \in OpToRel(<, Nat))
    BY <1>1, WFMin
<1>3. \A b \in S : ~ (b < a)
    BY <1>2 DEF OpToRel
<1> QED
    BY <1>3

----------------------------------------------------------------------------
(* Spans of levels, and the digits of an address.                           *)

LEMMA MulMono == \A s, x, y \in Nat : x <= y => s * x <= s * y
    OBVIOUS

LEMMA MulPos == \A s, x \in Nat : s > 0 /\ x > 0 => s * x > 0
    OBVIOUS

LEMMA DivIs ==
    ASSUME NEW a \in Nat, NEW s \in Nat, s > 0
    PROVE  /\ a \div s \in Nat /\ a % s \in 0 .. s - 1
           /\ a = s * (a \div s) + (a % s)
    OBVIOUS

LEMMA DivUnique ==
    ASSUME NEW s \in Nat, s > 0, NEW q \in Nat, NEW r \in Nat, r < s
    PROVE  (s * q + r) \div s = q
<1> DEFINE a == s * q + r
           d == a \div s
           m == a % s
<1>0. s * q \in Nat
    OBVIOUS
<1>1. a \in Nat
    BY <1>0
<1>2. d \in Nat /\ m \in 0 .. s - 1 /\ a = s * d + m
    BY <1>1, DivIs
<1>3. ~ (q + 1 <= d)
    <2>1. SUFFICES ASSUME q + 1 <= d PROVE FALSE
        OBVIOUS
    <2>2. s * (q + 1) <= s * d
        BY <1>2, <2>1, MulMono
    <2>3. s * (q + 1) = s * q + s
        OBVIOUS
    <2>4. s * d \in Nat
        BY <1>2
    <2> HIDE DEF d, m
    <2> QED
        BY <1>0, <1>2, <2>2, <2>3, <2>4
<1>4. ~ (d + 1 <= q)
    <2>1. SUFFICES ASSUME d + 1 <= q PROVE FALSE
        OBVIOUS
    <2> HIDE DEF d, m
    <2>2. s * (d + 1) <= s * q
        BY <1>2, <2>1, MulMono
    <2>3. s * (d + 1) = s * d + s
        BY <1>2
    <2>4. s * d \in Nat
        BY <1>2
    <2> QED
        BY <1>0, <1>2, <2>2, <2>3, <2>4
<1> HIDE DEF d
<1>5. d = q
    BY <1>2, <1>3, <1>4
<1> QED
    BY <1>5 DEF d

LEMMA DivDiv ==
    ASSUME NEW a \in Nat, NEW s \in Nat, NEW f \in Nat, s > 0, f > 0
    PROVE  (a \div s) \div f = a \div (f * s)
<1> DEFINE q == a \div s
           r == a % s
           p == q \div f
           m == q % f
<1>1. q \in Nat /\ r \in 0 .. s - 1 /\ a = s * q + r
    BY DivIs
<1>2. p \in Nat /\ m \in 0 .. f - 1 /\ q = f * p + m
    BY <1>1, DivIs
<1> HIDE DEF q, r, p, m
<1>3. s * m + r < f * s
    <2>1. m + 1 <= f
        BY <1>2
    <2>2. s * (m + 1) <= s * f
        BY <1>2, <2>1, MulMono
    <2>3. s * (m + 1) = s * m + s /\ s * f = f * s
        BY <1>2
    <2>4. s * m \in Nat /\ f * s \in Nat
        BY <1>2
    <2> QED
        BY <1>1, <2>2, <2>3, <2>4
<1>4. a = (f * s) * p + (s * m + r)
    <2>1. s * q = s * (f * p) + s * m
        BY <1>2
    <2>2. s * (f * p) = (f * s) * p
        BY <1>2
    <2>3. s * m \in Nat /\ (f * s) * p \in Nat
        BY <1>2
    <2> QED
        BY <1>1, <2>1, <2>2, <2>3
<1>5. f * s \in Nat /\ f * s > 0 /\ s * m + r \in Nat
    <2>1. s * m \in Nat /\ f * s \in Nat
        BY <1>2
    <2> QED
        BY <1>1, <2>1, MulPos
<1>6. a \div (f * s) = p
    BY <1>2, <1>3, <1>4, <1>5, DivUnique
<1> QED
    BY <1>6 DEF p, q

SpansTo(g, n) == g = [l \in 0 .. n |-> IF l = 0 THEN 1 ELSE Fanout * g[l - 1]]

LEMMA SpansExist == \A n \in Nat : \E g : SpansTo(g, n)
<1> DEFINE S == {n \in Nat : ~ \E g : SpansTo(g, n)}
<1>1. SUFFICES ASSUME S # {} PROVE FALSE
    OBVIOUS
<1>2. PICK a \in S : \A b \in S : a <= b
    BY <1>1, LeastNat
<1>3. CASE a = 0
    <2>1. PICK g : g = [i \in 0 .. 0 |-> 1]
        OBVIOUS
    <2>2. g = [i \in 0 .. 0 |-> IF i = 0 THEN 1 ELSE Fanout * g[i - 1]]
        BY <2>1
    <2> QED
        BY <1>3, <2>2 DEF SpansTo
<1>4. CASE a # 0
    <2>1. a - 1 \in Nat /\ a - 1 \notin S
        BY <1>2, <1>4
    <2>2. PICK g : SpansTo(g, a - 1)
        BY <2>1
    <2>3. g = [i \in 0 .. a - 1 |-> IF i = 0 THEN 1 ELSE Fanout * g[i - 1]]
        BY <2>2 DEF SpansTo
    <2>4. PICK h : h = [i \in 0 .. a |-> IF i = a THEN Fanout * g[a - 1] ELSE g[i]]
        OBVIOUS
    <2>5. \A i \in 0 .. a : h[i] = IF i = 0 THEN 1 ELSE Fanout * h[i - 1]
        <3>1. TAKE i \in 0 .. a
        <3>2. CASE i = a
            BY <1>4, <2>1, <2>4, <3>2
        <3>3. CASE i # a /\ i # 0
            <4>1. i \in 0 .. a - 1 /\ i - 1 \in 0 .. a /\ i - 1 # a
                BY <2>1, <3>1, <3>3
            <4>2. g[i] = Fanout * g[i - 1]
                BY <2>3, <3>3, <4>1
            <4> QED
                BY <2>4, <3>3, <4>1, <4>2
        <3>4. CASE i # a /\ i = 0
            <4>1. g[0] = 1
                BY <2>1, <2>3
            <4> QED
                BY <2>4, <3>4, <4>1
        <3> QED
            BY <3>2, <3>3, <3>4
    <2>6. h = [i \in 0 .. a |-> IF i = 0 THEN 1 ELSE Fanout * h[i - 1]]
        <3>1. h = [i \in 0 .. a |-> h[i]]
            BY <2>4
        <3> QED
            BY <2>5, <3>1
    <2> QED
        BY <1>2, <2>6 DEF SpansTo
<1> QED
    BY <1>3, <1>4

\* The pages an entry of each level covers.
LEMMA SpanIs ==
    /\ Span(0) = 1
    /\ \A l \in 0 .. TopLevel : Span(l + 1) = Fanout * Span(l)
    /\ \A l \in 0 .. TopLevel + 1 : Span(l) \in Nat /\ Span(l) > 0
<1> USE PageTableAssumption
<1>1. PICK g : SpansTo(g, TopLevel + 1)
    BY SpansExist
<1>2. Spans = CHOOSE s : s = [l \in 0 .. TopLevel + 1 |-> IF l = 0 THEN 1 ELSE Fanout * s[l - 1]]
    BY DEF Spans
<1>3. g = [l \in 0 .. TopLevel + 1 |-> IF l = 0 THEN 1 ELSE Fanout * g[l - 1]]
    BY <1>1 DEF SpansTo
<1>4. Spans = [l \in 0 .. TopLevel + 1 |-> IF l = 0 THEN 1 ELSE Fanout * Spans[l - 1]]
    BY <1>2, <1>3
<1>5. Span(0) = 1
    BY <1>4 DEF Span
<1>6. \A l \in 0 .. TopLevel : Span(l + 1) = Fanout * Span(l)
    BY <1>4 DEF Span
<1>7. \A l \in 0 .. TopLevel + 1 : Span(l) \in Nat /\ Span(l) > 0
    <2> DEFINE S == {l \in Nat : l <= TopLevel + 1 /\ ~ (Span(l) \in Nat /\ Span(l) > 0)}
    <2>1. SUFFICES ASSUME S # {} PROVE FALSE
        OBVIOUS
    <2>2. PICK a \in S : \A b \in S : a <= b
        BY <2>1, LeastNat
    <2>3. a \in 1 .. TopLevel + 1
        BY <1>5, <2>2
    <2>4. a - 1 \in 0 .. TopLevel /\ a - 1 \notin S /\ a - 1 + 1 = a
        BY <2>2, <2>3
    <2>5. Span(a - 1) \in Nat /\ Span(a - 1) > 0
        BY <2>4
    <2>6. Span(a) = Fanout * Span(a - 1)
        BY <1>6, <2>4
    <2>7. Fanout * Span(a - 1) \in Nat /\ Fanout * Span(a - 1) > 0
        BY <2>5, MulPos
    <2> QED
        BY <2>2, <2>6, <2>7
<1> QED
    BY <1>5, <1>6, <1>7

(* What is left of va without its l lowest digits.                          *)
Prefix(va, l) == va \div Span(l)

\* An address is its prefix and, below it, a digit for each level.
LEMMA PrefixIs ==
    ASSUME NEW va \in Nat
    PROVE  /\ Prefix(va, 0) = va
           /\ \A l \in 0 .. TopLevel + 1 : Prefix(va, l) \in Nat
           /\ \A l \in 0 .. TopLevel :
                 /\ pageindex(va, l) \in Index
                 /\ Prefix(va, l) = Prefix(va, l + 1) * Fanout + pageindex(va, l)
                 /\ Prefix(va, l) \div Fanout = Prefix(va, l + 1)
           /\ va < VaEnd => Prefix(va, TopLevel + 1) = 0
<1> USE PageTableAssumption
<1>1. Prefix(va, 0) = va
    BY SpanIs DEF Prefix
<1>2. \A l \in 0 .. TopLevel + 1 : Prefix(va, l) \in Nat
    BY SpanIs, DivIs DEF Prefix
<1>3. ASSUME NEW l \in 0 .. TopLevel
      PROVE  /\ pageindex(va, l) \in Index
             /\ Prefix(va, l) = Prefix(va, l + 1) * Fanout + pageindex(va, l)
             /\ Prefix(va, l) \div Fanout = Prefix(va, l + 1)
    <2>1. Span(l) \in Nat /\ Span(l) > 0 /\ Span(l + 1) = Fanout * Span(l)
        BY SpanIs
    <2>2. (va \div Span(l)) \div Fanout = va \div Span(l + 1)
        BY <2>1, DivDiv
    <2>3. va \div Span(l) \in Nat
        BY <2>1, DivIs
    <2> DEFINE q == va \div Span(l)
    <2> HIDE DEF q
    <2>4. q \in Nat
        BY <2>3 DEF q
    <2>5. q = Fanout * (q \div Fanout) + (q % Fanout) /\ q % Fanout \in 0 .. Fanout - 1 /\ q \div Fanout \in Nat
        BY <2>4, DivIs
    <2>6. Fanout * (q \div Fanout) = (q \div Fanout) * Fanout
        BY <2>5
    <2> QED
        BY <2>2, <2>5, <2>6 DEF q, Prefix, pageindex, Index
<1>4. va < VaEnd => Prefix(va, TopLevel + 1) = 0
    <2>1. SUFFICES ASSUME va < Span(TopLevel + 1) PROVE va \div Span(TopLevel + 1) = 0
        BY DEF VaEnd, Prefix
    <2>2. Span(TopLevel + 1) \in Nat /\ Span(TopLevel + 1) > 0
        BY SpanIs
    <2>3. Span(TopLevel + 1) * 0 + va = va
        BY <2>2
    <2> QED
        BY <2>1, <2>2, <2>3, DivUnique
<1> QED
    BY <1>1, <1>2, <1>3, <1>4

LEMMA DigitsIs ==
    ASSUME NEW b \in Nat, NEW i \in Index
    PROVE  b * Fanout + i \in Nat /\ (b * Fanout + i) \div Fanout = b
                                  /\ (b * Fanout + i) % Fanout = i
<1> USE PageTableAssumption DEF Index
<1>1. b * Fanout = Fanout * b /\ Fanout * b \in Nat
    OBVIOUS
<1>2. (b * Fanout + i) \div Fanout = b
    BY <1>1, DivUnique
<1> DEFINE a == b * Fanout + i
<1>3. a \in Nat
    BY <1>1
<1>4. a = Fanout * (a \div Fanout) + (a % Fanout) /\ a % Fanout \in Nat
    BY <1>3, DivIs
<1>5. a % Fanout = i
    BY <1>1, <1>2, <1>4
<1> QED
    BY <1>2, <1>3, <1>5

----------------------------------------------------------------------------
(* Walks: what the loop of vmiter::down does in n turns.                    *)

Walks(g, k, it, n) ==
    g = [i \in 0 .. n |-> IF i = 0 THEN it
                          ELSE CHOOSE y \in {Down(k, z) : z \in {g[i - 1]}} : TRUE]

LEMMA OneOf == \A x : (CHOOSE y \in {x} : TRUE) = x
    OBVIOUS

LEMMA WalksStep ==
    ASSUME NEW k, NEW it, NEW n \in Nat, NEW g, Walks(g, k, it, n)
    PROVE  g[0] = it /\ \A i \in 1 .. n : g[i] = Down(k, g[i - 1])
<1>1. g = [i \in 0 .. n |-> IF i = 0 THEN it
                            ELSE CHOOSE y \in {Down(k, z) : z \in {g[i - 1]}} : TRUE]
    BY DEF Walks
<1>2. g[0] = it
    BY <1>1
<1>3. ASSUME NEW i \in 1 .. n
      PROVE  g[i] = Down(k, g[i - 1])
    <2>1. i \in 0 .. n /\ i # 0
        OBVIOUS
    <2>2. g[i] = CHOOSE y \in {Down(k, z) : z \in {g[i - 1]}} : TRUE
        BY <1>1, <2>1
    <2>3. {Down(k, z) : z \in {g[i - 1]}} = {Down(k, g[i - 1])}
        OBVIOUS
    <2> QED
        BY <2>2, <2>3, OneOf
<1> QED
    BY <1>2, <1>3

\* The walk is a function on the turns, by induction on their number.
LEMMA WalksExist == \A k, it : \A n \in Nat : \E g : Walks(g, k, it, n)
<1> TAKE k, it
<1> DEFINE S == {n \in Nat : ~ \E g : Walks(g, k, it, n)}
<1>1. SUFFICES ASSUME S # {} PROVE FALSE
    OBVIOUS
<1>2. PICK a \in S : \A b \in S : a <= b
    BY <1>1, LeastNat
<1>3. CASE a = 0
    <2>1. PICK g : g = [i \in 0 .. 0 |-> it]
        OBVIOUS
    <2>2. g = [i \in 0 .. 0 |-> IF i = 0 THEN it
                                ELSE CHOOSE y \in {Down(k, z) : z \in {g[i - 1]}} : TRUE]
        BY <2>1
    <2> QED
        BY <1>3, <2>2 DEF Walks
<1>4. CASE a # 0
    <2>1. a - 1 \in Nat /\ a - 1 \notin S
        BY <1>2, <1>4
    <2>2. PICK g : Walks(g, k, it, a - 1)
        BY <2>1
    <2>3. g[0] = it /\ \A i \in 1 .. a - 1 : g[i] = Down(k, g[i - 1])
        BY <2>1, <2>2, WalksStep
    <2>4. PICK h : h = [i \in 0 .. a |-> IF i = a THEN Down(k, g[a - 1]) ELSE g[i]]
        OBVIOUS
    <2>5. h[0] = it /\ \A i \in 1 .. a : h[i] = Down(k, h[i - 1])
        BY <1>4, <2>1, <2>3, <2>4
    <2>6. \A i \in 0 .. a : h[i] = IF i = 0 THEN it
                                   ELSE CHOOSE y \in {Down(k, z) : z \in {h[i - 1]}} : TRUE
        <3>1. TAKE i \in 0 .. a
        <3>2. CASE i = 0
            BY <2>5, <3>2
        <3>3. CASE i # 0
            <4>1. {Down(k, z) : z \in {h[i - 1]}} = {Down(k, h[i - 1])}
                OBVIOUS
            <4> QED
                BY <2>5, <3>3, <4>1, OneOf
        <3> QED
            BY <3>2, <3>3
    <2>7. h = [i \in 0 .. a |-> IF i = 0 THEN it
                                ELSE CHOOSE y \in {Down(k, z) : z \in {h[i - 1]}} : TRUE]
        <3>1. h = [i \in 0 .. a |-> h[i]]
            BY <2>4
        <3> QED
            BY <2>6, <3>1
    <2> QED
        BY <1>2, <2>7 DEF Walks
<1> QED
    BY <1>3, <1>4

Walk(k, it, n) == CHOOSE g : Walks(g, k, it, n)

LEMMA WalkIs ==
    ASSUME NEW k, NEW it, NEW n \in Nat
    PROVE  /\ Walk(k, it, n)[0] = it
           /\ \A i \in 1 .. n : Walk(k, it, n)[i] = Down(k, Walk(k, it, n)[i - 1])
<1>1. Walks(Walk(k, it, n), k, it, n)
    BY WalksExist DEF Walk
<1> QED
    BY <1>1, WalksStep

Iter(root, table, level, perm, va) ==
    [root |-> root, table |-> table, level |-> level, perm |-> perm, va |-> va]

LEMMA IterExcept ==
    ASSUME NEW r, NEW t, NEW l, NEW p, NEW v
    PROVE  /\ \A x : [Iter(r, t, l, p, v) EXCEPT !.table = x] = Iter(r, x, l, p, v)
           /\ \A x : [Iter(r, t, l, p, v) EXCEPT !.level = x] = Iter(r, t, x, p, v)
           /\ \A x : [Iter(r, t, l, p, v) EXCEPT !.perm = x] = Iter(r, t, l, x, v)
           /\ \A x : [Iter(r, t, l, p, v) EXCEPT !.va = x] = Iter(r, t, l, p, x)
    BY DEF Iter

LEMMA IterFields ==
    ASSUME NEW r, NEW t, NEW l, NEW p, NEW v
    PROVE  /\ Iter(r, t, l, p, v).root = r /\ Iter(r, t, l, p, v).table = t
           /\ Iter(r, t, l, p, v).level = l /\ Iter(r, t, l, p, v).perm = p
           /\ Iter(r, t, l, p, v).va = v
    BY DEF Iter

\* vmiter::find from the root is TopLevel turns of down().
LEMMA VmiterIs ==
    ASSUME NEW k, NEW root, NEW va
    PROVE  Vmiter(k, root, va) = Walk(k, AtRoot(root, va), TopLevel)[TopLevel]
<1>1. AtRoot(root, 0).root = root /\ AtRoot(root, 0).level = TopLevel
    BY DEF AtRoot
<1>2. ~ (AtRoot(root, 0).level < TopLevel)
    BY <1>1, PageTableAssumption
<1>3. Vmiter(k, root, va) = Iterate(LAMBDA i : Down(k, i), AtRoot(root, va), TopLevel)
    BY <1>1, <1>2 DEF Vmiter, Find
<1>4. Iterate(LAMBDA i : Down(k, i), AtRoot(root, va), TopLevel)
      = Walk(k, AtRoot(root, va), TopLevel)[TopLevel]
    BY DEF Iterate, Iterates, Walk, Walks
<1> QED
    BY <1>3, <1>4

----------------------------------------------------------------------------
(* Physical memory.  A role says what a page is in use for: it is the table *)
(* of process pid whose entries are at some level and cover the addresses   *)
(* of prefix base; the page of pid's data at address base; the viewer's.    *)

Tables   == [entry : [Index -> [pa : Pages, perm : SUBSET PWU]]]
Memories == [mem : [Pages -> Contents \cup Tables], refcount : [Pages -> Nat]]

Kinds    == {"none", "table", "data", "viewer"}
Roles    == [kind : Kinds, pid : Nat, level : 0 .. TopLevel, base : Nat]
Role(kind, p, l, b) == [kind |-> kind, pid |-> p, level |-> l, base |-> b]
TableOf(p, l, b) == Role("table", p, l, b)
DataOf(p, va)    == Role("data", p, 0, va)

\* What the entry for prefix u may be, in a table with role r.
EntryFits(G, e, r, u) ==
    \/ e.perm = {}
    \/ /\ e.perm = PWU /\ r.level > 0 /\ G[e.pa] = TableOf(r.pid, r.level - 1, u)
    \/ /\ r.level = 0 /\ u < ProcStart /\ e.pa = u
       /\ e.perm \in {{"P", "W"}, PWU} /\ (e.perm = PWU => u = Console)
    \/ /\ r.level = 0 /\ u \in ProcStart .. StackPage
       /\ e.perm = PWU /\ G[e.pa] = DataOf(r.pid, u)

EntriesFit(k, G) ==
    \A t \in Pages : G[t].kind = "table" =>
        /\ k.mem[t] \in Tables
        /\ \A i \in Index : EntryFits(G, k.mem[t].entry[i], G[t], G[t].base * Fanout + i)

\* Every page in use has one role, no two pages the same, and only tables hold entries.
Owned(k, G) ==
    /\ \A q \in Pages : /\ G[q].kind = "none" => k.refcount[q] = 0
                        /\ G[q].kind # "none" => k.refcount[q] = 1 /\ q \in Allocatable
                        /\ G[q].kind # "table" => k.mem[q] \in Contents
    /\ \A q, r \in Pages : G[q].kind \in {"table", "data"} /\ G[q] = G[r] => q = r

\* A page other than those of S is found where its role says.
Linked(k, G, S) ==
    \A q \in Pages \ S :
       \/ G[q].kind \in {"none", "viewer"}
       \/ G[q] = TableOf(G[q].pid, TopLevel, 0)
       \/ \E t \in Pages, i \in Index :
             /\ k.mem[t] \in Tables
             /\ k.mem[t].entry[i] = Entry(q, PWU)
             /\ G[q].base = G[t].base * Fanout + i
             /\ \/ /\ G[q].kind = "table" /\ G[q].level < TopLevel
                   /\ G[t] = TableOf(G[q].pid, G[q].level + 1, G[t].base)
                \/ /\ G[q] = DataOf(G[q].pid, G[q].base)
                   /\ G[t] = TableOf(G[q].pid, 0, G[t].base)

Layout(k, G, S) ==
    /\ k \in Memories /\ G \in [Pages -> Roles]
    /\ EntriesFit(k, G) /\ Owned(k, G) /\ Linked(k, G, S)

IsRoot(G, p, root) == root \in Pages /\ G[root] = TableOf(p, TopLevel, 0)

\* The walk for va, after i turns at w.
OnPath(k, G, p, root, va, w, i) ==
    /\ w = Iter(root, w.table, w.level, PWU, va)
    /\ w.table \in Pages /\ w.level \in 0 .. TopLevel /\ w.level >= TopLevel - i
    /\ G[w.table] = TableOf(p, w.level, Prefix(va, w.level + 1))
    /\ w.level = TopLevel - i \/ At(k, w).perm = {}

\* The entry a walk stands at fits the role of its table.
LEMMA AtFits ==
    ASSUME NEW k, NEW G, NEW S, Layout(k, G, S), NEW p \in Nat, NEW va \in Nat,
           NEW w, w.table \in Pages, w.level \in 0 .. TopLevel, w.va = va,
           G[w.table] = TableOf(p, w.level, Prefix(va, w.level + 1))
    PROVE  /\ pageindex(va, w.level) \in Index
           /\ At(k, w) = k.mem[w.table].entry[pageindex(va, w.level)]
           /\ At(k, w) \in [pa : Pages, perm : SUBSET PWU]
           /\ EntryFits(G, At(k, w), G[w.table], Prefix(va, w.level))
<1> DEFINE i == pageindex(va, w.level)
           t == w.table
<1>1. w.level \in 0 .. TopLevel /\ t \in Pages
    OBVIOUS
<1>2. i \in Index /\ Prefix(va, w.level) = Prefix(va, w.level + 1) * Fanout + i
    BY <1>1, PrefixIs
<1>3. G[t].kind = "table" /\ G[t].base = Prefix(va, w.level + 1)
    BY DEF TableOf, Role
<1>4. k.mem[t] \in Tables /\ EntryFits(G, k.mem[t].entry[i], G[t], G[t].base * Fanout + i)
    BY <1>1, <1>2, <1>3 DEF Layout, EntriesFit
<1>5. k.mem[t].entry[i] \in [pa : Pages, perm : SUBSET PWU]
    BY <1>2, <1>4 DEF Tables
<1>6. At(k, w) = k.mem[t].entry[i]
    BY DEF At
<1> QED
    BY <1>2, <1>3, <1>4, <1>5, <1>6

\* down() follows an entry that is present.
LEMMA DownGoes ==
    ASSUME NEW k, NEW root, NEW t, NEW l, NEW va, NEW w, w = Iter(root, t, l, PWU, va),
           NEW e, e = At(k, w), l > 0, e.perm = PWU
    PROVE  Down(k, w) = Iter(root, e.pa, l - 1, PWU, va)
<1>1. w.level = l /\ w.perm = PWU
    BY IterFields
<1>2. Down(k, w) = [w EXCEPT !.table = e.pa, !.level = l - 1, !.perm = PWU]
    <2>1. Down(k, w) = [w EXCEPT !.table = e.pa, !.level = @ - 1, !.perm = @ \cap e.perm]
        BY <1>1 DEF Down, PWU
    <2>2. PWU \cap e.perm = PWU
        OBVIOUS
    <2> QED
        BY <1>1, <2>1, <2>2
<1>3. PICK a : a = [w EXCEPT !.table = e.pa]
    OBVIOUS
<1>4. PICK m : m = l - 1
    OBVIOUS
<1>5. PICK b : b = [a EXCEPT !.level = m]
    OBVIOUS
<1>6. PICK p : p = PWU
    OBVIOUS
<1>7. PICK c : c = [b EXCEPT !.perm = p]
    OBVIOUS
<1>8. a = Iter(root, e.pa, l, PWU, va)
    BY <1>3, IterExcept
<1>9. b = Iter(root, e.pa, m, PWU, va)
    BY <1>5, <1>8, IterExcept
<1>10. c = Iter(root, e.pa, m, PWU, va)
    BY <1>6, <1>7, <1>9, IterExcept
<1>11. [w EXCEPT !.table = e.pa, !.level = l - 1, !.perm = PWU] = c
    BY <1>3, <1>4, <1>5, <1>6, <1>7
<1> QED
    BY <1>2, <1>4, <1>10, <1>11

\* down() stays on the path of va.
LEMMA PathStep ==
    ASSUME NEW k, NEW G, NEW S, Layout(k, G, S), NEW p \in Nat, NEW root, NEW va \in Nat,
           NEW w, NEW i \in 0 .. TopLevel - 1, OnPath(k, G, p, root, va, w, i)
    PROVE  OnPath(k, G, p, root, va, Down(k, w), i + 1)
<1> USE PageTableAssumption
<1> DEFINE e == At(k, w)
           l == w.level
<1>0. /\ w = Iter(root, w.table, l, PWU, va) /\ w.va = va /\ w.table \in Pages
      /\ l \in 0 .. TopLevel /\ l >= TopLevel - i
      /\ G[w.table] = TableOf(p, l, Prefix(va, l + 1)) /\ (l = TopLevel - i \/ e.perm = {})
    BY IterFields DEF OnPath
<1>1. /\ e \in [pa : Pages, perm : SUBSET PWU]
      /\ EntryFits(G, e, G[w.table], Prefix(va, l))
    BY <1>0, AtFits
<1>2. G[w.table].pid = p /\ G[w.table].level = l
    BY <1>0 DEF TableOf, Role
<1> HIDE DEF e, l
<1>3. CASE l > 0 /\ "P" \in e.perm
    <2>1. e.perm = PWU /\ G[e.pa] = TableOf(p, l - 1, Prefix(va, l))
        BY <1>1, <1>2, <1>3 DEF EntryFits
    <2>4. Down(k, w) = Iter(root, e.pa, l - 1, PWU, va)
        <3>1. PICK t : t = w.table
            OBVIOUS
        <3>2. w = Iter(root, t, l, PWU, va) /\ e = At(k, w)
            BY <1>0, <3>1 DEF e
        <3> QED
            BY <1>3, <2>1, <3>2, DownGoes
    <2>5. l = TopLevel - i
        BY <1>0, <1>3
    <2>6. l - 1 \in 0 .. TopLevel /\ l - 1 + 1 = l /\ l - 1 = TopLevel - (i + 1) /\ e.pa \in Pages
        BY <1>0, <1>1, <1>3, <2>5
    <2>7. Down(k, w).table = e.pa /\ Down(k, w).level = l - 1
        BY <2>4, IterFields
    <2> QED
        BY <2>1, <2>4, <2>6, <2>7 DEF OnPath
<1>4. CASE ~ (l > 0 /\ "P" \in e.perm)
    <2>1. Down(k, w) = w
        BY <1>4 DEF Down, e, l
    <2>2. l > 0 => e.perm = {}
        BY <1>1, <1>2, <1>4 DEF EntryFits, PWU
    <2>3. l = TopLevel - (i + 1) \/ e.perm = {}
        BY <1>0, <2>2
    <2>4. l >= TopLevel - (i + 1)
        BY <1>0
    <2> QED
        BY <1>0, <2>1, <2>3, <2>4 DEF OnPath, e, l
<1> QED
    BY <1>3, <1>4

\* So every turn of the walk is on the path of va.
LEMMA WalkOnPath ==
    ASSUME NEW k, NEW G, NEW S, Layout(k, G, S), NEW p \in Nat, NEW root, IsRoot(G, p, root),
           NEW va \in 0 .. VaEnd - 1
    PROVE  \A i \in 0 .. TopLevel :
              OnPath(k, G, p, root, va, Walk(k, AtRoot(root, va), TopLevel)[i], i)
<1> USE PageTableAssumption
<1> DEFINE W == Walk(k, AtRoot(root, va), TopLevel)
<1>0. va \in Nat /\ va < VaEnd /\ VaEnd \in Nat
    BY SpanIs DEF VaEnd
<1>1. W[0] = AtRoot(root, va) /\ \A i \in 1 .. TopLevel : W[i] = Down(k, W[i - 1])
    BY WalkIs
<1> HIDE DEF W
<1>2. OnPath(k, G, p, root, va, W[0], 0)
    <2>1. W[0] = Iter(root, root, TopLevel, PWU, va)
        BY <1>1 DEF AtRoot, Iter
    <2>2. W[0].table = root /\ W[0].level = TopLevel
        BY <2>1, IterFields
    <2>3. Prefix(va, TopLevel + 1) = 0
        BY <1>0, PrefixIs
    <2> QED
        BY <2>1, <2>2, <2>3 DEF OnPath, IsRoot
<1> DEFINE T == {i \in Nat : i <= TopLevel /\ ~ OnPath(k, G, p, root, va, W[i], i)}
<1>3. SUFFICES ASSUME T # {} PROVE FALSE
    BY DEF W
<1>4. PICK a \in T : \A b \in T : a <= b
    BY <1>3, LeastNat
<1>5. a # 0
    BY <1>2, <1>4
<1>6. a - 1 \in 0 .. TopLevel - 1 /\ a - 1 \notin T /\ a \in 1 .. TopLevel
    BY <1>4, <1>5
<1>7. OnPath(k, G, p, root, va, W[a - 1], a - 1)
    BY <1>6
<1>8. OnPath(k, G, p, root, va, Down(k, W[a - 1]), a - 1 + 1)
    BY <1>0, <1>6, <1>7, PathStep
<1> QED
    BY <1>1, <1>4, <1>6, <1>8

(* Where an iterator for va stops: at the leaf, or at an entry not present. *)
LEMMA VmiterStops ==
    ASSUME NEW k, NEW G, NEW S, Layout(k, G, S), NEW p \in Nat, NEW root, IsRoot(G, p, root),
           NEW va \in 0 .. VaEnd - 1, NEW it, it = Vmiter(k, root, va)
    PROVE  /\ it = Iter(root, it.table, it.level, PWU, va)
           /\ it.table \in Pages /\ it.level \in 0 .. TopLevel
           /\ G[it.table] = TableOf(p, it.level, Prefix(va, it.level + 1))
           /\ it.level # 0 => At(k, it).perm = {}
           /\ At(k, it) \in [pa : Pages, perm : SUBSET PWU]
           /\ EntryFits(G, At(k, it), G[it.table], Prefix(va, it.level))
<1>0. va \in Nat
    BY SpanIs, PageTableAssumption DEF VaEnd
<1>1. OnPath(k, G, p, root, va, it, TopLevel)
    BY WalkOnPath, VmiterIs, PageTableAssumption
<1>2. /\ it = Iter(root, it.table, it.level, PWU, va) /\ it.table \in Pages /\ it.level \in 0 .. TopLevel
      /\ G[it.table] = TableOf(p, it.level, Prefix(va, it.level + 1))
      /\ it.level # 0 => At(k, it).perm = {}
    BY <1>1, PageTableAssumption DEF OnPath
<1>3. it.va = va
    BY <1>2, IterFields
<1> QED
    BY <1>0, <1>2, <1>3, AtFits

(* Walks read entries of tables above the leaves, and nothing else.         *)
SameTables(k, k2, G) ==
    \A t \in Pages : G[t].kind = "table" /\ G[t].level > 0 =>
        \A i \in Index : k2.mem[t].entry[i] = k.mem[t].entry[i]

\* Who changes no table moves no walk.
LEMMA WalkSame ==
    ASSUME NEW k, NEW G, NEW S, Layout(k, G, S), NEW p \in Nat, NEW root, IsRoot(G, p, root),
           NEW va \in 0 .. VaEnd - 1, NEW k2, SameTables(k, k2, G)
    PROVE  Vmiter(k2, root, va) = Vmiter(k, root, va)
<1> USE PageTableAssumption
<1> DEFINE W == Walk(k, AtRoot(root, va), TopLevel)
           X == Walk(k2, AtRoot(root, va), TopLevel)
<1>0. va \in Nat
    BY SpanIs DEF VaEnd
<1>1. W[0] = AtRoot(root, va) /\ \A i \in 1 .. TopLevel : W[i] = Down(k, W[i - 1])
    BY WalkIs
<1>2. X[0] = AtRoot(root, va) /\ \A i \in 1 .. TopLevel : X[i] = Down(k2, X[i - 1])
    BY WalkIs
<1>3. \A i \in 0 .. TopLevel : OnPath(k, G, p, root, va, W[i], i)
    BY WalkOnPath
<1>4. Vmiter(k, root, va) = W[TopLevel] /\ Vmiter(k2, root, va) = X[TopLevel]
    BY VmiterIs
<1> HIDE DEF W, X
<1>5. ASSUME NEW i \in 0 .. TopLevel, NEW w, w = W[i]
      PROVE  Down(k2, w) = Down(k, w)
    <2>1. OnPath(k, G, p, root, va, w, i)
        BY <1>3, <1>5
    <2>2. /\ w.table \in Pages /\ w.level \in 0 .. TopLevel /\ w.va = va
          /\ G[w.table] = TableOf(p, w.level, Prefix(va, w.level + 1))
        BY <2>1, IterFields DEF OnPath
    <2>3. G[w.table].kind = "table" /\ G[w.table].level = w.level
        BY <2>2 DEF TableOf, Role
    <2>4. pageindex(va, w.level) \in Index
        BY <1>0, <2>2, PrefixIs
    <2>5. CASE w.level > 0
        <3>1. k2.mem[w.table].entry[pageindex(va, w.level)] = k.mem[w.table].entry[pageindex(va, w.level)]
            BY <2>2, <2>3, <2>4, <2>5 DEF SameTables
        <3>2. At(k2, w) = At(k, w)
            BY <2>2, <3>1 DEF At
        <3> QED
            BY <3>2 DEF Down
    <2>6. CASE ~ (w.level > 0)
        BY <2>6 DEF Down
    <2> QED
        BY <2>5, <2>6
<1> DEFINE T == {i \in Nat : i <= TopLevel /\ X[i] # W[i]}
<1>6. SUFFICES ASSUME T # {} PROVE FALSE
    BY <1>4
<1>7. PICK a \in T : \A b \in T : a <= b
    BY <1>6, LeastNat
<1>8. a # 0
    BY <1>1, <1>2, <1>7
<1>9. a - 1 \in 0 .. TopLevel /\ a - 1 \notin T /\ a \in 1 .. TopLevel
    BY <1>7, <1>8
<1>10. X[a - 1] = W[a - 1]
    BY <1>9
<1>11. Down(k2, W[a - 1]) = Down(k, W[a - 1])
    BY <1>5, <1>9
<1> QED
    BY <1>1, <1>2, <1>7, <1>9, <1>10, <1>11

(* A new table hangs at entry i0 of t0, which was not present.              *)
Hangs(k, k2, G, t0, i0, pt) ==
    /\ t0 \in Pages /\ G[t0].kind = "table" /\ G[t0].level > 0 /\ i0 \in Index
    /\ k.mem[t0].entry[i0].perm = {} /\ k2.mem[t0].entry[i0] = Entry(pt, PWU)
    /\ \A t \in Pages : G[t].kind = "table" =>
          \A i \in Index : t # t0 \/ i # i0 => k2.mem[t].entry[i] = k.mem[t].entry[i]
    /\ \A i \in Index : k2.mem[pt].entry[i] = Entry(0, {})

\* A new, empty table moves the walks that stopped where it hangs, by one level.
LEMMA WalkAdd ==
    ASSUME NEW k, NEW G, NEW S, Layout(k, G, S), NEW p \in Nat, NEW root, IsRoot(G, p, root),
           NEW va \in 0 .. VaEnd - 1, NEW k2, NEW t0, NEW i0, NEW pt, Hangs(k, k2, G, t0, i0, pt)
    PROVE  LET it == Vmiter(k, root, va)
               l0 == G[t0].level
           IN IF it.table = t0 /\ pageindex(va, l0) = i0
              THEN it.level = l0 /\ Vmiter(k2, root, va) = Iter(root, pt, l0 - 1, PWU, va)
              ELSE Vmiter(k2, root, va) = it
<1> USE PageTableAssumption
<1> DEFINE W == Walk(k, AtRoot(root, va), TopLevel)
           X == Walk(k2, AtRoot(root, va), TopLevel)
           l0 == G[t0].level
<1>0. va \in Nat /\ l0 \in 1 .. TopLevel
    BY SpanIs DEF VaEnd, Hangs, Layout, Roles
<1>1. W[0] = AtRoot(root, va) /\ \A i \in 1 .. TopLevel : W[i] = Down(k, W[i - 1])
    BY WalkIs
<1>2. X[0] = AtRoot(root, va) /\ \A i \in 1 .. TopLevel : X[i] = Down(k2, X[i - 1])
    BY WalkIs
<1>3. \A i \in 0 .. TopLevel : OnPath(k, G, p, root, va, W[i], i)
    BY WalkOnPath
<1>4. Vmiter(k, root, va) = W[TopLevel] /\ Vmiter(k2, root, va) = X[TopLevel]
    BY VmiterIs
<1> HIDE DEF W, X, l0
<1> DEFINE Here(i) == W[i].table = t0 /\ pageindex(va, l0) = i0
           Q(i) == \/ X[i] = W[i] /\ (Here(i) => i = TopLevel - l0)
                   \/ Here(i) /\ X[i] = Iter(root, pt, l0 - 1, PWU, va)
<1>5. ASSUME NEW i \in 0 .. TopLevel
      PROVE  LET w == W[i]
             IN /\ w = Iter(root, w.table, w.level, PWU, va) /\ w.va = va
                /\ w.table \in Pages /\ w.level \in 0 .. TopLevel
                /\ G[w.table].kind = "table" /\ G[w.table].level = w.level
                /\ pageindex(va, w.level) \in Index
                /\ At(k, w) = k.mem[w.table].entry[pageindex(va, w.level)]
                /\ w.level = TopLevel - i \/ At(k, w).perm = {}
                /\ EntryFits(G, At(k, w), G[w.table], Prefix(va, w.level))
    <2> DEFINE w == W[i]
    <2>1. OnPath(k, G, p, root, va, w, i)
        BY <1>3
    <2> HIDE DEF w
    <2>2. /\ w = Iter(root, w.table, w.level, PWU, va) /\ w.va = va
          /\ w.table \in Pages /\ w.level \in 0 .. TopLevel
          /\ G[w.table] = TableOf(p, w.level, Prefix(va, w.level + 1))
          /\ w.level = TopLevel - i \/ At(k, w).perm = {}
        BY <2>1, IterFields DEF OnPath
    <2>3. G[w.table].kind = "table" /\ G[w.table].level = w.level
        BY <2>2 DEF TableOf, Role
    <2>4. /\ pageindex(va, w.level) \in Index
          /\ At(k, w) = k.mem[w.table].entry[pageindex(va, w.level)]
          /\ EntryFits(G, At(k, w), G[w.table], Prefix(va, w.level))
        BY <1>0, <2>2, AtFits
    <2> QED
        BY <2>2, <2>3, <2>4 DEF w
<1>6. Q(0)
    <2>1. W[0].table = root /\ W[0].level = TopLevel
        BY <1>1 DEF AtRoot
    <2>2. Here(0) => l0 = TopLevel
        BY <1>5, <2>1 DEF l0
    <2> QED
        BY <1>1, <1>2, <2>2
<1>7. ASSUME NEW i \in 0 .. TopLevel - 1, Q(i)
      PROVE  Q(i + 1)
    <2> DEFINE w == W[i]
               e == At(k, w)
    <2>0. i \in 0 .. TopLevel /\ i + 1 \in 1 .. TopLevel /\ i + 1 - 1 = i
        OBVIOUS
    <2>1. W[i + 1] = Down(k, w) /\ X[i + 1] = Down(k2, X[i])
        BY <1>1, <1>2, <2>0
    <2>2. /\ w = Iter(root, w.table, w.level, PWU, va) /\ w.va = va
          /\ w.table \in Pages /\ w.level \in 0 .. TopLevel
          /\ G[w.table].kind = "table" /\ G[w.table].level = w.level
          /\ pageindex(va, w.level) \in Index
          /\ e = k.mem[w.table].entry[pageindex(va, w.level)]
          /\ w.level = TopLevel - i \/ e.perm = {}
          /\ EntryFits(G, e, G[w.table], Prefix(va, w.level))
        BY <1>5, <2>0
    <2> HIDE DEF w, e
    <2>3. CASE Here(i) /\ X[i] = w
        <3>1. w.table = t0 /\ w.level = l0 /\ pageindex(va, l0) = i0 /\ l0 > 0
            BY <1>0, <2>2, <2>3 DEF w, l0
        <3>2. e.perm = {}
            BY <2>2, <3>1 DEF Hangs
        <3>3. Down(k, w) = w
            BY <3>2 DEF Down, e
        <3>4. At(k2, w) = Entry(pt, PWU)
            BY <2>2, <3>1 DEF Hangs, At
        <3>5. Down(k2, w) = Iter(root, pt, l0 - 1, PWU, va)
            <4>1. PICK d : d = At(k2, w)
                OBVIOUS
            <4>2. d.pa = pt /\ d.perm = PWU
                BY <3>4, <4>1 DEF Entry
            <4>3. PICK t : t = w.table
                OBVIOUS
            <4>4. w = Iter(root, t, l0, PWU, va)
                BY <2>2, <3>1, <4>3
            <4> QED
                BY <3>1, <4>1, <4>2, <4>4, DownGoes
        <3> QED
            BY <2>1, <2>3, <3>1, <3>3, <3>5
    <2>4. CASE ~ Here(i) /\ X[i] = w
        <3>1. ~ (w.table = t0 /\ pageindex(va, w.level) = i0)
            BY <2>2, <2>4 DEF w, l0
        <3>2. At(k2, w) = e
            <4>1. k2.mem[w.table].entry[pageindex(va, w.level)] = k.mem[w.table].entry[pageindex(va, w.level)]
                BY <2>2, <3>1 DEF Hangs
            <4> QED
                BY <2>2, <4>1 DEF At
        <3>3. Down(k2, w) = Down(k, w)
            BY <3>2 DEF Down, e
        <3>4. Here(i + 1) => i + 1 = TopLevel - l0
            <4>1. SUFFICES ASSUME Here(i + 1) PROVE i + 1 = TopLevel - l0
                OBVIOUS
            <4>2. Down(k, w) # w
                BY <2>1, <2>4, <4>1 DEF w
            <4>3. w.level > 0 /\ "P" \in e.perm
                BY <4>2 DEF Down, e
            <4>4. e.perm = PWU
                <5>1. G[w.table].level # 0 /\ e.perm # {}
                    BY <2>2, <4>3
                <5>2. EntryFits(G, e, G[w.table], Prefix(va, w.level))
                    BY <2>2
                <5> QED
                    BY <5>1, <5>2 DEF EntryFits
            <4>5. PICK t : t = w.table
                OBVIOUS
            <4>6. w = Iter(root, t, w.level, PWU, va) /\ e = At(k, w)
                BY <2>2, <4>5 DEF e
            <4>7. Down(k, w) = Iter(root, e.pa, w.level - 1, PWU, va)
                BY <4>3, <4>4, <4>6, DownGoes
            <4>8. W[i + 1].level = w.level - 1
                BY <2>1, <4>7, IterFields
            <4>9. W[i + 1].level = l0
                BY <1>5, <2>0, <4>1 DEF l0
            <4>10. w.level = TopLevel - i
                BY <2>2, <4>3
            <4> QED
                BY <1>0, <4>8, <4>9, <4>10
        <3> QED
            BY <2>1, <2>4, <3>3, <3>4
    <2>5. CASE Here(i) /\ X[i] = Iter(root, pt, l0 - 1, PWU, va)
        <3>1. w.table = t0 /\ w.level = l0 /\ pageindex(va, l0) = i0 /\ l0 > 0
            BY <1>0, <2>2, <2>5 DEF w, l0
        <3>2. e.perm = {}
            BY <2>2, <3>1 DEF Hangs
        <3>3. Down(k, w) = w
            BY <3>2 DEF Down, e
        <3>4. X[i].table = pt /\ X[i].va = va /\ X[i].level = l0 - 1
            BY <2>5, IterFields
        <3>5. l0 - 1 \in 0 .. TopLevel
            BY <1>0
        <3>6. pageindex(va, l0 - 1) \in Index
            BY <1>0, <3>5, PrefixIs
        <3>7. At(k2, X[i]).perm = {}
            BY <3>4, <3>6 DEF Hangs, At, Entry
        <3>8. Down(k2, X[i]) = X[i]
            BY <3>7 DEF Down
        <3> QED
            BY <2>1, <2>5, <3>3, <3>8 DEF w
    <2> QED
        BY <1>7, <2>3, <2>4, <2>5 DEF w
<1> HIDE DEF Q
<1> DEFINE T == {i \in Nat : i <= TopLevel /\ ~ Q(i)}
<1>8. T = {}
    <2>1. SUFFICES ASSUME T # {} PROVE FALSE
        OBVIOUS
    <2>2. PICK a \in T : \A b \in T : a <= b
        BY <2>1, LeastNat
    <2>3. a # 0
        BY <1>6, <2>2
    <2>4. a - 1 \in 0 .. TopLevel - 1 /\ a - 1 \notin T /\ a - 1 + 1 = a
        BY <2>2, <2>3
    <2>5. Q(a - 1)
        BY <2>4
    <2>6. Q(a - 1 + 1)
        BY <1>7, <2>4, <2>5
    <2> QED
        BY <2>2, <2>4, <2>6
<1>9. Q(TopLevel)
    BY <1>8
<1>10. TopLevel # TopLevel - l0
    BY <1>0
<1>11. Here(TopLevel) => W[TopLevel].level = l0
    BY <1>5 DEF l0
<1> QED
    BY <1>4, <1>9, <1>10, <1>11 DEF Q, l0

----------------------------------------------------------------------------
(* What an address space shows: the entry of every address.                 *)

Absent == Entry(0, {})

Leaf(k, root, va) == LET e == At(k, Vmiter(k, root, va)) IN IF e.perm = {} THEN Absent ELSE e

Reach(G, p, va) == \E t \in Pages : G[t] = TableOf(p, 0, Prefix(va, 1))

\* What the assumptions on the layout of memory come to.
LEMMA LowPages == 0 \in Pages /\ ProcStart \in Nat /\ ProcStart > 1 /\ ProcStart < VaEnd
                  /\ StackPage < VaEnd /\ MemVirtual \in Nat /\ MemVirtual < VaEnd
                  /\ ProcStart <= StackPage /\ StackPage \in Nat
                  /\ VaEnd \in Nat /\ Console \in 1 .. ProcStart - 1 /\ NPROC \in Nat
<1>1. VaEnd \in Nat
    BY SpanIs, PageTableAssumption DEF VaEnd
<1>2. Console \in 1 .. ProcStart - 1 /\ ProcStart \in Nat /\ MemVirtual \in Nat
    BY LayoutAssumption
<1> QED
    BY <1>1, <1>2, LayoutAssumption, KernelAssumption DEF StackPage

LEMMA AbsentIs == Absent.pa = 0 /\ Absent.perm = {} /\ Absent \in [pa : Pages, perm : SUBSET PWU]
    BY LowPages DEF Absent, Entry

\* vmiter::pa, perm and user read the leaf entry.
LEMMA LeafIs ==
    ASSUME NEW k, NEW G, NEW S, Layout(k, G, S), NEW p \in Nat, NEW root, IsRoot(G, p, root),
           NEW va \in 0 .. VaEnd - 1, NEW it, it = Vmiter(k, root, va),
           NEW e, e = Leaf(k, root, va)
    PROVE  /\ Pa(k, it) = IF e = Absent THEN NoPage ELSE e.pa
           /\ Perm(k, it) = e.perm
           /\ User(k, it) <=> e.perm = PWU
           /\ e \in [pa : Pages, perm : SUBSET PWU]
           /\ e = Absent <=> e.perm = {}
           /\ e = Absent <=> At(k, it).perm = {}
           /\ e # Absent => e = At(k, it) /\ it.level = 0
           /\ \/ e = Absent
              \/ /\ va < ProcStart /\ e.pa = va
                 /\ e.perm \in {{"P", "W"}, PWU} /\ (e.perm = PWU => va = Console)
              \/ va \in ProcStart .. StackPage /\ e.perm = PWU /\ G[e.pa] = DataOf(p, va)
<1> DEFINE a == At(k, it)
<1>0. va \in Nat
    BY LowPages
<1>1. /\ it = Iter(root, it.table, it.level, PWU, va)
      /\ it.table \in Pages /\ it.level \in 0 .. TopLevel
      /\ G[it.table] = TableOf(p, it.level, Prefix(va, it.level + 1))
      /\ it.level # 0 => a.perm = {}
      /\ a \in [pa : Pages, perm : SUBSET PWU]
      /\ EntryFits(G, a, G[it.table], Prefix(va, it.level))
    BY VmiterStops
<1>2. it.perm = PWU
    BY <1>1, IterFields
<1>3. G[it.table].pid = p /\ G[it.table].level = it.level
    BY <1>1 DEF TableOf, Role
<1>4. Prefix(va, 0) = va
    BY <1>0, PrefixIs
<1>5. e = IF a.perm = {} THEN Absent ELSE a
    BY DEF Leaf
<1> HIDE DEF a
<1>6. \/ a.perm = {}
      \/ /\ va < ProcStart /\ a.pa = va
         /\ a.perm \in {{"P", "W"}, PWU} /\ (a.perm = PWU => va = Console)
      \/ va \in ProcStart .. StackPage /\ a.perm = PWU /\ G[a.pa] = DataOf(p, va)
    <2>1. CASE a.perm = {}
        BY <2>1
    <2>2. CASE a.perm # {}
        <3>1. it.level = 0
            BY <1>1, <2>2
        <3>2. EntryFits(G, a, G[it.table], va)
            BY <1>1, <1>4, <3>1
        <3> QED
            BY <1>3, <2>2, <3>1, <3>2 DEF EntryFits
    <2> QED
        BY <2>1, <2>2
<1>7. a.perm = {} \/ a.perm = {"P", "W"} \/ a.perm = PWU
    BY <1>6
<1>8. Absent.perm = {} /\ Absent \in [pa : Pages, perm : SUBSET PWU]
    BY AbsentIs
<1>9. /\ e = Absent <=> e.perm = {}
      /\ e = Absent <=> a.perm = {}
      /\ e # Absent => e = a
    BY <1>5, <1>8
<1>10. a.perm = {} \/ "P" \in a.perm
    BY <1>7 DEF PWU
<1>11. Pa(k, it) = IF e = Absent THEN NoPage ELSE e.pa
    <2>1. Pa(k, it) = IF "P" \in a.perm THEN a.pa ELSE NoPage
        BY DEF Pa, a
    <2>2. "P" \in a.perm <=> e # Absent
        BY <1>9, <1>10
    <2> QED
        BY <1>9, <2>1, <2>2
<1>12. Perm(k, it) = e.perm
    <2>1. a.perm \cap it.perm = a.perm
        BY <1>1, <1>2
    <2>2. Perm(k, it) = IF "P" \in a.perm THEN a.perm ELSE {}
        BY <2>1 DEF Perm, a
    <2> QED
        BY <1>8, <1>9, <1>10, <2>2
<1>13. User(k, it) <=> e.perm = PWU
    <2>1. e.perm = {} \/ e.perm = {"P", "W"} \/ e.perm = PWU
        BY <1>7, <1>9
    <2>2. User(k, it) <=> {"P", "U"} \subseteq e.perm
        BY <1>12 DEF User
    <2> QED
        BY <2>1, <2>2 DEF PWU
<1>14. e \in [pa : Pages, perm : SUBSET PWU]
    BY <1>1, <1>5, <1>8
<1>15. e # Absent => it.level = 0
    BY <1>1, <1>9
<1>16. \/ e = Absent
       \/ /\ va < ProcStart /\ e.pa = va
          /\ e.perm \in {{"P", "W"}, PWU} /\ (e.perm = PWU => va = Console)
       \/ va \in ProcStart .. StackPage /\ e.perm = PWU /\ G[e.pa] = DataOf(p, va)
    BY <1>6, <1>9
<1> QED
    BY <1>9, <1>11, <1>12, <1>13, <1>14, <1>15, <1>16 DEF a

----------------------------------------------------------------------------
(* kalloc *)

\* kalloc takes a free page when there is one.
LEMMA FreePageIs ==
    ASSUME NEW k
    PROVE  /\ Free(k) = {} => FreePage(k) = NoPage
           /\ Free(k) # {} => FreePage(k) \in Free(k) /\ FreePage(k) # NoPage /\ FreePage(k) \in Pages
<1>1. Free(k) \subseteq Allocatable /\ Allocatable \subseteq Pages /\ Pages \subseteq Nat /\ NoPage \notin Pages
    BY PageTableAssumption DEF Free
<1>2. Free(k) = {} => FreePage(k) = NoPage
    BY DEF FreePage
<1>3. ASSUME Free(k) # {}
      PROVE  FreePage(k) \in Free(k)
    <2>1. Free(k) \in SUBSET Nat
        BY <1>1
    <2>2. \E pa \in Free(k) : \A q \in Free(k) : pa <= q
        BY <1>3, <2>1, LeastNat
    <2> QED
        BY <1>3, <2>2 DEF FreePage
<1> QED
    BY <1>1, <1>2, <1>3

Mem(m, r) == [mem |-> m, refcount |-> r]

LEMMA MemFields == \A m, r : Mem(m, r).mem = m /\ Mem(m, r).refcount = r
    BY DEF Mem

LEMMA MemExcept ==
    ASSUME NEW m, NEW r
    PROVE  /\ \A x : [Mem(m, r) EXCEPT !.mem = x] = Mem(x, r)
           /\ \A x : [Mem(m, r) EXCEPT !.refcount = x] = Mem(m, x)
    BY DEF Mem

\* kalloc counts the page and fills it with 0xCC.
LEMMA TakeIs ==
    ASSUME NEW k, k = Mem(k.mem, k.refcount), NEW pa
    PROVE  Take(k, pa) = Mem([k.mem EXCEPT ![pa] = Junk], [k.refcount EXCEPT ![pa] = @ + 1])
<1>1. PICK r : r = [k.refcount EXCEPT ![pa] = @ + 1]
    OBVIOUS
<1>2. PICK m : m = [k.mem EXCEPT ![pa] = Junk]
    OBVIOUS
<1>3. PICK a : a = [k EXCEPT !.refcount = r]
    OBVIOUS
<1>4. PICK b : b = [a EXCEPT !.mem = m]
    OBVIOUS
<1>5. a = Mem(k.mem, r)
    BY <1>3, MemExcept
<1>6. b = Mem(m, r)
    BY <1>4, <1>5, MemExcept
<1>7. Take(k, pa) = b
    <2>1. a.mem = k.mem
        BY <1>5, MemFields
    <2>2. Take(k, pa) = [k EXCEPT !.refcount = [k.refcount EXCEPT ![pa] = @ + 1], !.mem = [k.mem EXCEPT ![pa] = Junk]]
        BY DEF Take
    <2> QED
        BY <1>1, <1>2, <1>3, <1>4, <2>2
<1> QED
    BY <1>1, <1>2, <1>6, <1>7

----------------------------------------------------------------------------
(* One turn of try_map                                                      *)

St(k, it, ok) == [k |-> k, it |-> it, ok |-> ok]

LEMMA StFields == \A k, it, ok : St(k, it, ok).k = k /\ St(k, it, ok).it = it /\ St(k, it, ok).ok = ok
    BY DEF St

LEMMA StExcept ==
    ASSUME NEW k, NEW it, NEW ok
    PROVE  /\ \A x : [St(k, it, ok) EXCEPT !.k = x] = St(x, it, ok)
           /\ \A x : [St(k, it, ok) EXCEPT !.it = x] = St(k, x, ok)
           /\ \A x : [St(k, it, ok) EXCEPT !.ok = x] = St(k, it, x)
    BY DEF St

Shape(k) == k = Mem(k.mem, k.refcount) /\ k.refcount \in [Pages -> Nat]

HangMem(m, t, i, pt) ==
    [[[m EXCEPT ![pt] = Junk] EXCEPT ![pt] = EmptyTable] EXCEPT ![t].entry[i] = Entry(pt, PWU)]

Hung(k, t, i, pt) == Mem(HangMem(k.mem, t, i, pt), [k.refcount EXCEPT ![pt] = @ + 1])

\* What a turn makes of St(k, it, ok).
Turned(k, it, ok, s) ==
    \/ (it.level = 0 \/ ~ ok) /\ s = St(k, it, ok)
    \/ it.level # 0 /\ ok /\ FreePage(k) = NoPage /\ s = St(k, it, FALSE)
    \/ /\ it.level # 0 /\ ok /\ FreePage(k) # NoPage
       /\ \E k1 : /\ k1 = Hung(k, it.table, pageindex(it.va, it.level), FreePage(k))
                  /\ s = St(k1, Down(k1, it), ok)

\* One turn of try_map: at level 0 nothing, else a new table where one can be had.
LEMMA AddTableIs ==
    ASSUME NEW k, Shape(k), NEW it, NEW ok
    PROVE  Turned(k, it, ok, AddTable(St(k, it, ok)))
<1> DEFINE s == St(k, it, ok)
           i == pageindex(it.va, it.level)
           t == it.table
<1>0. s.k = k /\ s.it = it /\ s.ok = ok
    BY StFields
<1>1. PICK pt : pt = FreePage(k)
    OBVIOUS
<1>2. PICK k1 : k1 = [Take(k, pt) EXCEPT !.mem[pt] = EmptyTable, !.mem[t].entry[i] = Entry(pt, PWU)]
    OBVIOUS
<1>3. k1 = Hung(k, t, i, pt)
    <2>1. PICK a : a = Take(k, pt)
        OBVIOUS
    <2>2. a = Mem([k.mem EXCEPT ![pt] = Junk], [k.refcount EXCEPT ![pt] = @ + 1])
        BY <2>1, TakeIs DEF Shape
    <2>3. PICK m : m = [a.mem EXCEPT ![pt] = EmptyTable]
        OBVIOUS
    <2>4. PICK b : b = [a EXCEPT !.mem = m]
        OBVIOUS
    <2>5. PICK m2 : m2 = [b.mem EXCEPT ![t].entry[i] = Entry(pt, PWU)]
        OBVIOUS
    <2>6. b = Mem(m, a.refcount)
        BY <2>2, <2>4, MemExcept, MemFields
    <2>7. [b EXCEPT !.mem = m2] = Mem(m2, a.refcount)
        BY <2>6, MemExcept
    <2>8. k1 = [b EXCEPT !.mem = m2]
        <3>1. k1 = [[a EXCEPT !.mem[pt] = EmptyTable] EXCEPT !.mem[t].entry[i] = Entry(pt, PWU)]
            BY <1>2, <2>1
        <3>2. [a EXCEPT !.mem[pt] = EmptyTable] = b
            BY <2>3, <2>4
        <3> QED
            BY <2>5, <3>1, <3>2
    <2>9. m2 = HangMem(k.mem, t, i, pt)
        <3>1. a.mem = [k.mem EXCEPT ![pt] = Junk]
            BY <2>2, MemFields
        <3>2. b.mem = m
            BY <2>6, MemFields
        <3> QED
            BY <2>3, <2>5, <3>1, <3>2 DEF HangMem
    <2>10. a.refcount = [k.refcount EXCEPT ![pt] = @ + 1]
        BY <2>2, MemFields
    <2> QED
        BY <2>7, <2>8, <2>9, <2>10 DEF Hung
<1>4. AddTable(s) = IF it.level = 0 \/ ~ ok THEN s
                    ELSE IF pt = NoPage THEN [s EXCEPT !.ok = FALSE]
                    ELSE [s EXCEPT !.k = k1, !.it = Down(k1, it)]
    BY <1>0, <1>1, <1>2 DEF AddTable
<1>5. [s EXCEPT !.ok = FALSE] = St(k, it, FALSE)
    <2>1. PICK no : no = FALSE
        OBVIOUS
    <2>2. [St(k, it, ok) EXCEPT !.ok = no] = St(k, it, no)
        BY StExcept
    <2> QED
        BY <2>1, <2>2
<1>6. [s EXCEPT !.k = k1, !.it = Down(k1, it)] = St(k1, Down(k1, it), ok)
    <2>1. PICK d : d = Down(k1, it)
        OBVIOUS
    <2>2. [s EXCEPT !.k = k1] = St(k1, it, ok)
        BY StExcept
    <2>3. PICK s1 : s1 = [s EXCEPT !.k = k1]
        OBVIOUS
    <2>4. [s1 EXCEPT !.it = d] = St(k1, d, ok)
        <3>1. [St(k1, it, ok) EXCEPT !.it = d] = St(k1, d, ok)
            BY StExcept
        <3>2. s1 = St(k1, it, ok)
            BY <2>2, <2>3
        <3> QED
            BY <3>1, <3>2
    <2> QED
        BY <2>1, <2>3, <2>4
<1>7. CASE it.level = 0 \/ ~ ok
    BY <1>4, <1>7 DEF Turned
<1>8. CASE ~ (it.level = 0 \/ ~ ok) /\ pt = NoPage
    BY <1>1, <1>4, <1>5, <1>8 DEF Turned
<1>9. CASE ~ (it.level = 0 \/ ~ ok) /\ pt # NoPage
    BY <1>1, <1>3, <1>4, <1>6, <1>9 DEF Turned
<1> QED
    BY <1>7, <1>8, <1>9

\* A new table takes a page and no more.
LEMMA HungShape ==
    ASSUME NEW k, Shape(k), NEW t, NEW i, NEW pt \in Pages
    PROVE  LET k1 == Hung(k, t, i, pt)
           IN /\ Shape(k1) /\ Free(k1) \subseteq Free(k)
              /\ k1.refcount = [k.refcount EXCEPT ![pt] = @ + 1]
              /\ k1.mem = HangMem(k.mem, t, i, pt)
<1> DEFINE k1 == Hung(k, t, i, pt)
<1>1. k1.mem = HangMem(k.mem, t, i, pt) /\ k1.refcount = [k.refcount EXCEPT ![pt] = @ + 1]
    BY MemFields DEF Hung
<1>2. k1 = Mem(k1.mem, k1.refcount)
    BY <1>1 DEF Hung
<1> HIDE DEF k1
<1>3. k.refcount \in [Pages -> Nat]
    BY DEF Shape
<1>4. k1.refcount \in [Pages -> Nat]
    BY <1>1, <1>3
<1>5. \A q \in Pages : k1.refcount[q] = 0 => k.refcount[q] = 0
    BY <1>1, <1>3
<1>6. Free(k1) \subseteq Free(k)
    BY <1>5, PageTableAssumption DEF Free
<1> QED
    BY <1>1, <1>2, <1>4, <1>6 DEF Shape, k1

HungAs(k, t, i, pt, k1) ==
    /\ k1 \in Memories
    /\ k1.refcount = [k.refcount EXCEPT ![pt] = @ + 1]
    /\ k1.mem[pt] = EmptyTable
    /\ k1.mem[t] \in Tables
    /\ \A j \in Index : k1.mem[t].entry[j] = IF j = i THEN Entry(pt, PWU) ELSE k.mem[t].entry[j]
    /\ \A q \in Pages : q # t /\ q # pt => k1.mem[q] = k.mem[q]

\* A new table leaves every other page as it was, and every entry but one.
LEMMA HungIs ==
    ASSUME NEW k, k \in Memories, NEW t \in Pages, k.mem[t] \in Tables, NEW i \in Index,
           NEW pt \in Pages, pt # t
    PROVE  HungAs(k, t, i, pt, Hung(k, t, i, pt))
<1>0. PICK k1 : k1 = Hung(k, t, i, pt)
    OBVIOUS
<1>1. k1.mem = HangMem(k.mem, t, i, pt) /\ k1.refcount = [k.refcount EXCEPT ![pt] = @ + 1]
    BY <1>0, MemFields DEF Hung
<1>2. k.mem \in [Pages -> Contents \cup Tables] /\ k.refcount \in [Pages -> Nat]
    BY DEF Memories
<1>3. PICK m0 : m0 = [k.mem EXCEPT ![pt] = Junk]
    OBVIOUS
<1>4. PICK m : m = [m0 EXCEPT ![pt] = EmptyTable]
    OBVIOUS
<1>5. k1.mem = [m EXCEPT ![t].entry[i] = Entry(pt, PWU)]
    BY <1>1, <1>3, <1>4 DEF HangMem
<1>6. m[pt] = EmptyTable /\ (\A q \in Pages : q # pt => m[q] = k.mem[q]) /\ m = [q \in Pages |-> m[q]]
    BY <1>2, <1>3, <1>4
<1>7. PICK c : c = [m[t] EXCEPT !.entry[i] = Entry(pt, PWU)]
    OBVIOUS
<1>8. k1.mem = [m EXCEPT ![t] = c]
    BY <1>5, <1>7
<1>9. c \in Tables /\ \A j \in Index : c.entry[j] = IF j = i THEN Entry(pt, PWU) ELSE k.mem[t].entry[j]
    <2>1. m[t] = k.mem[t]
        BY <1>6
    <2>2. PICK e : e = k.mem[t].entry
        OBVIOUS
    <2>3. k.mem[t] = [entry |-> e] /\ e \in [Index -> [pa : Pages, perm : SUBSET PWU]]
        BY <2>2 DEF Tables
    <2>4. PICK f : f = [e EXCEPT ![i] = Entry(pt, PWU)]
        OBVIOUS
    <2>5. c = [entry |-> f]
        BY <1>7, <2>1, <2>3, <2>4
    <2>6. Entry(pt, PWU) \in [pa : Pages, perm : SUBSET PWU]
        BY DEF Entry
    <2>7. f \in [Index -> [pa : Pages, perm : SUBSET PWU]]
          /\ \A j \in Index : f[j] = IF j = i THEN Entry(pt, PWU) ELSE e[j]
        BY <2>3, <2>4, <2>6
    <2>8. c.entry = f
        BY <2>5
    <2> QED
        BY <2>2, <2>5, <2>7, <2>8 DEF Tables
<1>10. k1.mem[pt] = EmptyTable /\ k1.mem[t] = c /\ \A q \in Pages : q # t /\ q # pt => k1.mem[q] = k.mem[q]
    BY <1>6, <1>8
<1>11. EmptyTable \in Tables
    BY AbsentIs DEF EmptyTable, Tables, Absent
<1>12. k1.mem \in [Pages -> Contents \cup Tables]
    <2>1. k1.mem = [q \in Pages |-> k1.mem[q]]
        BY <1>6, <1>8
    <2>2. \A q \in Pages : k1.mem[q] \in Contents \cup Tables
        BY <1>2, <1>9, <1>10, <1>11
    <2> QED
        BY <2>1, <2>2
<1>13. k1.refcount \in [Pages -> Nat]
    BY <1>1, <1>2
<1>14. k1 = Mem(k1.mem, k1.refcount)
    BY <1>0, <1>1 DEF Hung
<1>15. k1 \in Memories
    BY <1>12, <1>13, <1>14 DEF Memories, Mem
<1> QED
    BY <1>0, <1>1, <1>9, <1>10, <1>15 DEF HungAs

LEMMA EmptyIs == \A j \in Index : EmptyTable.entry[j] = Absent
    BY DEF EmptyTable, Absent

----------------------------------------------------------------------------
(* Hanging a table where a walk stopped                                     *)

\* What a new table for process p leaves as it is.
Grows(k, G, k1, G1, p) ==
    /\ \A q \in Pages : G[q].kind # "none" => G1[q] = G[q]
    /\ \A q \in Pages : G[q].kind = "none" =>
          \/ G1[q] = G[q]
          \/ G1[q].kind = "table" /\ G1[q].pid = p
    /\ \A q \in Pages : G[q].kind \in {"data", "viewer"} => k1.mem[q] = k.mem[q]
    /\ \A p2 \in Nat, r \in Pages, v \in 0 .. VaEnd - 1 :
          IsRoot(G, p2, r) => Leaf(k1, r, v) = Leaf(k, r, v)

Loose(G, S) == \A q \in S : q \in Pages /\ G[q].kind = "data"

LEMMA RoleFields ==
    /\ \A c, p, l, b : /\ Role(c, p, l, b).kind = c /\ Role(c, p, l, b).pid = p
                       /\ Role(c, p, l, b).level = l /\ Role(c, p, l, b).base = b
    /\ \A p, l, b : /\ TableOf(p, l, b).kind = "table" /\ TableOf(p, l, b).pid = p
                    /\ TableOf(p, l, b).level = l /\ TableOf(p, l, b).base = b
    /\ \A p, b : /\ DataOf(p, b).kind = "data" /\ DataOf(p, b).pid = p
                 /\ DataOf(p, b).level = 0 /\ DataOf(p, b).base = b
    BY DEF TableOf, DataOf, Role

LEMMA RolesIs ==
    ASSUME NEW G, G \in [Pages -> Roles], NEW q \in Pages
    PROVE  /\ G[q].kind \in Kinds /\ G[q].pid \in Nat /\ G[q].level \in 0 .. TopLevel /\ G[q].base \in Nat
           /\ G[q].kind = "table" => G[q] = TableOf(G[q].pid, G[q].level, G[q].base)
    BY DEF Roles, TableOf, Role

\* A table other than a root's hangs in the table above it.
LEMMA TableHangs ==
    ASSUME NEW k, NEW G, NEW S, Layout(k, G, S), Loose(G, S), NEW q \in Pages,
           NEW p, NEW l, NEW b, G[q] = TableOf(p, l, b), l # TopLevel
    PROVE  \E t \in Pages, i \in Index :
              /\ k.mem[t] \in Tables /\ k.mem[t].entry[i] = Entry(q, PWU)
              /\ b = G[t].base * Fanout + i
              /\ G[t] = TableOf(p, l + 1, G[t].base)
<1>1. G[q].kind = "table" /\ G[q].pid = p /\ G[q].level = l /\ G[q].base = b
    BY RoleFields
<1>2. q \notin S
    BY <1>1 DEF Loose
<1>3. G[q] # TableOf(p, TopLevel, 0)
    <2>1. TableOf(p, TopLevel, 0).level = TopLevel
        BY RoleFields
    <2> QED
        BY <1>1, <2>1
<1>4. PICK t \in Pages, i \in Index :
              /\ k.mem[t] \in Tables /\ k.mem[t].entry[i] = Entry(q, PWU)
              /\ G[q].base = G[t].base * Fanout + i
              /\ \/ /\ G[q].kind = "table" /\ G[q].level < TopLevel
                    /\ G[t] = TableOf(G[q].pid, G[q].level + 1, G[t].base)
                 \/ /\ G[q] = DataOf(G[q].pid, G[q].base)
                    /\ G[t] = TableOf(G[q].pid, 0, G[t].base)
    BY <1>1, <1>2, <1>3 DEF Layout, Linked
<1>5. G[q] # DataOf(G[q].pid, G[q].base)
    <2>1. DataOf(p, b).kind = "data"
        BY RoleFields
    <2> QED
        BY <1>1, <2>1
<1> QED
    BY <1>1, <1>4, <1>5

LEMMA DigitsUnique ==
    ASSUME NEW b \in Nat, NEW c \in Nat, NEW i \in Index, NEW j \in Index,
           b * Fanout + i = c * Fanout + j
    PROVE  b = c /\ i = j
    BY DigitsIs

\* The table that a walk misses is nowhere.
LEMMA MissedTable ==
    ASSUME NEW k, NEW G, NEW S, Layout(k, G, S), Loose(G, S), NEW p \in Nat, NEW va \in Nat,
           NEW t \in Pages, NEW l \in 1 .. TopLevel, G[t] = TableOf(p, l, Prefix(va, l + 1)),
           k.mem[t].entry[pageindex(va, l)].perm = {}, NEW q \in Pages
    PROVE  G[q] # TableOf(p, l - 1, Prefix(va, l))
<1> SUFFICES ASSUME G[q] = TableOf(p, l - 1, Prefix(va, l))
             PROVE  FALSE
    OBVIOUS
<1> USE PageTableAssumption
<1>1. l - 1 # TopLevel /\ l - 1 + 1 = l /\ l \in 0 .. TopLevel
    OBVIOUS
<1>2. PICK t2 \in Pages, i \in Index :
              /\ k.mem[t2] \in Tables /\ k.mem[t2].entry[i] = Entry(q, PWU)
              /\ Prefix(va, l) = G[t2].base * Fanout + i
              /\ G[t2] = TableOf(p, l - 1 + 1, G[t2].base)
    BY <1>1, TableHangs
<1>3. G[t2].base \in Nat /\ G[t2] = TableOf(p, l, G[t2].base)
    BY <1>1, <1>2 DEF Layout, Roles
<1>4. /\ pageindex(va, l) \in Index /\ Prefix(va, l + 1) \in Nat
      /\ Prefix(va, l) = Prefix(va, l + 1) * Fanout + pageindex(va, l)
    BY <1>1, PrefixIs
<1>5. G[t2].base = Prefix(va, l + 1) /\ i = pageindex(va, l)
    <2>1. PICK b : b = G[t2].base
        OBVIOUS
    <2>2. PICK c : c = Prefix(va, l + 1)
        OBVIOUS
    <2>3. PICK j : j = pageindex(va, l)
        OBVIOUS
    <2>4. b \in Nat /\ c \in Nat /\ j \in Index /\ b * Fanout + i = c * Fanout + j
        BY <1>2, <1>3, <1>4, <2>1, <2>2, <2>3
    <2>5. b = c /\ i = j
        BY <2>4, DigitsUnique
    <2> QED
        BY <2>1, <2>2, <2>3, <2>5
<1>6. t2 = t
    <2>1. G[t2] = G[t] /\ G[t].kind = "table"
        BY <1>3, <1>5, RoleFields
    <2> QED
        BY <2>1 DEF Layout, Owned
<1>7. Entry(q, PWU).perm = {}
    BY <1>2, <1>5, <1>6
<1> QED
    BY <1>7 DEF Entry, PWU

\* With a free page in the role of the missing table the layout is kept.
LEMMA HangLayout ==
    ASSUME NEW k, NEW G, NEW S, Layout(k, G, S), Loose(G, S), NEW p \in Nat, NEW va \in Nat,
           NEW t \in Pages, NEW l \in 1 .. TopLevel, G[t] = TableOf(p, l, Prefix(va, l + 1)),
           k.mem[t].entry[pageindex(va, l)].perm = {},
           NEW pt, FreePage(k) = pt, pt # NoPage,
           NEW k1, Hung(k, t, pageindex(va, l), pt) = k1,
           NEW G1, [G EXCEPT ![pt] = TableOf(p, l - 1, Prefix(va, l))] = G1
    PROVE  /\ Layout(k1, G1, S)
           /\ Loose(G1, S)
           /\ Hangs(k, k1, G, t, pageindex(va, l), pt)
           /\ pt \in Allocatable
           /\ G[pt].kind = "none"
<1> USE PageTableAssumption
<1> DEFINE i0 == pageindex(va, l)
           r1 == TableOf(p, l - 1, Prefix(va, l))
<1>0. /\ k \in Memories /\ G \in [Pages -> Roles] /\ EntriesFit(k, G) /\ Owned(k, G) /\ Linked(k, G, S)
    BY DEF Layout
<1>1. pt \in Pages /\ pt \in Allocatable /\ k.refcount[pt] = 0
    <2>1. Free(k) # {}
        BY FreePageIs
    <2>2. pt \in Free(k)
        BY <2>1, FreePageIs
    <2> QED
        BY <2>2, FreePageIs DEF Free
<1>2. G[pt].kind = "none"
    <2>1. Owned(k, G) /\ k.refcount[pt] # 1
        BY <1>0, <1>1
    <2> QED
        BY <1>1, <2>1 DEF Owned
<1>3. G[t].kind = "table" /\ G[t].level = l /\ G[t].pid = p /\ G[t].base = Prefix(va, l + 1)
    BY RoleFields
<1>4. pt # t
    BY <1>2, <1>3
<1>5. i0 \in Index /\ Prefix(va, l) = Prefix(va, l + 1) * Fanout + i0 /\ Prefix(va, l) \in Nat
      /\ l \in 0 .. TopLevel /\ l - 1 \in 0 .. TopLevel
    <2>1. l \in 0 .. TopLevel /\ l \in 0 .. TopLevel + 1 /\ l - 1 \in 0 .. TopLevel
        OBVIOUS
    <2> QED
        BY <2>1, PrefixIs
<1>6. k.mem[t] \in Tables
    BY <1>0, <1>3 DEF EntriesFit
<1> HIDE DEF i0
<1>7. /\ k1 \in Memories
      /\ k1.refcount = [k.refcount EXCEPT ![pt] = @ + 1]
      /\ k1.mem[pt] = EmptyTable
      /\ k1.mem[t] \in Tables
      /\ \A j \in Index : k1.mem[t].entry[j] = IF j = i0 THEN Entry(pt, PWU) ELSE k.mem[t].entry[j]
      /\ \A q \in Pages : q # t /\ q # pt => k1.mem[q] = k.mem[q]
    <2>1. PICK i : i = i0
        OBVIOUS
    <2>2. Hung(k, t, i, pt) = k1 /\ i \in Index
        BY <1>5, <2>1 DEF i0
    <2>3. HungAs(k, t, i, pt, k1)
        BY <1>0, <1>1, <1>4, <1>6, <2>2, HungIs
    <2> QED
        BY <2>1, <2>3 DEF HungAs
<1>8. r1 \in Roles /\ r1.kind = "table"
    BY <1>5 DEF TableOf, Role, Roles, Kinds
<1>9. r1.pid = p /\ r1.level = l - 1 /\ r1.base = Prefix(va, l)
    BY RoleFields
<1>10. \A q \in Pages : G[q] # r1
    BY MissedTable
<1>11. G1 \in [Pages -> Roles] /\ G1[pt] = r1 /\ \A q \in Pages : q # pt => G1[q] = G[q]
    BY <1>0, <1>1, <1>8
<1> HIDE DEF r1
<1>12. \A q \in Pages : G[q].kind # "none" => G1[q] = G[q]
    BY <1>2, <1>11
<1>13. \A e \in [pa : Pages, perm : SUBSET PWU], r \in Roles, u \in Nat :
          EntryFits(G, e, r, u) => EntryFits(G1, e, r, u)
    <2> SUFFICES ASSUME NEW e \in [pa : Pages, perm : SUBSET PWU], NEW r \in Roles, NEW u \in Nat,
                        EntryFits(G, e, r, u)
                 PROVE  EntryFits(G1, e, r, u)
        OBVIOUS
    <2>1. e.pa \in Pages
        OBVIOUS
    <2>2. TableOf(r.pid, r.level - 1, u).kind = "table" /\ DataOf(r.pid, u).kind = "data"
        BY RoleFields
    <2>3. G[e.pa] = TableOf(r.pid, r.level - 1, u) => G1[e.pa] = TableOf(r.pid, r.level - 1, u)
        BY <1>12, <2>1, <2>2
    <2>4. G[e.pa] = DataOf(r.pid, u) => G1[e.pa] = DataOf(r.pid, u)
        BY <1>12, <2>1, <2>2
    <2> QED
        BY <2>3, <2>4 DEF EntryFits
<1>14. EntriesFit(k1, G1)
    <2> SUFFICES ASSUME NEW q \in Pages, G1[q].kind = "table"
                 PROVE  /\ k1.mem[q] \in Tables
                        /\ \A j \in Index : EntryFits(G1, k1.mem[q].entry[j], G1[q], G1[q].base * Fanout + j)
        BY DEF EntriesFit
    <2>1. CASE q = pt
        <3>1. k1.mem[q] \in Tables
            BY <1>7, <2>1, AbsentIs DEF EmptyTable, Tables, Absent
        <3>2. \A j \in Index : k1.mem[q].entry[j].perm = {}
            BY <1>7, <2>1, EmptyIs, AbsentIs
        <3> QED
            BY <3>1, <3>2 DEF EntryFits
    <2>2. CASE q # pt
        <3>1. G1[q] = G[q]
            BY <1>11, <2>2
        <3>2. k.mem[q] \in Tables /\ \A j \in Index : EntryFits(G, k.mem[q].entry[j], G[q], G[q].base * Fanout + j)
            BY <1>0, <3>1 DEF EntriesFit
        <3>3. k1.mem[q] \in Tables
            BY <1>7, <2>2, <3>2
        <3>4. ASSUME NEW j \in Index
              PROVE  EntryFits(G1, k1.mem[q].entry[j], G[q], G[q].base * Fanout + j)
            <4>1. CASE q = t /\ j = i0
                <5>1. k1.mem[q].entry[j] = Entry(pt, PWU)
                    BY <1>7, <4>1
                <5>2. Entry(pt, PWU).pa = pt /\ Entry(pt, PWU).perm = PWU
                    BY DEF Entry
                <5>3. G[q].base * Fanout + j = Prefix(va, l)
                    BY <1>3, <1>5, <4>1
                <5>4. G1[pt] = TableOf(G[q].pid, G[q].level - 1, Prefix(va, l)) /\ G[q].level > 0
                    BY <1>3, <1>11, <4>1 DEF r1
                <5> QED
                    BY <5>1, <5>2, <5>3, <5>4 DEF EntryFits
            <4>2. CASE ~ (q = t /\ j = i0)
                <5>1. k1.mem[q].entry[j] = k.mem[q].entry[j]
                    BY <1>7, <2>2, <4>2
                <5>2. k.mem[q].entry[j] \in [pa : Pages, perm : SUBSET PWU]
                    BY <3>2 DEF Tables
                <5>3. G[q] \in Roles /\ G[q].base * Fanout + j \in Nat
                    <6>1. G[q] \in Roles /\ G[q].base \in Nat
                        BY <1>0 DEF Roles
                    <6> QED
                        BY <6>1, DigitsIs
                <5> QED
                    BY <1>13, <3>2, <5>1, <5>2, <5>3
            <4> QED
                BY <4>1, <4>2
        <3> QED
            BY <3>1, <3>3, <3>4
    <2> QED
        BY <2>1, <2>2
<1>15. Owned(k1, G1)
    <2>0. k.refcount \in [Pages -> Nat]
        BY <1>0 DEF Memories
    <2>1. ASSUME NEW q \in Pages
          PROVE  /\ G1[q].kind = "none" => k1.refcount[q] = 0
                 /\ G1[q].kind # "none" => k1.refcount[q] = 1 /\ q \in Allocatable
                 /\ G1[q].kind # "table" => k1.mem[q] \in Contents
        <3>1. CASE q = pt
            BY <1>1, <1>7, <1>8, <1>11, <2>0, <3>1
        <3>2. CASE q # pt
            <4>1. G1[q] = G[q] /\ k1.refcount[q] = k.refcount[q]
                BY <1>7, <1>11, <2>0, <3>2
            <4>2. G[q].kind # "table" => k1.mem[q] = k.mem[q]
                BY <1>3, <1>7, <3>2
            <4> QED
                BY <1>0, <4>1, <4>2 DEF Owned
        <3> QED
            BY <3>1, <3>2
    <2>2. ASSUME NEW q \in Pages, NEW r \in Pages, G1[q].kind \in {"table", "data"}, G1[q] = G1[r]
          PROVE  q = r
        <3>1. CASE q # pt /\ r # pt
            BY <1>0, <1>11, <2>2, <3>1 DEF Owned
        <3>2. CASE q = pt \/ r = pt
            BY <1>10, <1>11, <2>2, <3>2
        <3> QED
            BY <3>1, <3>2
    <2> QED
        BY <2>1, <2>2 DEF Owned
<1>16. Linked(k1, G1, S)
    <2> SUFFICES ASSUME NEW q \in Pages \ S, G1[q].kind \notin {"none", "viewer"},
                        G1[q] # TableOf(G1[q].pid, TopLevel, 0)
                 PROVE  \E t2 \in Pages, i \in Index :
                           /\ k1.mem[t2] \in Tables
                           /\ k1.mem[t2].entry[i] = Entry(q, PWU)
                           /\ G1[q].base = G1[t2].base * Fanout + i
                           /\ \/ /\ G1[q].kind = "table" /\ G1[q].level < TopLevel
                                 /\ G1[t2] = TableOf(G1[q].pid, G1[q].level + 1, G1[t2].base)
                              \/ /\ G1[q] = DataOf(G1[q].pid, G1[q].base)
                                 /\ G1[t2] = TableOf(G1[q].pid, 0, G1[t2].base)
        BY DEF Linked
    <2>1. CASE q = pt
        <3>1. G1[q] = r1 /\ G1[t] = G[t]
            BY <1>4, <1>11, <2>1
        <3>2. k1.mem[t].entry[i0] = Entry(q, PWU)
            BY <1>5, <1>7, <2>1
        <3>3. G1[q].base = G1[t].base * Fanout + i0
            BY <1>3, <1>5, <1>9, <3>1
        <3>4. G1[q].level < TopLevel /\ G1[q].kind = "table"
            BY <1>8, <1>9, <3>1
        <3>5. l - 1 + 1 = l
            OBVIOUS
        <3>6. G1[t] = TableOf(G1[q].pid, G1[q].level + 1, G1[t].base)
            BY <1>3, <1>9, <3>1, <3>5
        <3> QED
            BY <1>5, <1>7, <3>2, <3>3, <3>4, <3>6
    <2>2. CASE q # pt
        <3>1. G1[q] = G[q]
            BY <1>11, <2>2
        <3>2. PICK t2 \in Pages, i \in Index :
                           /\ k.mem[t2] \in Tables
                           /\ k.mem[t2].entry[i] = Entry(q, PWU)
                           /\ G[q].base = G[t2].base * Fanout + i
                           /\ \/ /\ G[q].kind = "table" /\ G[q].level < TopLevel
                                 /\ G[t2] = TableOf(G[q].pid, G[q].level + 1, G[t2].base)
                              \/ /\ G[q] = DataOf(G[q].pid, G[q].base)
                                 /\ G[t2] = TableOf(G[q].pid, 0, G[t2].base)
            BY <1>0, <3>1 DEF Linked
        <3>3. G[t2].kind = "table"
            <4>1. \/ G[t2] = TableOf(G[q].pid, G[q].level + 1, G[t2].base)
                  \/ G[t2] = TableOf(G[q].pid, 0, G[t2].base)
                BY <3>2
            <4>2. /\ TableOf(G[q].pid, G[q].level + 1, G[t2].base).kind = "table"
                  /\ TableOf(G[q].pid, 0, G[t2].base).kind = "table"
                BY RoleFields
            <4> QED
                BY <4>1, <4>2
        <3>4. t2 # pt /\ G1[t2] = G[t2]
            BY <1>2, <1>11, <3>3
        <3>5. ~ (t2 = t /\ i = i0)
            <4>1. Entry(q, PWU).perm # {}
                BY DEF Entry, PWU
            <4> QED
                BY <3>2, <4>1 DEF i0
        <3>6. k1.mem[t2] \in Tables /\ k1.mem[t2].entry[i] = Entry(q, PWU)
            BY <1>7, <3>2, <3>4, <3>5
        <3> QED
            BY <3>1, <3>2, <3>4, <3>6
    <2> QED
        BY <2>1, <2>2
<1>17. Loose(G1, S)
    BY <1>12 DEF Loose
<1>18. Hangs(k, k1, G, t, i0, pt)
    <2>1. t \in Pages /\ G[t].kind = "table" /\ G[t].level > 0 /\ i0 \in Index
        BY <1>3, <1>5
    <2>2. k.mem[t].entry[i0].perm = {} /\ k1.mem[t].entry[i0] = Entry(pt, PWU)
        BY <1>5, <1>7 DEF i0
    <2>3. ASSUME NEW q \in Pages, G[q].kind = "table", NEW i \in Index, q # t \/ i # i0
          PROVE  k1.mem[q].entry[i] = k.mem[q].entry[i]
        BY <1>2, <1>7, <2>3
    <2>4. \A i \in Index : k1.mem[pt].entry[i] = Entry(0, {})
        BY <1>7, EmptyIs DEF Absent
    <2> QED
        BY <2>1, <2>2, <2>3, <2>4 DEF Hangs
<1>19. Layout(k1, G1, S)
    BY <1>7, <1>11, <1>14, <1>15, <1>16 DEF Layout
<1> QED
    BY <1>1, <1>2, <1>17, <1>18, <1>19 DEF i0

\* What a new table leaves as it is for every address, and where the walk for va goes on.
HungOn(k, G, S, p, root, va, l, k1) ==
    /\ \E G1 : Layout(k1, G1, S) /\ Loose(G1, S) /\ Grows(k, G, k1, G1, p)
    /\ Down(k1, Vmiter(k, root, va)) = Vmiter(k1, root, va)
    /\ Vmiter(k1, root, va).level = l - 1

\* And only the walks that stopped there move.
LEMMA HangAt ==
    ASSUME NEW k, NEW G, NEW S, Layout(k, G, S), Loose(G, S), NEW p \in Nat,
           NEW root, IsRoot(G, p, root), NEW va \in 0 .. VaEnd - 1,
           NEW t \in Pages, NEW l \in 1 .. TopLevel, Vmiter(k, root, va) = Iter(root, t, l, PWU, va),
           FreePage(k) # NoPage
    PROVE  HungOn(k, G, S, p, root, va, l, Hung(k, t, pageindex(va, l), FreePage(k)))
<1> PICK it : it = Iter(root, t, l, PWU, va) /\ Vmiter(k, root, va) = it
    OBVIOUS
<1> PICK pt : FreePage(k) = pt /\ pt # NoPage
    OBVIOUS
<1> PICK k1 : Hung(k, t, pageindex(va, l), pt) = k1
    OBVIOUS
<1> USE PageTableAssumption
<1>0. va \in Nat
    BY LowPages
<1>2. it.table = t
    BY IterFields
<1>3. it.level = l
    BY IterFields
<1>1. G[it.table] = TableOf(p, it.level, Prefix(va, it.level + 1)) /\ At(k, it).perm = {}
    BY <1>3, VmiterStops
<1>5. l \in 0 .. TopLevel /\ G[t] = TableOf(p, l, Prefix(va, l + 1)) /\ it.va = va
    BY <1>1, <1>2, <1>3, IterFields
<1>6. At(k, it) = k.mem[t].entry[pageindex(va, l)]
    BY <1>2, <1>3, <1>5 DEF At
<1>7. PICK G1 : [G EXCEPT ![pt] = TableOf(p, l - 1, Prefix(va, l))] = G1
    OBVIOUS
<1>9. /\ Layout(k1, G1, S)
      /\ Loose(G1, S)
      /\ Hangs(k, k1, G, t, pageindex(va, l), pt)
      /\ pt \in Allocatable
      /\ G[pt].kind = "none"
    <2>1. k.mem[t].entry[pageindex(va, l)].perm = {}
        BY <1>1, <1>6
    <2> QED
        BY <1>0, <1>5, <1>7, <2>1, HangLayout
<1>10. G[t].level = l /\ G[t].kind = "table"
    BY <1>5, RoleFields
<1>11. Vmiter(k1, root, va) = Iter(root, pt, l - 1, PWU, va)
    BY <1>2, <1>9, <1>10, WalkAdd
<1>12. Down(k1, it) = Iter(root, pt, l - 1, PWU, va)
    <2>1. PICK e : e = At(k1, it)
        OBVIOUS
    <2>2. e = Entry(pt, PWU)
        BY <1>2, <1>3, <1>5, <1>9, <2>1 DEF Hangs, At
    <2>3. e.pa = pt /\ e.perm = PWU
        BY <2>2 DEF Entry
    <2> QED
        <3>1. l > 0
            BY <1>5
        <3> QED
            BY <1>5, <2>1, <2>3, <3>1, DownGoes
<1>13. Vmiter(k1, root, va).level = l - 1
    BY <1>11, IterFields
<1>14. Grows(k, G, k1, G1, p)
    <2>0. G \in [Pages -> Roles] /\ pt \in Pages
        BY <1>9 DEF Layout
    <2>1. G1[pt] = TableOf(p, l - 1, Prefix(va, l)) /\ \A q \in Pages : q # pt => G1[q] = G[q]
        BY <1>7, <2>0
    <2>2. \A q \in Pages : G[q].kind # "none" => G1[q] = G[q]
        BY <1>9, <2>1
    <2>3. \A q \in Pages : G[q].kind = "none" =>
              G1[q] = G[q] \/ (G1[q].kind = "table" /\ G1[q].pid = p)
        BY <2>1, RoleFields
    <2>4. \A q \in Pages : G[q].kind \in {"data", "viewer"} => k1.mem[q] = k.mem[q]
        <3>1. k \in Memories /\ k.mem[t] \in Tables /\ pageindex(va, l) \in Index /\ pt # t
            BY <1>0, <1>5, <1>9, <1>10, PrefixIs DEF Layout, EntriesFit
        <3>2. \A q \in Pages : q # t /\ q # pt => k1.mem[q] = k.mem[q]
            <4>1. PICK i : pageindex(va, l) = i
                OBVIOUS
            <4>2. Hung(k, t, i, pt) = k1 /\ i \in Index
                BY <3>1, <4>1
            <4>3. HungAs(k, t, i, pt, k1)
                BY <2>0, <3>1, <4>2, HungIs
            <4> QED
                BY <4>3 DEF HungAs
        <3> QED
            BY <1>9, <1>10, <3>2
    <2>5. ASSUME NEW p2 \in Nat, NEW r \in Pages, NEW v \in 0 .. VaEnd - 1, IsRoot(G, p2, r)
          PROVE  Leaf(k1, r, v) = Leaf(k, r, v)
        <3>0. v \in Nat
            BY LowPages
        <3>1. PICK w : w = Vmiter(k, r, v)
            OBVIOUS
        <3>2. PICK x : x = Vmiter(k1, r, v)
            OBVIOUS
        <3>3. IF w.table = t /\ pageindex(v, l) = pageindex(va, l)
              THEN w.level = l /\ x = Iter(r, pt, l - 1, PWU, v)
              ELSE x = w
            BY <1>9, <1>10, <2>5, <3>1, <3>2, WalkAdd
        <3>4. /\ w = Iter(r, w.table, w.level, PWU, v) /\ w.va = v
              /\ w.table \in Pages /\ w.level \in 0 .. TopLevel
              /\ G[w.table] = TableOf(p2, w.level, Prefix(v, w.level + 1))
            BY <2>5, <3>1, VmiterStops, IterFields
        <3>5. G[w.table].kind = "table" /\ G[w.table].level = w.level
            BY <3>4, RoleFields
        <3>6. pageindex(v, w.level) \in Index /\ pageindex(v, l - 1) \in Index
            <4>1. l - 1 \in 0 .. TopLevel
                BY <1>5
            <4> QED
                BY <3>0, <3>4, <4>1, PrefixIs
        <3>7. CASE w.table = t /\ pageindex(v, l) = pageindex(va, l)
            <4>1. At(k, w).perm = {}
                BY <1>1, <1>6, <3>3, <3>4, <3>7 DEF At
            <4>2. x.table = pt /\ x.level = l - 1 /\ x.va = v
                BY <3>3, <3>7, IterFields
            <4>3. At(k1, x) = Entry(0, {})
                BY <1>9, <3>6, <4>2 DEF At, Hangs
            <4>4. Entry(0, {}).perm = {}
                BY DEF Entry
            <4> QED
                BY <3>1, <3>2, <4>1, <4>3, <4>4 DEF Leaf
        <3>8. CASE ~ (w.table = t /\ pageindex(v, l) = pageindex(va, l))
            <4>1. x = w
                BY <3>3, <3>8
            <4>2. ~ (w.table = t /\ pageindex(v, w.level) = pageindex(va, l))
                BY <1>10, <3>5, <3>8
            <4>3. At(k1, w) = At(k, w)
                BY <1>9, <3>4, <3>5, <3>6, <4>2 DEF At, Hangs
            <4> QED
                BY <3>1, <3>2, <4>1, <4>3 DEF Leaf
        <3> QED
            BY <3>7, <3>8
    <2> QED
        BY <2>2, <2>3, <2>4, <2>5 DEF Grows
<1> QED
    BY <1>9, <1>11, <1>12, <1>13, <1>14 DEF HungOn

\* The same at the place where the walk for va stops.
LEMMA HangIs ==
    ASSUME NEW k, NEW G, NEW S, Layout(k, G, S), Loose(G, S), NEW p \in Nat,
           NEW root, IsRoot(G, p, root), NEW va \in 0 .. VaEnd - 1,
           NEW it, it = Vmiter(k, root, va), it.level # 0, FreePage(k) # NoPage
    PROVE  HungOn(k, G, S, p, root, va, it.level,
                  Hung(k, it.table, pageindex(it.va, it.level), FreePage(k)))
<1>1. PICK t : it.table = t
    OBVIOUS
<1>2. PICK l : it.level = l
    OBVIOUS
<1>3. it = Iter(root, t, l, PWU, va) /\ t \in Pages /\ l \in 0 .. TopLevel
    BY <1>1, <1>2, VmiterStops
<1>4. it.va = va /\ l \in 1 .. TopLevel
    BY <1>2, <1>3, IterFields, PageTableAssumption
<1>5. Vmiter(k, root, va) = Iter(root, t, l, PWU, va)
    BY <1>3
<1>6. HungOn(k, G, S, p, root, va, l, Hung(k, t, pageindex(va, l), FreePage(k)))
    BY <1>3, <1>4, <1>5, HangAt
<1> QED
    BY <1>1, <1>2, <1>4, <1>6

\* What tables that are added leave alone.
LEMMA GrowsIs ==
    ASSUME NEW k, NEW G, NEW k1, NEW G1, NEW p, Grows(k, G, k1, G1, p)
    PROVE  /\ \A p2, r : IsRoot(G, p2, r) => IsRoot(G1, p2, r)
           /\ \A p2, va : Reach(G, p2, va) => Reach(G1, p2, va)
           /\ \A q \in Pages : G[q].kind # "none" => G1[q] = G[q]
<1>1. \A q \in Pages : G[q].kind # "none" => G1[q] = G[q]
    BY DEF Grows
<1>2. \A q \in Pages : \A p2, l, b : G[q] = TableOf(p2, l, b) => G1[q] = TableOf(p2, l, b)
    BY <1>1, RoleFields
<1> QED
    BY <1>1, <1>2 DEF IsRoot, Reach

LEMMA GrowsSelf ==
    ASSUME NEW k, NEW G, NEW p
    PROVE  Grows(k, G, k, G, p)
    BY DEF Grows

LEMMA GrowsOn ==
    ASSUME NEW k, NEW G, NEW k1, NEW G1, NEW k2, NEW G2, NEW p,
           Grows(k, G, k1, G1, p), Grows(k1, G1, k2, G2, p)
    PROVE  Grows(k, G, k2, G2, p)
<1>1. \A q \in Pages : G[q].kind # "none" => G1[q] = G[q] /\ G2[q] = G[q]
    BY DEF Grows
<1>2. \A q \in Pages : G[q].kind = "none" =>
          G2[q] = G[q] \/ (G2[q].kind = "table" /\ G2[q].pid = p)
    <2> SUFFICES ASSUME NEW q \in Pages, G[q].kind = "none"
                 PROVE  G2[q] = G[q] \/ (G2[q].kind = "table" /\ G2[q].pid = p)
        OBVIOUS
    <2>1. G1[q] = G[q] \/ (G1[q].kind = "table" /\ G1[q].pid = p)
        BY DEF Grows
    <2>2. CASE G1[q] = G[q]
        BY <2>2 DEF Grows
    <2>3. CASE G1[q].kind = "table" /\ G1[q].pid = p
        BY <2>3 DEF Grows
    <2> QED
        BY <2>1, <2>2, <2>3
<1>3. \A q \in Pages : G[q].kind \in {"data", "viewer"} => k2.mem[q] = k.mem[q]
    <2> SUFFICES ASSUME NEW q \in Pages, G[q].kind \in {"data", "viewer"}
                 PROVE  k2.mem[q] = k.mem[q]
        OBVIOUS
    <2>1. G1[q] = G[q]
        BY <1>1
    <2>2. k1.mem[q] = k.mem[q] /\ k2.mem[q] = k1.mem[q]
        BY <2>1 DEF Grows
    <2> QED
        BY <2>2
<1>4. \A p2 \in Nat, r \in Pages, v \in 0 .. VaEnd - 1 :
          IsRoot(G, p2, r) => Leaf(k2, r, v) = Leaf(k, r, v)
    <2> SUFFICES ASSUME NEW p2 \in Nat, NEW r \in Pages, NEW v \in 0 .. VaEnd - 1, IsRoot(G, p2, r)
                 PROVE  Leaf(k2, r, v) = Leaf(k, r, v)
        OBVIOUS
    <2>1. IsRoot(G1, p2, r)
        BY GrowsIs
    <2>2. Leaf(k1, r, v) = Leaf(k, r, v) /\ Leaf(k2, r, v) = Leaf(k1, r, v)
        BY <2>1 DEF Grows
    <2> QED
        BY <2>2
<1> QED
    BY <1>1, <1>2, <1>3, <1>4 DEF Grows

----------------------------------------------------------------------------
(* The loop of try_map                                                      *)

Adds(g, x, n) ==
    g = [i \in 0 .. n |-> IF i = 0 THEN x
                          ELSE CHOOSE y \in {AddTable(z) : z \in {g[i - 1]}} : TRUE]

LEMMA AddsStep ==
    ASSUME NEW x, NEW n \in Nat, NEW g, Adds(g, x, n)
    PROVE  g[0] = x /\ \A i \in 1 .. n : g[i] = AddTable(g[i - 1])
<1>1. g = [i \in 0 .. n |-> IF i = 0 THEN x
                            ELSE CHOOSE y \in {AddTable(z) : z \in {g[i - 1]}} : TRUE]
    BY DEF Adds
<1>2. g[0] = x
    BY <1>1
<1>3. ASSUME NEW i \in 1 .. n
      PROVE  g[i] = AddTable(g[i - 1])
    <2>1. i \in 0 .. n /\ i # 0
        OBVIOUS
    <2>2. g[i] = CHOOSE y \in {AddTable(z) : z \in {g[i - 1]}} : TRUE
        BY <1>1, <2>1
    <2>3. {AddTable(z) : z \in {g[i - 1]}} = {AddTable(g[i - 1])}
        OBVIOUS
    <2> QED
        BY <2>2, <2>3, OneOf
<1> QED
    BY <1>2, <1>3

\* The loop of try_map is a function on its turns.
LEMMA AddsExist == \A x : \A n \in Nat : \E g : Adds(g, x, n)
<1> TAKE x
<1> DEFINE S == {n \in Nat : ~ \E g : Adds(g, x, n)}
<1>1. SUFFICES ASSUME S # {} PROVE FALSE
    OBVIOUS
<1>2. PICK a \in S : \A b \in S : a <= b
    BY <1>1, LeastNat
<1>3. CASE a = 0
    <2>1. PICK g : g = [i \in 0 .. 0 |-> x]
        OBVIOUS
    <2>2. g = [i \in 0 .. 0 |-> IF i = 0 THEN x
                                ELSE CHOOSE y \in {AddTable(z) : z \in {g[i - 1]}} : TRUE]
        BY <2>1
    <2> QED
        BY <1>3, <2>2 DEF Adds
<1>4. CASE a # 0
    <2>1. a - 1 \in Nat /\ a - 1 \notin S
        BY <1>2, <1>4
    <2>2. PICK g : Adds(g, x, a - 1)
        BY <2>1
    <2>3. g[0] = x /\ \A i \in 1 .. a - 1 : g[i] = AddTable(g[i - 1])
        BY <2>1, <2>2, AddsStep
    <2>4. PICK h : h = [i \in 0 .. a |-> IF i = a THEN AddTable(g[a - 1]) ELSE g[i]]
        OBVIOUS
    <2>5. h[0] = x /\ \A i \in 1 .. a : h[i] = AddTable(h[i - 1])
        BY <1>4, <2>1, <2>3, <2>4
    <2>6. \A i \in 0 .. a : h[i] = IF i = 0 THEN x
                                   ELSE CHOOSE y \in {AddTable(z) : z \in {h[i - 1]}} : TRUE
        <3>1. TAKE i \in 0 .. a
        <3>2. CASE i = 0
            BY <2>5, <3>2
        <3>3. CASE i # 0
            <4>1. {AddTable(z) : z \in {h[i - 1]}} = {AddTable(h[i - 1])}
                OBVIOUS
            <4> QED
                BY <2>5, <3>3, <4>1, OneOf
        <3> QED
            BY <3>2, <3>3
    <2>7. h = [i \in 0 .. a |-> IF i = 0 THEN x
                                ELSE CHOOSE y \in {AddTable(z) : z \in {h[i - 1]}} : TRUE]
        <3>1. h = [i \in 0 .. a |-> h[i]]
            BY <2>4
        <3> QED
            BY <2>6, <3>1
    <2> QED
        BY <1>2, <2>7 DEF Adds
<1> QED
    BY <1>3, <1>4

Added(x, n) == CHOOSE g : Adds(g, x, n)

LEMMA AddedIs ==
    ASSUME NEW x, NEW n \in Nat
    PROVE  Added(x, n)[0] = x /\ \A i \in 1 .. n : Added(x, n)[i] = AddTable(Added(x, n)[i - 1])
<1>1. Adds(Added(x, n), x, n)
    BY AddsExist DEF Added
<1> QED
    BY <1>1, AddsStep

SetLeaf(s, va, e) ==
    IF s.ok /\ s.it.level = 0 THEN [s EXCEPT !.k.mem[s.it.table].entry[pageindex(va, 0)] = e] ELSE s

\* try_map when its loop begins.
Begun(k, root, va) == St(k, Vmiter(k, root, va), TRUE)

LEMMA TryMapsIs ==
    ASSUME NEW k, NEW root, NEW va, NEW n
    PROVE  TryMaps(k, root, va, n) = Added(Begun(k, root, va), n)
<1>1. PICK x : x = Begun(k, root, va)
    OBVIOUS
<1>2. Iterates(AddTable, x, n) = Added(x, n)
    BY DEF Iterates, Added, Adds
<1>3. TryMaps(k, root, va, n) = Iterates(AddTable, x, n)
    BY <1>1 DEF TryMaps, St, Begun
<1> QED
    BY <1>1, <1>2, <1>3

\* memory_map is the loop, then the store of the entry.
LEMMA MemoryMapIs ==
    ASSUME NEW k, NEW root, NEW va, NEW pa, NEW perm
    PROVE  LET x == St(k, Vmiter(k, root, va), TRUE)
               n == IF perm = {} THEN 0 ELSE TopLevel
           IN MemoryMap(k, root, va, pa, perm) = SetLeaf(Added(x, n)[n], va, Entry(pa, perm))
<1>1. PICK n : n = IF perm = {} THEN 0 ELSE TopLevel
    OBVIOUS
<1>2. MemoryMap(k, root, va, pa, perm)
      = SetLeaf(TryMaps(k, root, va, n)[n], va, Entry(pa, perm))
    BY <1>1 DEF MemoryMap, SetLeaf
<1>3. TryMaps(k, root, va, n) = Added(Begun(k, root, va), n)
    BY TryMapsIs
<1> QED
    BY <1>1, <1>2, <1>3 DEF Begun

\* Whatever the state, a turn only takes pages.
LEMMA AddedShape ==
    ASSUME NEW x, NEW n \in Nat, x = St(x.k, x.it, x.ok), Shape(x.k)
    PROVE  \A i \in 0 .. n :
              LET s == Added(x, n)[i]
              IN /\ s = St(s.k, s.it, s.ok) /\ Shape(s.k)
                 /\ Free(s.k) \subseteq Free(x.k)
                 /\ i > 0 => Free(s.k) \subseteq Free(Added(x, n)[i - 1].k)
<1> DEFINE A == Added(x, n)
           P(i) == /\ A[i] = St(A[i].k, A[i].it, A[i].ok) /\ Shape(A[i].k)
                   /\ Free(A[i].k) \subseteq Free(x.k)
                   /\ i > 0 => Free(A[i].k) \subseteq Free(A[i - 1].k)
<1>1. A[0] = x /\ \A i \in 1 .. n : A[i] = AddTable(A[i - 1])
    BY AddedIs
<1> HIDE DEF A
<1>2. P(0)
    BY <1>1
<1>3. ASSUME NEW i \in 1 .. n, P(i - 1)
      PROVE  P(i)
    <2>1. PICK s : s = A[i - 1]
        OBVIOUS
    <2>2. PICK k : s.k = k
        OBVIOUS
    <2>3. PICK it : s.it = it
        OBVIOUS
    <2>4. PICK ok : s.ok = ok
        OBVIOUS
    <2>5. s = St(k, it, ok) /\ Shape(k) /\ A[i] = AddTable(s) /\ Free(k) \subseteq Free(x.k)
        BY <1>1, <1>3, <2>1, <2>2, <2>3, <2>4
    <2>6. Turned(k, it, ok, A[i])
        BY <2>5, AddTableIs
    <2>9. /\ A[i] = St(A[i].k, A[i].it, A[i].ok) /\ Shape(A[i].k)
          /\ Free(A[i].k) \subseteq Free(k)
        <3>1. CASE A[i] = St(k, it, ok)
            BY <2>5, <3>1, StFields
        <3>2. CASE A[i] = St(k, it, FALSE)
            <4>1. PICK no : no = FALSE
                OBVIOUS
            <4>2. A[i] = St(k, it, no)
                BY <3>2, <4>1
            <4> QED
                BY <2>5, <4>2, StFields
        <3>3. CASE ~ (A[i] = St(k, it, ok)) /\ ~ (A[i] = St(k, it, FALSE))
            <4>1. FreePage(k) # NoPage
                  /\ \E k1 : /\ k1 = Hung(k, it.table, pageindex(it.va, it.level), FreePage(k))
                             /\ A[i] = St(k1, Down(k1, it), ok)
                BY <2>6, <3>3 DEF Turned
            <4>2. PICK k1 : /\ Hung(k, it.table, pageindex(it.va, it.level), FreePage(k)) = k1
                            /\ A[i] = St(k1, Down(k1, it), ok)
                BY <4>1
            <4>3. FreePage(k) \in Pages
                BY <4>1, FreePageIs
            <4>4. Shape(k1) /\ Free(k1) \subseteq Free(k)
                BY <2>5, <4>2, <4>3, HungShape
            <4> QED
                BY <4>2, <4>4, StFields
        <3> QED
            BY <3>1, <3>2, <3>3
    <2> QED
        BY <2>1, <2>2, <2>5, <2>9
<1> HIDE DEF P
<1> DEFINE T == {i \in Nat : i <= n /\ ~ P(i)}
<1>4. T = {}
    <2>1. SUFFICES ASSUME T # {} PROVE FALSE
        OBVIOUS
    <2>2. PICK a \in T : \A b \in T : a <= b
        BY <2>1, LeastNat
    <2>3. a # 0
        BY <1>2, <2>2
    <2>4. a \in 1 .. n /\ a - 1 \in Nat /\ a - 1 \notin T
        BY <2>2, <2>3
    <2>5. P(a - 1)
        BY <2>4
    <2> QED
        BY <1>3, <2>2, <2>4, <2>5
<1>5. ASSUME NEW i \in 0 .. n
      PROVE  LET s == A[i]
             IN /\ s = St(s.k, s.it, s.ok) /\ Shape(s.k)
                /\ Free(s.k) \subseteq Free(x.k)
                /\ i > 0 => Free(s.k) \subseteq Free(A[i - 1].k)
    <2>1. P(i)
        BY <1>4
    <2> QED
        BY <2>1 DEF P
<1> QED
    BY <1>5 DEF A

InLoop(k, G, S, p, root, va, s, i) ==
    /\ s = St(s.k, Vmiter(s.k, root, va), TRUE)
    /\ s.it.level \in 0 .. TopLevel - i
    /\ \E G1 : Layout(s.k, G1, S) /\ Loose(G1, S) /\ Grows(k, G, s.k, G1, p)

\* As long as there are pages, a turn reaches one level further down.
LEMMA TurnIs ==
    ASSUME NEW k, NEW G, NEW S, NEW p \in Nat,
           NEW root, IsRoot(G, p, root), NEW va \in 0 .. VaEnd - 1, NEW s,
           NEW i \in 0 .. TopLevel - 1, InLoop(k, G, S, p, root, va, s, i), Free(s.k) # {}
    PROVE  InLoop(k, G, S, p, root, va, AddTable(s), i + 1)
<1> USE PageTableAssumption
<1>0. PICK k0 : k0 = s.k
    OBVIOUS
<1>1. PICK it : it = Vmiter(k0, root, va)
    OBVIOUS
<1>2. PICK yes : yes = TRUE
    OBVIOUS
<1>3. s = St(k0, it, yes) /\ s.it = it /\ it.level \in 0 .. TopLevel - i
    <2>1. s = St(k0, it, yes)
        BY <1>0, <1>1, <1>2 DEF InLoop
    <2>2. s.it = it
        BY <2>1, StFields
    <2> QED
        BY <2>1, <2>2 DEF InLoop
<1>4. PICK G1 : Layout(k0, G1, S) /\ Loose(G1, S) /\ Grows(k, G, k0, G1, p)
    BY <1>0 DEF InLoop
<1>5. IsRoot(G1, p, root)
    BY <1>4, GrowsIs
<1>6. Shape(k0)
    BY <1>4 DEF Layout, Memories, Shape, Mem
<1>7. Turned(k0, it, yes, AddTable(s))
    BY <1>3, <1>6, AddTableIs
<1>8. FreePage(k0) # NoPage
    BY <1>0, FreePageIs
<1>9. CASE it.level = 0
    <2>1. AddTable(s) = s
        BY <1>2, <1>3, <1>7, <1>9 DEF Turned
    <2>2. it.level \in 0 .. TopLevel - (i + 1)
        BY <1>9
    <2>3. s = St(s.k, Vmiter(s.k, root, va), TRUE)
        BY DEF InLoop
    <2> QED
        BY <1>0, <1>3, <1>4, <2>1, <2>2, <2>3 DEF InLoop
<1>10. CASE it.level # 0
    <2>1. PICK k1 : /\ Hung(k0, it.table, pageindex(it.va, it.level), FreePage(k0)) = k1
                    /\ AddTable(s) = St(k1, Down(k1, it), yes)
        BY <1>2, <1>7, <1>8, <1>10 DEF Turned
    <2>2. HungOn(k0, G1, S, p, root, va, it.level, k1)
        BY <1>1, <1>4, <1>5, <1>8, <1>10, <2>1, HangIs
    <2>3. PICK G2 : Layout(k1, G2, S) /\ Loose(G2, S) /\ Grows(k0, G1, k1, G2, p)
        BY <2>2 DEF HungOn
    <2>4. Grows(k, G, k1, G2, p)
        BY <1>4, <2>3, GrowsOn
    <2>5. Down(k1, it) = Vmiter(k1, root, va) /\ Vmiter(k1, root, va).level = it.level - 1
        BY <1>1, <2>2 DEF HungOn
    <2>6. PICK s1 : s1 = AddTable(s)
        OBVIOUS
    <2>7. s1 = St(k1, Vmiter(k1, root, va), yes)
        BY <2>1, <2>5, <2>6
    <2>8. s1.k = k1 /\ s1.it = Vmiter(k1, root, va)
        BY <2>7, StFields
    <2>9. s1.it.level \in 0 .. TopLevel - (i + 1)
        BY <1>3, <1>10, <2>5, <2>8
    <2>10. s1 = St(s1.k, Vmiter(s1.k, root, va), TRUE)
        BY <1>2, <2>7, <2>8
    <2> QED
        BY <2>3, <2>4, <2>6, <2>8, <2>9, <2>10 DEF InLoop
<1> QED
    BY <1>9, <1>10

\* While there are pages the loop adds the missing tables, from the top down.
LEMMA LoopIs ==
    ASSUME NEW k, NEW G, NEW S, Layout(k, G, S), Loose(G, S), NEW p \in Nat,
           NEW root, IsRoot(G, p, root), NEW va \in 0 .. VaEnd - 1,
           NEW x, St(k, Vmiter(k, root, va), TRUE) = x, NEW n \in 0 .. TopLevel
    PROVE  \A i \in 0 .. n : Free(Added(x, n)[i].k) # {} =>
              InLoop(k, G, S, p, root, va, Added(x, n)[i], i)
<1> USE PageTableAssumption
<1>0. PICK A : A = Added(x, n)
    OBVIOUS
<1>1. x = St(x.k, x.it, x.ok) /\ x.k = k /\ x.it = Vmiter(k, root, va)
    <2>1. PICK yes : yes = TRUE
        OBVIOUS
    <2>2. PICK it : it = Vmiter(k, root, va)
        OBVIOUS
    <2>3. x = St(k, it, yes)
        BY <2>1, <2>2
    <2> QED
        BY <2>2, <2>3, StFields
<1>2. Shape(x.k)
    BY <1>1 DEF Layout, Memories, Shape, Mem
<1>3. A[0] = x /\ \A i \in 1 .. n : A[i] = AddTable(A[i - 1])
    <2>1. n \in Nat
        OBVIOUS
    <2> QED
        BY <1>0, <2>1, AddedIs
<1>4. \A i \in 0 .. n : i > 0 => Free(A[i].k) \subseteq Free(A[i - 1].k)
    <2>1. n \in Nat /\ x = St(x.k, x.it, x.ok)
        BY <1>1
    <2> QED
        BY <1>0, <1>2, <2>1, AddedShape
<1> DEFINE P(i) == Free(A[i].k) # {} => InLoop(k, G, S, p, root, va, A[i], i)
<1>5. P(0)
    <2>1. x.it.level \in 0 .. TopLevel - 0
        <3>1. PICK it : it = Vmiter(k, root, va)
            OBVIOUS
        <3>2. it.level \in 0 .. TopLevel
            BY <3>1, VmiterStops
        <3> QED
            BY <1>1, <3>1, <3>2
    <2>2. Grows(k, G, k, G, p)
        BY GrowsSelf
    <2>3. x = St(x.k, Vmiter(x.k, root, va), TRUE)
        BY <1>1
    <2> QED
        BY <1>1, <1>3, <2>1, <2>2, <2>3 DEF InLoop
<1>6. ASSUME NEW i \in 1 .. n, P(i - 1)
      PROVE  P(i)
    <2>1. SUFFICES ASSUME Free(A[i].k) # {} PROVE InLoop(k, G, S, p, root, va, A[i], i)
        OBVIOUS
    <2>2. i - 1 \in 0 .. TopLevel - 1 /\ i - 1 + 1 = i /\ i \in 0 .. n /\ i > 0
        OBVIOUS
    <2>3. Free(A[i - 1].k) # {}
        BY <1>4, <2>1, <2>2
    <2>4. InLoop(k, G, S, p, root, va, A[i - 1], i - 1)
        BY <1>6, <2>3
    <2>5. InLoop(k, G, S, p, root, va, AddTable(A[i - 1]), i - 1 + 1)
        BY <2>2, <2>3, <2>4, TurnIs
    <2> QED
        BY <1>3, <2>2, <2>5
<1> HIDE DEF P
<1> DEFINE T == {i \in Nat : i <= n /\ ~ P(i)}
<1>7. T = {}
    <2>1. SUFFICES ASSUME T # {} PROVE FALSE
        OBVIOUS
    <2>2. PICK a \in T : \A b \in T : a <= b
        BY <2>1, LeastNat
    <2>3. a # 0
        BY <1>5, <2>2
    <2>4. a \in 1 .. n /\ a - 1 \in Nat /\ a - 1 \notin T
        BY <2>2, <2>3
    <2>5. P(a - 1)
        BY <2>4
    <2> QED
        BY <1>6, <2>2, <2>4, <2>5
<1>8. \A i \in 0 .. n : P(i)
    BY <1>7
<1> QED
    BY <1>0, <1>8 DEF P

----------------------------------------------------------------------------
(* Tables that a walk reaches                                               *)

\* The walk ends in a table of leaves where there is one.
LEMMA ReachIs ==
    ASSUME NEW k, NEW G, NEW S, Layout(k, G, S), Loose(G, S), NEW p \in Nat,
           NEW root, IsRoot(G, p, root), NEW va \in 0 .. VaEnd - 1
    PROVE  Reach(G, p, va) <=> Vmiter(k, root, va).level = 0
<1> USE PageTableAssumption
<1>0. va \in Nat
    BY LowPages
<1>1. PICK it : it = Vmiter(k, root, va)
    OBVIOUS
<1>2. /\ it.table \in Pages /\ it.level \in 0 .. TopLevel /\ it.va = va
      /\ G[it.table] = TableOf(p, it.level, Prefix(va, it.level + 1))
      /\ it.level # 0 => At(k, it).perm = {}
    <2>1. /\ it = Iter(root, it.table, it.level, PWU, va)
          /\ it.table \in Pages /\ it.level \in 0 .. TopLevel
          /\ G[it.table] = TableOf(p, it.level, Prefix(va, it.level + 1))
          /\ it.level # 0 => At(k, it).perm = {}
        BY <1>1, VmiterStops
    <2> QED
        BY <2>1, IterFields
<1>3. it.level = 0 => Reach(G, p, va)
    <2>1. it.level = 0 => it.level + 1 = 1
        OBVIOUS
    <2> QED
        BY <1>2, <2>1 DEF Reach
<1>4. ASSUME Reach(G, p, va), it.level # 0 PROVE FALSE
    <2> DEFINE has(j) == \E q \in Pages : G[q] = TableOf(p, j, Prefix(va, j + 1))
    <2>1. has(0)
        BY <1>4 DEF Reach
    <2>2. ASSUME NEW j \in 1 .. TopLevel, has(j - 1) PROVE has(j)
        <3>1. PICK q \in Pages : G[q] = TableOf(p, j - 1, Prefix(va, j))
            BY <2>2
        <3>2. j - 1 # TopLevel /\ j - 1 + 1 = j /\ j \in 0 .. TopLevel
            OBVIOUS
        <3>3. PICK t \in Pages, i \in Index :
              /\ k.mem[t] \in Tables /\ k.mem[t].entry[i] = Entry(q, PWU)
              /\ Prefix(va, j) = G[t].base * Fanout + i
              /\ G[t] = TableOf(p, j - 1 + 1, G[t].base)
            BY <3>1, <3>2, TableHangs
        <3>4. PICK b : b = G[t].base
            OBVIOUS
        <3>5. PICK c : c = Prefix(va, j + 1)
            OBVIOUS
        <3>6. PICK m : m = pageindex(va, j)
            OBVIOUS
        <3>7. b \in Nat /\ c \in Nat /\ m \in Index /\ b * Fanout + i = c * Fanout + m
            <4>1. b \in Nat
                BY <3>4, RolesIs DEF Layout
            <4>2. j + 1 \in 0 .. TopLevel + 1
                OBVIOUS
            <4>3. c \in Nat /\ m \in Index /\ Prefix(va, j) = c * Fanout + m
                BY <1>0, <3>2, <3>5, <3>6, <4>2, PrefixIs
            <4> QED
                BY <3>3, <3>4, <4>1, <4>3
        <3>8. b = c
            BY <3>7, DigitsUnique
        <3> QED
            BY <3>2, <3>3, <3>4, <3>5, <3>8
    <2> HIDE DEF has
    <2> DEFINE T == {j \in Nat : j <= TopLevel /\ ~ has(j)}
    <2>3. T = {}
        <3>1. SUFFICES ASSUME T # {} PROVE FALSE
            OBVIOUS
        <3>2. PICK a \in T : \A b \in T : a <= b
            BY <3>1, LeastNat
        <3>3. a # 0
            BY <2>1, <3>2
        <3>4. a \in 1 .. TopLevel /\ a - 1 \in Nat /\ a - 1 \notin T
            BY <3>2, <3>3
        <3> QED
            BY <2>2, <3>2, <3>4
    <2>4. PICK l : it.level = l
        OBVIOUS
    <2>5. l \in 1 .. TopLevel /\ l - 1 \in Nat /\ l - 1 <= TopLevel /\ l - 1 + 1 = l
        BY <1>2, <1>4, <2>4
    <2>6. has(l - 1)
        BY <2>3, <2>5
    <2>7. PICK q \in Pages : G[q] = TableOf(p, l - 1, Prefix(va, l))
        BY <2>5, <2>6 DEF has
    <2>8. PICK t : it.table = t
        OBVIOUS
    <2>9. t \in Pages /\ G[t] = TableOf(p, l, Prefix(va, l + 1)) /\ k.mem[t].entry[pageindex(va, l)].perm = {}
        BY <1>2, <1>4, <2>4, <2>8 DEF At
    <2> QED
        BY <1>0, <2>5, <2>7, <2>9, MissedTable
<1> QED
    BY <1>1, <1>3, <1>4

\* A page of data in use is the one mapped at its address.
LEMMA DataIsMapped ==
    ASSUME NEW k, NEW G, NEW S, Layout(k, G, S), Loose(G, S), NEW p \in Nat,
           NEW root, IsRoot(G, p, root), NEW va \in 0 .. VaEnd - 1,
           NEW q \in Pages \ S, G[q] = DataOf(p, va)
    PROVE  Leaf(k, root, va) = Entry(q, PWU)
<1> USE PageTableAssumption
<1>0. va \in Nat
    BY LowPages
<1>1. G[q].kind = "data" /\ G[q].pid = p /\ G[q].base = va
    BY RoleFields
<1>2. G[q] # TableOf(G[q].pid, TopLevel, 0) /\ G[q].kind # "table"
    BY <1>1, RoleFields
<1>3. PICK t \in Pages, i \in Index :
         /\ k.mem[t] \in Tables /\ k.mem[t].entry[i] = Entry(q, PWU)
         /\ G[q].base = G[t].base * Fanout + i
         /\ G[t] = TableOf(G[q].pid, 0, G[t].base)
    BY <1>1, <1>2 DEF Layout, Linked
<1>4. G[t].base = Prefix(va, 1) /\ i = pageindex(va, 0)
    <2>1. PICK b : b = G[t].base
        OBVIOUS
    <2>2. PICK c : c = Prefix(va, 1)
        OBVIOUS
    <2>3. PICK m : m = pageindex(va, 0)
        OBVIOUS
    <2>4. b \in Nat /\ c \in Nat /\ m \in Index /\ b * Fanout + i = c * Fanout + m
        <3>1. b \in Nat
            BY <2>1, RolesIs DEF Layout
        <3>2. 0 \in 0 .. TopLevel /\ 0 + 1 \in 0 .. TopLevel + 1 /\ 0 + 1 = 1
            OBVIOUS
        <3>3. Prefix(va, 0) = va
            BY <1>0, PrefixIs
        <3>4. c \in Nat /\ m \in Index /\ va = c * Fanout + m
            BY <1>0, <2>2, <2>3, <3>2, <3>3, PrefixIs
        <3> QED
            BY <1>1, <1>3, <2>1, <3>1, <3>4
    <2> QED
        BY <2>1, <2>2, <2>3, <2>4, DigitsUnique
<1>5. G[t] = TableOf(p, 0, Prefix(va, 1))
    BY <1>1, <1>3, <1>4
<1>6. PICK it : it = Vmiter(k, root, va)
    OBVIOUS
<1>7. it.level = 0
    <2>1. Reach(G, p, va)
        BY <1>5 DEF Reach
    <2> QED
        BY <1>6, <2>1, ReachIs
<1>8. it.table \in Pages /\ it.va = va /\ G[it.table] = TableOf(p, it.level, Prefix(va, it.level + 1))
    <2>1. it = Iter(root, it.table, it.level, PWU, va) /\ it.table \in Pages
          /\ G[it.table] = TableOf(p, it.level, Prefix(va, it.level + 1))
        BY <1>6, VmiterStops
    <2> QED
        BY <2>1, IterFields
<1>9. it.table = t
    <2>1. G[it.table] = G[t] /\ G[t].kind = "table"
        BY <1>5, <1>7, <1>8, RoleFields
    <2> QED
        BY <1>8, <2>1 DEF Layout, Owned
<1>10. At(k, it) = Entry(q, PWU)
    BY <1>3, <1>4, <1>7, <1>8, <1>9 DEF At
<1>11. Entry(q, PWU).perm # {}
    BY DEF Entry, PWU
<1> QED
    BY <1>6, <1>10, <1>11 DEF Leaf

----------------------------------------------------------------------------
(* Setting the entry of an address                                          *)

WithEntry(k, t, i, e) == Mem([k.mem EXCEPT ![t].entry[i] = e], k.refcount)

WithEntryAs(k, t, i, e, k1) ==
    /\ k1 \in Memories
    /\ k1.refcount = k.refcount
    /\ k1.mem[t] \in Tables
    /\ \A j \in Index : k1.mem[t].entry[j] = IF j = i THEN e ELSE k.mem[t].entry[j]
    /\ \A q \in Pages : q # t => k1.mem[q] = k.mem[q]

\* A new entry leaves every other entry as it was.
LEMMA WithEntryIs ==
    ASSUME NEW k, k \in Memories, NEW t \in Pages, k.mem[t] \in Tables, NEW i \in Index,
           NEW e \in [pa : Pages, perm : SUBSET PWU]
    PROVE  WithEntryAs(k, t, i, e, WithEntry(k, t, i, e))
<1>0. PICK k1 : k1 = WithEntry(k, t, i, e)
    OBVIOUS
<1>1. k1.mem = [k.mem EXCEPT ![t].entry[i] = e] /\ k1.refcount = k.refcount
    BY <1>0, MemFields DEF WithEntry
<1>2. k.mem \in [Pages -> Contents \cup Tables] /\ k.refcount \in [Pages -> Nat]
    BY DEF Memories
<1>3. PICK c : c = [k.mem[t] EXCEPT !.entry[i] = e]
    OBVIOUS
<1>4. k1.mem = [k.mem EXCEPT ![t] = c]
    BY <1>1, <1>3
<1>5. c \in Tables /\ \A j \in Index : c.entry[j] = IF j = i THEN e ELSE k.mem[t].entry[j]
    <2>1. PICK d : d = k.mem[t].entry
        OBVIOUS
    <2>2. k.mem[t] = [entry |-> d] /\ d \in [Index -> [pa : Pages, perm : SUBSET PWU]]
        BY <2>1 DEF Tables
    <2>3. PICK f : f = [d EXCEPT ![i] = e]
        OBVIOUS
    <2>4. c = [entry |-> f]
        BY <1>3, <2>2, <2>3
    <2>5. f \in [Index -> [pa : Pages, perm : SUBSET PWU]]
          /\ \A j \in Index : f[j] = IF j = i THEN e ELSE d[j]
        BY <2>2, <2>3
    <2>6. c.entry = f
        BY <2>4
    <2> QED
        BY <2>1, <2>4, <2>5, <2>6 DEF Tables
<1>6. k1.mem[t] = c /\ \A q \in Pages : q # t => k1.mem[q] = k.mem[q]
    BY <1>2, <1>4
<1>7. k1.mem \in [Pages -> Contents \cup Tables]
    BY <1>2, <1>4, <1>5
<1>8. k1 = Mem(k1.mem, k1.refcount)
    BY <1>0, <1>1 DEF WithEntry
<1>9. k1 \in Memories
    BY <1>1, <1>2, <1>7, <1>8 DEF Memories, Mem
<1> QED
    BY <1>0, <1>1, <1>5, <1>6, <1>9 DEF WithEntryAs

\* What may be mapped at va: the kernel's page there, or the page of data in S.
Mappable(k, G, S, p, root, va, e) ==
    \/ /\ va < ProcStart /\ S = {} /\ e.pa = va
       /\ e.perm \in {{}, {"P", "W"}, PWU} /\ (e.perm = PWU => va = Console)
    \/ /\ va \in ProcStart .. StackPage /\ e.perm = PWU /\ S = {e.pa}
       /\ G[e.pa] = DataOf(p, va) /\ Leaf(k, root, va) = Absent

Shown1(e) == IF e.perm = {} THEN Absent ELSE e

\* The address space of root shows e at va, and nothing else has changed.
Remaps(k, G, k1, G1, p, root, va, e) ==
    /\ \A q \in Pages : G[q].kind # "none" => G1[q] = G[q]
    /\ \A q \in Pages : G[q].kind = "none" =>
          \/ G1[q] = G[q]
          \/ G1[q].kind = "table" /\ G1[q].pid = p
    /\ \A q \in Pages : G[q].kind \in {"data", "viewer"} => k1.mem[q] = k.mem[q]
    /\ \A p2 \in Nat, r \in Pages, v \in 0 .. VaEnd - 1 :
          IsRoot(G, p2, r) =>
             Leaf(k1, r, v) = IF r = root /\ v = va THEN Shown1(e) ELSE Leaf(k, r, v)

\* An entry that fits keeps the layout.
LEMMA SetEntryLayout ==
    ASSUME NEW k, NEW G, NEW S, Layout(k, G, S), Loose(G, S), NEW p \in Nat,
           NEW root, IsRoot(G, p, root), NEW va \in 0 .. VaEnd - 1,
           NEW e \in [pa : Pages, perm : SUBSET PWU], Mappable(k, G, S, p, root, va, e),
           NEW t \in Pages, G[t] = TableOf(p, 0, Prefix(va, 1)),
           Vmiter(k, root, va) = Iter(root, t, 0, PWU, va),
           NEW i \in Index, pageindex(va, 0) = i,
           NEW k1, WithEntryAs(k, t, i, e, k1)
    PROVE  Layout(k1, G, {})
<1> USE PageTableAssumption
<1>0. /\ k \in Memories /\ G \in [Pages -> Roles] /\ EntriesFit(k, G) /\ Owned(k, G) /\ Linked(k, G, S)
    BY DEF Layout
<1>1. va \in Nat
    BY LowPages
<1>2. G[t].kind = "table" /\ G[t].pid = p /\ G[t].level = 0 /\ G[t].base = Prefix(va, 1)
    BY RoleFields
<1>3. /\ k1 \in Memories
      /\ k1.refcount = k.refcount
      /\ k1.mem[t] \in Tables
      /\ \A j \in Index : k1.mem[t].entry[j] = IF j = i THEN e ELSE k.mem[t].entry[j]
      /\ \A q \in Pages : q # t => k1.mem[q] = k.mem[q]
    BY DEF WithEntryAs
<1>4. G[t].base * Fanout + i = va
    <2>1. 0 \in 0 .. TopLevel /\ 0 + 1 = 1
        OBVIOUS
    <2> QED
        BY <1>1, <1>2, <2>1, PrefixIs
<1>5. EntryFits(G, e, G[t], va)
    BY <1>2 DEF Mappable, EntryFits
<1>6. EntriesFit(k1, G)
    <2> SUFFICES ASSUME NEW q \in Pages, G[q].kind = "table"
                 PROVE  /\ k1.mem[q] \in Tables
                        /\ \A j \in Index : EntryFits(G, k1.mem[q].entry[j], G[q], G[q].base * Fanout + j)
        BY DEF EntriesFit
    <2>1. k.mem[q] \in Tables /\ \A j \in Index : EntryFits(G, k.mem[q].entry[j], G[q], G[q].base * Fanout + j)
        BY <1>0 DEF EntriesFit
    <2>2. CASE q # t
        <3>1. k1.mem[q] = k.mem[q]
            BY <1>3, <2>2
        <3> QED
            BY <2>1, <3>1
    <2>3. CASE q = t
        <3>1. ASSUME NEW j \in Index
              PROVE  EntryFits(G, k1.mem[q].entry[j], G[q], G[q].base * Fanout + j)
            <4>1. CASE j = i
                <5>1. k1.mem[q].entry[j] = e
                    BY <1>3, <2>3, <4>1
                <5>2. G[q].base * Fanout + j = va
                    BY <1>4, <2>3, <4>1
                <5> QED
                    BY <1>5, <2>3, <5>1, <5>2
            <4>2. CASE j # i
                <5>1. k1.mem[q].entry[j] = k.mem[q].entry[j]
                    BY <1>3, <2>3, <4>2
                <5> QED
                    BY <2>1, <5>1
            <4> QED
                BY <4>1, <4>2
        <3> QED
            BY <1>3, <2>3, <3>1
    <2> QED
        BY <2>2, <2>3
<1>7. Owned(k1, G)
    <2>1. \A q \in Pages : G[q].kind # "table" => k1.mem[q] = k.mem[q]
        BY <1>2, <1>3
    <2> QED
        BY <1>0, <1>3, <2>1 DEF Owned
<1>8. ASSUME NEW q \in Pages \ S, k.mem[t].entry[i] = Entry(q, PWU)
      PROVE  G[q].kind \notin {"data"}
    <2>1. PICK it : it = Vmiter(k, root, va)
        OBVIOUS
    <2>2. it.table = t /\ it.level = 0 /\ it.va = va
        <3>1. it = Iter(root, t, 0, PWU, va)
            BY <2>1
        <3> QED
            BY <3>1, IterFields
    <2>3. At(k, it) = Entry(q, PWU)
        BY <1>8, <2>2 DEF At
    <2>4. Entry(q, PWU).perm = PWU /\ Entry(q, PWU).pa = q /\ PWU # {}
        BY DEF Entry, PWU
    <2>5. Leaf(k, root, va) = Entry(q, PWU)
        BY <2>1, <2>3, <2>4 DEF Leaf
    <2>6. Leaf(k, root, va) # Absent
        BY <2>4, <2>5, AbsentIs
    <2>7. va < ProcStart
        BY <2>6 DEF Mappable
    <2>8. q = Console
        <3>1. EntryFits(G, k.mem[t].entry[i], G[t], G[t].base * Fanout + i)
            BY <1>0, <1>2 DEF EntriesFit
        <3>2. EntryFits(G, Entry(q, PWU), G[t], va)
            BY <1>4, <1>8, <3>1
        <3>3. ~ (va \in ProcStart .. StackPage)
            BY <2>7, LowPages
        <3> QED
            BY <1>2, <2>4, <3>2, <3>3 DEF EntryFits
    <2>9. q \notin Allocatable
        BY <2>8, KernelAssumption
    <2>10. G[q].kind # "none" => q \in Allocatable
        BY <1>0 DEF Owned
    <2> QED
        BY <2>9, <2>10
<1>9. Linked(k1, G, {})
    <2> SUFFICES ASSUME NEW q \in Pages, G[q].kind \notin {"none", "viewer"},
                        G[q] # TableOf(G[q].pid, TopLevel, 0)
                 PROVE  \E t2 \in Pages, j \in Index :
                           /\ k1.mem[t2] \in Tables
                           /\ k1.mem[t2].entry[j] = Entry(q, PWU)
                           /\ G[q].base = G[t2].base * Fanout + j
                           /\ \/ /\ G[q].kind = "table" /\ G[q].level < TopLevel
                                 /\ G[t2] = TableOf(G[q].pid, G[q].level + 1, G[t2].base)
                              \/ /\ G[q] = DataOf(G[q].pid, G[q].base)
                                 /\ G[t2] = TableOf(G[q].pid, 0, G[t2].base)
        BY DEF Linked
    <2>1. CASE q \in S
        <3>1. e.perm = PWU /\ e.pa = q /\ G[q] = DataOf(p, va)
            BY <2>1 DEF Mappable
        <3>2. e = Entry(q, PWU)
            BY <3>1 DEF Entry
        <3>3. G[q].pid = p /\ G[q].base = va
            BY <3>1, RoleFields
        <3>4. k1.mem[t].entry[i] = Entry(q, PWU)
            BY <1>3, <3>2
        <3>5. G[q].base = G[t].base * Fanout + i
            BY <1>4, <3>3
        <3>6. G[q] = DataOf(G[q].pid, G[q].base) /\ G[t] = TableOf(G[q].pid, 0, G[t].base)
            BY <1>2, <3>1, <3>3
        <3> QED
            BY <1>3, <3>4, <3>5, <3>6
    <2>2. CASE q \notin S
        <3>1. PICK t2 \in Pages, j \in Index :
                           /\ k.mem[t2] \in Tables
                           /\ k.mem[t2].entry[j] = Entry(q, PWU)
                           /\ G[q].base = G[t2].base * Fanout + j
                           /\ \/ /\ G[q].kind = "table" /\ G[q].level < TopLevel
                                 /\ G[t2] = TableOf(G[q].pid, G[q].level + 1, G[t2].base)
                              \/ /\ G[q] = DataOf(G[q].pid, G[q].base)
                                 /\ G[t2] = TableOf(G[q].pid, 0, G[t2].base)
            BY <1>0, <2>2 DEF Linked
        <3>2. ~ (t2 = t /\ j = i)
            <4>1. SUFFICES ASSUME t2 = t, j = i PROVE FALSE
                OBVIOUS
            <4>2. G[q].kind # "data"
                BY <1>8, <2>2, <3>1, <4>1
            <4>3. G[q] # DataOf(G[q].pid, G[q].base)
                BY <4>2, RoleFields
            <4>4. G[t] = TableOf(G[q].pid, G[q].level + 1, G[t2].base)
                BY <3>1, <4>1, <4>3
            <4>5. G[q].level + 1 = 0
                BY <1>2, <4>4, RoleFields
            <4>6. G[q].level \in 0 .. TopLevel
                BY <1>0, RolesIs
            <4> QED
                BY <4>5, <4>6
        <3>3. k1.mem[t2] \in Tables /\ k1.mem[t2].entry[j] = Entry(q, PWU)
            <4>1. CASE t2 = t
                BY <1>3, <3>1, <3>2, <4>1
            <4>2. CASE t2 # t
                BY <1>3, <3>1, <4>2
            <4> QED
                BY <4>1, <4>2
        <3> QED
            BY <3>1, <3>3
    <2> QED
        BY <2>1, <2>2
<1> QED
    BY <1>0, <1>3, <1>6, <1>7, <1>9 DEF Layout

\* Different addresses have different entries.
LEMMA EntryOf ==
    ASSUME NEW v \in Nat, NEW va \in Nat, Prefix(v, 1) = Prefix(va, 1),
           pageindex(v, 0) = pageindex(va, 0)
    PROVE  v = va
<1>1. 0 \in 0 .. TopLevel /\ 0 + 1 = 1
    BY PageTableAssumption
<1>2. v = Prefix(v, 1) * Fanout + pageindex(v, 0)
    BY <1>1, PrefixIs
<1>3. va = Prefix(va, 1) * Fanout + pageindex(va, 0)
    BY <1>1, PrefixIs
<1> QED
    BY <1>2, <1>3

\* Roles of tables differ when anything in them does.
LEMMA TableOfIs ==
    ASSUME NEW p, NEW l, NEW b, NEW p2, NEW l2, NEW b2, TableOf(p, l, b) = TableOf(p2, l2, b2)
    PROVE  p = p2 /\ l = l2 /\ b = b2
<1>1. /\ TableOf(p, l, b).pid = p /\ TableOf(p2, l2, b2).pid = p2
      /\ TableOf(p, l, b).level = l /\ TableOf(p2, l2, b2).level = l2
      /\ TableOf(p, l, b).base = b /\ TableOf(p2, l2, b2).base = b2
    BY RoleFields
<1> QED
    BY <1>1

\* A process has one root.
LEMMA RootOf ==
    ASSUME NEW k, NEW G, NEW S, Layout(k, G, S), NEW p, NEW r, NEW r2,
           IsRoot(G, p, r), IsRoot(G, p, r2)
    PROVE  r = r2
<1>1. G[r] = G[r2] /\ r \in Pages /\ r2 \in Pages /\ G[r].kind = "table"
    BY RoleFields DEF IsRoot
<1> QED
    BY <1>1 DEF Layout, Owned

\* A new leaf entry shows at its address in its address space, and nowhere else.
LEMMA SetEntryShows ==
    ASSUME NEW k, NEW G, NEW S, Layout(k, G, S), Loose(G, S), NEW p \in Nat,
           NEW root, IsRoot(G, p, root), NEW va \in 0 .. VaEnd - 1,
           NEW e \in [pa : Pages, perm : SUBSET PWU],
           NEW t \in Pages, G[t] = TableOf(p, 0, Prefix(va, 1)),
           Vmiter(k, root, va) = Iter(root, t, 0, PWU, va),
           NEW i \in Index, pageindex(va, 0) = i,
           NEW k1, WithEntryAs(k, t, i, e, k1)
    PROVE  Remaps(k, G, k1, G, p, root, va, e)
<1> USE PageTableAssumption
<1>1. va \in Nat
    BY LowPages
<1>2. G[t].kind = "table" /\ G[t].pid = p /\ G[t].level = 0 /\ G[t].base = Prefix(va, 1)
    BY RoleFields
<1>3. /\ k1 \in Memories
      /\ k1.mem[t] \in Tables
      /\ \A j \in Index : k1.mem[t].entry[j] = IF j = i THEN e ELSE k.mem[t].entry[j]
      /\ \A q \in Pages : q # t => k1.mem[q] = k.mem[q]
    BY DEF WithEntryAs
<1>4. \A q \in Pages : G[q].kind \in {"data", "viewer"} => k1.mem[q] = k.mem[q]
    BY <1>2, <1>3
<1>5. SameTables(k, k1, G)
    <2>1. \A q \in Pages : G[q].kind = "table" /\ G[q].level > 0 => q # t
        BY <1>2
    <2> QED
        BY <1>3, <2>1 DEF SameTables
<1>6. ASSUME NEW p2 \in Nat, NEW r \in Pages, NEW v \in 0 .. VaEnd - 1, IsRoot(G, p2, r)
      PROVE  Leaf(k1, r, v) = IF r = root /\ v = va THEN Shown1(e) ELSE Leaf(k, r, v)
    <2>0. v \in Nat
        BY LowPages
    <2>1. PICK w : w = Vmiter(k, r, v)
        OBVIOUS
    <2>2. Vmiter(k1, r, v) = w
        BY <1>5, <1>6, <2>1, WalkSame
    <2>3. /\ w.table \in Pages /\ w.level \in 0 .. TopLevel /\ w.va = v
          /\ G[w.table] = TableOf(p2, w.level, Prefix(v, w.level + 1))
        <3>1. /\ w = Iter(r, w.table, w.level, PWU, v) /\ w.table \in Pages /\ w.level \in 0 .. TopLevel
              /\ G[w.table] = TableOf(p2, w.level, Prefix(v, w.level + 1))
            BY <1>6, <2>1, VmiterStops
        <3> QED
            BY <3>1, IterFields
    <2>4. pageindex(v, w.level) \in Index
        BY <2>0, <2>3, PrefixIs
    <2>5. CASE r = root /\ v = va
        <3>1. w = Iter(root, t, 0, PWU, va)
            BY <2>1, <2>5
        <3>2. w.table = t /\ w.level = 0
            BY <3>1, IterFields
        <3>3. At(k1, w) = e
            BY <1>3, <2>3, <2>5, <3>2 DEF At
        <3> QED
            BY <2>2, <2>5, <3>3 DEF Leaf, Shown1
    <2>6. CASE ~ (r = root /\ v = va)
        <3>1. ~ (w.table = t /\ pageindex(v, w.level) = i)
            <4>1. SUFFICES ASSUME w.table = t, pageindex(v, w.level) = i PROVE FALSE
                OBVIOUS
            <4>2. TableOf(p2, w.level, Prefix(v, w.level + 1)) = TableOf(p, 0, Prefix(va, 1))
                BY <2>3, <4>1
            <4>3. p2 = p /\ w.level = 0 /\ Prefix(v, w.level + 1) = Prefix(va, 1)
                BY <4>2, TableOfIs
            <4>4. w.level + 1 = 1
                BY <4>3
            <4>5. v = va
                BY <1>1, <2>0, <4>1, <4>3, <4>4, EntryOf
            <4>6. r = root
                BY <1>6, <4>3, RootOf
            <4> QED
                BY <2>6, <4>5, <4>6
        <3>2. At(k1, w) = At(k, w)
            BY <1>3, <2>3, <2>4, <3>1 DEF At
        <3> QED
            BY <2>1, <2>2, <2>6, <3>2 DEF Leaf
    <2> QED
        BY <2>5, <2>6
<1> QED
    BY <1>4, <1>6 DEF Remaps

----------------------------------------------------------------------------
(* memory_map                                                               *)

\* What memory_map does when it finds or makes the tables it needs.
MappedAs(k, G, k1, p, root, va, e) ==
    \E G1 : Layout(k1, G1, {}) /\ Remaps(k, G, k1, G1, p, root, va, e) /\ Reach(G1, p, va)

\* The entry of va in a table of leaves, and the memory with e there.
EntryAt(k, G, p, root, va, t, i) ==
    /\ t \in Pages /\ i \in Index /\ pageindex(va, 0) = i
    /\ G[t] = TableOf(p, 0, Prefix(va, 1))
    /\ Vmiter(k, root, va) = Iter(root, t, 0, PWU, va)

EntrySet(k, G, p, root, va, e, k1) ==
    \E t, i : EntryAt(k, G, p, root, va, t, i) /\ WithEntryAs(k, t, i, e, k1)

\* The last step of try_map sets the entry of the address.
LEMMA SetLeafSets ==
    ASSUME NEW k, NEW G, NEW S, Layout(k, G, S), Loose(G, S), NEW p \in Nat,
           NEW root, IsRoot(G, p, root), NEW va \in 0 .. VaEnd - 1,
           NEW e \in [pa : Pages, perm : SUBSET PWU],
           NEW s, Begun(k, root, va) = s, s.it.level = 0
    PROVE  EntrySet(k, G, p, root, va, e, SetLeaf(s, va, e).k)
<1> USE PageTableAssumption
<1>0. va \in Nat
    BY LowPages
<1>1. PICK it : it = Vmiter(k, root, va)
    OBVIOUS
<1>2. PICK yes : yes = TRUE
    OBVIOUS
<1>3. PICK t : it.table = t
    OBVIOUS
<1>4. s = St(k, it, yes)
    BY <1>1, <1>2 DEF Begun
<1>5. s.k = k /\ s.it = it /\ s.ok = yes
    BY <1>4, StFields
<1>6. it.level = 0
    BY <1>5
<1>7. it = Iter(root, t, 0, PWU, va) /\ t \in Pages /\ G[t] = TableOf(p, 0, Prefix(va, 1))
    <2>1. 0 + 1 = 1
        OBVIOUS
    <2>2. /\ it = Iter(root, it.table, it.level, PWU, va) /\ it.table \in Pages
          /\ G[it.table] = TableOf(p, it.level, Prefix(va, it.level + 1))
        BY <1>1, VmiterStops
    <2> QED
        BY <1>3, <1>6, <2>1, <2>2
<1>8. PICK i : pageindex(va, 0) = i
    OBVIOUS
<1>9. i \in Index
    <2>1. 0 \in 0 .. TopLevel
        OBVIOUS
    <2> QED
        BY <1>0, <1>8, <2>1, PrefixIs
<1>10. k \in Memories /\ k = Mem(k.mem, k.refcount)
    BY DEF Layout, Memories, Mem
<1>11. k.mem[t] \in Tables
    <2>1. G[t].kind = "table"
        BY <1>7, RoleFields
    <2> QED
        BY <1>7, <2>1 DEF Layout, EntriesFit
<1>12. PICK k1 : WithEntry(k, t, i, e) = k1
    OBVIOUS
<1>13. WithEntryAs(k, t, i, e, k1)
    BY <1>7, <1>9, <1>10, <1>11, <1>12, WithEntryIs
<1>14. SetLeaf(s, va, e).k = k1
    <2>1. SetLeaf(s, va, e) = [s EXCEPT !.k.mem[t].entry[i] = e]
        BY <1>2, <1>3, <1>5, <1>6, <1>8 DEF SetLeaf
    <2>2. PICK m : m = [k.mem EXCEPT ![t].entry[i] = e]
        OBVIOUS
    <2>3. PICK k2 : k2 = [k EXCEPT !.mem = m]
        OBVIOUS
    <2>4. [s EXCEPT !.k = k2] = St(k2, it, yes)
        BY <1>4, StExcept
    <2>5. [s EXCEPT !.k.mem[t].entry[i] = e] = [s EXCEPT !.k = k2]
        BY <1>5, <2>2, <2>3
    <2>6. SetLeaf(s, va, e).k = k2
        <3>1. SetLeaf(s, va, e) = St(k2, it, yes)
            BY <2>1, <2>4, <2>5
        <3> QED
            BY <3>1, StFields
    <2>7. k2 = Mem(m, k.refcount)
        BY <1>10, <2>3, MemExcept
    <2>8. k2 = k1
        BY <1>12, <2>2, <2>7 DEF WithEntry
    <2> QED
        BY <2>6, <2>8
<1>15. Vmiter(k, root, va) = Iter(root, t, 0, PWU, va)
    BY <1>1, <1>7
<1>16. EntryAt(k, G, p, root, va, t, i)
    BY <1>7, <1>8, <1>9, <1>15 DEF EntryAt
<1> QED
    BY <1>13, <1>14, <1>16 DEF EntrySet

\* So it maps the address.
LEMMA SetLeafIs ==
    ASSUME NEW k, NEW G, NEW S, Layout(k, G, S), Loose(G, S), NEW p \in Nat,
           NEW root, IsRoot(G, p, root), NEW va \in 0 .. VaEnd - 1,
           NEW e \in [pa : Pages, perm : SUBSET PWU], Mappable(k, G, S, p, root, va, e),
           NEW s, Begun(k, root, va) = s, s.it.level = 0
    PROVE  MappedAs(k, G, SetLeaf(s, va, e).k, p, root, va, e)
<1>1. PICK k1 : k1 = SetLeaf(s, va, e).k
    OBVIOUS
<1>2. PICK t, i : EntryAt(k, G, p, root, va, t, i) /\ WithEntryAs(k, t, i, e, k1)
    BY <1>1, SetLeafSets DEF EntrySet
<1>3. /\ t \in Pages /\ i \in Index /\ pageindex(va, 0) = i
      /\ G[t] = TableOf(p, 0, Prefix(va, 1))
      /\ Vmiter(k, root, va) = Iter(root, t, 0, PWU, va)
    BY <1>2 DEF EntryAt
<1>4. Layout(k1, G, {})
    BY <1>2, <1>3, SetEntryLayout
<1>5. Remaps(k, G, k1, G, p, root, va, e)
    BY <1>2, <1>3, SetEntryShows
<1>6. Reach(G, p, va)
    BY <1>3 DEF Reach
<1> QED
    BY <1>1, <1>4, <1>5, <1>6 DEF MappedAs

\* It takes no page.
LEMMA SetLeafShape ==
    ASSUME NEW s, NEW k, NEW it, NEW ok, s = St(k, it, ok), Shape(k), NEW va, NEW e
    PROVE  Shape(SetLeaf(s, va, e).k) /\ SetLeaf(s, va, e).k.refcount = k.refcount
<1>1. s.k = k /\ s.it = it
    BY StFields
<1>2. CASE SetLeaf(s, va, e) = s
    BY <1>1, <1>2
<1>3. CASE SetLeaf(s, va, e) # s
    <2>1. SetLeaf(s, va, e) = [s EXCEPT !.k.mem[it.table].entry[pageindex(va, 0)] = e]
        BY <1>1, <1>3 DEF SetLeaf
    <2>2. PICK m : m = [k.mem EXCEPT ![it.table].entry[pageindex(va, 0)] = e]
        OBVIOUS
    <2>3. PICK k2 : k2 = [k EXCEPT !.mem = m]
        OBVIOUS
    <2>4. [s EXCEPT !.k = k2] = St(k2, it, ok)
        <3>1. [St(k, it, ok) EXCEPT !.k = k2] = St(k2, it, ok)
            BY StExcept
        <3> QED
            BY <3>1
    <2>5. SetLeaf(s, va, e) = St(k2, it, ok)
        BY <1>1, <2>1, <2>2, <2>3, <2>4
    <2>6. k2 = Mem(m, k.refcount)
        BY <2>3, MemExcept DEF Shape
    <2>7. SetLeaf(s, va, e).k = k2
        BY <2>5, StFields
    <2>8. k2.mem = m /\ k2.refcount = k.refcount
        BY <2>6, MemFields
    <2> QED
        BY <2>6, <2>7, <2>8 DEF Shape
<1> QED
    BY <1>2, <1>3

\* Whatever the state, mapping only takes pages.
LEMMA MemoryMapShape ==
    ASSUME NEW k, Shape(k), NEW root, NEW va, NEW pa, NEW perm
    PROVE  /\ Shape(MemoryMap(k, root, va, pa, perm).k)
           /\ Free(MemoryMap(k, root, va, pa, perm).k) \subseteq Free(k)
<1> DEFINE x == St(k, Vmiter(k, root, va), TRUE)
<1>1. PICK n : n = IF perm = {} THEN 0 ELSE TopLevel
    OBVIOUS
<1>2. PICK s : s = Added(x, n)[n]
    OBVIOUS
<1>3. n \in Nat
    BY <1>1, PageTableAssumption
<1>4. x = St(x.k, x.it, x.ok) /\ x.k = k
    <2>1. PICK yes : yes = TRUE
        OBVIOUS
    <2>2. PICK it : it = Vmiter(k, root, va)
        OBVIOUS
    <2>3. PICK y : y = St(k, it, yes)
        OBVIOUS
    <2>4. y.k = k /\ y.it = it /\ y.ok = yes
        BY <2>3, StFields
    <2>5. y = St(y.k, y.it, y.ok)
        BY <2>3, <2>4
    <2>6. x = y
        BY <2>1, <2>2, <2>3
    <2> QED
        BY <2>4, <2>5, <2>6
<1> HIDE DEF x
<1>5. s = St(s.k, s.it, s.ok) /\ Shape(s.k) /\ Free(s.k) \subseteq Free(k)
    <2>1. Shape(x.k)
        BY <1>4
    <2>2. n \in 0 .. n
        BY <1>3
    <2> QED
        BY <1>2, <1>3, <1>4, <2>1, <2>2, AddedShape
<1>6. MemoryMap(k, root, va, pa, perm) = SetLeaf(s, va, Entry(pa, perm))
    BY <1>1, <1>2, MemoryMapIs DEF x
<1>7. PICK k1 : MemoryMap(k, root, va, pa, perm).k = k1
    OBVIOUS
<1>8. Shape(k1) /\ k1.refcount = s.k.refcount
    <2>1. PICK k0 : s.k = k0
        OBVIOUS
    <2>2. PICK it : s.it = it
        OBVIOUS
    <2>3. PICK ok : s.ok = ok
        OBVIOUS
    <2>4. s = St(k0, it, ok) /\ Shape(k0)
        BY <1>5, <2>1, <2>2, <2>3
    <2>5. Shape(SetLeaf(s, va, Entry(pa, perm)).k) /\ SetLeaf(s, va, Entry(pa, perm)).k.refcount = k0.refcount
        BY <2>4, SetLeafShape
    <2> QED
        BY <1>6, <1>7, <2>1, <2>5
<1>9. Free(k1) = Free(s.k)
    BY <1>8 DEF Free
<1> QED
    BY <1>5, <1>7, <1>8, <1>9

\* New tables leave what may be mapped.
LEMMA MappableOn ==
    ASSUME NEW k, NEW G, NEW S, NEW k1, NEW G1, NEW p \in Nat, Layout(k, G, S),
           NEW root, IsRoot(G, p, root), NEW va \in 0 .. VaEnd - 1,
           NEW e \in [pa : Pages, perm : SUBSET PWU], Mappable(k, G, S, p, root, va, e),
           Grows(k, G, k1, G1, p)
    PROVE  Mappable(k1, G1, S, p, root, va, e)
<1>1. root \in Pages
    BY DEF IsRoot
<1>2. Leaf(k1, root, va) = Leaf(k, root, va)
    BY <1>1 DEF Grows
<1>3. G[e.pa] = DataOf(p, va) => G1[e.pa] = G[e.pa]
    <2>1. DataOf(p, va).kind # "none" /\ e.pa \in Pages
        BY RoleFields
    <2> QED
        BY <2>1, GrowsIs
<1> QED
    BY <1>2, <1>3 DEF Mappable

\* New tables and then an entry change what the entry does.
LEMMA RemapsOn ==
    ASSUME NEW k, NEW G, NEW k1, NEW G1, NEW k2, NEW G2, NEW p, NEW root, NEW va, NEW e,
           Grows(k, G, k1, G1, p), Remaps(k1, G1, k2, G2, p, root, va, e)
    PROVE  Remaps(k, G, k2, G2, p, root, va, e)
<1>1. \A q \in Pages : G[q].kind # "none" => G1[q] = G[q] /\ G2[q] = G[q]
    BY DEF Grows, Remaps
<1>2. ASSUME NEW q \in Pages, G[q].kind = "none"
      PROVE  G2[q] = G[q] \/ (G2[q].kind = "table" /\ G2[q].pid = p)
    <2>1. G1[q] = G[q] \/ (G1[q].kind = "table" /\ G1[q].pid = p)
        BY <1>2 DEF Grows
    <2>2. CASE G1[q] = G[q]
        BY <1>2, <2>2 DEF Remaps
    <2>3. CASE G1[q].kind = "table" /\ G1[q].pid = p
        BY <2>3 DEF Remaps
    <2> QED
        BY <2>1, <2>2, <2>3
<1>3. ASSUME NEW q \in Pages, G[q].kind \in {"data", "viewer"}
      PROVE  k2.mem[q] = k.mem[q]
    <2>1. G1[q] = G[q]
        BY <1>1, <1>3
    <2>2. k1.mem[q] = k.mem[q] /\ k2.mem[q] = k1.mem[q]
        BY <1>3, <2>1 DEF Grows, Remaps
    <2> QED
        BY <2>2
<1>4. ASSUME NEW p2 \in Nat, NEW r \in Pages, NEW v \in 0 .. VaEnd - 1, IsRoot(G, p2, r)
      PROVE  Leaf(k2, r, v) = IF r = root /\ v = va THEN Shown1(e) ELSE Leaf(k, r, v)
    <2>1. IsRoot(G1, p2, r)
        BY <1>4, GrowsIs
    <2>2. Leaf(k1, r, v) = Leaf(k, r, v)
        BY <1>4 DEF Grows
    <2>3. Leaf(k2, r, v) = IF r = root /\ v = va THEN Shown1(e) ELSE Leaf(k1, r, v)
        BY <2>1 DEF Remaps
    <2> QED
        BY <2>2, <2>3
<1> QED
    BY <1>1, <1>2, <1>3, <1>4 DEF Remaps

\* With its tables there, memory_map at an address sets the entry and does no more.
LEMMA ReachStays ==
    ASSUME NEW k, NEW G, NEW S, Layout(k, G, S), Loose(G, S), NEW p \in Nat,
           NEW root, IsRoot(G, p, root), NEW va \in 0 .. VaEnd - 1, Reach(G, p, va),
           NEW pa, NEW perm
    PROVE  /\ MemoryMap(k, root, va, pa, perm) = SetLeaf(Begun(k, root, va), va, Entry(pa, perm))
           /\ Begun(k, root, va).it.level = 0
<1> USE PageTableAssumption
<1>1. PICK e : Entry(pa, perm) = e
    OBVIOUS
<1>2. PICK x : Begun(k, root, va) = x
    OBVIOUS
<1>3. PICK n : n = IF perm = {} THEN 0 ELSE TopLevel
    OBVIOUS
<1>4. n \in 0 .. TopLevel /\ n \in Nat
    BY <1>3
<1>5. PICK s : Added(x, n)[n] = s
    OBVIOUS
<1>6. MemoryMap(k, root, va, pa, perm) = SetLeaf(s, va, e)
    BY <1>1, <1>2, <1>3, <1>5, MemoryMapIs DEF Begun
<1>7. Shape(k)
    BY DEF Layout, Memories, Shape, Mem
<1>8. PICK it : it = Vmiter(k, root, va)
    OBVIOUS
<1>9. PICK yes : yes = TRUE
    OBVIOUS
<1>10. x = St(k, it, yes) /\ x.k = k /\ x.it = it /\ x.ok = yes
    <2>1. x = St(k, it, yes)
        BY <1>2, <1>8, <1>9 DEF Begun
    <2> QED
        BY <2>1, StFields
<1>11. it.level = 0
    BY <1>8, ReachIs
<1>12. AddTable(x) = x
    <2>1. Turned(k, it, yes, AddTable(x))
        BY <1>7, <1>10, AddTableIs
    <2> QED
        BY <1>10, <1>11, <2>1 DEF Turned
<1>13. s = x
    <2>1. PICK A : A = Added(x, n)
        OBVIOUS
    <2>2. A[0] = x /\ \A i \in 1 .. n : A[i] = AddTable(A[i - 1])
        BY <1>4, <2>1, AddedIs
    <2> DEFINE T == {i \in Nat : i <= n /\ A[i] # x}
    <2>3. T = {}
        <3>1. SUFFICES ASSUME T # {} PROVE FALSE
            OBVIOUS
        <3>2. PICK a \in T : \A b \in T : a <= b
            BY <3>1, LeastNat
        <3>3. a # 0
            BY <2>2, <3>2
        <3>4. a \in 1 .. n /\ a - 1 \in Nat /\ a - 1 \notin T
            BY <1>4, <3>2, <3>3
        <3> QED
            BY <1>4, <1>12, <2>2, <3>2, <3>4
    <2> QED
        BY <1>4, <1>5, <2>1, <2>3
<1> QED
    BY <1>1, <1>2, <1>6, <1>10, <1>11, <1>13

\* memory_map at an address whose tables exist, or with pages left over.
LEMMA MemoryMapAs ==
    ASSUME NEW k, NEW G, NEW S, Layout(k, G, S), Loose(G, S), NEW p \in Nat,
           NEW root, IsRoot(G, p, root), NEW va \in 0 .. VaEnd - 1,
           NEW pa \in Pages, NEW perm \in SUBSET PWU,
           Mappable(k, G, S, p, root, va, Entry(pa, perm)),
           \/ Reach(G, p, va)
           \/ perm # {} /\ Free(MemoryMap(k, root, va, pa, perm).k) # {}
    PROVE  MappedAs(k, G, MemoryMap(k, root, va, pa, perm).k, p, root, va, Entry(pa, perm))
<1> USE PageTableAssumption
<1>1. PICK e : Entry(pa, perm) = e
    OBVIOUS
<1>2. e \in [pa : Pages, perm : SUBSET PWU]
    BY <1>1 DEF Entry
<1>3. PICK x : St(k, Vmiter(k, root, va), TRUE) = x
    OBVIOUS
<1>4. PICK n : n = IF perm = {} THEN 0 ELSE TopLevel
    OBVIOUS
<1>5. n \in 0 .. TopLevel /\ n \in Nat
    BY <1>4
<1>6. PICK s : Added(x, n)[n] = s
    OBVIOUS
<1>7. MemoryMap(k, root, va, pa, perm) = SetLeaf(s, va, e)
    BY <1>1, <1>3, <1>4, <1>6, MemoryMapIs
<1>8. Shape(k)
    BY DEF Layout, Memories, Shape, Mem
<1>9. PICK it : it = Vmiter(k, root, va)
    OBVIOUS
<1>10. PICK yes : yes = TRUE
    OBVIOUS
<1>11. x = St(k, it, yes) /\ x.k = k /\ x.it = it /\ x.ok = yes
    <2>1. x = St(k, it, yes)
        BY <1>3, <1>9, <1>10
    <2> QED
        BY <2>1, StFields
<1>12. CASE Reach(G, p, va)
    <2>1. Begun(k, root, va) = x
        BY <1>3 DEF Begun
    <2>2. MemoryMap(k, root, va, pa, perm) = SetLeaf(x, va, e) /\ x.it.level = 0
        BY <1>1, <1>12, <2>1, ReachStays
    <2>3. MappedAs(k, G, SetLeaf(x, va, e).k, p, root, va, e)
        BY <1>1, <1>2, <2>1, <2>2, SetLeafIs
    <2> QED
        BY <1>1, <2>2, <2>3
<1>13. CASE perm # {} /\ Free(MemoryMap(k, root, va, pa, perm).k) # {}
    <2>1. n = TopLevel
        BY <1>4, <1>13
    <2>2. Free(SetLeaf(s, va, e).k) = Free(s.k)
        <3>0. x = St(x.k, x.it, x.ok) /\ Shape(x.k)
            BY <1>8, <1>11
        <3>1. n \in 0 .. n
            BY <1>5
        <3>2. s = St(s.k, s.it, s.ok) /\ Shape(s.k)
            BY <1>5, <1>6, <3>0, <3>1, AddedShape
        <3>3. PICK k0 : s.k = k0
            OBVIOUS
        <3>4. PICK i0 : s.it = i0
            OBVIOUS
        <3>5. PICK ok : s.ok = ok
            OBVIOUS
        <3>6. s = St(k0, i0, ok) /\ Shape(k0)
            BY <3>2, <3>3, <3>4, <3>5
        <3>7. SetLeaf(s, va, e).k.refcount = k0.refcount
            BY <3>6, SetLeafShape
        <3> QED
            BY <3>3, <3>7 DEF Free
    <2>3. Free(s.k) # {}
        BY <1>7, <1>13, <2>2
    <2>4. InLoop(k, G, S, p, root, va, s, TopLevel)
        <3>1. n \in 0 .. n
            BY <1>5
        <3>2. InLoop(k, G, S, p, root, va, Added(x, n)[n], n)
            BY <1>3, <1>5, <1>6, <2>3, <3>1, LoopIs
        <3> QED
            BY <1>6, <2>1, <3>2
    <2>5. PICK k0 : s.k = k0
        OBVIOUS
    <2>6. s = St(k0, Vmiter(k0, root, va), TRUE) /\ s.it.level = 0
        <3>1. s.it.level \in 0 .. TopLevel - TopLevel
            BY <2>4 DEF InLoop
        <3>2. s.it.level = 0
            BY <3>1
        <3> QED
            BY <2>4, <2>5, <3>2 DEF InLoop
    <2>7. PICK G1 : Layout(k0, G1, S) /\ Loose(G1, S) /\ Grows(k, G, k0, G1, p)
        BY <2>4, <2>5 DEF InLoop
    <2>8. IsRoot(G1, p, root)
        BY <2>7, GrowsIs
    <2>9. Mappable(k0, G1, S, p, root, va, e)
        BY <1>1, <1>2, <2>7, MappableOn
    <2>10. Begun(k0, root, va) = s
        BY <2>6 DEF Begun
    <2>11. MappedAs(k0, G1, SetLeaf(s, va, e).k, p, root, va, e)
        BY <1>2, <2>6, <2>7, <2>8, <2>9, <2>10, SetLeafIs
    <2>12. PICK k2 : SetLeaf(s, va, e).k = k2
        OBVIOUS
    <2>13. PICK G2 : Layout(k2, G2, {}) /\ Remaps(k0, G1, k2, G2, p, root, va, e) /\ Reach(G2, p, va)
        BY <2>11, <2>12 DEF MappedAs
    <2>14. Remaps(k, G, k2, G2, p, root, va, e)
        BY <2>7, <2>13, RemapsOn
    <2>15. MappedAs(k, G, k2, p, root, va, e)
        BY <2>13, <2>14 DEF MappedAs
    <2> QED
        BY <1>1, <1>7, <2>12, <2>15
<1> QED
    BY <1>12, <1>13

\* No table is hung where there was one: a turn stands at an entry that is not present.
LEMMA LoopAsserts ==
    ASSUME NEW k, NEW G, NEW S, Layout(k, G, S), Loose(G, S), NEW p \in Nat,
           NEW root, IsRoot(G, p, root), NEW va \in 0 .. VaEnd - 1,
           NEW x, Begun(k, root, va) = x,
           Reach(G, p, va) \/ Free(Added(x, TopLevel)[TopLevel].k) # {},
           NEW i \in 0 .. TopLevel - 1, NEW s, Added(x, TopLevel)[i] = s
    PROVE  s.it.level > 0 => At(s.k, s.it).perm = {}
<1> USE PageTableAssumption
<1>1. PICK A : A = Added(x, TopLevel)
    OBVIOUS
<1>2. A[0] = x /\ \A j \in 1 .. TopLevel : A[j] = AddTable(A[j - 1])
    BY <1>1, AddedIs
<1>3. Shape(k)
    BY DEF Layout, Memories, Shape, Mem
<1>4. PICK it : it = Vmiter(k, root, va)
    OBVIOUS
<1>5. PICK yes : yes = TRUE
    OBVIOUS
<1>6. x = St(k, it, yes) /\ x.k = k /\ x.it = it /\ x.ok = yes
    <2>1. x = St(k, it, yes)
        BY <1>4, <1>5 DEF Begun
    <2> QED
        BY <2>1, StFields
<1>7. CASE Reach(G, p, va)
    <2>1. it.level = 0
        BY <1>4, <1>7, ReachIs
    <2>2. AddTable(x) = x
        <3>1. Turned(k, it, yes, AddTable(x))
            BY <1>3, <1>6, AddTableIs
        <3> QED
            BY <1>6, <2>1, <3>1 DEF Turned
    <2> DEFINE T == {j \in Nat : j <= TopLevel /\ A[j] # x}
    <2>3. T = {}
        <3>1. SUFFICES ASSUME T # {} PROVE FALSE
            OBVIOUS
        <3>2. PICK a \in T : \A b \in T : a <= b
            BY <3>1, LeastNat
        <3>3. a # 0
            BY <1>2, <3>2
        <3>4. a \in 1 .. TopLevel /\ a - 1 \in Nat /\ a - 1 \notin T
            BY <3>2, <3>3
        <3> QED
            BY <1>2, <2>2, <3>2, <3>4
    <2>4. s = x
        BY <1>1, <2>3
    <2> QED
        BY <1>6, <2>1, <2>4
<1>8. CASE Free(A[TopLevel].k) # {}
    <2>1. \A j \in 1 .. TopLevel : Free(A[j].k) \subseteq Free(A[j - 1].k)
        <3>1. x = St(x.k, x.it, x.ok) /\ Shape(x.k)
            BY <1>3, <1>6
        <3>2. TopLevel \in Nat
            OBVIOUS
        <3> QED
            BY <1>1, <3>1, <3>2, AddedShape
    <2> DEFINE T == {j \in Nat : j <= TopLevel /\ Free(A[TopLevel - j].k) = {}}
    <2>2. T = {}
        <3>1. SUFFICES ASSUME T # {} PROVE FALSE
            OBVIOUS
        <3>2. PICK a \in T : \A b \in T : a <= b
            BY <3>1, LeastNat
        <3>3. a # 0
            BY <1>8, <3>2
        <3>4. a - 1 \in Nat /\ a - 1 <= TopLevel /\ a - 1 \notin T
            BY <3>2, <3>3
        <3>5. TopLevel - (a - 1) \in 1 .. TopLevel /\ TopLevel - (a - 1) - 1 = TopLevel - a
            BY <3>2, <3>3, <3>4
        <3>6. Free(A[TopLevel - (a - 1)].k) # {}
            BY <3>4
        <3>7. Free(A[TopLevel - (a - 1)].k) \subseteq Free(A[TopLevel - a].k)
            BY <2>1, <3>5
        <3> QED
            BY <3>2, <3>6, <3>7
    <2>3. Free(A[i].k) # {}
        <3>1. TopLevel - i \in Nat /\ TopLevel - i <= TopLevel /\ TopLevel - (TopLevel - i) = i
            OBVIOUS
        <3>2. TopLevel - i \notin T
            BY <2>2
        <3> QED
            BY <3>1, <3>2
    <2>4. InLoop(k, G, S, p, root, va, s, i)
        <3>1. i \in 0 .. TopLevel /\ TopLevel \in 0 .. TopLevel
            OBVIOUS
        <3>2. St(k, Vmiter(k, root, va), TRUE) = x
            BY DEF Begun
        <3> QED
            BY <1>1, <2>3, <3>1, <3>2, LoopIs
    <2>5. PICK k0 : s.k = k0
        OBVIOUS
    <2>6. PICK w : Vmiter(k0, root, va) = w
        OBVIOUS
    <2>7. s.it = w
        <3>1. s = St(k0, w, yes)
            BY <1>5, <2>4, <2>5, <2>6 DEF InLoop
        <3> QED
            BY <3>1, StFields
    <2>8. PICK G1 : Layout(k0, G1, S) /\ Loose(G1, S) /\ Grows(k, G, k0, G1, p)
        BY <2>4, <2>5 DEF InLoop
    <2>9. IsRoot(G1, p, root)
        BY <2>8, GrowsIs
    <2>10. w.level \in 0 .. TopLevel /\ (w.level # 0 => At(k0, w).perm = {})
        BY <2>6, <2>8, <2>9, VmiterStops
    <2> QED
        BY <2>5, <2>7, <2>10
<1> QED
    BY <1>1, <1>7, <1>8

\* The assertions of try_map hold where memory_map goes through.
LEMMA MapAssertsIs ==
    ASSUME NEW k, NEW G, NEW S, Layout(k, G, S), Loose(G, S), NEW p \in Nat,
           NEW root, IsRoot(G, p, root), NEW va \in 0 .. VaEnd - 1,
           NEW pa, pa # NoPage, NEW perm \in SUBSET PWU,
           Reach(G, p, va) \/ Free(MemoryMap(k, root, va, pa, perm).k) # {}
    PROVE  MapAsserts(k, root, va, pa, perm)
<1> USE PageTableAssumption
<1>1. CASE perm = {}
    BY <1>1 DEF MapAsserts
<1>2. CASE perm # {}
    <2>1. PICK x : Begun(k, root, va) = x
        OBVIOUS
    <2>2. PICK s : Added(x, TopLevel)[TopLevel] = s
        OBVIOUS
    <2>3. PICK e : Entry(pa, perm) = e
        OBVIOUS
    <2>4. Reach(G, p, va) \/ Free(s.k) # {}
        <3>1. MemoryMap(k, root, va, pa, perm) = SetLeaf(s, va, e)
            BY <1>2, <2>1, <2>2, <2>3, MemoryMapIs DEF Begun
        <3>2. x = St(x.k, x.it, x.ok) /\ x.k = k
            <4>1. PICK yes : yes = TRUE
                OBVIOUS
            <4>2. PICK it : it = Vmiter(k, root, va)
                OBVIOUS
            <4>3. x = St(k, it, yes)
                BY <2>1, <4>1, <4>2 DEF Begun
            <4> QED
                BY <4>3, StFields
        <3>3. Shape(x.k)
            BY <3>2 DEF Layout, Memories, Shape, Mem
        <3>4. TopLevel \in Nat /\ TopLevel \in 0 .. TopLevel
            OBVIOUS
        <3>5. s = St(s.k, s.it, s.ok) /\ Shape(s.k)
            BY <2>2, <3>2, <3>3, <3>4, AddedShape
        <3>6. PICK k0 : s.k = k0
            OBVIOUS
        <3>7. PICK i0 : s.it = i0
            OBVIOUS
        <3>8. PICK ok : s.ok = ok
            OBVIOUS
        <3>9. SetLeaf(s, va, e).k.refcount = k0.refcount
            BY <3>5, <3>6, <3>7, <3>8, SetLeafShape
        <3>10. Free(SetLeaf(s, va, e).k) = Free(s.k)
            BY <3>6, <3>9 DEF Free
        <3> QED
            BY <3>1, <3>10
    <2>5. Vmiter(k, root, va).perm = PWU
        <3>1. PICK it : it = Vmiter(k, root, va)
            OBVIOUS
        <3>2. it = Iter(root, it.table, it.level, PWU, va)
            BY <3>1, VmiterStops
        <3> QED
            BY <3>1, <3>2, IterFields
    <2>6. ASSUME NEW i \in 0 .. TopLevel - 1, NEW r, TryMaps(k, root, va, TopLevel)[i] = r, r.it.level > 0
          PROVE  "P" \notin At(r.k, r.it).perm
        <3>1. Added(x, TopLevel)[i] = r
            BY <2>1, <2>6, TryMapsIs
        <3>2. Begun(k, root, va) = x
            BY <2>1
        <3>3. PICK A : A = Added(x, TopLevel)[TopLevel]
            OBVIOUS
        <3>4. Reach(G, p, va) \/ Free(A.k) # {}
            BY <2>2, <2>4, <3>3
        <3>5. Reach(G, p, va) \/ Free(Added(x, TopLevel)[TopLevel].k) # {}
            BY <3>3, <3>4
        <3>6. r.it.level > 0 => At(r.k, r.it).perm = {}
            BY <3>1, <3>2, <3>5, LoopAsserts
        <3>7. At(r.k, r.it).perm = {}
            BY <2>6, <3>6
        <3> QED
            BY <3>7
    <2> QED
        BY <2>5, <2>6 DEF MapAsserts
<1> QED
    BY <1>1, <1>2

----------------------------------------------------------------------------
(* Pages that come into use, and contents that change                       *)

SameLeaves(k, G, k1) ==
    \A p \in Nat, r \in Pages, v \in 0 .. VaEnd - 1 : IsRoot(G, p, r) => Leaf(k1, r, v) = Leaf(k, r, v)

\* Address spaces are read from tables alone.
LEMMA LeavesSame ==
    ASSUME NEW k, NEW G, NEW S, Layout(k, G, S), NEW k1,
           \A q \in Pages : G[q].kind = "table" => k1.mem[q] = k.mem[q]
    PROVE  SameLeaves(k, G, k1)
<1> SUFFICES ASSUME NEW p \in Nat, NEW r \in Pages, NEW v \in 0 .. VaEnd - 1, IsRoot(G, p, r)
             PROVE  Leaf(k1, r, v) = Leaf(k, r, v)
    BY DEF SameLeaves
<1>1. SameTables(k, k1, G)
    BY DEF SameTables
<1>2. PICK w : w = Vmiter(k, r, v)
    OBVIOUS
<1>3. Vmiter(k1, r, v) = w
    BY <1>1, <1>2, WalkSame
<1>4. w.table \in Pages /\ G[w.table].kind = "table"
    <2>1. w.table \in Pages /\ G[w.table] = TableOf(p, w.level, Prefix(v, w.level + 1))
        BY <1>2, VmiterStops
    <2> QED
        BY <2>1, RoleFields
<1>5. At(k1, w) = At(k, w)
    BY <1>4 DEF At
<1> QED
    BY <1>2, <1>3, <1>5 DEF Leaf

\* Pages that are not tables may hold anything.
LEMMA RewriteIs ==
    ASSUME NEW k, NEW G, NEW S, Layout(k, G, S), NEW m, NEW k1, k1 = Mem(m, k.refcount),
           m \in [Pages -> Contents \cup Tables],
           \A q \in Pages : IF G[q].kind = "table" THEN m[q] = k.mem[q] ELSE m[q] \in Contents
    PROVE  Layout(k1, G, S) /\ SameLeaves(k, G, k1)
<1>0. /\ k \in Memories /\ G \in [Pages -> Roles] /\ EntriesFit(k, G) /\ Owned(k, G) /\ Linked(k, G, S)
    BY DEF Layout
<1>1. k1.mem = m /\ k1.refcount = k.refcount
    BY MemFields
<1>2. k1 \in Memories
    <2>1. k.refcount \in [Pages -> Nat]
        BY <1>0 DEF Memories
    <2> QED
        BY <2>1 DEF Memories, Mem
<1>3. \A q \in Pages : G[q].kind = "table" => k1.mem[q] = k.mem[q]
    BY <1>1
<1>4. EntriesFit(k1, G)
    BY <1>0, <1>3 DEF EntriesFit
<1>5. Owned(k1, G)
    BY <1>0, <1>1 DEF Owned
<1>6. Linked(k1, G, S)
    <2> SUFFICES ASSUME NEW q \in Pages \ S, G[q].kind \notin {"none", "viewer"},
                        G[q] # TableOf(G[q].pid, TopLevel, 0)
                 PROVE  \E t2 \in Pages, j \in Index :
                           /\ k1.mem[t2] \in Tables
                           /\ k1.mem[t2].entry[j] = Entry(q, PWU)
                           /\ G[q].base = G[t2].base * Fanout + j
                           /\ \/ /\ G[q].kind = "table" /\ G[q].level < TopLevel
                                 /\ G[t2] = TableOf(G[q].pid, G[q].level + 1, G[t2].base)
                              \/ /\ G[q] = DataOf(G[q].pid, G[q].base)
                                 /\ G[t2] = TableOf(G[q].pid, 0, G[t2].base)
        BY DEF Linked
    <2>1. PICK t2 \in Pages, j \in Index :
                           /\ k.mem[t2] \in Tables
                           /\ k.mem[t2].entry[j] = Entry(q, PWU)
                           /\ G[q].base = G[t2].base * Fanout + j
                           /\ \/ /\ G[q].kind = "table" /\ G[q].level < TopLevel
                                 /\ G[t2] = TableOf(G[q].pid, G[q].level + 1, G[t2].base)
                              \/ /\ G[q] = DataOf(G[q].pid, G[q].base)
                                 /\ G[t2] = TableOf(G[q].pid, 0, G[t2].base)
        BY <1>0 DEF Linked
    <2>2. G[t2].kind = "table"
        <3>1. \/ G[t2] = TableOf(G[q].pid, G[q].level + 1, G[t2].base)
              \/ G[t2] = TableOf(G[q].pid, 0, G[t2].base)
            BY <2>1
        <3> QED
            BY <3>1, RoleFields
    <2>3. k1.mem[t2] = k.mem[t2]
        BY <1>3, <2>2
    <2> QED
        BY <2>1, <2>3
<1>7. SameLeaves(k, G, k1)
    BY <1>3, LeavesSame
<1> QED
    BY <1>0, <1>2, <1>4, <1>5, <1>6, <1>7 DEF Layout

\* A page that was free comes into use: for data, for the viewer, or as a root.
NewPage(k, pa, c) == Mem([k.mem EXCEPT ![pa] = c], [k.refcount EXCEPT ![pa] = @ + 1])

NewRole(G, c, R) ==
    \/ R.kind = "viewer" /\ c \in Contents
    \/ R.kind = "data" /\ c \in Contents /\ \A q \in Pages : G[q] # R
    \/ R = TableOf(R.pid, TopLevel, 0) /\ c = EmptyTable /\ \A q \in Pages : G[q] # R

NewPageAs(k, G, pa, c, R, k1, G1) ==
    /\ Layout(k1, G1, IF R.kind = "data" THEN {pa} ELSE {})
    /\ SameLeaves(k, G, k1)
    /\ G[pa].kind = "none" /\ pa \in Pages /\ G1[pa] = R /\ k1.mem[pa] = c
    /\ \A q \in Pages : q # pa => G1[q] = G[q] /\ k1.mem[q] = k.mem[q]

\* A free page can be put to any use it fits.
LEMMA NewPageIs ==
    ASSUME NEW k, NEW G, Layout(k, G, {}), NEW pa \in Free(k), NEW c, NEW R \in Roles, NewRole(G, c, R)
    PROVE  NewPageAs(k, G, pa, c, R, NewPage(k, pa, c), [G EXCEPT ![pa] = R])
<1> PICK k1 : k1 = NewPage(k, pa, c)
    OBVIOUS
<1> PICK G1 : G1 = [G EXCEPT ![pa] = R]
    OBVIOUS
<1>a. k1 = NewPage(k, pa, c) /\ G1 = [G EXCEPT ![pa] = R]
    OBVIOUS
<1> DEFINE S == IF R.kind = "data" THEN {pa} ELSE {}
<1>0. /\ k \in Memories /\ G \in [Pages -> Roles] /\ EntriesFit(k, G) /\ Owned(k, G) /\ Linked(k, G, {})
    BY DEF Layout
<1>1. pa \in Pages /\ pa \in Allocatable /\ k.refcount[pa] = 0
    BY PageTableAssumption DEF Free
<1>2. G[pa].kind = "none"
    <2>1. Owned(k, G) /\ k.refcount[pa] # 1
        BY <1>0, <1>1
    <2> QED
        BY <1>1, <2>1 DEF Owned
<1>3. k.mem \in [Pages -> Contents \cup Tables] /\ k.refcount \in [Pages -> Nat]
    BY <1>0 DEF Memories
<1>4. k1.mem = [k.mem EXCEPT ![pa] = c] /\ k1.refcount = [k.refcount EXCEPT ![pa] = @ + 1]
    BY MemFields DEF NewPage
<1>5. EmptyTable \in Tables
    BY AbsentIs DEF EmptyTable, Tables, Absent
<1>6. k1 \in Memories
    <2>1. k1.mem \in [Pages -> Contents \cup Tables]
        BY <1>1, <1>3, <1>4, <1>5 DEF NewRole
    <2>2. k1.refcount \in [Pages -> Nat]
        BY <1>1, <1>3, <1>4
    <2>3. k1 = Mem(k1.mem, k1.refcount)
        BY <1>4 DEF NewPage
    <2> QED
        BY <2>1, <2>2, <2>3 DEF Memories, Mem
<1>7. G1 \in [Pages -> Roles] /\ G1[pa] = R /\ k1.mem[pa] = c /\ k1.refcount[pa] = 1
    BY <1>0, <1>1, <1>3, <1>4
<1>8. \A q \in Pages : q # pa => G1[q] = G[q] /\ k1.mem[q] = k.mem[q] /\ k1.refcount[q] = k.refcount[q]
    BY <1>0, <1>1, <1>3, <1>4
<1>9. R.kind = "table" => R = TableOf(R.pid, TopLevel, 0) /\ c = EmptyTable /\ R.level = TopLevel
    BY RoleFields DEF NewRole
<1>10. R.kind \in {"viewer", "data", "table"} /\ (R.kind # "table" => c \in Contents)
       /\ (R.kind \in {"table", "data"} => \A q \in Pages : G[q] # R)
    <2>1. TableOf(R.pid, TopLevel, 0).kind = "table"
        BY RoleFields
    <2> QED
        BY <2>1 DEF NewRole
<1>11. \A q \in Pages : G[q].kind # "none" => G1[q] = G[q] /\ q # pa
    BY <1>2, <1>8
<1>12. \A q \in Pages : G[q].kind = "table" => k1.mem[q] = k.mem[q]
    BY <1>8, <1>11
<1>13. SameLeaves(k, G, k1)
    BY <1>12, LeavesSame
<1>14. \A e \in [pa : Pages, perm : SUBSET PWU], r \in Roles, u \in Nat :
          EntryFits(G, e, r, u) => EntryFits(G1, e, r, u)
    <2> SUFFICES ASSUME NEW e \in [pa : Pages, perm : SUBSET PWU], NEW r \in Roles, NEW u \in Nat,
                        EntryFits(G, e, r, u)
                 PROVE  EntryFits(G1, e, r, u)
        OBVIOUS
    <2>1. e.pa \in Pages
        OBVIOUS
    <2>2. TableOf(r.pid, r.level - 1, u).kind = "table" /\ DataOf(r.pid, u).kind = "data"
        BY RoleFields
    <2>3. G[e.pa] = TableOf(r.pid, r.level - 1, u) => G1[e.pa] = TableOf(r.pid, r.level - 1, u)
        BY <1>11, <2>1, <2>2
    <2>4. G[e.pa] = DataOf(r.pid, u) => G1[e.pa] = DataOf(r.pid, u)
        BY <1>11, <2>1, <2>2
    <2> QED
        BY <2>3, <2>4 DEF EntryFits
<1>15. EntriesFit(k1, G1)
    <2> SUFFICES ASSUME NEW q \in Pages, G1[q].kind = "table"
                 PROVE  /\ k1.mem[q] \in Tables
                        /\ \A j \in Index : EntryFits(G1, k1.mem[q].entry[j], G1[q], G1[q].base * Fanout + j)
        BY DEF EntriesFit
    <2>1. CASE q = pa
        <3>1. k1.mem[q] = EmptyTable
            BY <1>7, <1>9, <2>1
        <3>2. \A j \in Index : k1.mem[q].entry[j].perm = {}
            BY <3>1, EmptyIs, AbsentIs
        <3> QED
            BY <1>5, <3>1, <3>2 DEF EntryFits
    <2>2. CASE q # pa
        <3>1. G1[q] = G[q] /\ k1.mem[q] = k.mem[q]
            BY <1>8, <2>2
        <3>2. k.mem[q] \in Tables /\ \A j \in Index : EntryFits(G, k.mem[q].entry[j], G[q], G[q].base * Fanout + j)
            BY <1>0, <3>1 DEF EntriesFit
        <3>3. G[q] \in Roles /\ \A j \in Index : G[q].base * Fanout + j \in Nat
            <4>1. G[q] \in Roles /\ G[q].base \in Nat
                BY <1>0 DEF Roles
            <4> QED
                BY <4>1, DigitsIs
        <3>4. \A j \in Index : k.mem[q].entry[j] \in [pa : Pages, perm : SUBSET PWU]
            BY <3>2 DEF Tables
        <3>5. \A j \in Index : EntryFits(G1, k.mem[q].entry[j], G[q], G[q].base * Fanout + j)
            BY <1>14, <3>2, <3>3, <3>4
        <3> QED
            BY <3>1, <3>2, <3>5
    <2> QED
        BY <2>1, <2>2
<1>16. Owned(k1, G1)
    <2>1. ASSUME NEW q \in Pages
          PROVE  /\ G1[q].kind = "none" => k1.refcount[q] = 0
                 /\ G1[q].kind # "none" => k1.refcount[q] = 1 /\ q \in Allocatable
                 /\ G1[q].kind # "table" => k1.mem[q] \in Contents
        <3>1. CASE q = pa
            BY <1>1, <1>7, <1>10, <3>1
        <3>2. CASE q # pa
            <4>1. G1[q] = G[q] /\ k1.refcount[q] = k.refcount[q] /\ k1.mem[q] = k.mem[q]
                BY <1>8, <3>2
            <4> QED
                BY <1>0, <4>1 DEF Owned
        <3> QED
            BY <3>1, <3>2
    <2>2. ASSUME NEW q \in Pages, NEW r \in Pages, G1[q].kind \in {"table", "data"}, G1[q] = G1[r]
          PROVE  q = r
        <3>1. CASE q # pa /\ r # pa
            BY <1>0, <1>8, <2>2, <3>1 DEF Owned
        <3>2. CASE q = pa \/ r = pa
            BY <1>7, <1>8, <1>10, <2>2, <3>2
        <3> QED
            BY <3>1, <3>2
    <2> QED
        BY <2>1, <2>2 DEF Owned
<1>17. Linked(k1, G1, S)
    <2> SUFFICES ASSUME NEW q \in Pages \ S, G1[q].kind \notin {"none", "viewer"},
                        G1[q] # TableOf(G1[q].pid, TopLevel, 0)
                 PROVE  \E t2 \in Pages, j \in Index :
                           /\ k1.mem[t2] \in Tables
                           /\ k1.mem[t2].entry[j] = Entry(q, PWU)
                           /\ G1[q].base = G1[t2].base * Fanout + j
                           /\ \/ /\ G1[q].kind = "table" /\ G1[q].level < TopLevel
                                 /\ G1[t2] = TableOf(G1[q].pid, G1[q].level + 1, G1[t2].base)
                              \/ /\ G1[q] = DataOf(G1[q].pid, G1[q].base)
                                 /\ G1[t2] = TableOf(G1[q].pid, 0, G1[t2].base)
        BY DEF Linked
    <2>1. q # pa
        BY <1>7, <1>9, <1>10
    <2>2. G1[q] = G[q]
        BY <1>8, <2>1
    <2>3. PICK t2 \in Pages, j \in Index :
                           /\ k.mem[t2] \in Tables
                           /\ k.mem[t2].entry[j] = Entry(q, PWU)
                           /\ G[q].base = G[t2].base * Fanout + j
                           /\ \/ /\ G[q].kind = "table" /\ G[q].level < TopLevel
                                 /\ G[t2] = TableOf(G[q].pid, G[q].level + 1, G[t2].base)
                              \/ /\ G[q] = DataOf(G[q].pid, G[q].base)
                                 /\ G[t2] = TableOf(G[q].pid, 0, G[t2].base)
        BY <1>0, <2>2 DEF Linked
    <2>4. G[t2].kind = "table"
        <3>1. \/ G[t2] = TableOf(G[q].pid, G[q].level + 1, G[t2].base)
              \/ G[t2] = TableOf(G[q].pid, 0, G[t2].base)
            BY <2>3
        <3> QED
            BY <3>1, RoleFields
    <2>5. k1.mem[t2] = k.mem[t2] /\ G1[t2] = G[t2]
        BY <1>11, <1>12, <2>4
    <2> QED
        BY <2>2, <2>3, <2>5
<1> QED
    BY <1>1, <1>2, <1>6, <1>7, <1>8, <1>13, <1>15, <1>16, <1>17, <1>a DEF Layout, NewPageAs

----------------------------------------------------------------------------
(* A new page at an address                                                 *)

\* Only process p has more tables and data than before.
Adopts(k, G, k1, G1, p) ==
    /\ \A q \in Pages :
          \/ G1[q] = G[q]
          \/ G[q].kind = "none" /\ G1[q].kind \in {"table", "data"} /\ G1[q].pid = p
    /\ \A q \in Pages : G[q].kind \in {"data", "viewer"} => k1.mem[q] = k.mem[q]

\* What a new page of data leaves alone.
LEMMA AdoptsIs ==
    ASSUME NEW k, NEW G, NEW k1, NEW G1, NEW p, Adopts(k, G, k1, G1, p)
    PROVE  /\ \A p2, r : IsRoot(G, p2, r) => IsRoot(G1, p2, r)
           /\ \A p2, va : Reach(G, p2, va) => Reach(G1, p2, va)
           /\ \A q \in Pages : G[q].kind # "none" => G1[q] = G[q]
<1>1. \A q \in Pages : G[q].kind # "none" => G1[q] = G[q]
    BY DEF Adopts
<1>2. \A q \in Pages : \A p2, l, b : G[q] = TableOf(p2, l, b) => G1[q] = TableOf(p2, l, b)
    BY <1>1, RoleFields
<1> QED
    BY <1>1, <1>2 DEF IsRoot, Reach

LEMMA AdoptsSelf ==
    ASSUME NEW k, NEW G, NEW p
    PROVE  Adopts(k, G, k, G, p)
    BY DEF Adopts

LEMMA AdoptsOn ==
    ASSUME NEW k, NEW G, NEW k1, NEW G1, NEW k2, NEW G2, NEW p,
           Adopts(k, G, k1, G1, p), Adopts(k1, G1, k2, G2, p)
    PROVE  Adopts(k, G, k2, G2, p)
<1>1. ASSUME NEW q \in Pages
      PROVE  \/ G2[q] = G[q]
             \/ G[q].kind = "none" /\ G2[q].kind \in {"table", "data"} /\ G2[q].pid = p
    <2>1. \/ G1[q] = G[q]
          \/ G[q].kind = "none" /\ G1[q].kind \in {"table", "data"} /\ G1[q].pid = p
        BY DEF Adopts
    <2>2. \/ G2[q] = G1[q]
          \/ G1[q].kind = "none" /\ G2[q].kind \in {"table", "data"} /\ G2[q].pid = p
        BY DEF Adopts
    <2> QED
        BY <2>1, <2>2
<1>2. ASSUME NEW q \in Pages, G[q].kind \in {"data", "viewer"}
      PROVE  k2.mem[q] = k.mem[q]
    <2>1. G1[q] = G[q]
        BY <1>2 DEF Adopts
    <2> QED
        BY <1>2, <2>1 DEF Adopts
<1> QED
    BY <1>1, <1>2 DEF Adopts

\* Mapping an address to a new page.
LEMMA RemapsAdopts ==
    ASSUME NEW k, NEW G, NEW k1, NEW G1, NEW p, NEW root, NEW va, NEW e,
           Remaps(k, G, k1, G1, p, root, va, e)
    PROVE  Adopts(k, G, k1, G1, p)
<1>1. ASSUME NEW q \in Pages
      PROVE  \/ G1[q] = G[q]
             \/ G[q].kind = "none" /\ G1[q].kind \in {"table", "data"} /\ G1[q].pid = p
    BY DEF Remaps
<1> QED
    BY <1>1 DEF Remaps, Adopts

\* kalloc takes its page from the free ones.
LEMMA TakeShape ==
    ASSUME NEW k, Shape(k), NEW pa \in Pages, NEW c
    PROVE  Shape(NewPage(k, pa, c)) /\ Free(NewPage(k, pa, c)) \subseteq Free(k)
<1>1. PICK k1 : k1 = NewPage(k, pa, c)
    OBVIOUS
<1>2. k1.mem = [k.mem EXCEPT ![pa] = c] /\ k1.refcount = [k.refcount EXCEPT ![pa] = @ + 1]
    BY <1>1, MemFields DEF NewPage
<1>3. k1 = Mem(k1.mem, k1.refcount)
    BY <1>1, <1>2 DEF NewPage
<1>4. k.refcount \in [Pages -> Nat]
    BY DEF Shape
<1>5. k1.refcount \in [Pages -> Nat] /\ \A q \in Pages : k1.refcount[q] = 0 => k.refcount[q] = 0
    BY <1>2, <1>4
<1> QED
    BY <1>1, <1>3, <1>5, PageTableAssumption DEF Shape, Free

LEMMA TakeNew ==
    ASSUME NEW k, Shape(k), NEW pa
    PROVE  Take(k, pa) = NewPage(k, pa, Junk)
    BY TakeIs DEF Shape, NewPage

\* Mapping a new page takes free pages and gives none back.
LEMMA MapNewShape ==
    ASSUME NEW k, Shape(k), NEW root, NEW va
    PROVE  Shape(MapNew(k, root, va)) /\ Free(MapNew(k, root, va)) \subseteq Free(k)
<1>1. PICK pa : FreePage(k) = pa
    OBVIOUS
<1>2. CASE pa = NoPage
    <2>1. MapNew(k, root, va) = MemoryMap(k, root, va, 0, PWU).k
        BY <1>1, <1>2 DEF MapNew
    <2> QED
        BY <2>1, MemoryMapShape
<1>3. CASE pa # NoPage
    <2>1. MapNew(k, root, va) = MemoryMap(Take(k, pa), root, va, pa, PWU).k
        BY <1>1, <1>3 DEF MapNew
    <2>2. pa \in Pages
        BY <1>1, <1>3, FreePageIs
    <2>3. PICK k1 : NewPage(k, pa, Junk) = k1
        OBVIOUS
    <2>4. Shape(k1) /\ Free(k1) \subseteq Free(k) /\ Take(k, pa) = k1
        BY <2>2, <2>3, TakeShape, TakeNew
    <2>5. Shape(MemoryMap(k1, root, va, pa, PWU).k) /\ Free(MemoryMap(k1, root, va, pa, PWU).k) \subseteq Free(k1)
        BY <2>4, MemoryMapShape
    <2> QED
        BY <2>1, <2>4, <2>5
<1> QED
    BY <1>2, <1>3

\* A page of process p that was free is at va, and nothing else has changed.
NewAt(k, G, m, p, root, va) ==
    \E G1, pa :
       /\ Layout(m, G1, {}) /\ Adopts(k, G, m, G1, p) /\ Reach(G1, p, va)
       /\ pa \in Pages /\ G[pa].kind = "none" /\ G1[pa] = DataOf(p, va) /\ m.mem[pa] = Junk
       /\ \A p2 \in Nat, r \in Pages, v \in 0 .. VaEnd - 1 :
             IsRoot(G, p2, r) =>
                Leaf(m, r, v) = IF r = root /\ v = va THEN Entry(pa, PWU) ELSE Leaf(k, r, v)

\* Mapping a new page at va, while pages are left: all address spaces stay as they were but for
\* va, and try_map's assertions hold.
LEMMA MapNewAs ==
    ASSUME NEW k, NEW G, Layout(k, G, {}), NEW p \in Nat, NEW root, IsRoot(G, p, root),
           NEW va \in ProcStart .. StackPage, Leaf(k, root, va) = Absent,
           \/ Reach(G, p, va) /\ Free(k) # {}
           \/ Free(MapNew(k, root, va)) # {}
    PROVE  NewAt(k, G, MapNew(k, root, va), p, root, va) /\ MapNewAsserts(k, root, va)
<1>0. va \in 0 .. VaEnd - 1 /\ va \in Nat
    BY LowPages
<1>1. Shape(k)
    BY DEF Layout, Memories, Shape, Mem
<1>2. Free(k) # {}
    BY <1>1, MapNewShape
<1>3. PICK pa : FreePage(k) = pa
    OBVIOUS
<1>4. pa \in Free(k) /\ pa # NoPage /\ pa \in Pages
    BY <1>2, <1>3, FreePageIs
<1>5. PICK k1 : NewPage(k, pa, Junk) = k1
    OBVIOUS
<1>6. Take(k, pa) = k1
    BY <1>1, <1>5, TakeNew
<1>7. MapNew(k, root, va) = MemoryMap(k1, root, va, pa, PWU).k
    BY <1>3, <1>4, <1>6 DEF MapNew
<1>8. PICK R : DataOf(p, va) = R
    OBVIOUS
<1>9. R \in Roles /\ R.kind = "data" /\ R.pid = p
    <2>1. 0 \in 0 .. TopLevel
        BY PageTableAssumption
    <2> QED
        BY <1>0, <1>8, <2>1 DEF DataOf, Role, Roles, Kinds
<1>10. \A q \in Pages : G[q] # R
    <2> SUFFICES ASSUME NEW q \in Pages, G[q] = R PROVE FALSE
        OBVIOUS
    <2>1. Loose(G, {}) /\ q \in Pages \ {}
        BY DEF Loose
    <2>2. Leaf(k, root, va) = Entry(q, PWU)
        BY <1>0, <1>8, <2>1, DataIsMapped
    <2>3. Entry(q, PWU).perm = PWU /\ PWU # {}
        BY DEF Entry, PWU
    <2> QED
        BY <2>2, <2>3, AbsentIs
<1>11. PICK G1 : [G EXCEPT ![pa] = R] = G1
    OBVIOUS
<1>12. Junk \in Contents
    BY DEF Contents
<1>13. /\ Layout(k1, G1, {pa})
       /\ SameLeaves(k, G, k1)
       /\ G[pa].kind = "none" /\ G1[pa] = R /\ k1.mem[pa] = Junk
       /\ \A q \in Pages : q # pa => G1[q] = G[q] /\ k1.mem[q] = k.mem[q]
    <2>1. NewRole(G, Junk, R)
        BY <1>9, <1>10, <1>12 DEF NewRole
    <2>2. NewPageAs(k, G, pa, Junk, R, NewPage(k, pa, Junk), [G EXCEPT ![pa] = R])
        BY <1>4, <1>9, <2>1, NewPageIs
    <2>3. NewPageAs(k, G, pa, Junk, R, k1, G1)
        BY <1>5, <1>11, <2>2
    <2> QED
        BY <1>9, <2>3 DEF NewPageAs
<1>14. Adopts(k, G, k1, G1, p)
    <2>1. \A q \in Pages : G[q].kind \in {"data", "viewer"} => q # pa
        BY <1>13
    <2> QED
        BY <1>9, <1>13, <2>1 DEF Adopts
<1>15. IsRoot(G1, p, root) /\ (Reach(G, p, va) => Reach(G1, p, va))
    BY <1>14, AdoptsIs
<1>16. Loose(G1, {pa})
    BY <1>4, <1>9, <1>13 DEF Loose
<1>17. PICK e : Entry(pa, PWU) = e
    OBVIOUS
<1>18. e.pa = pa /\ e.perm = PWU /\ PWU # {}
    BY <1>17 DEF Entry, PWU
<1>19. root \in Pages
    BY DEF IsRoot
<1>20. Leaf(k1, root, va) = Absent
    BY <1>0, <1>13, <1>19 DEF SameLeaves
<1>21. Mappable(k1, G1, {pa}, p, root, va, e)
    BY <1>8, <1>13, <1>18, <1>20 DEF Mappable
<1>22. PICK m : MemoryMap(k1, root, va, pa, PWU).k = m
    OBVIOUS
<1>23. Reach(G1, p, va) \/ (PWU # {} /\ Free(m) # {})
    BY <1>7, <1>15, <1>18, <1>22
<1>24. MappedAs(k1, G1, m, p, root, va, e)
    <2>1. PWU \in SUBSET PWU
        OBVIOUS
    <2> QED
        BY <1>0, <1>4, <1>13, <1>15, <1>16, <1>17, <1>21, <1>22, <1>23, <2>1, MemoryMapAs
<1>25. PICK G2 : Layout(m, G2, {}) /\ Remaps(k1, G1, m, G2, p, root, va, e) /\ Reach(G2, p, va)
    BY <1>24 DEF MappedAs
<1>26. Adopts(k1, G1, m, G2, p)
    BY <1>25, RemapsAdopts
<1>27. Adopts(k, G, m, G2, p)
    BY <1>14, <1>26, AdoptsOn
<1>28. G2[pa] = DataOf(p, va) /\ m.mem[pa] = Junk
    BY <1>4, <1>8, <1>9, <1>13, <1>25 DEF Remaps
<1>29. ASSUME NEW p2 \in Nat, NEW r \in Pages, NEW v \in 0 .. VaEnd - 1, IsRoot(G, p2, r)
       PROVE  Leaf(m, r, v) = IF r = root /\ v = va THEN e ELSE Leaf(k, r, v)
    <2>1. IsRoot(G1, p2, r)
        BY <1>14, <1>29, AdoptsIs
    <2>2. Leaf(m, r, v) = IF r = root /\ v = va THEN Shown1(e) ELSE Leaf(k1, r, v)
        BY <1>25, <2>1 DEF Remaps
    <2>3. Shown1(e) = e
        BY <1>18 DEF Shown1
    <2>4. Leaf(k1, r, v) = Leaf(k, r, v)
        BY <1>13, <1>29 DEF SameLeaves
    <2> QED
        BY <2>2, <2>3, <2>4
<1>30. NewAt(k, G, m, p, root, va)
    BY <1>4, <1>13, <1>17, <1>25, <1>27, <1>28, <1>29 DEF NewAt
<1>31. MapNewAsserts(k, root, va)
    <2>1. PWU \in SUBSET PWU
        OBVIOUS
    <2>2. MapAsserts(k1, root, va, pa, PWU)
        BY <1>0, <1>4, <1>13, <1>15, <1>16, <1>22, <1>23, <2>1, MapAssertsIs
    <2> QED
        BY <1>3, <1>4, <1>6, <2>2 DEF MapNewAsserts
<1> QED
    BY <1>7, <1>22, <1>30, <1>31

----------------------------------------------------------------------------
(* The loops of process_setup                                               *)

LowPageMaps(g, k, root, n) ==
    g = [i \in 0 .. n |-> IF i = 0 THEN k ELSE MapIdentity(g[i - 1], root, i - 1, {"P", "W"})]

LEMMA LowPageMapsExist == \A k, root : \A n \in Nat : \E g : LowPageMaps(g, k, root, n)
<1> TAKE k, root
<1> DEFINE S == {n \in Nat : ~ \E g : LowPageMaps(g, k, root, n)}
<1>1. SUFFICES ASSUME S # {} PROVE FALSE
    OBVIOUS
<1>2. PICK a \in S : \A b \in S : a <= b
    BY <1>1, LeastNat
<1>3. CASE a = 0
    <2>1. PICK g : g = [i \in 0 .. 0 |-> k]
        OBVIOUS
    <2>2. g = [i \in 0 .. 0 |-> IF i = 0 THEN k ELSE MapIdentity(g[i - 1], root, i - 1, {"P", "W"})]
        BY <2>1
    <2> QED
        BY <1>3, <2>2 DEF LowPageMaps
<1>4. CASE a # 0
    <2>1. a - 1 \in Nat /\ a - 1 \notin S
        BY <1>2, <1>4
    <2>2. PICK g : LowPageMaps(g, k, root, a - 1)
        BY <2>1
    <2>3. g[0] = k /\ \A i \in 1 .. a - 1 : g[i] = MapIdentity(g[i - 1], root, i - 1, {"P", "W"})
        BY <2>1, <2>2 DEF LowPageMaps
    <2>4. PICK x : x = MapIdentity(g[a - 1], root, a - 1, {"P", "W"})
        OBVIOUS
    <2>5. PICK h : h = [i \in 0 .. a |-> IF i = a THEN x ELSE g[i]]
        OBVIOUS
    <2>6. h[0] = k /\ \A i \in 1 .. a : h[i] = MapIdentity(h[i - 1], root, i - 1, {"P", "W"})
        BY <1>4, <2>1, <2>3, <2>4, <2>5
    <2>7. h = [i \in 0 .. a |-> IF i = 0 THEN k ELSE MapIdentity(h[i - 1], root, i - 1, {"P", "W"})]
        <3>1. h = [i \in 0 .. a |-> h[i]]
            BY <2>5
        <3>2. \A i \in 0 .. a : h[i] = IF i = 0 THEN k ELSE MapIdentity(h[i - 1], root, i - 1, {"P", "W"})
            BY <2>6
        <3> QED
            BY <3>1, <3>2
    <2> QED
        BY <1>2, <2>7 DEF LowPageMaps
<1> QED
    BY <1>3, <1>4

LowMapped(k, root, n) == CHOOSE g : LowPageMaps(g, k, root, n)

LEMMA LowMappedIs ==
    ASSUME NEW k, NEW root, NEW n \in Nat
    PROVE  /\ LowMapped(k, root, n)[0] = k
           /\ \A i \in 1 .. n : LowMapped(k, root, n)[i] = MapIdentity(LowMapped(k, root, n)[i - 1], root, i - 1, {"P", "W"})
<1>1. PICK g : g = LowMapped(k, root, n)
    OBVIOUS
<1>2. LowPageMaps(g, k, root, n)
    BY <1>1, LowPageMapsExist DEF LowMapped
<1>3. g[0] = k /\ \A i \in 1 .. n : g[i] = MapIdentity(g[i - 1], root, i - 1, {"P", "W"})
    BY <1>2 DEF LowPageMaps
<1> QED
    BY <1>1, <1>3

\* map_to_kernel_space is the loop over the kernel's pages.
LEMMA MapKernelSpaceIs ==
    ASSUME NEW k, NEW root
    PROVE  /\ LowMaps(k, root) = LowMapped(k, root, ProcStart)
           /\ MapKernelSpace(k, root) = LowMapped(k, root, ProcStart)[ProcStart]
    BY DEF MapKernelSpace, LowMaps, LowMapped, LowPageMaps

SegPages(g, k, root, seg, n) ==
    g = [i \in 0 .. n |-> IF i = 0 THEN k ELSE MapNew(g[i - 1], root, seg[1] + i - 1)]

LEMMA SegPagesExist == \A k, root, seg : \A n \in Nat : \E g : SegPages(g, k, root, seg, n)
<1> TAKE k, root, seg
<1> DEFINE S == {n \in Nat : ~ \E g : SegPages(g, k, root, seg, n)}
<1>1. SUFFICES ASSUME S # {} PROVE FALSE
    OBVIOUS
<1>2. PICK a \in S : \A b \in S : a <= b
    BY <1>1, LeastNat
<1>3. CASE a = 0
    <2>1. PICK g : g = [i \in 0 .. 0 |-> k]
        OBVIOUS
    <2>2. g = [i \in 0 .. 0 |-> IF i = 0 THEN k ELSE MapNew(g[i - 1], root, seg[1] + i - 1)]
        BY <2>1
    <2> QED
        BY <1>3, <2>2 DEF SegPages
<1>4. CASE a # 0
    <2>1. a - 1 \in Nat /\ a - 1 \notin S
        BY <1>2, <1>4
    <2>2. PICK g : SegPages(g, k, root, seg, a - 1)
        BY <2>1
    <2>3. g[0] = k /\ \A i \in 1 .. a - 1 : g[i] = MapNew(g[i - 1], root, seg[1] + i - 1)
        BY <2>1, <2>2 DEF SegPages
    <2>4. PICK x : x = MapNew(g[a - 1], root, seg[1] + a - 1)
        OBVIOUS
    <2>5. PICK h : h = [i \in 0 .. a |-> IF i = a THEN x ELSE g[i]]
        OBVIOUS
    <2>6. h[0] = k /\ \A i \in 1 .. a : h[i] = MapNew(h[i - 1], root, seg[1] + i - 1)
        BY <1>4, <2>1, <2>3, <2>4, <2>5
    <2>7. h = [i \in 0 .. a |-> IF i = 0 THEN k ELSE MapNew(h[i - 1], root, seg[1] + i - 1)]
        <3>1. h = [i \in 0 .. a |-> h[i]]
            BY <2>5
        <3>2. \A i \in 0 .. a : h[i] = IF i = 0 THEN k ELSE MapNew(h[i - 1], root, seg[1] + i - 1)
            BY <2>6
        <3> QED
            BY <3>1, <3>2
    <2> QED
        BY <1>2, <2>7 DEF SegPages
<1> QED
    BY <1>3, <1>4

SegMapped(k, root, seg, n) == CHOOSE g : SegPages(g, k, root, seg, n)

LEMMA SegMappedIs ==
    ASSUME NEW k, NEW root, NEW seg, NEW n \in Nat
    PROVE  /\ SegMapped(k, root, seg, n)[0] = k
           /\ \A i \in 1 .. n : SegMapped(k, root, seg, n)[i] = MapNew(SegMapped(k, root, seg, n)[i - 1], root, seg[1] + i - 1)
<1>1. PICK g : g = SegMapped(k, root, seg, n)
    OBVIOUS
<1>2. SegPages(g, k, root, seg, n)
    BY <1>1, SegPagesExist DEF SegMapped
<1>3. g[0] = k /\ \A i \in 1 .. n : g[i] = MapNew(g[i - 1], root, seg[1] + i - 1)
    BY <1>2 DEF SegPages
<1> QED
    BY <1>1, <1>3

LEMMA MapSegmentIs ==
    ASSUME NEW k, NEW root, NEW seg
    PROVE  /\ SegmentMaps(k, root, seg) = SegMapped(k, root, seg, seg[2])
           /\ MapSegment(k, root, seg) = SegMapped(k, root, seg, seg[2])[seg[2]]
    BY DEF MapSegment, SegmentMaps, SegMapped, SegPages

ImageSegs(g, k, root, segs, n) ==
    g = [i \in 0 .. n |-> IF i = 0 THEN k ELSE MapSegment(g[i - 1], root, segs[i])]

LEMMA ImageSegsExist == \A k, root, segs : \A n \in Nat : \E g : ImageSegs(g, k, root, segs, n)
<1> TAKE k, root, segs
<1> DEFINE S == {n \in Nat : ~ \E g : ImageSegs(g, k, root, segs, n)}
<1>1. SUFFICES ASSUME S # {} PROVE FALSE
    OBVIOUS
<1>2. PICK a \in S : \A b \in S : a <= b
    BY <1>1, LeastNat
<1>3. CASE a = 0
    <2>1. PICK g : g = [i \in 0 .. 0 |-> k]
        OBVIOUS
    <2>2. g = [i \in 0 .. 0 |-> IF i = 0 THEN k ELSE MapSegment(g[i - 1], root, segs[i])]
        BY <2>1
    <2> QED
        BY <1>3, <2>2 DEF ImageSegs
<1>4. CASE a # 0
    <2>1. a - 1 \in Nat /\ a - 1 \notin S
        BY <1>2, <1>4
    <2>2. PICK g : ImageSegs(g, k, root, segs, a - 1)
        BY <2>1
    <2>3. g[0] = k /\ \A i \in 1 .. a - 1 : g[i] = MapSegment(g[i - 1], root, segs[i])
        BY <2>1, <2>2 DEF ImageSegs
    <2>4. PICK x : x = MapSegment(g[a - 1], root, segs[a])
        OBVIOUS
    <2>5. PICK h : h = [i \in 0 .. a |-> IF i = a THEN x ELSE g[i]]
        OBVIOUS
    <2>6. h[0] = k /\ \A i \in 1 .. a : h[i] = MapSegment(h[i - 1], root, segs[i])
        BY <1>4, <2>1, <2>3, <2>4, <2>5
    <2>7. h = [i \in 0 .. a |-> IF i = 0 THEN k ELSE MapSegment(h[i - 1], root, segs[i])]
        <3>1. h = [i \in 0 .. a |-> h[i]]
            BY <2>5
        <3>2. \A i \in 0 .. a : h[i] = IF i = 0 THEN k ELSE MapSegment(h[i - 1], root, segs[i])
            BY <2>6
        <3> QED
            BY <3>1, <3>2
    <2> QED
        BY <1>2, <2>7 DEF ImageSegs
<1> QED
    BY <1>3, <1>4

ImageMapped(k, root, segs, n) == CHOOSE g : ImageSegs(g, k, root, segs, n)

LEMMA ImageMappedIs ==
    ASSUME NEW k, NEW root, NEW segs, NEW n \in Nat
    PROVE  /\ ImageMapped(k, root, segs, n)[0] = k
           /\ \A i \in 1 .. n : ImageMapped(k, root, segs, n)[i] = MapSegment(ImageMapped(k, root, segs, n)[i - 1], root, segs[i])
<1>1. PICK g : g = ImageMapped(k, root, segs, n)
    OBVIOUS
<1>2. ImageSegs(g, k, root, segs, n)
    BY <1>1, ImageSegsExist DEF ImageMapped
<1>3. g[0] = k /\ \A i \in 1 .. n : g[i] = MapSegment(g[i - 1], root, segs[i])
    BY <1>2 DEF ImageSegs
<1> QED
    BY <1>1, <1>3

LEMMA MapImageIs ==
    ASSUME NEW k, NEW root, NEW segs
    PROVE  /\ ImageMaps(k, root, segs) = ImageMapped(k, root, segs, Len(segs))
           /\ MapImage(k, root, segs) = ImageMapped(k, root, segs, Len(segs))[Len(segs)]
    BY DEF MapImage, ImageMaps, ImageMapped, ImageSegs

LoadSegs(g, k, root, segs, pid, n) ==
    g = [i \in 0 .. n |-> IF i = 0 THEN k ELSE LoadSegment(g[i - 1], root, segs[i], pid)]

LEMMA LoadSegsExist == \A k, root, segs, pid : \A n \in Nat : \E g : LoadSegs(g, k, root, segs, pid, n)
<1> TAKE k, root, segs, pid
<1> DEFINE S == {n \in Nat : ~ \E g : LoadSegs(g, k, root, segs, pid, n)}
<1>1. SUFFICES ASSUME S # {} PROVE FALSE
    OBVIOUS
<1>2. PICK a \in S : \A b \in S : a <= b
    BY <1>1, LeastNat
<1>3. CASE a = 0
    <2>1. PICK g : g = [i \in 0 .. 0 |-> k]
        OBVIOUS
    <2>2. g = [i \in 0 .. 0 |-> IF i = 0 THEN k ELSE LoadSegment(g[i - 1], root, segs[i], pid)]
        BY <2>1
    <2> QED
        BY <1>3, <2>2 DEF LoadSegs
<1>4. CASE a # 0
    <2>1. a - 1 \in Nat /\ a - 1 \notin S
        BY <1>2, <1>4
    <2>2. PICK g : LoadSegs(g, k, root, segs, pid, a - 1)
        BY <2>1
    <2>3. g[0] = k /\ \A i \in 1 .. a - 1 : g[i] = LoadSegment(g[i - 1], root, segs[i], pid)
        BY <2>1, <2>2 DEF LoadSegs
    <2>4. PICK x : x = LoadSegment(g[a - 1], root, segs[a], pid)
        OBVIOUS
    <2>5. PICK h : h = [i \in 0 .. a |-> IF i = a THEN x ELSE g[i]]
        OBVIOUS
    <2>6. h[0] = k /\ \A i \in 1 .. a : h[i] = LoadSegment(h[i - 1], root, segs[i], pid)
        BY <1>4, <2>1, <2>3, <2>4, <2>5
    <2>7. h = [i \in 0 .. a |-> IF i = 0 THEN k ELSE LoadSegment(h[i - 1], root, segs[i], pid)]
        <3>1. h = [i \in 0 .. a |-> h[i]]
            BY <2>5
        <3>2. \A i \in 0 .. a : h[i] = IF i = 0 THEN k ELSE LoadSegment(h[i - 1], root, segs[i], pid)
            BY <2>6
        <3> QED
            BY <3>1, <3>2
    <2> QED
        BY <1>2, <2>7 DEF LoadSegs
<1> QED
    BY <1>3, <1>4

ImageLoaded(k, root, segs, pid, n) == CHOOSE g : LoadSegs(g, k, root, segs, pid, n)

LEMMA ImageLoadedIs ==
    ASSUME NEW k, NEW root, NEW segs, NEW pid, NEW n \in Nat
    PROVE  /\ ImageLoaded(k, root, segs, pid, n)[0] = k
           /\ \A i \in 1 .. n : ImageLoaded(k, root, segs, pid, n)[i] = LoadSegment(ImageLoaded(k, root, segs, pid, n)[i - 1], root, segs[i], pid)
<1>1. PICK g : g = ImageLoaded(k, root, segs, pid, n)
    OBVIOUS
<1>2. LoadSegs(g, k, root, segs, pid, n)
    BY <1>1, LoadSegsExist DEF ImageLoaded
<1>3. g[0] = k /\ \A i \in 1 .. n : g[i] = LoadSegment(g[i - 1], root, segs[i], pid)
    BY <1>2 DEF LoadSegs
<1> QED
    BY <1>1, <1>3

LEMMA LoadImageIs ==
    ASSUME NEW k, NEW root, NEW segs, NEW pid
    PROVE  LoadImage(k, root, segs, pid) = ImageLoaded(k, root, segs, pid, Len(segs))[Len(segs)]
    BY DEF LoadImage, ImageLoaded, LoadSegs

----------------------------------------------------------------------------
(* A new address space                                                      *)

Fresh(G, p) == \A q \in Pages : G[q].kind \in {"table", "data"} => G[q].pid # p

\* Setting up process p leaves the others as they are.
Keeps(k, G, k1, G1, p) ==
    /\ \A q \in Pages :
          \/ G1[q] = G[q]
          \/ G[q].kind = "none" /\ G1[q].kind \in {"table", "data"} /\ G1[q].pid = p
    /\ \A q \in Pages : G[q].kind = "data" /\ G[q].pid # p => k1.mem[q] = k.mem[q]
    /\ \A p2 \in Nat, r \in Pages, v \in 0 .. VaEnd - 1 :
          IsRoot(G, p2, r) /\ p2 # p => Leaf(k1, r, v) = Leaf(k, r, v)

\* What setting up a process leaves to the others.
LEMMA KeepsIs ==
    ASSUME NEW k, NEW G, NEW k1, NEW G1, NEW p, Keeps(k, G, k1, G1, p)
    PROVE  /\ \A p2, r : IsRoot(G, p2, r) => IsRoot(G1, p2, r)
           /\ \A p2, va : Reach(G, p2, va) => Reach(G1, p2, va)
           /\ \A q \in Pages : G[q].kind # "none" => G1[q] = G[q]
<1>1. \A q \in Pages : G[q].kind # "none" => G1[q] = G[q]
    BY DEF Keeps
<1>2. \A p2, l, b : TableOf(p2, l, b).kind # "none"
    BY RoleFields
<1>3. \A p2, r : IsRoot(G, p2, r) => IsRoot(G1, p2, r)
    BY <1>1, <1>2 DEF IsRoot
<1>4. \A p2, va : Reach(G, p2, va) => Reach(G1, p2, va)
    BY <1>1, <1>2 DEF Reach
<1> QED
    BY <1>1, <1>3, <1>4

LEMMA KeepsSelf ==
    ASSUME NEW k, NEW G, NEW p
    PROVE  Keeps(k, G, k, G, p)
    BY DEF Keeps

LEMMA KeepsOn ==
    ASSUME NEW k, NEW G, NEW k1, NEW G1, NEW k2, NEW G2, NEW p,
           Keeps(k, G, k1, G1, p), Keeps(k1, G1, k2, G2, p)
    PROVE  Keeps(k, G, k2, G2, p)
<1>1. \A q \in Pages :
          \/ G2[q] = G[q]
          \/ G[q].kind = "none" /\ G2[q].kind \in {"table", "data"} /\ G2[q].pid = p
    BY DEF Keeps
<1>2. \A q \in Pages : G[q].kind = "data" /\ G[q].pid # p => k2.mem[q] = k.mem[q]
    <2>1. \A q \in Pages : G[q].kind = "data" => G1[q] = G[q]
        BY KeepsIs
    <2> QED
        BY <2>1 DEF Keeps
<1>3. ASSUME NEW p2 \in Nat, NEW r \in Pages, NEW v \in 0 .. VaEnd - 1, IsRoot(G, p2, r), p2 # p
      PROVE  Leaf(k2, r, v) = Leaf(k, r, v)
    <2>1. IsRoot(G1, p2, r)
        BY <1>3, KeepsIs
    <2> QED
        BY <1>3, <2>1 DEF Keeps
<1> QED
    BY <1>1, <1>2, <1>3 DEF Keeps

\* What changes the address space of p only, keeps the others.
LEMMA AdoptsKeeps ==
    ASSUME NEW k, NEW G, NEW k1, NEW G1, NEW p, Adopts(k, G, k1, G1, p),
           NEW root, IsRoot(G, p, root), NEW va,
           \A p2 \in Nat, r \in Pages, v \in 0 .. VaEnd - 1 :
              IsRoot(G, p2, r) /\ ~ (r = root /\ v = va) => Leaf(k1, r, v) = Leaf(k, r, v)
    PROVE  Keeps(k, G, k1, G1, p)
<1>1. ASSUME NEW p2 \in Nat, NEW r \in Pages, NEW v \in 0 .. VaEnd - 1, IsRoot(G, p2, r), p2 # p
      PROVE  Leaf(k1, r, v) = Leaf(k, r, v)
    <2>1. r # root
        <3>1. ASSUME r = root PROVE FALSE
            <4>1. TableOf(p2, TopLevel, 0) = TableOf(p, TopLevel, 0)
                BY <1>1, <3>1 DEF IsRoot
            <4> QED
                BY <1>1, <4>1, TableOfIs
        <3> QED
            BY <3>1
    <2> QED
        BY <1>1, <2>1
<1> QED
    BY <1>1 DEF Adopts, Keeps

\* The address space of p, being set up since k0: what it shows, and what it has tables for.
InSpace(k0, G0, m, p, root, F, R) ==
    \E G : /\ Layout(m, G, {}) /\ Keeps(k0, G0, m, G, p) /\ IsRoot(G, p, root)
           /\ \A v \in R : Reach(G, p, v)
           /\ \A v \in 0 .. VaEnd - 1 : Leaf(m, root, v) = F[v]

AllAbsent == [v \in 0 .. VaEnd - 1 |-> Absent]

\* A new root is a free page, with no entries.
LEMMA NewRootShape ==
    ASSUME NEW k, Shape(k), NEW root
    PROVE  /\ Shape(NewRoot(k, root)) /\ Free(NewRoot(k, root)) \subseteq Free(k)
           /\ k \in Memories => NewRoot(k, root) = NewPage(k, root, EmptyTable)
<1>1. PICK m0 : m0 = [k.mem EXCEPT ![root] = Junk]
    OBVIOUS
<1>2. PICK m1 : m1 = [m0 EXCEPT ![root] = EmptyTable]
    OBVIOUS
<1>3. PICK r1 : r1 = [k.refcount EXCEPT ![root] = @ + 1]
    OBVIOUS
<1>4. Take(k, root) = Mem(m0, r1)
    BY <1>1, <1>3, TakeIs DEF Shape
<1>5. NewRoot(k, root) = Mem(m1, r1)
    <2>1. NewRoot(k, root) = [Take(k, root) EXCEPT !.mem = [Take(k, root).mem EXCEPT ![root] = EmptyTable]]
        BY DEF NewRoot
    <2>2. Take(k, root).mem = m0
        BY <1>4, MemFields
    <2>3. [Take(k, root).mem EXCEPT ![root] = EmptyTable] = m1
        BY <1>2, <2>2
    <2>4. NewRoot(k, root) = [Take(k, root) EXCEPT !.mem = m1]
        BY <2>1, <2>3
    <2>5. [Mem(m0, r1) EXCEPT !.mem = m1] = Mem(m1, r1)
        BY MemExcept
    <2> QED
        BY <1>4, <2>4, <2>5
<1>6. k.refcount \in [Pages -> Nat]
    BY DEF Shape
<1>7. r1 \in [Pages -> Nat] /\ \A q \in Pages : r1[q] >= k.refcount[q]
    <2>1. CASE root \in Pages
        BY <1>3, <1>6, <2>1
    <2>2. CASE root \notin Pages
        <3>1. r1 = k.refcount
            BY <1>3, <1>6, <2>2
        <3> QED
            BY <1>6, <3>1
    <2> QED
        BY <2>1, <2>2
<1>8. Shape(NewRoot(k, root))
    BY <1>5, <1>7, MemFields DEF Shape
<1>9. Free(NewRoot(k, root)) \subseteq Free(k)
    <2>1. NewRoot(k, root).refcount = r1
        BY <1>5, MemFields
    <2>2. ASSUME NEW q \in Allocatable, r1[q] = 0 PROVE k.refcount[q] = 0
        <3>1. q \in Pages
            BY PageTableAssumption
        <3>2. r1[q] >= k.refcount[q] /\ k.refcount[q] \in Nat
            BY <1>6, <1>7, <3>1
        <3> QED
            BY <2>2, <3>2
    <2> QED
        BY <2>1, <2>2 DEF Free
<1>10. k \in Memories => NewRoot(k, root) = NewPage(k, root, EmptyTable)
    <2>1. HAVE k \in Memories
    <2>2. k.mem \in [Pages -> Contents \cup Tables]
        BY <2>1 DEF Memories
    <2>3. m1 = [k.mem EXCEPT ![root] = EmptyTable]
        BY <1>1, <1>2, <2>2
    <2> QED
        BY <1>3, <1>5, <2>3 DEF NewPage
<1> QED
    BY <1>8, <1>9, <1>10

\* A new root shows nothing.
LEMMA NewRootIs ==
    ASSUME NEW k, NEW G, Layout(k, G, {}), NEW p \in Nat, Fresh(G, p), NEW root \in Free(k)
    PROVE  InSpace(k, G, NewRoot(k, root), p, root, AllAbsent, {})
<1>0. k \in Memories /\ Shape(k)
    BY DEF Layout, Memories, Shape, Mem
<1>1. PICK R : TableOf(p, TopLevel, 0) = R
    OBVIOUS
<1>2. R \in Roles /\ R.kind = "table" /\ R.pid = p /\ R.level = TopLevel
    <2>1. TopLevel \in 0 .. TopLevel /\ 0 \in Nat
        BY PageTableAssumption
    <2> QED
        BY <1>1, <2>1 DEF TableOf, Role, Roles, Kinds
<1>3. NewRole(G, EmptyTable, R)
    BY <1>1, <1>2 DEF Fresh, NewRole
<1>4. PICK k1 : NewPage(k, root, EmptyTable) = k1
    OBVIOUS
<1>5. PICK G1 : [G EXCEPT ![root] = R] = G1
    OBVIOUS
<1>6. NewPageAs(k, G, root, EmptyTable, R, k1, G1)
    BY <1>2, <1>3, <1>4, <1>5, NewPageIs
<1>7. /\ Layout(k1, G1, {}) /\ SameLeaves(k, G, k1)
      /\ G[root].kind = "none" /\ root \in Pages /\ G1[root] = R /\ k1.mem[root] = EmptyTable
      /\ \A q \in Pages : q # root => G1[q] = G[q] /\ k1.mem[q] = k.mem[q]
    BY <1>2, <1>6 DEF NewPageAs
<1>8. IsRoot(G1, p, root)
    BY <1>1, <1>7 DEF IsRoot
<1>9. Keeps(k, G, k1, G1, p)
    <2>1. \A q \in Pages : G[q].kind = "data" => q # root
        BY <1>7
    <2> QED
        BY <1>2, <1>7, <2>1 DEF Keeps, SameLeaves
<1>10. ASSUME NEW v \in 0 .. VaEnd - 1
       PROVE  Leaf(k1, root, v) = Absent
    <2>1. PICK it : it = Vmiter(k1, root, v)
        OBVIOUS
    <2>2. it.table \in Pages /\ G1[it.table] = TableOf(p, it.level, Prefix(v, it.level + 1))
          /\ (it.level # 0 => At(k1, it).perm = {})
        BY <1>7, <1>8, <2>1, VmiterStops
    <2>3. G1[it.table].kind = "table" /\ G1[it.table].pid = p /\ G1[it.table].level = it.level
        BY <2>2, RoleFields
    <2>4. it.table = root
        BY <1>7, <2>2, <2>3 DEF Fresh
    <2>5. it.level = TopLevel /\ TopLevel # 0
        BY <1>2, <1>7, <2>3, <2>4, PageTableAssumption
    <2> QED
        BY <2>1, <2>2, <2>5 DEF Leaf
<1>11. InSpace(k, G, k1, p, root, AllAbsent, {})
    <2>1. \A v \in 0 .. VaEnd - 1 : Leaf(k1, root, v) = AllAbsent[v]
        BY <1>10 DEF AllAbsent
    <2> QED
        BY <1>7, <1>8, <1>9, <2>1 DEF InSpace
<1>12. NewRoot(k, root) = k1
    BY <1>0, <1>4, NewRootShape
<1> QED
    BY <1>11, <1>12

LEMMA InSpaceFrees ==
    ASSUME NEW m, NEW G, Layout(m, G, {})
    PROVE  Shape(m) /\ Loose(G, {})
    BY DEF Layout, Memories, Shape, Mem, Loose

\* A page of the kernel's is mapped at its own address.
LEMMA MapLow ==
    ASSUME NEW k0, NEW G0, NEW m, NEW p \in Nat, NEW root, NEW F, NEW R,
           InSpace(k0, G0, m, p, root, F, R),
           NEW u \in 0 .. ProcStart - 1, NEW perm \in {{}, {"P", "W"}, PWU}, perm = PWU => u = Console,
           u \in R \/ (perm # {} /\ Free(MapIdentity(m, root, u, perm)) # {}),
           NEW F1, \A v \in 0 .. VaEnd - 1 : F1[v] = IF v = u THEN Shown1(Entry(u, perm)) ELSE F[v],
           NEW R1, R1 \subseteq R \cup {u}
    PROVE  InSpace(k0, G0, MapIdentity(m, root, u, perm), p, root, F1, R1)
<1>1. PICK G : /\ Layout(m, G, {}) /\ Keeps(k0, G0, m, G, p) /\ IsRoot(G, p, root)
               /\ \A v \in R : Reach(G, p, v)
               /\ \A v \in 0 .. VaEnd - 1 : Leaf(m, root, v) = F[v]
    BY DEF InSpace
<1>2. u \in 0 .. VaEnd - 1 /\ u \in Pages /\ u < ProcStart
    <2>1. 0 .. ProcStart - 1 \subseteq Pages
        BY LayoutAssumption
    <2> QED
        BY <2>1, LowPages
<1>3. PICK e : Entry(u, perm) = e
    OBVIOUS
<1>4. e.pa = u /\ e.perm = perm
    BY <1>3 DEF Entry
<1>5. Mappable(m, G, {}, p, root, u, e)
    BY <1>2, <1>4 DEF Mappable
<1>6. PICK m1 : MemoryMap(m, root, u, u, perm).k = m1
    OBVIOUS
<1>7. MapIdentity(m, root, u, perm) = m1
    BY <1>6 DEF MapIdentity
<1>8. Reach(G, p, u) \/ (perm # {} /\ Free(m1) # {})
    BY <1>1, <1>7
<1>9. MappedAs(m, G, m1, p, root, u, e)
    <2>1. perm \in SUBSET PWU
        BY DEF PWU
    <2> QED
        BY <1>1, <1>2, <1>3, <1>5, <1>6, <1>8, <2>1, InSpaceFrees, MemoryMapAs
<1>10. PICK G1 : Layout(m1, G1, {}) /\ Remaps(m, G, m1, G1, p, root, u, e) /\ Reach(G1, p, u)
    BY <1>9 DEF MappedAs
<1>11. Adopts(m, G, m1, G1, p)
    BY <1>10, RemapsAdopts
<1>12. Keeps(k0, G0, m1, G1, p)
    <2>1. \A p2 \in Nat, r \in Pages, v \in 0 .. VaEnd - 1 :
              IsRoot(G, p2, r) /\ ~ (r = root /\ v = u) => Leaf(m1, r, v) = Leaf(m, r, v)
        BY <1>10 DEF Remaps
    <2>2. Keeps(m, G, m1, G1, p)
        BY <1>1, <1>11, <2>1, AdoptsKeeps
    <2> QED
        BY <1>1, <2>2, KeepsOn
<1>13. IsRoot(G1, p, root) /\ \A v \in R1 : Reach(G1, p, v)
    BY <1>1, <1>10, <1>11, AdoptsIs
<1>14. \A v \in 0 .. VaEnd - 1 : Leaf(m1, root, v) = F1[v]
    <2>1. root \in Pages
        BY <1>1 DEF IsRoot
    <2>2. \A v \in 0 .. VaEnd - 1 : Leaf(m1, root, v) = IF v = u THEN Shown1(e) ELSE Leaf(m, root, v)
        BY <1>1, <1>10, <2>1 DEF Remaps
    <2> QED
        BY <1>1, <1>3, <2>2
<1>15. InSpace(k0, G0, m1, p, root, F1, R1)
    BY <1>10, <1>12, <1>13, <1>14 DEF InSpace
<1> QED
    BY <1>7, <1>15

\* Mapping it passes the assertions.
LEMMA MapLowAsserts ==
    ASSUME NEW k0, NEW G0, NEW m, NEW p \in Nat, NEW root, NEW F, NEW R,
           InSpace(k0, G0, m, p, root, F, R),
           NEW u \in 0 .. ProcStart - 1, NEW perm \in SUBSET PWU,
           u \in R \/ Free(MapIdentity(m, root, u, perm)) # {}
    PROVE  MapAsserts(m, root, u, u, perm)
<1>1. PICK G : Layout(m, G, {}) /\ IsRoot(G, p, root) /\ \A v \in R : Reach(G, p, v)
    BY DEF InSpace
<1>2. u \in 0 .. VaEnd - 1 /\ u \in Pages
    <2>1. 0 .. ProcStart - 1 \subseteq Pages
        BY LayoutAssumption
    <2> QED
        BY <2>1, LowPages
<1>3. u # NoPage
    BY <1>2, PageTableAssumption
<1>4. Reach(G, p, u) \/ Free(MemoryMap(m, root, u, u, perm).k) # {}
    BY <1>1 DEF MapIdentity
<1> QED
    BY <1>1, <1>2, <1>3, <1>4, InSpaceFrees, MapAssertsIs

LEMMA MapIdentityShape ==
    ASSUME NEW k, Shape(k), NEW root, NEW va, NEW perm
    PROVE  /\ Shape(MapIdentity(k, root, va, perm))
           /\ Free(MapIdentity(k, root, va, perm)) \subseteq Free(k)
    BY MemoryMapShape DEF MapIdentity

LEMMA LowMappedShape ==
    ASSUME NEW k, Shape(k), NEW root, NEW n \in Nat
    PROVE  \A i \in 0 .. n :
              /\ Shape(LowMapped(k, root, n)[i]) /\ Free(LowMapped(k, root, n)[i]) \subseteq Free(k)
              /\ i > 0 => Free(LowMapped(k, root, n)[i]) \subseteq Free(LowMapped(k, root, n)[i - 1])
<1>1. PICK g : LowMapped(k, root, n) = g
    OBVIOUS
<1>2. g[0] = k /\ \A i \in 1 .. n : g[i] = MapIdentity(g[i - 1], root, i - 1, {"P", "W"})
    BY <1>1, LowMappedIs
<1> DEFINE S == {i \in Nat : i <= n /\ ~ (Shape(g[i]) /\ Free(g[i]) \subseteq Free(k))}
<1>3. S = {}
    <2>1. SUFFICES ASSUME S # {} PROVE FALSE
        OBVIOUS
    <2>2. PICK a \in S : \A b \in S : a <= b
        BY <2>1, LeastNat
    <2>3. a # 0
        BY <1>2, <2>2
    <2>4. a - 1 \in Nat /\ a - 1 \notin S /\ a \in 1 .. n
        BY <2>2, <2>3
    <2>5. Shape(g[a - 1]) /\ Free(g[a - 1]) \subseteq Free(k)
        BY <2>4
    <2>6. Shape(g[a]) /\ Free(g[a]) \subseteq Free(g[a - 1])
        BY <1>2, <2>4, <2>5, MapIdentityShape
    <2> QED
        BY <2>2, <2>5, <2>6
<1>4. \A i \in 0 .. n : Shape(g[i]) /\ Free(g[i]) \subseteq Free(k)
    <2>1. \A i \in 0 .. n : i \in Nat /\ i <= n /\ i \notin S
        BY <1>3
    <2> QED
        BY <2>1
<1>5. \A i \in 0 .. n : i > 0 => Free(g[i]) \subseteq Free(g[i - 1])
    <2> SUFFICES ASSUME NEW i \in 0 .. n, i > 0 PROVE Free(g[i]) \subseteq Free(g[i - 1])
        OBVIOUS
    <2>1. i \in 1 .. n /\ i - 1 \in 0 .. n
        OBVIOUS
    <2> QED
        BY <1>2, <1>4, <2>1, MapIdentityShape
<1> QED
    BY <1>1, <1>4, <1>5

\* The assertions on the way to the state after all of them.
LowAsserts(m, root) ==
    \A u \in 0 .. ProcStart - 1 : MapAsserts(LowMaps(m, root)[u], root, u, u, {"P", "W"})

LowTo(n) == [v \in 0 .. VaEnd - 1 |-> IF v < n THEN Entry(v, {"P", "W"}) ELSE Absent]

\* The kernel's pages are mapped one after the other.
LEMMA LowMappedAs ==
    ASSUME NEW k0, NEW G0, NEW m, NEW p \in Nat, NEW root, InSpace(k0, G0, m, p, root, AllAbsent, {}),
           Free(LowMapped(m, root, ProcStart)[ProcStart]) # {}
    PROVE  /\ InSpace(k0, G0, LowMapped(m, root, ProcStart)[ProcStart], p, root, LowTo(ProcStart),
                      0 .. ProcStart - 1)
           /\ LowAsserts(m, root)
<1>1. PICK g : LowMapped(m, root, ProcStart) = g
    OBVIOUS
<1>2. ProcStart \in Nat /\ ProcStart > 1 /\ ProcStart < VaEnd
    BY LowPages
<1>3. g[0] = m /\ \A i \in 1 .. ProcStart : g[i] = MapIdentity(g[i - 1], root, i - 1, {"P", "W"})
    BY <1>1, <1>2, LowMappedIs
<1>4. Shape(m)
    BY InSpaceFrees DEF InSpace
<1>5. \A i \in 0 .. ProcStart : i > 0 => Free(g[i]) \subseteq Free(g[i - 1])
    BY <1>1, <1>2, <1>4, LowMappedShape
<1> DEFINE T == {j \in Nat : j <= ProcStart /\ Free(g[ProcStart - j]) = {}}
<1>6. \A i \in 0 .. ProcStart : Free(g[i]) # {}
    <2>1. T = {}
        <3>1. SUFFICES ASSUME T # {} PROVE FALSE
            OBVIOUS
        <3>2. PICK a \in T : \A b \in T : a <= b
            BY <3>1, LeastNat
        <3>3. ProcStart - 0 = ProcStart
            BY <1>2
        <3>4. a # 0
            BY <1>1, <3>2, <3>3
        <3>5. a - 1 \in Nat /\ a - 1 \notin T
            BY <3>2, <3>4
        <3>6. PICK i \in 1 .. ProcStart : i = ProcStart - (a - 1)
            BY <1>2, <3>2, <3>4
        <3>7. Free(g[i]) # {} /\ ProcStart - a = i - 1
            BY <1>2, <3>2, <3>5, <3>6
        <3>8. Free(g[i]) \subseteq Free(g[i - 1])
            BY <1>5
        <3> QED
            BY <3>2, <3>7, <3>8
    <2> SUFFICES ASSUME NEW i \in 0 .. ProcStart PROVE Free(g[i]) # {}
        OBVIOUS
    <2>2. PICK j \in Nat : j = ProcStart - i
        BY <1>2
    <2>3. j <= ProcStart /\ ProcStart - j = i
        BY <1>2, <2>2
    <2> QED
        BY <2>1, <2>3
<1> DEFINE S == {i \in Nat : i <= ProcStart /\ ~ InSpace(k0, G0, g[i], p, root, LowTo(i), 0 .. i - 1)}
<1>7. S = {}
    <2>1. SUFFICES ASSUME S # {} PROVE FALSE
        OBVIOUS
    <2>2. PICK a \in S : \A b \in S : a <= b
        BY <2>1, LeastNat
    <2>3. a # 0
        <3>1. ASSUME a = 0 PROVE FALSE
            <4>1. LowTo(0) = AllAbsent
                <5>1. \A v \in 0 .. VaEnd - 1 : ~ (v < 0)
                    BY LowPages
                <5> QED
                    BY <5>1 DEF LowTo, AllAbsent
            <4>2. 0 .. 0 - 1 = {}
                OBVIOUS
            <4> QED
                BY <1>3, <2>2, <3>1, <4>1, <4>2
        <3> QED
            BY <3>1
    <2>4. PICK b \in Nat : b = a - 1
        BY <2>2, <2>3
    <2>5. b \notin S /\ a \in 1 .. ProcStart /\ b \in 0 .. ProcStart - 1
        <3>1. a \in Nat /\ a <= ProcStart
            BY <2>2
        <3>2. a \in 1 .. ProcStart /\ b \in 0 .. ProcStart - 1 /\ b < a
            BY <1>2, <2>3, <2>4, <3>1
        <3>3. b \notin S
            BY <2>2, <2>4, <3>2
        <3> QED
            BY <3>2, <3>3
    <2>6. InSpace(k0, G0, g[b], p, root, LowTo(b), 0 .. b - 1)
        BY <1>2, <2>5
    <2>7. g[a] = MapIdentity(g[b], root, b, {"P", "W"})
        BY <1>3, <2>4, <2>5
    <2>8. \A v \in 0 .. VaEnd - 1 :
             LowTo(a)[v] = IF v = b THEN Shown1(Entry(b, {"P", "W"})) ELSE LowTo(b)[v]
        <3>1. Shown1(Entry(b, {"P", "W"})) = Entry(b, {"P", "W"})
            BY DEF Shown1, Entry
        <3>2. \A v \in 0 .. VaEnd - 1 : v < a <=> v < b \/ v = b
            BY <2>2, <2>4, LowPages
        <3>3. \A v \in 0 .. VaEnd - 1 : v = b => ~ (v < b)
            BY <2>4, LowPages
        <3> QED
            BY <3>1, <3>2, <3>3 DEF LowTo
    <2>9. 0 .. a - 1 \subseteq (0 .. b - 1) \cup {b}
        BY <2>2, <2>4
    <2>10. {"P", "W"} # PWU /\ {"P", "W"} # {} /\ {"P", "W"} \in {{}, {"P", "W"}, PWU}
        <3>1. "U" \in PWU /\ "U" \notin {"P", "W"}
            BY DEF PWU
        <3> QED
            BY <3>1
    <2>11. Free(g[a]) # {}
        BY <1>6, <2>5
    <2>12. InSpace(k0, G0, g[a], p, root, LowTo(a), 0 .. a - 1)
        <3>1. PICK F : F = LowTo(b)
            OBVIOUS
        <3>2. PICK F1 : F1 = LowTo(a)
            OBVIOUS
        <3>3. PICK R : R = 0 .. b - 1
            OBVIOUS
        <3>4. PICK R1 : R1 = 0 .. a - 1
            OBVIOUS
        <3>5. PICK pw : pw = {"P", "W"}
            OBVIOUS
        <3>6. InSpace(k0, G0, g[b], p, root, F, R)
            BY <2>6, <3>1, <3>3
        <3>7. \A v \in 0 .. VaEnd - 1 : F1[v] = IF v = b THEN Shown1(Entry(b, pw)) ELSE F[v]
            BY <2>8, <3>1, <3>2, <3>5
        <3>8. R1 \subseteq R \cup {b}
            BY <2>9, <3>3, <3>4
        <3>9. pw # PWU /\ pw # {} /\ pw \in {{}, {"P", "W"}, PWU}
            BY <2>10, <3>5
        <3>10. g[a] = MapIdentity(g[b], root, b, pw)
            BY <2>7, <3>5
        <3>11. InSpace(k0, G0, MapIdentity(g[b], root, b, pw), p, root, F1, R1)
            BY <2>5, <2>11, <3>6, <3>7, <3>8, <3>9, <3>10, MapLow
        <3> QED
            BY <3>2, <3>4, <3>10, <3>11
    <2> QED
        BY <2>2, <2>12
<1>8. ProcStart \in Nat /\ ProcStart <= ProcStart /\ ProcStart \notin S
    BY <1>2, <1>7
<1>9. ASSUME NEW u \in 0 .. ProcStart - 1
      PROVE  MapAsserts(g[u], root, u, u, {"P", "W"})
    <2>1. PICK pw : pw = {"P", "W"}
        OBVIOUS
    <2>2. u \in Nat /\ u <= ProcStart /\ u \notin S
        BY <1>2, <1>7
    <2>3. PICK x : x = g[u]
        OBVIOUS
    <2>4. PICK F : F = LowTo(u)
        OBVIOUS
    <2>5. PICK R : R = 0 .. u - 1
        OBVIOUS
    <2>6. InSpace(k0, G0, x, p, root, F, R)
        BY <2>2, <2>3, <2>4, <2>5
    <2>7. PICK a \in 1 .. ProcStart : a = u + 1 /\ a - 1 = u
        BY <1>2
    <2>8. MapIdentity(x, root, u, pw) = g[a] /\ Free(g[a]) # {}
        BY <1>3, <1>6, <2>1, <2>3, <2>7
    <2>9. pw \in SUBSET PWU
        BY <2>1 DEF PWU
    <2>10. MapAsserts(x, root, u, u, pw)
        BY <2>6, <2>8, <2>9, MapLowAsserts
    <2> QED
        BY <2>1, <2>3, <2>10
<1>10. LowAsserts(m, root)
    BY <1>1, <1>9, MapKernelSpaceIs DEF LowAsserts
<1> QED
    BY <1>1, <1>8, <1>10

\* The kernel's part of every address space.
LowEntry(v) == IF v = 0 THEN Absent ELSE Entry(v, IF v = Console THEN PWU ELSE {"P", "W"})

\* An address space with the kernel's pages, and pages of data at the addresses of D.
Shows(m, root, D) ==
    \A v \in 0 .. VaEnd - 1 : IF v < ProcStart THEN Leaf(m, root, v) = LowEntry(v)
                              ELSE Leaf(m, root, v) # Absent <=> v \in D

\* The address space of p, being set up since k0.
Setting(k0, G0, m, p, root, D) ==
    \E G : /\ Layout(m, G, {}) /\ Keeps(k0, G0, m, G, p) /\ IsRoot(G, p, root)
           /\ Reach(G, p, ProcStart - 1) /\ Shows(m, root, D)

LEMMA NewSpaceFields ==
    ASSUME NEW k, NEW root, FreePage(k) = root
    PROVE  /\ NewSpace(k).root = root
           /\ NewSpace(k).k = MapIdentity(MapIdentity(
                 LowMapped(NewRoot(k, root), root, ProcStart)[ProcStart], root, 0, {}), root, Console, PWU)
    BY MapKernelSpaceIs DEF NewSpace

LEMMA NewSpaceShape ==
    ASSUME NEW k, Shape(k)
    PROVE  Shape(NewSpace(k).k) /\ Free(NewSpace(k).k) \subseteq Free(k)
<1>1. PICK root : FreePage(k) = root
    OBVIOUS
<1>2. PICK k1 : NewRoot(k, root) = k1
    OBVIOUS
<1>3. Shape(k1) /\ Free(k1) \subseteq Free(k)
    BY <1>2, NewRootShape
<1>4. PICK k2 : LowMapped(k1, root, ProcStart)[ProcStart] = k2
    OBVIOUS
<1>5. Shape(k2) /\ Free(k2) \subseteq Free(k1)
    <2>1. ProcStart \in Nat /\ ProcStart \in 0 .. ProcStart
        BY LowPages
    <2> QED
        BY <1>3, <1>4, <2>1, LowMappedShape
<1>6. PICK k3 : MapIdentity(k2, root, 0, {}) = k3
    OBVIOUS
<1>7. Shape(k3) /\ Free(k3) \subseteq Free(k2)
    BY <1>5, <1>6, MapIdentityShape
<1>8. PICK k4 : MapIdentity(k3, root, Console, PWU) = k4
    OBVIOUS
<1>9. Shape(k4) /\ Free(k4) \subseteq Free(k3)
    BY <1>7, <1>8, MapIdentityShape
<1>10. NewSpace(k).k = k4
    BY <1>1, <1>2, <1>4, <1>6, <1>8, NewSpaceFields
<1> QED
    BY <1>3, <1>5, <1>7, <1>9, <1>10

LowSpace == [v \in 0 .. VaEnd - 1 |-> IF v < ProcStart THEN LowEntry(v) ELSE Absent]

\* The assertions on the way to a new address space.
SpaceAsserts(k) ==
    LET root == NewSpace(k).root
        new  == NewRoot(k, root)
    IN /\ LowAsserts(new, root)
       /\ MapAsserts(MapIdentity(MapKernelSpace(new, root), root, 0, {}), root, Console, Console, PWU)

\* A new address space shows the kernel's pages, the console and nothing else.
LEMMA NewSpaceIs ==
    ASSUME NEW k, NEW G, Layout(k, G, {}), NEW p \in Nat, Fresh(G, p), Free(NewSpace(k).k) # {}
    PROVE  Setting(k, G, NewSpace(k).k, p, NewSpace(k).root, {}) /\ SpaceAsserts(k)
<1>0. Shape(k)
    BY InSpaceFrees
<1>1. PICK root : FreePage(k) = root
    OBVIOUS
<1>2. root \in Free(k)
    BY <1>0, <1>1, NewSpaceShape, FreePageIs
<1>3. PICK k1 : NewRoot(k, root) = k1
    OBVIOUS
<1>4. Shape(k1) /\ InSpace(k, G, k1, p, root, AllAbsent, {})
    BY <1>0, <1>2, <1>3, NewRootShape, NewRootIs
<1>5. PICK k2 : LowMapped(k1, root, ProcStart)[ProcStart] = k2
    OBVIOUS
<1>6. Shape(k2)
    <2>1. ProcStart \in Nat /\ ProcStart \in 0 .. ProcStart
        BY LowPages
    <2> QED
        BY <1>4, <1>5, <2>1, LowMappedShape
<1>7. PICK k3 : MapIdentity(k2, root, 0, {}) = k3
    OBVIOUS
<1>8. Shape(k3) /\ Free(k3) \subseteq Free(k2)
    BY <1>6, <1>7, MapIdentityShape
<1>9. PICK k4 : MapIdentity(k3, root, Console, PWU) = k4
    OBVIOUS
<1>10. Free(k4) \subseteq Free(k3)
    BY <1>8, <1>9, MapIdentityShape
<1>11. NewSpace(k).k = k4 /\ NewSpace(k).root = root
    BY <1>1, <1>3, <1>5, <1>7, <1>9, NewSpaceFields
<1>12. Free(k2) # {} /\ Free(k4) # {}
    BY <1>8, <1>10, <1>11
<1>13. PICK R : R = 0 .. ProcStart - 1
    OBVIOUS
<1>14. 0 \in R /\ Console \in R /\ ProcStart - 1 \in R /\ Console # 0 /\ 0 \in 0 .. ProcStart - 1
       /\ Console \in 0 .. ProcStart - 1
    BY <1>13, LowPages
<1>15. PICK F2 : F2 = LowTo(ProcStart)
    OBVIOUS
<1>16. InSpace(k, G, k2, p, root, F2, R)
    BY <1>4, <1>5, <1>12, <1>13, <1>15, LowMappedAs
<1>17. PICK F3 : F3 = [v \in 0 .. VaEnd - 1 |-> IF v = 0 THEN Absent ELSE F2[v]]
    OBVIOUS
<1>18. InSpace(k, G, k3, p, root, F3, R)
    <2>1. \A v \in 0 .. VaEnd - 1 : F3[v] = IF v = 0 THEN Shown1(Entry(0, {})) ELSE F2[v]
        BY <1>17 DEF Shown1, Entry
    <2>2. {} \in {{}, {"P", "W"}, PWU} /\ {} # PWU
        BY DEF PWU
    <2>3. R \subseteq R \cup {0}
        OBVIOUS
    <2>4. InSpace(k, G, MapIdentity(k2, root, 0, {}), p, root, F3, R)
        BY <1>14, <1>16, <2>1, <2>2, <2>3, MapLow
    <2> QED
        BY <1>7, <2>4
<1>19. PICK F4 : F4 = [v \in 0 .. VaEnd - 1 |-> IF v = Console THEN Entry(Console, PWU) ELSE F3[v]]
    OBVIOUS
<1>20. InSpace(k, G, k4, p, root, F4, R)
    <2>1. Shown1(Entry(Console, PWU)) = Entry(Console, PWU)
        BY DEF Shown1, Entry, PWU
    <2>2. \A v \in 0 .. VaEnd - 1 : F4[v] = IF v = Console THEN Shown1(Entry(Console, PWU)) ELSE F3[v]
        BY <1>19, <2>1
    <2>3. PWU \in {{}, {"P", "W"}, PWU}
        OBVIOUS
    <2>4. R \subseteq R \cup {Console}
        OBVIOUS
    <2>5. InSpace(k, G, MapIdentity(k3, root, Console, PWU), p, root, F4, R)
        BY <1>14, <1>18, <2>2, <2>3, <2>4, MapLow
    <2> QED
        BY <1>9, <2>5
<1>21. \A v \in 0 .. VaEnd - 1 : F4[v] = IF v < ProcStart THEN LowEntry(v) ELSE Absent
    <2>1. Console < ProcStart /\ 0 < ProcStart
        BY LowPages
    <2>2. \A v \in 0 .. VaEnd - 1 :
             F4[v] = IF v = Console THEN Entry(Console, PWU)
                     ELSE IF v = 0 THEN Absent
                     ELSE IF v < ProcStart THEN Entry(v, {"P", "W"}) ELSE Absent
        BY <1>15, <1>17, <1>19 DEF LowTo
    <2> QED
        BY <1>14, <2>1, <2>2 DEF LowEntry
<1>22. PICK H : /\ Layout(k4, H, {}) /\ Keeps(k, G, k4, H, p) /\ IsRoot(H, p, root)
                /\ \A v \in R : Reach(H, p, v)
                /\ \A v \in 0 .. VaEnd - 1 : Leaf(k4, root, v) = F4[v]
    BY <1>20 DEF InSpace
<1>23. Shows(k4, root, {})
    BY <1>21, <1>22 DEF Shows
<1>24. Setting(k, G, k4, p, root, {})
    BY <1>14, <1>22, <1>23 DEF Setting
<1>25. MapAsserts(k3, root, Console, Console, PWU)
    <2>1. PWU \in SUBSET PWU
        OBVIOUS
    <2> QED
        BY <1>14, <1>18, <2>1, MapLowAsserts
<1>26. LowAsserts(k1, root)
    BY <1>4, <1>5, <1>12, LowMappedAs
<1>27. MapIdentity(MapKernelSpace(k1, root), root, 0, {}) = k3
    BY <1>5, <1>7, MapKernelSpaceIs
<1>28. SpaceAsserts(k)
    BY <1>3, <1>11, <1>25, <1>26, <1>27 DEF SpaceAsserts
<1> QED
    BY <1>11, <1>24, <1>28

----------------------------------------------------------------------------
(* The program's pages                                                      *)

\* What holds of loops that only take pages.
LEMMA ShapesAlong ==
    ASSUME NEW g, NEW n \in Nat, Shape(g[0]),
           \A i \in 1 .. n : Shape(g[i - 1]) => Shape(g[i]) /\ Free(g[i]) \subseteq Free(g[i - 1])
    PROVE  /\ \A i \in 0 .. n : Shape(g[i]) /\ Free(g[i]) \subseteq Free(g[0])
           /\ Free(g[n]) # {} => \A i \in 0 .. n : Free(g[i]) # {}
<1> DEFINE S == {i \in Nat : i <= n /\ ~ (Shape(g[i]) /\ Free(g[i]) \subseteq Free(g[0]))}
<1>1. S = {}
    <2>1. SUFFICES ASSUME S # {} PROVE FALSE
        OBVIOUS
    <2>2. PICK a \in S : \A b \in S : a <= b
        BY <2>1, LeastNat
    <2>3. a # 0
        BY <2>2
    <2>4. a - 1 \in Nat /\ a - 1 \notin S /\ a \in 1 .. n
        BY <2>2, <2>3
    <2>5. Shape(g[a - 1]) /\ Free(g[a - 1]) \subseteq Free(g[0])
        BY <2>4
    <2>6. Shape(g[a]) /\ Free(g[a]) \subseteq Free(g[a - 1])
        BY <2>4, <2>5
    <2> QED
        BY <2>2, <2>5, <2>6
<1>2. \A i \in 0 .. n : Shape(g[i]) /\ Free(g[i]) \subseteq Free(g[0])
    <2>1. \A i \in 0 .. n : i \in Nat /\ i <= n /\ i \notin S
        BY <1>1
    <2> QED
        BY <2>1
<1>3. \A i \in 1 .. n : Free(g[i]) \subseteq Free(g[i - 1])
    <2>1. \A i \in 1 .. n : i - 1 \in 0 .. n
        OBVIOUS
    <2> QED
        BY <1>2, <2>1
<1> DEFINE T == {j \in Nat : j <= n /\ Free(g[n - j]) = {}}
<1>4. ASSUME Free(g[n]) # {}
      PROVE  \A i \in 0 .. n : Free(g[i]) # {}
    <2>1. T = {}
        <3>1. SUFFICES ASSUME T # {} PROVE FALSE
            OBVIOUS
        <3>2. PICK a \in T : \A b \in T : a <= b
            BY <3>1, LeastNat
        <3>3. n - 0 = n
            OBVIOUS
        <3>4. a # 0
            BY <1>4, <3>2, <3>3
        <3>5. a - 1 \in Nat /\ a - 1 \notin T
            BY <3>2, <3>4
        <3>6. PICK i \in 1 .. n : i = n - (a - 1)
            BY <3>2, <3>4
        <3>7. Free(g[i]) # {} /\ n - a = i - 1
            BY <3>2, <3>5, <3>6
        <3>8. Free(g[i]) \subseteq Free(g[i - 1])
            BY <1>3
        <3> QED
            BY <3>2, <3>7, <3>8
    <2> SUFFICES ASSUME NEW i \in 0 .. n PROVE Free(g[i]) # {}
        OBVIOUS
    <2>2. PICK j \in Nat : j = n - i
        OBVIOUS
    <2>3. j <= n /\ n - j = i
        BY <2>2
    <2> QED
        BY <2>1, <2>3
<1> QED
    BY <1>2, <1>4

\* One more page of the program.
LEMMA MapNewSets ==
    ASSUME NEW k0, NEW G0, NEW m, NEW p \in Nat, NEW root, NEW D, Setting(k0, G0, m, p, root, D),
           NEW va \in ProcStart .. StackPage, va \notin D, Free(MapNew(m, root, va)) # {}
    PROVE  Setting(k0, G0, MapNew(m, root, va), p, root, D \cup {va}) /\ MapNewAsserts(m, root, va)
<1>1. PICK G : /\ Layout(m, G, {}) /\ Keeps(k0, G0, m, G, p) /\ IsRoot(G, p, root)
               /\ Reach(G, p, ProcStart - 1) /\ Shows(m, root, D)
    BY DEF Setting
<1>2. va \in 0 .. VaEnd - 1 /\ ~ (va < ProcStart)
    BY LowPages
<1>3. Leaf(m, root, va) = Absent
    BY <1>1, <1>2 DEF Shows
<1>4. PICK m1 : MapNew(m, root, va) = m1
    OBVIOUS
<1>5. NewAt(m, G, m1, p, root, va) /\ MapNewAsserts(m, root, va)
    BY <1>1, <1>3, <1>4, MapNewAs
<1>6. PICK G1, pa :
       /\ Layout(m1, G1, {}) /\ Adopts(m, G, m1, G1, p) /\ Reach(G1, p, va)
       /\ \A p2 \in Nat, r \in Pages, v \in 0 .. VaEnd - 1 :
             IsRoot(G, p2, r) =>
                Leaf(m1, r, v) = IF r = root /\ v = va THEN Entry(pa, PWU) ELSE Leaf(m, r, v)
    BY <1>5 DEF NewAt
<1>7. Keeps(k0, G0, m1, G1, p)
    <2>1. Keeps(m, G, m1, G1, p)
        BY <1>1, <1>6, AdoptsKeeps
    <2> QED
        BY <1>1, <2>1, KeepsOn
<1>8. IsRoot(G1, p, root) /\ Reach(G1, p, ProcStart - 1)
    BY <1>1, <1>6, AdoptsIs
<1>9. Shows(m1, root, D \cup {va})
    <2>1. root \in Pages
        BY <1>1 DEF IsRoot
    <2>2. \A v \in 0 .. VaEnd - 1 :
             Leaf(m1, root, v) = IF v = va THEN Entry(pa, PWU) ELSE Leaf(m, root, v)
        BY <1>1, <1>6, <2>1
    <2>3. Entry(pa, PWU) # Absent
        <3>1. Entry(pa, PWU).perm = PWU /\ PWU # {}
            BY DEF Entry, PWU
        <3> QED
            BY <3>1, AbsentIs
    <2> QED
        BY <1>1, <1>2, <2>2, <2>3 DEF Shows
<1>10. Setting(k0, G0, m1, p, root, D \cup {va})
    BY <1>6, <1>7, <1>8, <1>9 DEF Setting
<1> QED
    BY <1>4, <1>5, <1>10

LEMMA MapSegmentShape ==
    ASSUME NEW k, Shape(k), NEW root, NEW seg, seg[2] \in Nat
    PROVE  Shape(MapSegment(k, root, seg)) /\ Free(MapSegment(k, root, seg)) \subseteq Free(k)
<1>1. PICK n \in Nat : seg[2] = n
    OBVIOUS
<1>2. PICK g : SegMapped(k, root, seg, n) = g
    OBVIOUS
<1>3. g[0] = k /\ \A i \in 1 .. n : g[i] = MapNew(g[i - 1], root, seg[1] + i - 1)
    BY <1>2, SegMappedIs
<1>4. \A i \in 1 .. n : Shape(g[i - 1]) => Shape(g[i]) /\ Free(g[i]) \subseteq Free(g[i - 1])
    BY <1>3, MapNewShape
<1>5. \A i \in 0 .. n : Shape(g[i]) /\ Free(g[i]) \subseteq Free(g[0])
    BY <1>3, <1>4, ShapesAlong
<1>6. MapSegment(k, root, seg) = g[n]
    BY <1>1, <1>2, MapSegmentIs
<1> QED
    BY <1>3, <1>5, <1>6

\* The assertions on the way to a segment of the program, and to all of it.
SegmentAsserts(m, root, seg) ==
    \A n \in 0 .. seg[2] - 1 : MapNewAsserts(SegmentMaps(m, root, seg)[n], root, seg[1] + n)

ImageAsserts(m, root, segs) ==
    \A i \in DOMAIN segs : SegmentAsserts(ImageMaps(m, root, segs)[i - 1], root, segs[i])

\* One more segment of the program.
LEMMA MapSegmentSets ==
    ASSUME NEW k0, NEW G0, NEW m, NEW p \in Nat, NEW root, NEW D, Setting(k0, G0, m, p, root, D),
           NEW seg \in Nat \X Nat, ProcStart <= seg[1], seg[1] + seg[2] <= StackPage,
           \A v \in seg[1] .. seg[1] + seg[2] - 1 : v \notin D,
           Free(MapSegment(m, root, seg)) # {}
    PROVE  /\ Setting(k0, G0, MapSegment(m, root, seg), p, root, D \cup (seg[1] .. seg[1] + seg[2] - 1))
           /\ SegmentAsserts(m, root, seg)
<1>1. PICK b \in Nat : seg[1] = b
    OBVIOUS
<1>2. PICK n \in Nat : seg[2] = n
    OBVIOUS
<1>3. PICK g : SegMapped(m, root, seg, n) = g
    OBVIOUS
<1>4. g[0] = m /\ \A i \in 1 .. n : g[i] = MapNew(g[i - 1], root, b + i - 1)
    BY <1>1, <1>3, SegMappedIs
<1>5. MapSegment(m, root, seg) = g[n]
    BY <1>2, <1>3, MapSegmentIs
<1>6. \A i \in 0 .. n : Free(g[i]) # {}
    <2>1. Shape(g[0])
        BY <1>4, InSpaceFrees DEF Setting
    <2>2. \A i \in 1 .. n : Shape(g[i - 1]) => Shape(g[i]) /\ Free(g[i]) \subseteq Free(g[i - 1])
        BY <1>4, MapNewShape
    <2> QED
        BY <1>5, <2>1, <2>2, ShapesAlong
<1>7. ProcStart \in Nat /\ StackPage \in Nat
    BY LowPages
<1> DEFINE S == {i \in Nat : i <= n /\ ~ Setting(k0, G0, g[i], p, root, D \cup (b .. b + i - 1))}
<1>8. S = {}
    <2>1. SUFFICES ASSUME S # {} PROVE FALSE
        OBVIOUS
    <2>2. PICK a \in S : \A c \in S : a <= c
        BY <2>1, LeastNat
    <2>3. a # 0
        <3>1. ASSUME a = 0 PROVE FALSE
            <4>1. D \cup (b .. b + 0 - 1) = D
                OBVIOUS
            <4> QED
                BY <1>4, <2>2, <3>1, <4>1
        <3> QED
            BY <3>1
    <2>4. PICK c \in Nat : c = a - 1
        BY <2>2, <2>3
    <2>5. a \in Nat /\ a <= n
        BY <2>2
    <2>6. c < a /\ c <= n /\ a \in 1 .. n
        BY <2>3, <2>4, <2>5
    <2>7. c \notin S
        BY <2>2, <2>4, <2>6
    <2>8. PICK E : E = D \cup (b .. b + c - 1)
        OBVIOUS
    <2>9. Setting(k0, G0, g[c], p, root, E)
        BY <2>6, <2>7, <2>8
    <2>10. PICK va : va = b + c
        OBVIOUS
    <2>11. g[a] = MapNew(g[c], root, va) /\ Free(g[a]) # {}
        <3>1. b + a - 1 = va
            BY <2>4, <2>5, <2>10
        <3> QED
            BY <1>4, <1>6, <2>4, <2>6, <3>1
    <2>12. va \in ProcStart .. StackPage /\ va \notin E
        <3>1. va \in b .. b + n - 1
            BY <2>4, <2>6, <2>10
        <3>2. va \notin D
            BY <1>1, <1>2, <3>1
        <3>3. va \in ProcStart .. StackPage
            BY <1>1, <1>2, <1>7, <3>1
        <3> QED
            BY <2>8, <2>10, <3>2, <3>3
    <2>13. Setting(k0, G0, g[a], p, root, E \cup {va})
        BY <2>9, <2>11, <2>12, MapNewSets
    <2>14. E \cup {va} = D \cup (b .. b + a - 1)
        <3>1. b .. b + a - 1 = (b .. b + c - 1) \cup {b + c}
            BY <2>4, <2>5
        <3> QED
            BY <2>8, <2>10, <3>1
    <2> QED
        BY <2>2, <2>13, <2>14
<1>9. n \notin S
    BY <1>8
<1>10. Setting(k0, G0, g[n], p, root, D \cup (b .. b + n - 1))
    <2>1. n \in Nat /\ n <= n
        OBVIOUS
    <2> QED
        BY <1>9, <2>1
<1>11. ASSUME NEW i \in 0 .. n - 1
       PROVE  MapNewAsserts(g[i], root, b + i)
    <2>0. i \notin S
        BY <1>8
    <2>1. i \in Nat /\ i <= n
        OBVIOUS
    <2>2. PICK E : E = D \cup (b .. b + i - 1)
        OBVIOUS
    <2>3. PICK x : x = g[i]
        OBVIOUS
    <2>4. Setting(k0, G0, x, p, root, E)
        BY <2>0, <2>1, <2>2, <2>3
    <2>5. PICK va : va = b + i
        OBVIOUS
    <2>6. PICK a \in 1 .. n : a = i + 1 /\ a - 1 = i /\ b + a - 1 = va
        BY <2>1, <2>5
    <2>7. MapNew(x, root, va) = g[a] /\ Free(g[a]) # {}
        BY <1>4, <1>6, <2>3, <2>6
    <2>8. va \in ProcStart .. StackPage /\ va \notin E
        <3>1. va \in b .. b + n - 1
            BY <2>1, <2>5
        <3>2. va \notin D
            BY <1>1, <1>2, <3>1
        <3>3. va \in ProcStart .. StackPage
            BY <1>1, <1>2, <1>7, <3>1
        <3> QED
            BY <2>2, <2>5, <3>2, <3>3
    <2>9. MapNewAsserts(x, root, va)
        BY <2>4, <2>7, <2>8, MapNewSets
    <2> QED
        BY <2>3, <2>5, <2>9
<1>12. SegmentAsserts(m, root, seg)
    <2>1. SegmentMaps(m, root, seg) = g
        BY <1>2, <1>3, MapSegmentIs
    <2>2. \A i \in 0 .. seg[2] - 1 : MapNewAsserts(g[i], root, seg[1] + i)
        BY <1>1, <1>2, <1>11
    <2> QED
        BY <2>1, <2>2 DEF SegmentAsserts
<1> QED
    BY <1>1, <1>2, <1>5, <1>10, <1>12

SegPagesOf(seg)  == seg[1] .. seg[1] + seg[2] - 1
SegsTo(segs, n) == UNION {SegPagesOf(segs[i]) : i \in 1 .. n}

\* What the assumption on programs comes to.
LEMMA ImageIs ==
    ASSUME NEW p \in Processes
    PROVE  /\ p \in Nat /\ p > 0 /\ Len(Image[p]) \in Nat /\ Len(Image[p]) > 0
           /\ \A i \in 1 .. Len(Image[p]) :
                 /\ Image[p][i] \in Nat \X Nat
                 /\ ProcStart <= Image[p][i][1] /\ 0 < Image[p][i][2]
                 /\ Image[p][i][1] + Image[p][i][2] <= StackPage
           /\ \A i, j \in 1 .. Len(Image[p]) : i < j => Image[p][i][1] + Image[p][i][2] <= Image[p][j][1]
           /\ LoadedPages(p) = SegsTo(Image[p], Len(Image[p]))
<1>1. PICK s : s = Image[p]
    OBVIOUS
<1>2. s \in Seq(Nat \X Nat) /\ s # <<>>
    BY <1>1, ImageAssumption
<1>3. Len(s) \in Nat /\ Len(s) > 0 /\ DOMAIN s = 1 .. Len(s)
    BY <1>2
<1>4. \A i \in 1 .. Len(s) : s[i] \in Nat \X Nat
    BY <1>2
<1>5. /\ \A i \in 1 .. Len(s) :
             /\ ProcStart <= s[i][1] /\ 0 < s[i][2]
             /\ s[i][1] + s[i][2] <= StackPage
      /\ \A i, j \in 1 .. Len(s) : i < j => s[i][1] + s[i][2] <= s[j][1]
    BY <1>1, <1>3, ImageAssumption
<1>6. LoadedPages(p) = SegsTo(s, Len(s))
    <2>1. LoadedPages(p) = UNION {t[1] .. t[1] + t[2] - 1 : t \in {s[i] : i \in 1 .. Len(s)}}
        BY <1>1, <1>3 DEF LoadedPages, RangeOf
    <2> QED
        BY <2>1 DEF SegsTo, SegPagesOf
<1>7. p \in Nat /\ p > 0
    BY KernelAssumption DEF Processes
<1> QED
    BY <1>1, <1>3, <1>4, <1>5, <1>6, <1>7

LEMMA SegsToNext ==
    ASSUME NEW segs, NEW n \in Nat, n > 0
    PROVE  SegsTo(segs, n) = SegsTo(segs, n - 1) \cup SegPagesOf(segs[n])
<1>1. 1 .. n = (1 .. n - 1) \cup {n}
    OBVIOUS
<1> QED
    BY <1>1 DEF SegsTo

\* Pages of earlier segments are below those of later ones.
LEMMA SegsToIs ==
    ASSUME NEW p \in Processes, NEW n \in 0 .. Len(Image[p]), NEW v \in SegsTo(Image[p], n)
    PROVE  /\ v \in ProcStart .. StackPage - 1 /\ v \in 0 .. VaEnd - 1 /\ v \in 0 .. MemVirtual
           /\ \A j \in 1 .. Len(Image[p]) : j > n => v < Image[p][j][1]
<1>1. PICK i \in 1 .. n : v \in SegPagesOf(Image[p][i])
    BY DEF SegsTo
<1>2. i \in 1 .. Len(Image[p]) /\ Len(Image[p]) \in Nat
    BY ImageIs
<1>3. PICK b \in Nat, c \in Nat : Image[p][i][1] = b /\ Image[p][i][2] = c
    <2>1. Image[p][i] \in Nat \X Nat
        BY <1>2, ImageIs
    <2> QED
        BY <2>1
<1>4. v \in b .. b + c - 1 /\ ProcStart <= b /\ b + c <= StackPage
    BY <1>1, <1>2, <1>3, ImageIs DEF SegPagesOf
<1>5. v \in ProcStart .. StackPage - 1 /\ v \in 0 .. VaEnd - 1 /\ v \in 0 .. MemVirtual
    <2>1. ProcStart \in Nat /\ StackPage \in Nat /\ VaEnd \in Nat /\ StackPage < VaEnd /\ MemVirtual \in Nat
          /\ StackPage = MemVirtual - 1
        BY LowPages DEF StackPage
    <2> QED
        BY <1>4, <2>1
<1>6. ASSUME NEW j \in 1 .. Len(Image[p]), j > n
      PROVE  v < Image[p][j][1]
    <2>1. i < j
        BY <1>6
    <2>2. b + c <= Image[p][j][1]
        BY <1>2, <1>3, <2>1, ImageIs
    <2>3. Image[p][j][1] \in Nat
        BY ImageIs
    <2> QED
        BY <1>4, <2>2, <2>3
<1> QED
    BY <1>5, <1>6

LEMMA MapImageShape ==
    ASSUME NEW k, Shape(k), NEW root, NEW p \in Processes
    PROVE  Shape(MapImage(k, root, Image[p])) /\ Free(MapImage(k, root, Image[p])) \subseteq Free(k)
<1>1. PICK n \in Nat : Len(Image[p]) = n
    BY ImageIs
<1>2. PICK g : ImageMapped(k, root, Image[p], n) = g
    OBVIOUS
<1>3. g[0] = k /\ \A i \in 1 .. n : g[i] = MapSegment(g[i - 1], root, Image[p][i])
    BY <1>2, ImageMappedIs
<1>4. \A i \in 1 .. n : Shape(g[i - 1]) => Shape(g[i]) /\ Free(g[i]) \subseteq Free(g[i - 1])
    <2>1. \A i \in 1 .. n : Image[p][i][2] \in Nat
        BY <1>1, ImageIs
    <2> QED
        BY <1>3, <2>1, MapSegmentShape
<1>5. \A i \in 0 .. n : Shape(g[i]) /\ Free(g[i]) \subseteq Free(g[0])
    BY <1>3, <1>4, ShapesAlong
<1>6. MapImage(k, root, Image[p]) = g[n]
    BY <1>1, <1>2, MapImageIs
<1> QED
    BY <1>3, <1>5, <1>6

\* All segments of the program.
LEMMA MapImageSets ==
    ASSUME NEW k0, NEW G0, NEW m, NEW p \in Processes, NEW root, Setting(k0, G0, m, p, root, {}),
           Free(MapImage(m, root, Image[p])) # {}
    PROVE  /\ Setting(k0, G0, MapImage(m, root, Image[p]), p, root, LoadedPages(p))
           /\ ImageAsserts(m, root, Image[p])
<1>1. PICK segs : Image[p] = segs
    OBVIOUS
<1>2. PICK n \in Nat : Len(segs) = n
    BY <1>1, ImageIs
<1>3. PICK g : ImageMapped(m, root, segs, n) = g
    OBVIOUS
<1>4. g[0] = m /\ \A i \in 1 .. n : g[i] = MapSegment(g[i - 1], root, segs[i])
    BY <1>3, ImageMappedIs
<1>5. MapImage(m, root, segs) = g[n]
    BY <1>2, <1>3, MapImageIs
<1>6. \A i \in 1 .. n : segs[i] \in Nat \X Nat /\ ProcStart <= segs[i][1] /\ segs[i][1] + segs[i][2] <= StackPage
    BY <1>1, <1>2, ImageIs
<1>7. \A i \in 0 .. n : Free(g[i]) # {}
    <2>1. Shape(g[0])
        BY <1>4, InSpaceFrees DEF Setting
    <2>2. \A i \in 1 .. n : Shape(g[i - 1]) => Shape(g[i]) /\ Free(g[i]) \subseteq Free(g[i - 1])
        BY <1>4, <1>6, MapSegmentShape
    <2>3. Free(g[n]) # {}
        BY <1>1, <1>5
    <2> QED
        BY <2>1, <2>2, <2>3, ShapesAlong
<1> DEFINE S == {i \in Nat : i <= n /\ ~ Setting(k0, G0, g[i], p, root, SegsTo(segs, i))}
<1>8. S = {}
    <2>1. SUFFICES ASSUME S # {} PROVE FALSE
        OBVIOUS
    <2>2. PICK a \in S : \A c \in S : a <= c
        BY <2>1, LeastNat
    <2>3. a # 0
        <3>1. ASSUME a = 0 PROVE FALSE
            <4>1. SegsTo(segs, 0) = {}
                BY DEF SegsTo
            <4> QED
                BY <1>4, <2>2, <3>1, <4>1
        <3> QED
            BY <3>1
    <2>4. PICK c \in Nat : c = a - 1
        BY <2>2, <2>3
    <2>5. a \in Nat /\ a <= n
        BY <2>2
    <2>6. c < a /\ c <= n /\ a \in 1 .. n
        BY <2>3, <2>4, <2>5
    <2>7. c \notin S
        BY <2>2, <2>4, <2>6
    <2>8. PICK D : D = SegsTo(segs, c)
        OBVIOUS
    <2>9. Setting(k0, G0, g[c], p, root, D)
        BY <2>6, <2>7, <2>8
    <2>10. PICK seg \in Nat \X Nat : segs[a] = seg
        BY <1>6, <2>6
    <2>11. g[a] = MapSegment(g[c], root, seg) /\ Free(g[a]) # {}
        BY <1>4, <1>7, <2>4, <2>6, <2>10
    <2>12. ProcStart <= seg[1] /\ seg[1] + seg[2] <= StackPage
        BY <1>6, <2>6, <2>10
    <2>13. \A v \in seg[1] .. seg[1] + seg[2] - 1 : v \notin D
        <3> SUFFICES ASSUME NEW v \in seg[1] .. seg[1] + seg[2] - 1, v \in D PROVE FALSE
            OBVIOUS
        <3>1. c \in 0 .. Len(Image[p]) /\ a \in 1 .. Len(Image[p]) /\ a > c
            BY <1>1, <1>2, <2>6
        <3>2. v < seg[1]
            BY <1>1, <2>8, <2>10, <3>1, SegsToIs
        <3> QED
            BY <3>2
    <2>14. Setting(k0, G0, g[a], p, root, D \cup (seg[1] .. seg[1] + seg[2] - 1))
        <3>1. PICK x : x = g[c]
            OBVIOUS
        <3>2. Setting(k0, G0, x, p, root, D) /\ p \in Nat /\ Free(MapSegment(x, root, seg)) # {}
            BY <2>9, <2>11, <3>1, ImageIs
        <3>3. Setting(k0, G0, MapSegment(x, root, seg), p, root, D \cup (seg[1] .. seg[1] + seg[2] - 1))
            BY <2>12, <2>13, <3>2, MapSegmentSets
        <3>4. g[a] = MapSegment(x, root, seg)
            BY <2>11, <3>1
        <3> QED
            BY <3>3, <3>4
    <2>15. SegsTo(segs, a) = D \cup (seg[1] .. seg[1] + seg[2] - 1)
        <3>1. SegsTo(segs, a) = SegsTo(segs, a - 1) \cup SegPagesOf(segs[a])
            BY <2>3, <2>5, SegsToNext
        <3> QED
            BY <2>4, <2>8, <2>10, <3>1 DEF SegPagesOf
    <2> QED
        BY <2>2, <2>14, <2>15
<1>9. n \notin S
    BY <1>8
<1>10. Setting(k0, G0, g[n], p, root, SegsTo(segs, n))
    <2>1. n \in Nat /\ n <= n
        OBVIOUS
    <2> QED
        BY <1>9, <2>1
<1>11. LoadedPages(p) = SegsTo(segs, n)
    BY <1>1, <1>2, ImageIs
<1>12. ASSUME NEW a \in 1 .. n
       PROVE  SegmentAsserts(g[a - 1], root, segs[a])
    <2>1. PICK c \in Nat : c = a - 1
        OBVIOUS
    <2>2. c < a /\ c <= n /\ c \notin S
        BY <1>8, <2>1
    <2>3. PICK D : D = SegsTo(segs, c)
        OBVIOUS
    <2>4. PICK x : x = g[c]
        OBVIOUS
    <2>5. Setting(k0, G0, x, p, root, D)
        BY <2>2, <2>3, <2>4
    <2>6. PICK seg \in Nat \X Nat : segs[a] = seg
        BY <1>6
    <2>7. MapSegment(x, root, seg) = g[a] /\ Free(g[a]) # {}
        BY <1>4, <1>7, <2>1, <2>4, <2>6
    <2>8. ProcStart <= seg[1] /\ seg[1] + seg[2] <= StackPage
        BY <1>6, <2>6
    <2>9. \A v \in seg[1] .. seg[1] + seg[2] - 1 : v \notin D
        <3> SUFFICES ASSUME NEW v \in seg[1] .. seg[1] + seg[2] - 1, v \in D PROVE FALSE
            OBVIOUS
        <3>1. c \in 0 .. Len(Image[p]) /\ a \in 1 .. Len(Image[p]) /\ a > c
            BY <1>1, <1>2, <2>2
        <3>2. v < seg[1]
            BY <1>1, <2>3, <2>6, <3>1, SegsToIs
        <3> QED
            BY <3>2
    <2>10. p \in Nat /\ Free(MapSegment(x, root, seg)) # {}
        BY <2>7, ImageIs
    <2>11. SegmentAsserts(x, root, seg)
        BY <2>5, <2>8, <2>9, <2>10, MapSegmentSets
    <2> QED
        BY <2>1, <2>4, <2>6, <2>11
<1>13. ImageAsserts(m, root, segs)
    <2>1. DOMAIN segs = 1 .. n
        <3>1. segs \in Seq(Nat \X Nat)
            BY <1>1, ImageAssumption
        <3> QED
            BY <1>2, <3>1
    <2> QED
        BY <1>2, <1>3, <1>12, <2>1, MapImageIs DEF ImageAsserts
<1> QED
    BY <1>1, <1>5, <1>10, <1>11, <1>13

----------------------------------------------------------------------------
(* Loading the program                                                      *)

\* The pages of every segment are neighbours in physical memory.
Neighbours(m, root, segs) ==
    \A i \in DOMAIN segs : \A n \in 0 .. segs[i][2] - 1 :
       Pa(m, Vmiter(m, root, segs[i][1] + n)) = Pa(m, Vmiter(m, root, segs[i][1])) + n

\* x is m with the first i segments loaded.
LoadedTo(m, G, x, p, root, i) ==
    /\ Layout(x, G, {}) /\ SameLeaves(m, G, x)
    /\ \A q \in Pages : ~ (G[q].kind = "data" /\ G[q].pid = p) => x.mem[q] = m.mem[q]
    /\ \A v \in SegsTo(Image[p], i) : x.mem[Leaf(m, root, v).pa] = Data("image", p, v)

\* Roles of data differ when the process or the address does.
LEMMA DataOfIs ==
    ASSUME NEW p, NEW v, NEW p2, NEW v2, DataOf(p, v) = DataOf(p2, v2)
    PROVE  p = p2 /\ v = v2
<1>1. DataOf(p, v).pid = DataOf(p2, v2).pid /\ DataOf(p, v).base = DataOf(p2, v2).base
    OBVIOUS
<1> QED
    BY <1>1, RoleFields

\* The page that shows at an address of the program's.
LEMMA PageAt ==
    ASSUME NEW m, NEW G, NEW S, Layout(m, G, S), NEW p \in Nat, NEW root, IsRoot(G, p, root),
           NEW v \in 0 .. VaEnd - 1, ~ (v < ProcStart), Leaf(m, root, v) # Absent
    PROVE  /\ Leaf(m, root, v).pa \in Pages /\ Leaf(m, root, v).perm = PWU
           /\ G[Leaf(m, root, v).pa] = DataOf(p, v)
           /\ Pa(m, Vmiter(m, root, v)) = Leaf(m, root, v).pa
<1>1. PICK e : e = Leaf(m, root, v)
    OBVIOUS
<1>2. PICK it : it = Vmiter(m, root, v)
    OBVIOUS
<1>3. /\ Pa(m, it) = IF e = Absent THEN NoPage ELSE e.pa
      /\ e \in [pa : Pages, perm : SUBSET PWU]
      /\ \/ e = Absent
         \/ v < ProcStart
         \/ e.perm = PWU /\ G[e.pa] = DataOf(p, v)
    BY <1>1, <1>2, LeafIs
<1>4. e.pa \in Pages /\ e.perm = PWU /\ G[e.pa] = DataOf(p, v) /\ Pa(m, it) = e.pa
    BY <1>1, <1>3
<1> QED
    BY <1>1, <1>2, <1>4

\* Loading a segment writes its neighbours in physical memory.
LEMMA LoadSegmentIs ==
    ASSUME NEW x, Shape(x), NEW root, NEW seg, NEW p, NEW pa, Pa(x, Vmiter(x, root, seg[1])) = pa
    PROVE  LoadSegment(x, root, seg, p)
           = Mem([q \in Pages |-> IF q \in pa .. pa + seg[2] - 1 THEN Data("image", p, seg[1] + (q - pa))
                                  ELSE x.mem[q]], x.refcount)
<1>1. PICK m1 : [q \in Pages |-> IF q \in pa .. pa + seg[2] - 1 THEN Data("image", p, seg[1] + (q - pa))
                                 ELSE x.mem[q]] = m1
    OBVIOUS
<1>2. LoadSegment(x, root, seg, p) = [x EXCEPT !.mem = m1]
    BY <1>1 DEF LoadSegment
<1>3. [Mem(x.mem, x.refcount) EXCEPT !.mem = m1] = Mem(m1, x.refcount)
    BY MemExcept
<1>4. x = Mem(x.mem, x.refcount)
    BY DEF Shape
<1> QED
    BY <1>1, <1>2, <1>3, <1>4

LEMMA LoadSegmentShape ==
    ASSUME NEW k, Shape(k), NEW root, NEW seg, NEW p
    PROVE  Shape(LoadSegment(k, root, seg, p)) /\ Free(LoadSegment(k, root, seg, p)) \subseteq Free(k)
<1>1. PICK pa : Pa(k, Vmiter(k, root, seg[1])) = pa
    OBVIOUS
<1>2. PICK m1 : [q \in Pages |-> IF q \in pa .. pa + seg[2] - 1 THEN Data("image", p, seg[1] + (q - pa))
                                 ELSE k.mem[q]] = m1
    OBVIOUS
<1>3. PICK k1 : LoadSegment(k, root, seg, p) = k1
    OBVIOUS
<1>4. k1 = Mem(m1, k.refcount)
    BY <1>1, <1>2, <1>3, LoadSegmentIs
<1>5. k1.mem = m1 /\ k1.refcount = k.refcount
    BY <1>4, MemFields
<1>6. Shape(k1) /\ Free(k1) = Free(k)
    BY <1>4, <1>5 DEF Shape, Free
<1> QED
    BY <1>3, <1>6

\* A segment loads its own pages, and no page loaded before.
LEMMA LoadStep ==
    ASSUME NEW m, NEW G, Layout(m, G, {}), NEW p \in Processes, NEW root, IsRoot(G, p, root),
           Shows(m, root, LoadedPages(p)), Neighbours(m, root, Image[p]),
           NEW i \in 1 .. Len(Image[p]), NEW x, LoadedTo(m, G, x, p, root, i - 1)
    PROVE  LoadedTo(m, G, LoadSegment(x, root, Image[p][i], p), p, root, i)
<1>0. PICK seg \in Nat \X Nat : Image[p][i] = seg
    BY ImageIs
<1>1. PICK b \in Nat : seg[1] = b
    OBVIOUS
<1>2. PICK c \in Nat : seg[2] = c
    OBVIOUS
<1>3. ProcStart <= b /\ 0 < c /\ b + c <= StackPage
    BY <1>0, <1>1, <1>2, ImageIs
<1>4. ProcStart \in Nat /\ StackPage \in Nat /\ StackPage < VaEnd /\ VaEnd \in Nat /\ StackPage = MemVirtual - 1
      /\ MemVirtual \in Nat /\ p \in Nat
    BY LowPages, ImageIs DEF StackPage
<1>5. ASSUME NEW j \in 0 .. c - 1
      PROVE  /\ b + j \in 0 .. VaEnd - 1 /\ ~ (b + j < ProcStart) /\ b + j \in 0 .. MemVirtual
             /\ b + j \in LoadedPages(p) /\ Leaf(m, root, b + j) # Absent
    <2>1. b + j \in 0 .. VaEnd - 1 /\ ~ (b + j < ProcStart) /\ b + j \in 0 .. MemVirtual
        BY <1>3, <1>4
    <2>2. b + j \in SegPagesOf(seg)
        BY <1>1, <1>2 DEF SegPagesOf
    <2>3. b + j \in LoadedPages(p)
        BY <1>0, <2>2, ImageIs DEF SegsTo
    <2> QED
        BY <2>1, <2>3 DEF Shows
<1>6. PICK pa : Leaf(m, root, b).pa = pa
    OBVIOUS
<1>7. pa \in Pages /\ Pa(m, Vmiter(m, root, b)) = pa
    <2>1. 0 \in 0 .. c - 1 /\ b + 0 = b
        BY <1>3
    <2>2. b \in 0 .. VaEnd - 1 /\ ~ (b < ProcStart) /\ Leaf(m, root, b) # Absent
        BY <1>5, <2>1
    <2> QED
        BY <1>4, <1>6, <2>2, PageAt
<1>8. pa \in Nat
    BY <1>7, PageTableAssumption
<1>9. ASSUME NEW j \in 0 .. c - 1
      PROVE  /\ pa + j \in Pages /\ G[pa + j] = DataOf(p, b + j) /\ Leaf(m, root, b + j).pa = pa + j
    <2>1. i \in DOMAIN Image[p]
        BY ImageAssumption
    <2>2. Pa(m, Vmiter(m, root, b + j)) = Pa(m, Vmiter(m, root, b)) + j
        BY <1>0, <1>1, <1>2, <2>1 DEF Neighbours
    <2>3. b + j \in 0 .. VaEnd - 1 /\ ~ (b + j < ProcStart) /\ Leaf(m, root, b + j) # Absent
        BY <1>5
    <2>4. /\ Leaf(m, root, b + j).pa \in Pages
          /\ G[Leaf(m, root, b + j).pa] = DataOf(p, b + j)
          /\ Pa(m, Vmiter(m, root, b + j)) = Leaf(m, root, b + j).pa
        BY <1>4, <2>3, PageAt
    <2> QED
        BY <1>7, <2>2, <2>4
<1>10. /\ Layout(x, G, {}) /\ SameLeaves(m, G, x)
       /\ \A q \in Pages : ~ (G[q].kind = "data" /\ G[q].pid = p) => x.mem[q] = m.mem[q]
       /\ \A v \in SegsTo(Image[p], i - 1) : x.mem[Leaf(m, root, v).pa] = Data("image", p, v)
    BY DEF LoadedTo
<1>11. Pa(x, Vmiter(x, root, b)) = pa
    <2>1. 0 \in 0 .. c - 1 /\ b + 0 = b
        BY <1>3
    <2>2. b \in 0 .. VaEnd - 1 /\ ~ (b < ProcStart) /\ Leaf(m, root, b) # Absent
        BY <1>5, <2>1
    <2>3. Leaf(x, root, b) = Leaf(m, root, b)
        <3>1. root \in Pages
            BY DEF IsRoot
        <3> QED
            BY <1>4, <1>10, <2>2, <3>1 DEF SameLeaves
    <2> QED
        BY <1>4, <1>6, <1>10, <2>2, <2>3, PageAt
<1>12. PICK m1 : [q \in Pages |-> IF q \in pa .. pa + c - 1 THEN Data("image", p, b + (q - pa))
                                  ELSE x.mem[q]] = m1
    OBVIOUS
<1>13. PICK x1 : LoadSegment(x, root, seg, p) = x1
    OBVIOUS
<1>14. x1 = Mem(m1, x.refcount)
    <2>1. Shape(x)
        BY <1>10, InSpaceFrees
    <2> QED
        BY <1>1, <1>2, <1>11, <1>12, <1>13, <2>1, LoadSegmentIs
<1>15. \A q \in Pages : q \in pa .. pa + c - 1 =>
          /\ G[q] = DataOf(p, b + (q - pa)) /\ b + (q - pa) \in 0 .. MemVirtual
          /\ G[q].kind = "data" /\ G[q].pid = p
    <2> SUFFICES ASSUME NEW q \in Pages, q \in pa .. pa + c - 1
                 PROVE  /\ G[q] = DataOf(p, b + (q - pa)) /\ b + (q - pa) \in 0 .. MemVirtual
                        /\ G[q].kind = "data" /\ G[q].pid = p
        OBVIOUS
    <2>1. PICK j \in 0 .. c - 1 : q - pa = j
        BY <1>8
    <2>2. pa + j = q
        BY <1>8, <2>1
    <2>3. G[q] = DataOf(p, b + j) /\ b + j \in 0 .. MemVirtual
        BY <1>5, <1>9, <2>2
    <2> QED
        BY <2>1, <2>3, RoleFields
<1>16. \A q \in Pages : IF G[q].kind = "table" THEN m1[q] = x.mem[q] ELSE m1[q] \in Contents
    <2> SUFFICES ASSUME NEW q \in Pages
                 PROVE  IF G[q].kind = "table" THEN m1[q] = x.mem[q] ELSE m1[q] \in Contents
        OBVIOUS
    <2>1. CASE q \in pa .. pa + c - 1
        <3>1. G[q].kind = "data" /\ b + (q - pa) \in 0 .. MemVirtual
            BY <1>15, <2>1
        <3>2. m1[q] = Data("image", p, b + (q - pa))
            BY <1>12, <2>1
        <3> QED
            BY <3>1, <3>2 DEF Contents
    <2>2. CASE q \notin pa .. pa + c - 1
        <3>1. m1[q] = x.mem[q]
            BY <1>12, <2>2
        <3>2. G[q].kind # "table" => x.mem[q] \in Contents
            BY <1>10 DEF Layout, Owned
        <3> QED
            BY <3>1, <3>2
    <2> QED
        BY <2>1, <2>2
<1>17. m1 \in [Pages -> Contents \cup Tables]
    <2>1. x.mem \in [Pages -> Contents \cup Tables]
        BY <1>10 DEF Layout, Memories
    <2>2. \A q \in Pages : m1[q] \in Contents \cup Tables
        BY <1>16, <2>1
    <2>3. m1 = [q \in Pages |-> m1[q]]
        BY <1>12
    <2> QED
        BY <2>2, <2>3
<1>18. Layout(x1, G, {}) /\ SameLeaves(x, G, x1)
    BY <1>10, <1>14, <1>16, <1>17, RewriteIs
<1>19. SameLeaves(m, G, x1)
    BY <1>10, <1>18 DEF SameLeaves
<1>20. x1.mem = m1
    BY <1>14, MemFields
<1>21. \A q \in Pages : ~ (G[q].kind = "data" /\ G[q].pid = p) => x1.mem[q] = m.mem[q]
    <2>1. \A q \in Pages : ~ (G[q].kind = "data" /\ G[q].pid = p) => m1[q] = x.mem[q]
        BY <1>12, <1>15
    <2> QED
        BY <1>10, <1>20, <2>1
<1>22. ASSUME NEW v \in SegsTo(Image[p], i)
       PROVE  x1.mem[Leaf(m, root, v).pa] = Data("image", p, v)
    <2>0. i \in Nat /\ i > 0 /\ i \in 0 .. Len(Image[p])
        BY ImageIs
    <2>1. v \in SegsTo(Image[p], i - 1) \/ v \in SegPagesOf(seg)
        BY <1>0, <2>0, SegsToNext
    <2>2. CASE v \in SegPagesOf(seg)
        <3>1. PICK j \in 0 .. c - 1 : b + j = v
            <4>1. v \in b .. b + c - 1
                BY <1>1, <1>2, <2>2 DEF SegPagesOf
            <4>2. v - b \in 0 .. c - 1 /\ b + (v - b) = v
                BY <4>1
            <4> QED
                BY <4>2
        <3>2. Leaf(m, root, v).pa = pa + j /\ pa + j \in Pages
            BY <1>9, <3>1
        <3>3. m1[pa + j] = Data("image", p, b + ((pa + j) - pa))
            BY <1>8, <1>12, <3>2
        <3>4. (pa + j) - pa = j
            BY <1>8
        <3> QED
            BY <1>20, <3>1, <3>2, <3>3, <3>4
    <2>3. CASE v \in SegsTo(Image[p], i - 1)
        <3>1. PICK q : Leaf(m, root, v).pa = q
            OBVIOUS
        <3>2. x.mem[q] = Data("image", p, v)
            BY <1>10, <2>3, <3>1
        <3>3. v \in 0 .. VaEnd - 1 /\ ~ (v < ProcStart) /\ v \in LoadedPages(p)
            <4>1. v \in 0 .. VaEnd - 1 /\ v \in ProcStart .. StackPage - 1
                BY <2>0, SegsToIs
            <4>2. v \in SegsTo(Image[p], Len(Image[p]))
                <5>1. 1 .. i \subseteq 1 .. Len(Image[p])
                    BY ImageIs
                <5> QED
                    BY <5>1 DEF SegsTo
            <4> QED
                BY <1>4, <4>1, <4>2, ImageIs
        <3>4. Leaf(m, root, v) # Absent
            BY <3>3 DEF Shows
        <3>5. q \in Pages /\ G[q] = DataOf(p, v)
            BY <1>4, <3>1, <3>3, <3>4, PageAt
        <3>6. CASE q \in pa .. pa + c - 1
            <4>1. DataOf(p, v) = DataOf(p, b + (q - pa))
                BY <1>15, <3>5, <3>6
            <4>2. v = b + (q - pa)
                BY <4>1, DataOfIs
            <4> QED
                BY <1>12, <1>20, <3>1, <3>5, <3>6, <4>2
        <3>7. CASE q \notin pa .. pa + c - 1
            BY <1>12, <1>20, <3>1, <3>2, <3>5, <3>7
        <3> QED
            BY <3>6, <3>7
    <2> QED
        BY <2>1, <2>2, <2>3
<1>23. LoadedTo(m, G, x1, p, root, i)
    BY <1>18, <1>19, <1>21, <1>22 DEF LoadedTo
<1> QED
    BY <1>0, <1>13, <1>23

LEMMA LoadImageShape ==
    ASSUME NEW k, Shape(k), NEW root, NEW p \in Processes
    PROVE  /\ Shape(LoadImage(k, root, Image[p], p))
           /\ Free(LoadImage(k, root, Image[p], p)) \subseteq Free(k)
<1>1. PICK n \in Nat : Len(Image[p]) = n
    BY ImageIs
<1>2. PICK g : ImageLoaded(k, root, Image[p], p, n) = g
    OBVIOUS
<1>3. g[0] = k /\ \A i \in 1 .. n : g[i] = LoadSegment(g[i - 1], root, Image[p][i], p)
    BY <1>2, ImageLoadedIs
<1>4. \A i \in 1 .. n : Shape(g[i - 1]) => Shape(g[i]) /\ Free(g[i]) \subseteq Free(g[i - 1])
    BY <1>3, LoadSegmentShape
<1>5. \A i \in 0 .. n : Shape(g[i]) /\ Free(g[i]) \subseteq Free(g[0])
    BY <1>3, <1>4, ShapesAlong
<1>6. LoadImage(k, root, Image[p], p) = g[n]
    BY <1>1, <1>2, LoadImageIs
<1> QED
    BY <1>3, <1>5, <1>6

\* So the program is loaded where it is mapped.
LEMMA LoadImageAs ==
    ASSUME NEW m, NEW G, Layout(m, G, {}), NEW p \in Processes, NEW root, IsRoot(G, p, root),
           Shows(m, root, LoadedPages(p)), Neighbours(m, root, Image[p])
    PROVE  LoadedTo(m, G, LoadImage(m, root, Image[p], p), p, root, Len(Image[p]))
<1>1. PICK n \in Nat : Len(Image[p]) = n
    BY ImageIs
<1>2. PICK g : ImageLoaded(m, root, Image[p], p, n) = g
    OBVIOUS
<1>3. g[0] = m /\ \A i \in 1 .. n : g[i] = LoadSegment(g[i - 1], root, Image[p][i], p)
    BY <1>2, ImageLoadedIs
<1>4. LoadImage(m, root, Image[p], p) = g[n]
    BY <1>1, <1>2, LoadImageIs
<1>5. LoadedTo(m, G, g[0], p, root, 0)
    <2>1. SegsTo(Image[p], 0) = {}
        BY DEF SegsTo
    <2>2. SameLeaves(m, G, m)
        BY DEF SameLeaves
    <2> QED
        BY <1>3, <2>1, <2>2 DEF LoadedTo
<1> DEFINE S == {i \in Nat : i <= n /\ ~ LoadedTo(m, G, g[i], p, root, i)}
<1>6. S = {}
    <2>1. SUFFICES ASSUME S # {} PROVE FALSE
        OBVIOUS
    <2>2. PICK a \in S : \A c \in S : a <= c
        BY <2>1, LeastNat
    <2>3. a # 0
        BY <1>5, <2>2
    <2>4. PICK c \in Nat : c = a - 1
        BY <2>2, <2>3
    <2>5. a \in Nat /\ a <= n
        BY <2>2
    <2>6. c < a /\ c <= n /\ a \in 1 .. n
        BY <2>3, <2>4, <2>5
    <2>7. c \notin S
        BY <2>2, <2>4, <2>6
    <2>8. LoadedTo(m, G, g[a - 1], p, root, a - 1)
        BY <2>4, <2>6, <2>7
    <2>9. a \in 1 .. Len(Image[p]) /\ g[a] = LoadSegment(g[a - 1], root, Image[p][a], p)
        BY <1>1, <1>3, <2>6
    <2>10. LoadedTo(m, G, g[a], p, root, a)
        BY <2>8, <2>9, LoadStep
    <2> QED
        BY <2>2, <2>10
<1>7. n \notin S
    BY <1>6
<1>8. LoadedTo(m, G, g[n], p, root, n)
    <2>1. n \in Nat /\ n <= n
        OBVIOUS
    <2> QED
        BY <1>7, <2>1
<1> QED
    BY <1>1, <1>4, <1>8

----------------------------------------------------------------------------
(* process_setup                                                            *)

\* The memory of a process at its start.
Ready(m, G, p, root) ==
    /\ IsRoot(G, p, root)
    /\ Shows(m, root, LoadedPages(p) \cup {StackPage})
    /\ \A v \in ProcStart .. StackPage : Reach(G, p, v)
    /\ \A v \in LoadedPages(p) : m.mem[Leaf(m, root, v).pa] = Data("image", p, v)
    /\ m.mem[Leaf(m, root, StackPage).pa] = Junk

SetUp(k, G, m, p, root) ==
    \E G1 : Layout(m, G1, {}) /\ Keeps(k, G, m, G1, p) /\ Ready(m, G1, p, root)

\* The range of the kernel's last table, and that of the stack's, are all of it.
LEMMA ReachAll ==
    ASSUME NEW G, NEW p, Reach(G, p, ProcStart - 1), Reach(G, p, StackPage),
           NEW v \in ProcStart .. StackPage
    PROVE  Reach(G, p, v)
<1>1. Fanout \in Nat /\ Fanout > 0 /\ Span(1) = Fanout
    <2>1. Span(0 + 1) = Fanout * Span(0) /\ Span(0) = 1 /\ Fanout \in Nat /\ Fanout > 0 /\ 0 \in 0 .. TopLevel
        BY SpanIs, PageTableAssumption
    <2>2. 0 + 1 = 1 /\ Fanout * 1 = Fanout
        BY <2>1
    <2> QED
        BY <2>1, <2>2
<1>2. ProcStart \in Nat /\ ProcStart > 1 /\ StackPage \in Nat
    BY LowPages
<1>3. PICK a \in Nat, s \in Nat : a = ProcStart - 1 /\ s = StackPage
    BY <1>2
<1>4. v \in Nat /\ a <= v /\ v <= s
    BY <1>2, <1>3
<1>5. s \div Fanout <= a \div Fanout + 1
    BY <1>3, LayoutAssumption
<1>6. /\ a \div Fanout \in Nat /\ v \div Fanout \in Nat /\ s \div Fanout \in Nat
      /\ a \div Fanout <= v \div Fanout /\ v \div Fanout <= s \div Fanout
    <2>1. \A x, y \in Nat : x <= y => x \div Fanout <= y \div Fanout
        <3> SUFFICES ASSUME NEW x \in Nat, NEW y \in Nat, x <= y PROVE x \div Fanout <= y \div Fanout
            OBVIOUS
        <3>1. PICK f \in Nat : f = Fanout /\ f > 0
            BY <1>1
        <3>2. PICK i \in Nat, j \in Nat : i = x \div f /\ j = y \div f
            BY <3>1, DivIs
        <3>3. PICK c \in 0 .. f - 1, d \in 0 .. f - 1 : x = f * i + c /\ y = f * j + d
            BY <3>1, <3>2, DivIs
        <3>4. ASSUME j < i PROVE FALSE
            <4>1. j + 1 <= i /\ j + 1 \in Nat
                BY <3>4
            <4>2. f * (j + 1) <= f * i
                BY <4>1, MulMono
            <4>3. f * (j + 1) = f * j + f
                OBVIOUS
            <4>4. f * j \in Nat /\ f * i \in Nat
                OBVIOUS
            <4> QED
                BY <3>3, <4>2, <4>3, <4>4
        <3> QED
            BY <3>1, <3>2, <3>4
    <2>2. \A x \in Nat : x \div Fanout \in Nat
        BY <1>1, DivIs
    <2> QED
        BY <1>4, <2>1, <2>2
<1>7. v \div Fanout = a \div Fanout \/ v \div Fanout = s \div Fanout
    BY <1>5, <1>6
<1>8. Prefix(v, 1) = Prefix(a, 1) \/ Prefix(v, 1) = Prefix(s, 1)
    BY <1>1, <1>7 DEF Prefix
<1> QED
    BY <1>3, <1>8 DEF Reach

\* process_setup takes pages and gives none back.
LEMMA SetupShape ==
    ASSUME NEW k, Shape(k), NEW p \in Processes
    PROVE  Shape(process_setup(k, p).k) /\ Free(process_setup(k, p).k) \subseteq Free(k)
<1>1. PICK k1, root : NewSpace(k).k = k1 /\ NewSpace(k).root = root
    OBVIOUS
<1>2. PICK k2 : MapImage(k1, root, Image[p]) = k2
    OBVIOUS
<1>3. PICK k3 : LoadImage(k2, root, Image[p], p) = k3
    OBVIOUS
<1>4. PICK k4 : MapNew(k3, root, StackPage) = k4
    OBVIOUS
<1>5. process_setup(k, p).k = k4
    BY <1>1, <1>2, <1>3, <1>4 DEF process_setup
<1>6. Shape(k1) /\ Free(k1) \subseteq Free(k)
    BY <1>1, NewSpaceShape
<1>7. Shape(k2) /\ Free(k2) \subseteq Free(k1)
    BY <1>2, <1>6, MapImageShape
<1>8. Shape(k3) /\ Free(k3) \subseteq Free(k2)
    BY <1>3, <1>7, LoadImageShape
<1>9. Shape(k4) /\ Free(k4) \subseteq Free(k3)
    BY <1>4, <1>8, MapNewShape
<1> QED
    BY <1>5, <1>6, <1>7, <1>8, <1>9

\* process_setup makes an address space with the program, its stack and the kernel's pages.
LEMMA SetupIs ==
    ASSUME NEW k, NEW G, Layout(k, G, {}), NEW p \in Processes, Fresh(G, p),
           Free(process_setup(k, p).k) # {},
           Neighbours(MapImage(NewSpace(k).k, NewSpace(k).root, Image[p]), NewSpace(k).root, Image[p])
    PROVE  SetUp(k, G, process_setup(k, p).k, p, process_setup(k, p).root) /\ SetupAsserts(k, p)
<1>0. Shape(k) /\ p \in Nat
    BY InSpaceFrees, ImageIs
<1>1. PICK k1, root : NewSpace(k).k = k1 /\ NewSpace(k).root = root
    OBVIOUS
<1>2. PICK k2 : MapImage(k1, root, Image[p]) = k2
    OBVIOUS
<1>3. PICK k3 : LoadImage(k2, root, Image[p], p) = k3
    OBVIOUS
<1>4. PICK k4 : MapNew(k3, root, StackPage) = k4
    OBVIOUS
<1>5. process_setup(k, p).k = k4 /\ process_setup(k, p).root = root
    BY <1>1, <1>2, <1>3, <1>4 DEF process_setup
<1>6. Shape(k1)
    BY <1>0, <1>1, NewSpaceShape
<1>7. Shape(k2) /\ Free(k2) \subseteq Free(k1)
    BY <1>2, <1>6, MapImageShape
<1>8. Shape(k3) /\ Free(k3) \subseteq Free(k2)
    BY <1>3, <1>7, LoadImageShape
<1>9. Free(k4) \subseteq Free(k3)
    BY <1>4, <1>8, MapNewShape
<1>10. Free(k1) # {} /\ Free(k2) # {} /\ Free(k4) # {}
    BY <1>5, <1>7, <1>8, <1>9
<1>11. Setting(k, G, k1, p, root, {}) /\ SpaceAsserts(k)
    BY <1>0, <1>1, <1>10, NewSpaceIs
<1>12. Setting(k, G, k2, p, root, LoadedPages(p)) /\ ImageAsserts(k1, root, Image[p])
    BY <1>2, <1>10, <1>11, MapImageSets
<1>13. PICK H : /\ Layout(k2, H, {}) /\ Keeps(k, G, k2, H, p) /\ IsRoot(H, p, root)
                /\ Reach(H, p, ProcStart - 1) /\ Shows(k2, root, LoadedPages(p))
    BY <1>12 DEF Setting
<1>14. LoadedTo(k2, H, k3, p, root, Len(Image[p]))
    BY <1>1, <1>2, <1>3, <1>13, LoadImageAs
<1>15. /\ Layout(k3, H, {}) /\ SameLeaves(k2, H, k3)
       /\ \A q \in Pages : ~ (H[q].kind = "data" /\ H[q].pid = p) => k3.mem[q] = k2.mem[q]
       /\ \A v \in LoadedPages(p) : k3.mem[Leaf(k2, root, v).pa] = Data("image", p, v)
    BY <1>14, ImageIs DEF LoadedTo
<1>16. root \in Pages
    BY <1>13 DEF IsRoot
<1>17. \A v \in 0 .. VaEnd - 1 : Leaf(k3, root, v) = Leaf(k2, root, v)
    BY <1>0, <1>13, <1>15, <1>16 DEF SameLeaves
<1>18. Shows(k3, root, LoadedPages(p))
    BY <1>13, <1>17 DEF Shows
<1>19. StackPage \in ProcStart .. StackPage /\ StackPage \in 0 .. VaEnd - 1 /\ ~ (StackPage < ProcStart)
    BY LowPages
<1>20. \A v \in LoadedPages(p) : v \in 0 .. VaEnd - 1 /\ ~ (v < ProcStart) /\ v # StackPage
                                 /\ v \in ProcStart .. StackPage
    <2>1. \A v \in LoadedPages(p) : v \in ProcStart .. StackPage - 1 /\ v \in 0 .. VaEnd - 1
        BY ImageIs, SegsToIs
    <2>2. ProcStart \in Nat /\ StackPage \in Nat
        BY LowPages
    <2> QED
        BY <2>1, <2>2
<1>21. Leaf(k3, root, StackPage) = Absent
    BY <1>18, <1>19, <1>20 DEF Shows
<1>22. NewAt(k3, H, k4, p, root, StackPage) /\ MapNewAsserts(k3, root, StackPage)
    <2>1. Free(MapNew(k3, root, StackPage)) # {}
        BY <1>4, <1>10
    <2> QED
        BY <1>0, <1>4, <1>13, <1>15, <1>19, <1>21, <2>1, MapNewAs
<1>23. PICK G1, pa :
       /\ Layout(k4, G1, {}) /\ Adopts(k3, H, k4, G1, p) /\ Reach(G1, p, StackPage)
       /\ pa \in Pages /\ H[pa].kind = "none" /\ G1[pa] = DataOf(p, StackPage) /\ k4.mem[pa] = Junk
       /\ \A p2 \in Nat, r \in Pages, v \in 0 .. VaEnd - 1 :
             IsRoot(H, p2, r) =>
                Leaf(k4, r, v) = IF r = root /\ v = StackPage THEN Entry(pa, PWU) ELSE Leaf(k3, r, v)
    BY <1>22 DEF NewAt
<1>24. \A v \in 0 .. VaEnd - 1 :
          Leaf(k4, root, v) = IF v = StackPage THEN Entry(pa, PWU) ELSE Leaf(k3, root, v)
    BY <1>0, <1>13, <1>16, <1>23
<1>25. Keeps(k, G, k4, G1, p)
    <2>1. Keeps(k3, H, k4, G1, p)
        BY <1>13, <1>23, AdoptsKeeps
    <2>2. Keeps(k2, H, k3, H, p)
        BY <1>15 DEF Keeps, SameLeaves
    <2> QED
        BY <1>13, <2>1, <2>2, KeepsOn
<1>26. IsRoot(G1, p, root) /\ \A v \in ProcStart .. StackPage : Reach(G1, p, v)
    <2>1. IsRoot(G1, p, root) /\ Reach(G1, p, ProcStart - 1)
        BY <1>13, <1>23, AdoptsIs
    <2> QED
        BY <1>23, <2>1, ReachAll
<1>27. Entry(pa, PWU) # Absent /\ Entry(pa, PWU).pa = pa
    <2>1. Entry(pa, PWU).perm = PWU /\ PWU # {} /\ Entry(pa, PWU).pa = pa
        BY DEF Entry, PWU
    <2> QED
        BY <2>1, AbsentIs
<1>28. Shows(k4, root, LoadedPages(p) \cup {StackPage})
    BY <1>18, <1>19, <1>24, <1>27 DEF Shows
<1>29. k4.mem[Leaf(k4, root, StackPage).pa] = Junk
    BY <1>19, <1>23, <1>24, <1>27
<1>30. ASSUME NEW v \in LoadedPages(p)
       PROVE  k4.mem[Leaf(k4, root, v).pa] = Data("image", p, v)
    <2>1. v \in 0 .. VaEnd - 1 /\ ~ (v < ProcStart) /\ v # StackPage
        BY <1>20
    <2>2. PICK q : Leaf(k3, root, v).pa = q
        OBVIOUS
    <2>3. Leaf(k3, root, v) # Absent
        BY <1>18, <2>1 DEF Shows
    <2>4. q \in Pages /\ H[q] = DataOf(p, v)
        BY <1>0, <1>13, <1>15, <2>1, <2>2, <2>3, PageAt
    <2>5. H[q].kind = "data"
        BY <2>4, RoleFields
    <2>6. k4.mem[q] = k3.mem[q]
        BY <1>23, <2>4, <2>5 DEF Adopts
    <2>7. k3.mem[q] = Data("image", p, v)
        BY <1>15, <1>17, <2>1, <2>2
    <2>8. Leaf(k4, root, v).pa = q
        BY <1>24, <2>1, <2>2
    <2> QED
        BY <2>6, <2>7, <2>8
<1>31. Ready(k4, G1, p, root)
    BY <1>26, <1>28, <1>29, <1>30 DEF Ready
<1>32. SetUp(k, G, k4, p, root)
    BY <1>23, <1>25, <1>31 DEF SetUp
<1>33. SetupAsserts(k, p)
    BY <1>1, <1>2, <1>3, <1>11, <1>12, <1>22
    DEF SetupAsserts, SpaceAsserts, LowAsserts, ImageAsserts, SegmentAsserts
<1> QED
    BY <1>5, <1>32, <1>33

----------------------------------------------------------------------------
(* kernel_start                                                             *)

\* A process that is set up stays so while another is.
LEMMA ReadyKept ==
    ASSUME NEW k, NEW G, NEW k1, NEW G1, NEW p, Layout(k, G, {}), Keeps(k, G, k1, G1, p),
           NEW i \in Processes, i # p, NEW r, Ready(k, G, i, r)
    PROVE  Ready(k1, G1, i, r)
<1>1. /\ IsRoot(G, i, r)
      /\ Shows(k, r, LoadedPages(i) \cup {StackPage})
      /\ \A v \in ProcStart .. StackPage : Reach(G, i, v)
      /\ \A v \in LoadedPages(i) : k.mem[Leaf(k, r, v).pa] = Data("image", i, v)
      /\ k.mem[Leaf(k, r, StackPage).pa] = Junk
    BY DEF Ready
<1>2. i \in Nat /\ r \in Pages
    BY <1>1, ImageIs DEF IsRoot
<1>3. \A v \in 0 .. VaEnd - 1 : Leaf(k1, r, v) = Leaf(k, r, v)
    BY <1>1, <1>2 DEF Keeps
<1>4. IsRoot(G1, i, r) /\ \A v \in ProcStart .. StackPage : Reach(G1, i, v)
    BY <1>1, KeepsIs
<1>5. Shows(k1, r, LoadedPages(i) \cup {StackPage})
    BY <1>1, <1>3 DEF Shows
<1>6. \A v \in LoadedPages(i) \cup {StackPage} : v \in 0 .. VaEnd - 1 /\ ~ (v < ProcStart)
    <2>1. \A v \in LoadedPages(i) : v \in ProcStart .. StackPage - 1 /\ v \in 0 .. VaEnd - 1
        BY ImageIs, SegsToIs
    <2>2. ProcStart \in Nat /\ StackPage \in Nat /\ StackPage \in 0 .. VaEnd - 1 /\ ~ (StackPage < ProcStart)
        BY LowPages
    <2> QED
        BY <2>1, <2>2
<1>7. ASSUME NEW v \in LoadedPages(i) \cup {StackPage}
      PROVE  k1.mem[Leaf(k1, r, v).pa] = k.mem[Leaf(k, r, v).pa]
    <2>1. v \in 0 .. VaEnd - 1 /\ ~ (v < ProcStart)
        BY <1>6
    <2>2. PICK q : Leaf(k, r, v).pa = q
        OBVIOUS
    <2>3. Leaf(k, r, v) # Absent
        BY <1>1, <2>1 DEF Shows
    <2>4. q \in Pages /\ G[q] = DataOf(i, v)
        BY <1>1, <1>2, <2>1, <2>2, <2>3, PageAt
    <2>5. G[q].kind = "data" /\ G[q].pid # p
        BY <2>4, RoleFields
    <2>6. k1.mem[q] = k.mem[q]
        BY <2>4, <2>5 DEF Keeps
    <2> QED
        BY <1>3, <2>1, <2>2, <2>6
<1> QED
    BY <1>1, <1>4, <1>5, <1>7 DEF Ready

\* The first n processes are ready, and nothing else is in use.
AllReady(k, roots, n) ==
    \E G : /\ Layout(k, G, {})
           /\ \A q \in Pages : \/ G[q].kind = "none"
                               \/ G[q].kind \in {"table", "data"} /\ G[q].pid \in 1 .. n
           /\ \A i \in 1 .. n : Ready(k, G, i, roots[i])

\* Before kernel_start every page is free.
LEMMA BootIs == Shape(Boot) /\ \A roots : AllReady(Boot, roots, 0)
<1>1. PICK none : none = Role("none", 0, 0, 0)
    OBVIOUS
<1>2. none \in Roles /\ none.kind = "none"
    <2>1. 0 \in 0 .. TopLevel
        BY PageTableAssumption
    <2> QED
        BY <1>1, <2>1, RoleFields DEF Role, Roles, Kinds
<1>3. PICK G : G = [q \in Pages |-> none]
    OBVIOUS
<1>4. G \in [Pages -> Roles] /\ \A q \in Pages : G[q].kind = "none"
    BY <1>2, <1>3
<1>5. Boot.mem = [q \in Pages |-> Junk] /\ Boot.refcount = [q \in Pages |-> 0]
    BY DEF Boot
<1>6. Junk \in Contents
    BY DEF Contents
<1>7. Boot \in Memories
    <2>1. [q \in Pages |-> Junk] \in [Pages -> Contents \cup Tables] /\ [q \in Pages |-> 0] \in [Pages -> Nat]
        BY <1>6
    <2> QED
        BY <2>1 DEF Memories, Boot
<1>8. Shape(Boot)
    BY <1>7 DEF Memories, Shape, Mem
<1>9. EntriesFit(Boot, G)
    BY <1>4 DEF EntriesFit
<1>10. Owned(Boot, G)
    BY <1>4, <1>5, <1>6 DEF Owned
<1>11. Linked(Boot, G, {})
    BY <1>4 DEF Linked
<1>12. Layout(Boot, G, {})
    BY <1>4, <1>7, <1>9, <1>10, <1>11 DEF Layout
<1> QED
    BY <1>4, <1>8, <1>12 DEF AllReady

BootedNone == [k |-> Boot, roots |-> <<>>]

SetUpOne(s, p) ==
    [k |-> process_setup(s.k, p).k, roots |-> Append(s.roots, process_setup(s.k, p).root)]

Boots(g, n) ==
    g = [i \in 0 .. n |-> IF i = 0 THEN BootedNone
                          ELSE CHOOSE y \in {SetUpOne(z, i) : z \in {g[i - 1]}} : TRUE]

\* One process set up.
LEMMA SetUpIs == \A x, i : (CHOOSE y \in {SetUpOne(z, i) : z \in {x}} : TRUE) = SetUpOne(x, i)
<1>1. \A x, i : {SetUpOne(z, i) : z \in {x}} = {SetUpOne(x, i)}
    OBVIOUS
<1> QED
    BY <1>1, OneOf

LEMMA BootsExist == \A n \in Nat : \E g : Boots(g, n)
<1> DEFINE S == {n \in Nat : ~ \E g : Boots(g, n)}
<1>1. SUFFICES ASSUME S # {} PROVE FALSE
    OBVIOUS
<1>2. PICK a \in S : \A b \in S : a <= b
    BY <1>1, LeastNat
<1>3. CASE a = 0
    <2>1. PICK g : g = [i \in 0 .. 0 |-> BootedNone]
        OBVIOUS
    <2>2. g = [i \in 0 .. 0 |-> IF i = 0 THEN BootedNone
                                ELSE CHOOSE y \in {SetUpOne(z, i) : z \in {g[i - 1]}} : TRUE]
        BY <2>1
    <2> QED
        BY <1>3, <2>2 DEF Boots
<1>4. CASE a # 0
    <2>1. a - 1 \in Nat /\ a - 1 \notin S
        BY <1>2, <1>4
    <2>2. PICK g : Boots(g, a - 1)
        BY <2>1
    <2>3. g[0] = BootedNone /\ \A i \in 1 .. a - 1 : g[i] = SetUpOne(g[i - 1], i)
        BY <2>1, <2>2, SetUpIs DEF Boots
    <2>4. PICK x : x = SetUpOne(g[a - 1], a)
        OBVIOUS
    <2>5. PICK h : h = [i \in 0 .. a |-> IF i = a THEN x ELSE g[i]]
        OBVIOUS
    <2>6. h[0] = BootedNone /\ \A i \in 1 .. a : h[i] = SetUpOne(h[i - 1], i)
        BY <1>4, <2>1, <2>3, <2>4, <2>5
    <2>7. h = [i \in 0 .. a |-> IF i = 0 THEN BootedNone
                                ELSE CHOOSE y \in {SetUpOne(z, i) : z \in {h[i - 1]}} : TRUE]
        <3>1. h = [i \in 0 .. a |-> h[i]]
            BY <2>5
        <3>2. \A i \in 0 .. a : h[i] = IF i = 0 THEN BootedNone
                                 ELSE CHOOSE y \in {SetUpOne(z, i) : z \in {h[i - 1]}} : TRUE
            BY <2>6, SetUpIs
        <3> QED
            BY <3>1, <3>2
    <2> QED
        BY <1>2, <2>7 DEF Boots
<1> QED
    BY <1>3, <1>4

BootTo(n) == CHOOSE g : Boots(g, n)

LEMMA BootToIs ==
    ASSUME NEW n \in Nat
    PROVE  /\ BootTo(n)[0] = BootedNone
           /\ \A i \in 1 .. n : BootTo(n)[i] = SetUpOne(BootTo(n)[i - 1], i)
<1>1. PICK g : g = BootTo(n)
    OBVIOUS
<1>2. Boots(g, n)
    BY <1>1, BootsExist DEF BootTo
<1>3. g[0] = BootedNone /\ \A i \in 1 .. n : g[i] = SetUpOne(g[i - 1], i)
    BY <1>2, SetUpIs DEF Boots
<1> QED
    BY <1>1, <1>3

LEMMA ProcessesAre ==
    ASSUME NEW n, Cardinality(Processes) = n
    PROVE  n \in Nat /\ n > 0 /\ n < NPROC /\ Processes = 1 .. n
<1>1. PICK c \in 1 .. NPROC - 1 : DOMAIN Image = 1 .. c
    BY KernelAssumption
<1>2. Cardinality(1 .. c) = c /\ c \in Nat /\ c > 0 /\ c < NPROC
    <2>1. NPROC \in Nat
        BY KernelAssumption
    <2>2. 1 \in Int /\ c \in Int /\ c - 1 + 1 = c /\ ~ (1 > c)
        BY <2>1
    <2>3. Cardinality(1 .. c) = IF 1 > c THEN 0 ELSE c - 1 + 1
        BY <2>2, FS_Interval
    <2> QED
        BY <2>1, <2>2, <2>3
<1> QED
    BY <1>1, <1>2 DEF Processes

\* kernel_start sets up one process after the other.
LEMMA BootedIs ==
    /\ \A p \in Processes : Booted[p] = SetUpOne(Booted[p - 1], p)
    /\ Booted[0].k = Boot /\ Booted[0].roots = <<>>
    /\ \A p \in Processes :
          /\ Booted[p].k = process_setup(Booted[p - 1].k, p).k
          /\ Booted[p].roots = Append(Booted[p - 1].roots, process_setup(Booted[p - 1].k, p).root)
<1>1. PICK n : Cardinality(Processes) = n
    OBVIOUS
<1>2. n \in Nat /\ Processes = 1 .. n
    BY <1>1, ProcessesAre
<1>3. Booted = BootTo(n)
    BY <1>1 DEF Booted, BootTo, Boots, BootedNone, SetUpOne
<1>4. Booted[0] = BootedNone /\ \A p \in 1 .. n : Booted[p] = SetUpOne(Booted[p - 1], p)
    BY <1>2, <1>3, BootToIs
<1>5. Booted[0].k = Boot /\ Booted[0].roots = <<>>
    BY <1>4 DEF BootedNone
<1>6. \A s, p : /\ SetUpOne(s, p).k = process_setup(s.k, p).k
                /\ SetUpOne(s, p).roots = Append(s.roots, process_setup(s.k, p).root)
    BY DEF SetUpOne
<1>7. ASSUME NEW p \in Processes
      PROVE  /\ Booted[p].k = process_setup(Booted[p - 1].k, p).k
             /\ Booted[p].roots = Append(Booted[p - 1].roots, process_setup(Booted[p - 1].k, p).root)
    <2>1. Booted[p] = SetUpOne(Booted[p - 1], p)
        BY <1>2, <1>4
    <2>2. PICK s : Booted[p - 1] = s
        OBVIOUS
    <2> QED
        BY <1>6, <2>1, <2>2
<1> QED
    BY <1>2, <1>4, <1>5, <1>7

LEMMA AppendIs ==
    ASSUME NEW s \in Seq(Pages), NEW e \in Pages
    PROVE  /\ Append(s, e) \in Seq(Pages) /\ Len(Append(s, e)) = Len(s) + 1
           /\ Append(s, e)[Len(s) + 1] = e
           /\ \A i \in 1 .. Len(s) : Append(s, e)[i] = s[i]
    OBVIOUS

BootedTo(s, n) == AllReady(s.k, s.roots, n) /\ s.roots \in Seq(Pages) /\ Len(s.roots) = n

NeighboursOf(k, p) ==
    Neighbours(MapImage(NewSpace(k).k, NewSpace(k).root, Image[p]), NewSpace(k).root, Image[p])

\* One more process.
LEMMA BootedStep ==
    ASSUME NEW s, NEW p \in Processes, \A i \in 1 .. p - 1 : i \in Processes,
           BootedTo(s, p - 1), Free(SetUpOne(s, p).k) # {}, NeighboursOf(s.k, p)
    PROVE  BootedTo(SetUpOne(s, p), p) /\ SetupAsserts(s.k, p)
<1> PICK k : s.k = k
    OBVIOUS
<1> PICK roots : s.roots = roots
    OBVIOUS
<1> PICK root : process_setup(k, p).root = root
    OBVIOUS
<1> PICK k1 : process_setup(k, p).k = k1
    OBVIOUS
<1> PICK roots1 : SetUpOne(s, p).roots = roots1
    OBVIOUS
<1>a. SetUpOne(s, p).k = k1 /\ SetUpOne(s, p).roots = roots1 /\ Append(roots, root) = roots1
    BY DEF SetUpOne
<1>b. Free(k1) # {} /\ process_setup(k, p).k = k1 /\ process_setup(k, p).root = root
    BY <1>a
<1>c. Neighbours(MapImage(NewSpace(k).k, NewSpace(k).root, Image[p]), NewSpace(k).root, Image[p])
    BY DEF NeighboursOf
<1>d. AllReady(k, roots, p - 1) /\ roots \in Seq(Pages) /\ Len(roots) = p - 1
    BY DEF BootedTo
<1>0. p \in Nat /\ p > 0
    BY ImageIs
<1>1. PICK G : /\ Layout(k, G, {})
               /\ \A q \in Pages : \/ G[q].kind = "none"
                                   \/ G[q].kind \in {"table", "data"} /\ G[q].pid \in 1 .. p - 1
               /\ \A i \in 1 .. p - 1 : Ready(k, G, i, roots[i])
    BY <1>d DEF AllReady
<1>4. Fresh(G, p)
    <2>1. p \notin 1 .. p - 1
        BY <1>0
    <2> QED
        BY <1>1, <2>1 DEF Fresh
<1>5. SetUp(k, G, k1, p, root) /\ SetupAsserts(k, p)
    BY <1>1, <1>4, <1>b, <1>c, SetupIs
<1>6. PICK G1 : Layout(k1, G1, {}) /\ Keeps(k, G, k1, G1, p) /\ Ready(k1, G1, p, root)
    BY <1>5 DEF SetUp
<1>7. root \in Pages
    BY <1>6 DEF Ready, IsRoot
<1>8. /\ roots1 \in Seq(Pages) /\ Len(roots1) = p /\ roots1[p] = root
      /\ \A i \in 1 .. p - 1 : roots1[i] = roots[i]
    <2>1. Append(roots, root) = roots1 /\ roots \in Seq(Pages)
        BY <1>a, <1>d
    <2>2. Len(roots) + 1 = p /\ Len(roots) = p - 1
        BY <1>0, <1>d
    <2> QED
        BY <1>7, <2>1, <2>2, AppendIs
<1>9. ASSUME NEW i \in 1 .. p
      PROVE  Ready(k1, G1, i, roots1[i])
    <2>1. CASE i = p
        BY <1>6, <1>8, <2>1
    <2>2. CASE i # p
        <3>1. i \in 1 .. p - 1 /\ i \in Processes
            BY <1>0, <2>2
        <3>2. Ready(k, G, i, roots[i])
            BY <1>1, <3>1
        <3>3. Ready(k1, G1, i, roots[i])
            BY <1>1, <1>6, <2>2, <3>1, <3>2, ReadyKept
        <3> QED
            BY <1>8, <3>1, <3>3
    <2> QED
        BY <2>1, <2>2
<1>10. \A q \in Pages : \/ G1[q].kind = "none"
                        \/ G1[q].kind \in {"table", "data"} /\ G1[q].pid \in 1 .. p
    <2>1. p \in 1 .. p /\ \A i \in 1 .. p - 1 : i \in 1 .. p
        BY <1>0
    <2> QED
        BY <1>1, <1>6, <2>1 DEF Keeps
<1>11. AllReady(k1, roots1, p)
    BY <1>6, <1>9, <1>10 DEF AllReady
<1> QED
    BY <1>5, <1>8, <1>11, <1>a DEF BootedTo

\* Every process is ready when kernel_start is done, and no assertion has failed.
LEMMA StartIs ==
    /\ AllReady(kernel_start.k, kernel_start.roots, Cardinality(Processes))
    /\ kernel_start.roots \in Seq(Pages) /\ Len(kernel_start.roots) = Cardinality(Processes)
    /\ BootAsserts
<1>1. PICK n : Cardinality(Processes) = n
    OBVIOUS
<1>2. n \in Nat /\ n > 0 /\ Processes = 1 .. n
    BY <1>1, ProcessesAre
<1>3. kernel_start = Booted[n]
    BY <1>1 DEF kernel_start
<1>4. PICK g : g = [i \in 0 .. n |-> Booted[i].k]
    OBVIOUS
<1>5. g[0] = Boot /\ \A p \in 1 .. n : g[p] = process_setup(g[p - 1], p).k
    <2>1. g[0] = Boot
        BY <1>2, <1>4, BootedIs
    <2>2. ASSUME NEW p \in 1 .. n PROVE g[p] = process_setup(g[p - 1], p).k
        <3>1. Booted[p].k = process_setup(Booted[p - 1].k, p).k
            BY <1>2, BootedIs
        <3>2. p \in 0 .. n /\ p - 1 \in 0 .. n
            BY <1>2
        <3> QED
            BY <1>4, <3>1, <3>2
    <2> QED
        BY <2>1, <2>2
<1>6. \A i \in 0 .. n : Free(g[i]) # {}
    <2>1. Shape(g[0])
        BY <1>5, BootIs
    <2>2. \A i \in 1 .. n : Shape(g[i - 1]) => Shape(g[i]) /\ Free(g[i]) \subseteq Free(g[i - 1])
        BY <1>2, <1>5, SetupShape
    <2>3. Free(g[n]) # {}
        <3>1. Free(Booted[n].k) # {}
            BY <1>3, BootAssumption DEF BootAssumes
        <3>2. n \in 0 .. n
            BY <1>2
        <3> QED
            BY <1>4, <3>1, <3>2
    <2> QED
        BY <1>2, <2>1, <2>2, <2>3, ShapesAlong
<1>7. \A p \in Processes : NeighboursOf(Booted[p - 1].k, p)
    BY BootAssumption DEF BootAssumes, Neighbours, NeighboursOf
<1> DEFINE S == {i \in Nat : i <= n /\ ~ BootedTo(Booted[i], i)}
<1>8. S = {}
    <2>1. SUFFICES ASSUME S # {} PROVE FALSE
        OBVIOUS
    <2>2. PICK a \in S : \A c \in S : a <= c
        BY <2>1, LeastNat
    <2>3. a # 0
        <3>1. <<>> \in Seq(Pages) /\ Len(<<>>) = 0
            OBVIOUS
        <3>2. Booted[0].k = Boot /\ Booted[0].roots = <<>> /\ AllReady(Boot, <<>>, 0)
            BY BootIs, BootedIs
        <3>3. BootedTo(Booted[0], 0)
            BY <3>1, <3>2 DEF BootedTo
        <3> QED
            BY <2>2, <3>3
    <2>4. PICK c \in Nat : c = a - 1
        BY <2>2, <2>3
    <2>5. a \in Nat /\ a <= n
        BY <2>2
    <2>6. c < a /\ c <= n /\ a \in 1 .. n
        BY <1>2, <2>3, <2>4, <2>5
    <2>7. c \notin S
        BY <2>2, <2>4, <2>6
    <2>8. BootedTo(Booted[a - 1], a - 1)
        BY <2>4, <2>6, <2>7
    <2>9. a \in Processes /\ \A i \in 1 .. a - 1 : i \in Processes
        BY <1>2, <2>6
    <2>10. PICK s : Booted[a - 1] = s
        OBVIOUS
    <2>11. Booted[a] = SetUpOne(s, a)
        BY <2>9, <2>10, BootedIs
    <2>12. Free(SetUpOne(s, a).k) # {}
        <3>1. a \in 0 .. n
            BY <2>6
        <3> QED
            BY <1>4, <1>6, <2>11, <3>1
    <2>13. BootedTo(s, a - 1) /\ NeighboursOf(s.k, a)
        BY <1>7, <2>8, <2>9, <2>10
    <2>14. BootedTo(SetUpOne(s, a), a)
        BY <2>9, <2>12, <2>13, BootedStep
    <2> QED
        BY <2>2, <2>11, <2>14
<1>9. n \notin S
    BY <1>8
<1>10. BootedTo(Booted[n], n)
    <2>1. n \in Nat /\ n <= n
        BY <1>2
    <2> QED
        BY <1>9, <2>1
<1>11. ASSUME NEW p \in Processes
       PROVE  SetupAsserts(Booted[p - 1].k, p)
    <2>1. PICK c \in Nat : c = p - 1
        BY <1>2
    <2>2. c <= n /\ c \notin S /\ p \in 0 .. n
        BY <1>2, <1>8, <2>1
    <2>3. PICK s : Booted[p - 1] = s
        OBVIOUS
    <2>4. BootedTo(s, p - 1) /\ NeighboursOf(s.k, p)
        BY <1>7, <2>1, <2>2, <2>3
    <2>5. \A i \in 1 .. p - 1 : i \in Processes
        BY <1>2
    <2>6. Free(SetUpOne(s, p).k) # {}
        <3>1. Booted[p] = SetUpOne(s, p)
            BY <2>3, BootedIs
        <3> QED
            BY <1>4, <1>6, <2>2, <3>1
    <2>7. SetupAsserts(s.k, p)
        BY <2>4, <2>5, <2>6, BootedStep
    <2> QED
        BY <2>3, <2>7
<1>12. BootAsserts
    BY <1>11 DEF BootAsserts
<1> QED
    BY <1>1, <1>3, <1>10, <1>12 DEF BootedTo

----------------------------------------------------------------------------
(* The inductive invariant                                                  *)

\* The addresses of the pages of p, which is at a with heap_top h.
MappedBy(p, a, h) ==
    LoadedPages(p) \cup (End(p) .. h - 1) \cup (IF a = "write" THEN {h} ELSE {}) \cup {StackPage}

\* The address space of p: pages of data at the addresses of D, and tables for all.
Has(k, G, p, root, D) ==
    /\ IsRoot(G, p, root) /\ Shows(k, root, D)
    /\ \A v \in ProcStart .. StackPage : Reach(G, p, v)

\* The roles of the pages, and of the viewer's page v; a page that syscall_page_alloc has
\* replaced is nobody's, and has the role of a viewer's too.
Inner(k, G, v) ==
    /\ Layout(k, G, {})
    /\ \A q \in Pages : G[q].kind \in {"table", "data"} => G[q].pid \in Processes
    /\ v # NoPage => G[v].kind = "viewer"
    /\ v \in Allocatable \cup {NoPage}
    /\ v = NoPage => Free(k) # {}

\* Every process with its address space in the table at pt.
Holds(k, G, v, pt, D) == Inner(k, G, v) /\ \A p \in Processes : Has(k, G, p, pt[p].pagetable, D[p])

\* Besides the viewer's page v only pages of L are in use and nobody's.
Lost(G, v, L) == \A q \in Pages : G[q].kind = "viewer" => q = v \/ q \in L

Sees(k, v, pt, D, L) == \E G : Holds(k, G, v, pt, D) /\ Lost(G, v, L)

Maps == [p \in Processes |-> MappedBy(p, at[p], heap_top[p])]

InnerInv == Sees(phys, viewer, ptable, Maps, {})

OuterInv ==
    /\ ptable \in [Pids -> [state : {"P_FREE", "P_RUNNABLE", "P_BROKEN"},
                            pagetable : Allocatable \cup {NoPage}]]
    /\ \A p \in Pids \ Processes : ptable[p].state = "P_FREE"
    /\ current \in Processes
    /\ mode \in {"user", "spin", "asked"}
    /\ at \in [Processes -> {"start", "loop", "write", "done"}]
    /\ heap_top \in [Processes -> 0 .. StackPage]
    /\ \A p \in Processes : End(p) <= heap_top[p] /\ (at[p] = "write" => heap_top[p] # StackPage)

KernelInv == OuterInv /\ InnerInv

\* The invariant for any D, the addresses of the pages of each process.
Within(D) == \A p \in Processes : D[p] \subseteq ProcStart .. StackPage
Now(D, L) == OuterInv /\ Within(D) /\ Sees(phys, viewer, ptable, D, L)

\* The heap begins above the program and below the stack.
LEMMA EndIs ==
    ASSUME NEW p \in Processes
    PROVE  /\ End(p) \in Nat /\ ProcStart <= End(p) /\ End(p) <= StackPage
           /\ \A v \in LoadedPages(p) : v < End(p) /\ v \in ProcStart .. StackPage
<1>1. PICK n \in Nat : n = Len(Image[p])
    BY ImageIs
<1>2. n > 0 /\ n \in 1 .. Len(Image[p])
    BY <1>1, ImageIs
<1>3. PICK b \in Nat, c \in Nat : Image[p][n][1] = b /\ Image[p][n][2] = c
    <2>1. Image[p][n] \in Nat \X Nat
        BY <1>2, ImageIs
    <2> QED
        BY <2>1
<1>4. End(p) = b + c
    BY <1>1, <1>3 DEF End
<1>5. ProcStart <= b /\ b + c <= StackPage /\ ProcStart \in Nat /\ StackPage \in Nat
    BY <1>2, <1>3, ImageIs, LowPages
<1>6. ASSUME NEW v \in LoadedPages(p)
      PROVE  v < End(p) /\ v \in ProcStart .. StackPage
    <2>1. v \in SegsTo(Image[p], n)
        BY <1>1, ImageIs
    <2>2. PICK i \in 1 .. n : v \in SegPagesOf(Image[p][i])
        BY <2>1 DEF SegsTo
    <2>3. PICK x \in Nat, y \in Nat : Image[p][i][1] = x /\ Image[p][i][2] = y
        <3>1. Image[p][i] \in Nat \X Nat
            BY <1>1, ImageIs
        <3> QED
            BY <3>1
    <2>4. v \in x .. x + y - 1 /\ ProcStart <= x
        BY <1>1, <2>2, <2>3, ImageIs DEF SegPagesOf
    <2>5. x + y <= b + c
        <3>1. CASE i = n
            BY <1>3, <2>3, <3>1
        <3>2. CASE i # n
            <4>1. i < n /\ i \in 1 .. Len(Image[p])
                BY <1>1, <3>2
            <4>2. x + y <= b
                BY <1>2, <1>3, <2>3, <4>1, ImageIs
            <4> QED
                BY <4>2
        <3> QED
            BY <3>1, <3>2
    <2> QED
        BY <1>4, <1>5, <2>4, <2>5
<1> QED
    BY <1>4, <1>5, <1>6

\* Where the pages of a process are; the next of the heap is not among them.
LEMMA MappedByIs ==
    ASSUME NEW p \in Processes, NEW a, NEW h \in 0 .. StackPage, End(p) <= h
    PROVE  /\ MappedBy(p, a, h) \subseteq ProcStart .. StackPage
           /\ h # StackPage /\ a # "write" => h \notin MappedBy(p, a, h)
           /\ \A v \in MappedBy(p, a, h) : v \in 0 .. VaEnd - 1 /\ ~ (v < ProcStart)
           /\ \A v \in MappedBy(p, a, h) : v \in 0 .. MemVirtual
<1>1. /\ End(p) \in Nat /\ ProcStart <= End(p) /\ End(p) <= StackPage
      /\ \A v \in LoadedPages(p) : v < End(p) /\ v \in ProcStart .. StackPage
    BY EndIs
<1>2. ProcStart \in Nat /\ StackPage \in Nat /\ VaEnd \in Nat /\ StackPage < VaEnd /\ ProcStart <= StackPage
      /\ StackPage = MemVirtual - 1 /\ MemVirtual \in Nat
    BY LowPages DEF StackPage
<1>3. \A v \in End(p) .. h - 1 : v \in ProcStart .. StackPage
    BY <1>1, <1>2
<1>4. h \in ProcStart .. StackPage
    BY <1>1, <1>2
<1>5. MappedBy(p, a, h) \subseteq ProcStart .. StackPage
    BY <1>1, <1>2, <1>3, <1>4 DEF MappedBy
<1>6. h # StackPage /\ a # "write" => h \notin MappedBy(p, a, h)
    <2>1. h \notin LoadedPages(p)
        <3>1. ASSUME h \in LoadedPages(p) PROVE FALSE
            <4>1. h < End(p)
                BY <1>1, <3>1
            <4> QED
                BY <1>1, <4>1
        <3> QED
            BY <3>1
    <2>2. h \notin End(p) .. h - 1
        BY <1>1
    <2> QED
        BY <2>1, <2>2 DEF MappedBy
<1>7. \A v \in ProcStart .. StackPage : v \in 0 .. VaEnd - 1 /\ ~ (v < ProcStart) /\ v \in 0 .. MemVirtual
    BY <1>2
<1> QED
    BY <1>5, <1>6, <1>7

\* Nothing that processes see has changed.
SameSpaces(k, G, k1, G1) ==
    /\ SameLeaves(k, G, k1)
    /\ \A q \in Pages : G[q].kind # "none" => G1[q] = G[q]
    /\ \A q \in Pages : G[q].kind = "data" => k1.mem[q] = k.mem[q]

\* An address space is kept by what changes nothing in it.
LEMMA HasKept ==
    ASSUME NEW k, NEW G, NEW k1, NEW G1, SameSpaces(k, G, k1, G1),
           NEW p \in Nat, NEW root, NEW D, Has(k, G, p, root, D)
    PROVE  Has(k1, G1, p, root, D)
<1>1. \A p2, l, b : TableOf(p2, l, b).kind # "none"
    BY RoleFields
<1>2. IsRoot(G1, p, root)
    BY <1>1 DEF IsRoot, Has, SameSpaces
<1>3. \A v \in ProcStart .. StackPage : Reach(G1, p, v)
    BY <1>1 DEF Reach, Has, SameSpaces
<1>4. \A v \in 0 .. VaEnd - 1 : Leaf(k1, root, v) = Leaf(k, root, v)
    BY DEF SameSpaces, SameLeaves, Has, IsRoot
<1>5. Shows(k1, root, D)
    BY <1>4 DEF Shows, Has
<1> QED
    BY <1>2, <1>3, <1>5 DEF Has

\* The viewer takes its page, and no other is lost.
ShownAs(k, G, v, k1, v1) ==
    \E G1 : /\ Inner(k1, G1, v1) /\ SameSpaces(k, G, k1, G1)
            /\ \A L : Lost(G, v, L) => Lost(G1, v1, L)

\* memshow() finds a page for the viewer, and changes no address space.
LEMMA ShownIs ==
    ASSUME NEW G, Inner(phys, G, viewer)
    PROVE  ShownAs(phys, G, viewer, Shown.k, Shown.page) /\ Shown.page # NoPage
<1>0. Allocatable \subseteq Pages /\ NoPage \notin Pages
    BY PageTableAssumption
<1>1. CASE viewer # NoPage
    <2>1. Shown.k = phys /\ Shown.page = viewer
        BY <1>1 DEF Shown
    <2>2. SameSpaces(phys, G, phys, G)
        BY DEF SameSpaces, SameLeaves
    <2> QED
        BY <1>1, <2>1, <2>2 DEF ShownAs
<1>2. CASE viewer = NoPage
    <2>0. Layout(phys, G, {}) /\ Shape(phys) /\ Free(phys) # {}
        BY <1>2, InSpaceFrees DEF Inner
    <2>1. PICK pa : FreePage(phys) = pa
        OBVIOUS
    <2>2. pa \in Free(phys) /\ pa # NoPage /\ pa \in Pages /\ pa \in Allocatable
        BY <2>0, <2>1, FreePageIs DEF Free
    <2>3. PICK R : Role("viewer", 0, 0, 0) = R
        OBVIOUS
    <2>4. R \in Roles /\ R.kind = "viewer"
        <3>1. 0 \in 0 .. TopLevel
            BY PageTableAssumption
        <3> QED
            BY <2>3, <3>1, RoleFields DEF Role, Roles, Kinds
    <2>5. PICK k1 : NewPage(phys, pa, Junk) = k1
        OBVIOUS
    <2>6. Take(phys, pa) = k1
        BY <2>0, <2>5, TakeNew
    <2>7. Shown.k = k1 /\ Shown.page = pa
        BY <1>2, <2>1, <2>2, <2>6 DEF Shown
    <2>8. PICK G1 : [G EXCEPT ![pa] = R] = G1
        OBVIOUS
    <2>9. NewPageAs(phys, G, pa, Junk, R, k1, G1)
        <3>1. NewRole(G, Junk, R)
            BY <2>4 DEF NewRole, Contents
        <3> QED
            BY <2>0, <2>2, <2>4, <2>5, <2>8, <3>1, NewPageIs
    <2>10. /\ Layout(k1, G1, {}) /\ SameLeaves(phys, G, k1)
           /\ G[pa].kind = "none" /\ G1[pa] = R
           /\ \A q \in Pages : q # pa => G1[q] = G[q] /\ k1.mem[q] = phys.mem[q]
        BY <2>4, <2>9 DEF NewPageAs
    <2>11. SameSpaces(phys, G, k1, G1)
        BY <2>10 DEF SameSpaces
    <2>12. Inner(k1, G1, pa)
        <3>1. \A q \in Pages : G1[q].kind \in {"table", "data"} => G1[q].pid \in Processes
            BY <2>4, <2>10 DEF Inner
        <3> QED
            BY <2>2, <2>4, <2>10, <3>1 DEF Inner
    <2>13. ASSUME NEW L, Lost(G, viewer, L) PROVE Lost(G1, pa, L)
        <3>1. \A q \in Pages : G1[q].kind = "viewer" => G[q].kind = "viewer" \/ q = pa
            BY <2>10
        <3>2. \A q \in Pages : q # viewer
            BY <1>0, <1>2
        <3> QED
            BY <2>13, <3>1, <3>2 DEF Lost
    <2> QED
        BY <2>2, <2>7, <2>11, <2>12, <2>13 DEF ShownAs
<1> QED
    BY <1>1, <1>2

----------------------------------------------------------------------------
(* syscall_page_alloc and stores                                            *)

\* Page pa, zeroed, is new at address va of process p.
Alloc(k, G, k2, G2, v, p, root, va, pa) ==
    /\ Inner(k2, G2, v)
    /\ \A L : Lost(G, v, L) => Lost(G2, v, L)
    /\ \A q \in Pages : G[q].kind # "none" => G2[q] = G[q]
    /\ \A q \in Pages : G[q].kind = "data" => k2.mem[q] = k.mem[q]
    /\ \A p2 \in Nat, r \in Pages, w \in 0 .. VaEnd - 1 :
          IsRoot(G, p2, r) => Leaf(k2, r, w) = IF r = root /\ w = va THEN Entry(pa, PWU) ELSE Leaf(k, r, w)
    /\ pa \in Pages /\ k2.mem[pa] = Zero

AllocAs(k, G, k2, v, p, root, va) == \E G2, pa : Alloc(k, G, k2, G2, v, p, root, va, pa)

StoreIn(k, q, c) == [k EXCEPT !.mem[q] = c]

StoreAs(k, G, k1, v, q, c) ==
    /\ Inner(k1, G, v) /\ SameLeaves(k, G, k1)
    /\ k1.mem[q] = c /\ \A r \in Pages : r # q => k1.mem[r] = k.mem[r]

\* A store in a page of data changes that page.
LEMMA StoreIs ==
    ASSUME NEW k, NEW G, NEW v, Inner(k, G, v), NEW q \in Pages, G[q].kind = "data", NEW c \in Contents
    PROVE  StoreAs(k, G, StoreIn(k, q, c), v, q, c)
<1>1. Layout(k, G, {}) /\ Shape(k)
    BY InSpaceFrees DEF Inner
<1>2. PICK m : [k.mem EXCEPT ![q] = c] = m
    OBVIOUS
<1>3. PICK k1 : StoreIn(k, q, c) = k1
    OBVIOUS
<1>4. k1 = Mem(m, k.refcount)
    <2>1. StoreIn(k, q, c) = [k EXCEPT !.mem = m]
        BY <1>2 DEF StoreIn
    <2>2. [Mem(k.mem, k.refcount) EXCEPT !.mem = m] = Mem(m, k.refcount)
        BY MemExcept
    <2> QED
        BY <1>1, <1>3, <2>1, <2>2 DEF Shape
<1>5. k.mem \in [Pages -> Contents \cup Tables]
    BY <1>1 DEF Layout, Memories
<1>6. m \in [Pages -> Contents \cup Tables] /\ m[q] = c /\ \A r \in Pages : r # q => m[r] = k.mem[r]
    BY <1>2, <1>5
<1>7. \A r \in Pages : IF G[r].kind = "table" THEN m[r] = k.mem[r] ELSE m[r] \in Contents
    <2>1. \A r \in Pages : G[r].kind # "table" => k.mem[r] \in Contents
        BY <1>1 DEF Layout, Owned
    <2> QED
        BY <1>6, <2>1
<1>8. Layout(k1, G, {}) /\ SameLeaves(k, G, k1)
    BY <1>1, <1>4, <1>6, <1>7, RewriteIs
<1>9. k1.mem = m /\ k1.refcount = k.refcount
    BY <1>4, MemFields
<1>10. Inner(k1, G, v)
    <2>1. Free(k1) = Free(k)
        BY <1>9 DEF Free
    <2> QED
        BY <1>8, <2>1 DEF Inner
<1> QED
    BY <1>3, <1>6, <1>8, <1>9, <1>10 DEF StoreAs

\* syscall_page_alloc, with a page left: its page is mapped, found and zeroed.
LEMMA AllocIs ==
    ASSUME NEW k, NEW G, NEW v, Inner(k, G, v), v # NoPage, NEW p \in Processes, NEW root, NEW D,
           Has(k, G, p, root, D), NEW va \in ProcStart .. StackPage, va \notin D, Free(k) # {},
           NEW m, MapNew(k, root, va) = m, NEW ptr, Pa(m, Vmiter(m, root, va)) = ptr
    PROVE  ptr # NoPage /\ AllocAs(k, G, StoreIn(m, ptr, Zero), v, p, root, va) /\ MapNewAsserts(k, root, va)
<1>0. p \in Nat /\ va \in 0 .. VaEnd - 1 /\ ~ (va < ProcStart)
    BY ImageIs, LowPages
<1>1. /\ Layout(k, G, {}) /\ IsRoot(G, p, root) /\ Shows(k, root, D) /\ Reach(G, p, va) /\ root \in Pages
    BY DEF Inner, Has, IsRoot
<1>2. Leaf(k, root, va) = Absent
    BY <1>0, <1>1 DEF Shows
<1>3. NewAt(k, G, m, p, root, va) /\ MapNewAsserts(k, root, va)
    BY <1>0, <1>1, <1>2, MapNewAs
<1>4. PICK G1, pa :
       /\ Layout(m, G1, {}) /\ Adopts(k, G, m, G1, p)
       /\ pa \in Pages /\ G[pa].kind = "none" /\ G1[pa] = DataOf(p, va)
       /\ \A p2 \in Nat, r \in Pages, w \in 0 .. VaEnd - 1 :
             IsRoot(G, p2, r) =>
                Leaf(m, r, w) = IF r = root /\ w = va THEN Entry(pa, PWU) ELSE Leaf(k, r, w)
    BY <1>3 DEF NewAt
<1>5. Leaf(m, root, va) = Entry(pa, PWU) /\ Entry(pa, PWU) # Absent /\ Entry(pa, PWU).pa = pa
    <2>1. Entry(pa, PWU).perm = PWU /\ PWU # {} /\ Entry(pa, PWU).pa = pa
        BY DEF Entry, PWU
    <2> QED
        BY <1>0, <1>1, <1>4, <2>1, AbsentIs
<1>6. IsRoot(G1, p, root)
    BY <1>1, <1>4, AdoptsIs
<1>7. ptr = pa
    BY <1>0, <1>4, <1>5, <1>6, PageAt
<1>8. pa # NoPage
    BY <1>4, PageTableAssumption
<1>9. G1[pa].kind = "data"
    BY <1>4, RoleFields
<1>10. Inner(m, G1, v)
    <2>1. \A q \in Pages : G1[q].kind \in {"table", "data"} => G1[q].pid \in Processes
        BY <1>4 DEF Inner, Adopts
    <2>2. G1[v].kind = "viewer"
        <3>1. G[v].kind = "viewer" /\ v \in Pages
            BY PageTableAssumption DEF Inner
        <3> QED
            BY <1>4, <3>1 DEF Adopts
    <2> QED
        BY <1>4, <2>1, <2>2 DEF Inner
<1>11. PICK k2 : StoreIn(m, pa, Zero) = k2
    OBVIOUS
<1>12. /\ Inner(k2, G1, v) /\ SameLeaves(m, G1, k2)
       /\ k2.mem[pa] = Zero /\ \A r \in Pages : r # pa => k2.mem[r] = m.mem[r]
    <2>1. Zero \in Contents
        BY DEF Contents
    <2>2. StoreAs(m, G1, StoreIn(m, pa, Zero), v, pa, Zero)
        BY <1>4, <1>9, <1>10, <2>1, StoreIs
    <2>3. StoreAs(m, G1, k2, v, pa, Zero)
        BY <1>11, <2>2
    <2> QED
        BY <2>3 DEF StoreAs
<1>13. \A q \in Pages : G[q].kind # "none" => G1[q] = G[q]
    BY <1>4 DEF Adopts
<1>14. \A q \in Pages : G[q].kind = "data" => k2.mem[q] = k.mem[q]
    <2>1. \A q \in Pages : G[q].kind = "data" => q # pa /\ m.mem[q] = k.mem[q]
        BY <1>4 DEF Adopts
    <2> QED
        BY <1>12, <2>1
<1>15. ASSUME NEW p2 \in Nat, NEW r \in Pages, NEW w \in 0 .. VaEnd - 1, IsRoot(G, p2, r)
       PROVE  Leaf(k2, r, w) = IF r = root /\ w = va THEN Entry(pa, PWU) ELSE Leaf(k, r, w)
    <2>1. IsRoot(G1, p2, r)
        BY <1>4, <1>15, AdoptsIs
    <2>2. Leaf(k2, r, w) = Leaf(m, r, w)
        BY <1>12, <2>1 DEF SameLeaves
    <2> QED
        BY <1>4, <1>15, <2>2
<1>16. ASSUME NEW L, Lost(G, v, L) PROVE Lost(G1, v, L)
    <2>1. \A q \in Pages : G1[q].kind = "viewer" => G[q].kind = "viewer"
        BY <1>4 DEF Adopts
    <2> QED
        BY <1>16, <2>1 DEF Lost
<1>17. Alloc(k, G, k2, G1, v, p, root, va, pa)
    BY <1>4, <1>12, <1>13, <1>14, <1>15, <1>16 DEF Alloc
<1> QED
    BY <1>3, <1>7, <1>8, <1>11, <1>17 DEF AllocAs

\* Of the address spaces that of the caller has one page more.
LEMMA AllocHas ==
    ASSUME NEW k, NEW G, NEW k2, NEW G2, NEW v, NEW p \in Processes, NEW root, NEW va \in ProcStart .. StackPage,
           NEW pa, Alloc(k, G, k2, G2, v, p, root, va, pa), IsRoot(G, p, root),
           NEW p2 \in Processes, NEW r, NEW D, Has(k, G, p2, r, D)
    PROVE  Has(k2, G2, p2, r, IF p2 = p THEN D \cup {va} ELSE D)
<1>0. va \in 0 .. VaEnd - 1 /\ ~ (va < ProcStart) /\ p2 \in Nat
    BY ImageIs, LowPages
<1>1. \A p3, l, b : TableOf(p3, l, b).kind # "none"
    BY RoleFields
<1>2. IsRoot(G, p2, r) /\ r \in Pages /\ Shows(k, r, D) /\ \A w \in ProcStart .. StackPage : Reach(G, p2, w)
    BY DEF Has, IsRoot
<1>3. IsRoot(G2, p2, r)
    BY <1>1, <1>2 DEF IsRoot, Alloc
<1>4. \A w \in ProcStart .. StackPage : Reach(G2, p2, w)
    BY <1>1, <1>2 DEF Reach, Alloc
<1>5. \A w \in 0 .. VaEnd - 1 : Leaf(k2, r, w) = IF r = root /\ w = va THEN Entry(pa, PWU) ELSE Leaf(k, r, w)
    BY <1>0, <1>2 DEF Alloc
<1>6. r = root <=> p2 = p
    <2>1. ASSUME r = root PROVE p2 = p
        <3>1. TableOf(p2, TopLevel, 0) = TableOf(p, TopLevel, 0)
            BY <1>2, <2>1 DEF IsRoot
        <3> QED
            BY <3>1, TableOfIs
    <2>2. ASSUME p2 = p PROVE r = root
        <3>1. Layout(k2, G2, {}) /\ IsRoot(G2, p, root)
            BY <1>1 DEF Alloc, Inner, IsRoot
        <3> QED
            BY <1>3, <2>2, <3>1, RootOf
    <2> QED
        BY <2>1, <2>2
<1>7. Entry(pa, PWU) # Absent
    <2>1. Entry(pa, PWU).perm = PWU /\ PWU # {}
        BY DEF Entry, PWU
    <2> QED
        BY <2>1, AbsentIs
<1>8. PICK E : E = IF p2 = p THEN D \cup {va} ELSE D
    OBVIOUS
<1>9. Shows(k2, r, E)
    BY <1>0, <1>2, <1>5, <1>6, <1>7, <1>8 DEF Shows
<1>10. Has(k2, G2, p2, r, E)
    BY <1>3, <1>4, <1>9 DEF Has
<1> QED
    BY <1>8, <1>10

----------------------------------------------------------------------------
(* syscall_page_alloc where the process has a page                          *)

\* The pages a and b change places.
Swapped(G, a, b) == [q \in Pages |-> IF q = a THEN G[b] ELSE IF q = b THEN G[a] ELSE G[q]]

\* A page of nobody's takes the place of a page of data.
LEMMA SwapLayout ==
    ASSUME NEW k, NEW G, Layout(k, G, {}), NEW p \in Nat, NEW root, NEW va \in ProcStart .. StackPage,
           NEW pa \in Pages, G[pa].kind = "viewer", NEW q0 \in Pages, G[q0] = DataOf(p, va),
           NEW t, NEW i, EntryAt(k, G, p, root, va, t, i), k.mem[t].entry[i] = Entry(q0, PWU),
           NEW e, e = Entry(pa, PWU), NEW k1, WithEntryAs(k, t, i, e, k1), NEW G1, G1 = Swapped(G, pa, q0)
    PROVE  Layout(k1, G1, {})
<1> USE PageTableAssumption
<1>1. /\ k \in Memories /\ G \in [Pages -> Roles] /\ EntriesFit(k, G) /\ Owned(k, G) /\ Linked(k, G, {})
    BY DEF Layout
<1>2. /\ t \in Pages /\ i \in Index /\ pageindex(va, 0) = i /\ G[t] = TableOf(p, 0, Prefix(va, 1))
    BY DEF EntryAt
<1>a. va \in Nat
    BY LowPages
<1>3. G[t].kind = "table" /\ G[t].pid = p /\ G[t].level = 0 /\ G[t].base = Prefix(va, 1) /\ Prefix(va, 1) \in Nat
    <2>1. 1 \in 0 .. TopLevel + 1
        OBVIOUS
    <2>2. Prefix(va, 1) \in Nat
        BY <1>a, <2>1, PrefixIs
    <2> QED
        BY <1>2, <2>2, RoleFields
<1>4. G[t].base * Fanout + i = va
    <2>1. 0 \in 0 .. TopLevel /\ 0 + 1 = 1
        OBVIOUS
    <2>2. va = Prefix(va, 1) * Fanout + pageindex(va, 0)
        BY <1>a, <2>1, PrefixIs
    <2> QED
        BY <1>2, <1>3, <2>2
<1>5. /\ k1 \in Memories /\ k1.refcount = k.refcount /\ k1.mem[t] \in Tables
      /\ \A j \in Index : k1.mem[t].entry[j] = IF j = i THEN e ELSE k.mem[t].entry[j]
      /\ \A q \in Pages : q # t => k1.mem[q] = k.mem[q]
    BY DEF WithEntryAs
<1>6. /\ G[q0].kind = "data" /\ pa # q0 /\ pa # t /\ q0 # t
      /\ G1[pa] = DataOf(p, va) /\ G1[q0] = G[pa]
      /\ \A q \in Pages : q # pa /\ q # q0 => G1[q] = G[q]
    <2>1. G[q0].kind = "data"
        BY RoleFields
    <2>2. pa # q0 /\ pa # t /\ q0 # t
        BY <1>3, <2>1
    <2> QED
        BY <2>1, <2>2 DEF Swapped
<1>7. G1 \in [Pages -> Roles]
    BY <1>1 DEF Swapped
<1>8. e.pa = pa /\ e.perm = PWU /\ PWU # {} /\ Entry(q0, PWU).pa = q0
    BY DEF Entry, PWU
<1>9. \A q \in Pages : G1[q].kind = "table" => G[q].kind = "table" /\ G1[q] = G[q] /\ q # pa /\ q # q0
    <2>1. G1[pa].kind = "data" /\ G1[q0].kind = "viewer"
        BY <1>6, RoleFields
    <2> QED
        BY <1>6, <2>1
\* Only the entry of va leads to q0.
<1>10. ASSUME NEW q \in Pages, G[q].kind = "table", NEW j \in Index, ~ (q = t /\ j = i),
              EntryFits(G, k.mem[q].entry[j], G[q], G[q].base * Fanout + j)
       PROVE  EntryFits(G1, k.mem[q].entry[j], G[q], G[q].base * Fanout + j)
    <2>1. PICK f : f = k.mem[q].entry[j]
        OBVIOUS
    <2>2. PICK u : u = G[q].base * Fanout + j
        OBVIOUS
    <2>3. EntryFits(G, f, G[q], u) /\ f.pa \in Pages
        <3>1. k.mem[q] \in Tables
            BY <1>1, <1>10 DEF EntriesFit
        <3> QED
            BY <1>10, <2>1, <2>2, <3>1 DEF Tables
    <2>4. CASE f.pa # pa /\ f.pa # q0
        <3>1. G1[f.pa] = G[f.pa]
            BY <1>6, <2>3, <2>4
        <3> QED
            BY <2>1, <2>2, <2>3, <3>1 DEF EntryFits
    <2>5. CASE f.pa = pa
        <3>1. \A p2, l, b : G[pa] # TableOf(p2, l, b) /\ G[pa] # DataOf(p2, b)
            BY RoleFields
        <3> QED
            BY <2>1, <2>2, <2>3, <2>5, <3>1 DEF EntryFits
    <2>6. CASE f.pa = q0
        <3>1. \A p2, l, b : G[q0] # TableOf(p2, l, b)
            BY <1>6, RoleFields
        <3>2. ASSUME G[q].level = 0, G[q0] = DataOf(G[q].pid, u) PROVE FALSE
            <4>0. PICK r : r = G[q].pid
                OBVIOUS
            <4>1. G[q].pid = p /\ u = va
                <5>1. DataOf(p, va) = DataOf(r, u)
                    BY <3>2, <4>0
                <5>2. p = r /\ va = u
                    BY <5>1, DataOfIs
                <5> QED
                    BY <4>0, <5>2
            <4>2. G[q].base \in Nat /\ G[q] = TableOf(G[q].pid, G[q].level, G[q].base)
                BY <1>1, <1>10, RolesIs
            <4>3. G[q].base = G[t].base /\ j = i
                <5>1. PICK b : b = G[q].base
                    OBVIOUS
                <5>2. PICK c : c = G[t].base
                    OBVIOUS
                <5>3. b \in Nat /\ c \in Nat /\ b * Fanout + j = c * Fanout + i
                    BY <1>3, <1>4, <2>2, <4>1, <4>2, <5>1, <5>2
                <5>4. b = c /\ j = i
                    BY <1>2, <5>3, DigitsUnique
                <5> QED
                    BY <5>1, <5>2, <5>4
            <4>4. G[q] = G[t]
                BY <1>2, <1>3, <3>2, <4>1, <4>2, <4>3
            <4>5. q = t
                BY <1>1, <1>2, <1>10, <4>4 DEF Owned
            <4> QED
                BY <1>10, <4>3, <4>5
        <3> QED
            BY <2>1, <2>2, <2>3, <2>6, <3>1, <3>2 DEF EntryFits
    <2> QED
        BY <2>4, <2>5, <2>6
<1>11. EntriesFit(k1, G1)
    <2> SUFFICES ASSUME NEW q \in Pages, G1[q].kind = "table"
                 PROVE  /\ k1.mem[q] \in Tables
                        /\ \A j \in Index : EntryFits(G1, k1.mem[q].entry[j], G1[q], G1[q].base * Fanout + j)
        BY DEF EntriesFit
    <2>1. G[q].kind = "table" /\ G1[q] = G[q]
        BY <1>9
    <2>2. k.mem[q] \in Tables /\ \A j \in Index : EntryFits(G, k.mem[q].entry[j], G[q], G[q].base * Fanout + j)
        BY <1>1, <2>1 DEF EntriesFit
    <2>3. k1.mem[q] \in Tables
        BY <1>5, <2>2
    <2>4. ASSUME NEW j \in Index
          PROVE  EntryFits(G1, k1.mem[q].entry[j], G[q], G[q].base * Fanout + j)
        <3>1. CASE q = t /\ j = i
            <4>1. k1.mem[q].entry[j] = e /\ G[q].base * Fanout + j = va
                BY <1>4, <1>5, <3>1
            <4>2. EntryFits(G1, e, G[q], va)
                BY <1>3, <1>6, <1>8, <3>1 DEF EntryFits
            <4> QED
                BY <4>1, <4>2
        <3>2. CASE ~ (q = t /\ j = i)
            <4>1. k1.mem[q].entry[j] = k.mem[q].entry[j]
                BY <1>5, <3>2
            <4> QED
                BY <1>10, <2>1, <2>2, <3>2, <4>1
        <3> QED
            BY <3>1, <3>2
    <2> QED
        BY <2>1, <2>3, <2>4
<1>12. Owned(k1, G1)
    <2>1. ASSUME NEW q \in Pages
          PROVE  /\ G1[q].kind = "none" => k1.refcount[q] = 0
                 /\ G1[q].kind # "none" => k1.refcount[q] = 1 /\ q \in Allocatable
                 /\ G1[q].kind # "table" => k1.mem[q] \in Contents
        <3>1. /\ G[q].kind = "none" => k.refcount[q] = 0
              /\ G[q].kind # "none" => k.refcount[q] = 1 /\ q \in Allocatable
              /\ G[q].kind # "table" => k.mem[q] \in Contents
            BY <1>1 DEF Owned
        <3>2. (G1[q].kind = "none" <=> G[q].kind = "none") /\ (G1[q].kind = "table" <=> G[q].kind = "table")
            BY <1>6, RoleFields
        <3>3. G[q].kind # "table" => k1.mem[q] = k.mem[q]
            BY <1>3, <1>5
        <3> QED
            BY <1>5, <3>1, <3>2, <3>3
    <2>2. ASSUME NEW q \in Pages, NEW r \in Pages, G1[q].kind \in {"table", "data"}, G1[q] = G1[r]
          PROVE  q = r
        <3>1. q # q0 /\ r # q0
            BY <1>6, <2>2
        <3>2. ASSUME NEW x \in Pages, x # pa, x # q0 PROVE G[x] # DataOf(p, va)
            <4>1. G[x] = G[q0] => x = q0
                BY <1>1, <1>6 DEF Owned
            <4> QED
                BY <3>2, <4>1
        <3>3. CASE q # pa /\ r # pa
            BY <1>1, <1>6, <2>2, <3>1, <3>3 DEF Owned
        <3>4. CASE q = pa \/ r = pa
            BY <1>6, <2>2, <3>1, <3>2, <3>4
        <3> QED
            BY <3>3, <3>4
    <2> QED
        BY <2>1, <2>2 DEF Owned
<1>13. Linked(k1, G1, {})
    <2> SUFFICES ASSUME NEW q \in Pages, G1[q].kind \notin {"none", "viewer"},
                        G1[q] # TableOf(G1[q].pid, TopLevel, 0)
                 PROVE  \E t2 \in Pages, j \in Index :
                           /\ k1.mem[t2] \in Tables
                           /\ k1.mem[t2].entry[j] = Entry(q, PWU)
                           /\ G1[q].base = G1[t2].base * Fanout + j
                           /\ \/ /\ G1[q].kind = "table" /\ G1[q].level < TopLevel
                                 /\ G1[t2] = TableOf(G1[q].pid, G1[q].level + 1, G1[t2].base)
                              \/ /\ G1[q] = DataOf(G1[q].pid, G1[q].base)
                                 /\ G1[t2] = TableOf(G1[q].pid, 0, G1[t2].base)
        BY DEF Linked
    <2>1. q # q0
        BY <1>6
    <2>2. CASE q = pa
        <3>1. G1[q].pid = p /\ G1[q].base = va /\ G1[q] = DataOf(G1[q].pid, G1[q].base)
            BY <1>6, <2>2, RoleFields
        <3>2. G1[t] = TableOf(p, 0, G1[t].base) /\ G1[t].base * Fanout + i = va
            BY <1>2, <1>3, <1>4, <1>6
        <3>3. k1.mem[t] \in Tables /\ k1.mem[t].entry[i] = Entry(q, PWU)
            BY <1>2, <1>5, <2>2
        <3> QED
            BY <1>2, <3>1, <3>2, <3>3
    <2>3. CASE q # pa
        <3>1. G1[q] = G[q]
            BY <1>6, <2>1, <2>3
        <3>2. PICK t2 \in Pages, j \in Index :
                           /\ k.mem[t2] \in Tables
                           /\ k.mem[t2].entry[j] = Entry(q, PWU)
                           /\ G[q].base = G[t2].base * Fanout + j
                           /\ \/ /\ G[q].kind = "table" /\ G[q].level < TopLevel
                                 /\ G[t2] = TableOf(G[q].pid, G[q].level + 1, G[t2].base)
                              \/ /\ G[q] = DataOf(G[q].pid, G[q].base)
                                 /\ G[t2] = TableOf(G[q].pid, 0, G[t2].base)
            <4>1. q \in Pages \ {}
                OBVIOUS
            <4> QED
                BY <1>1, <3>1, <4>1 DEF Linked
        <3>3. ~ (t2 = t /\ j = i)
            <4>1. Entry(q, PWU).pa = q
                BY DEF Entry
            <4> QED
                BY <1>8, <2>1, <3>2, <4>1
        <3>4. k1.mem[t2] \in Tables /\ k1.mem[t2].entry[j] = Entry(q, PWU)
            BY <1>5, <3>2, <3>3
        <3>5. G1[t2] = G[t2]
            <4>1. G[t2].kind = "table"
                BY <3>2, RoleFields
            <4> QED
                BY <1>6, <4>1
        <3> QED
            BY <3>1, <3>2, <3>4, <3>5
    <2> QED
        BY <2>2, <2>3
<1> QED
    BY <1>5, <1>7, <1>11, <1>12, <1>13 DEF Layout

\* Page pa, zeroed, is at address va of process p, whose page it was is nobody's.
Replace(k, G, k2, G2, v, p, root, va, pa) ==
    /\ Inner(k2, G2, v)
    /\ \A q \in Pages : G[q].kind # "none" /\ G[q] # DataOf(p, va) => G2[q] = G[q]
    /\ \A q \in Pages : G[q].kind = "data" /\ G[q] # DataOf(p, va) => k2.mem[q] = k.mem[q]
    /\ \A p2 \in Nat, r \in Pages, w \in 0 .. VaEnd - 1 :
          IsRoot(G, p2, r) => Leaf(k2, r, w) = IF r = root /\ w = va THEN Entry(pa, PWU) ELSE Leaf(k, r, w)
    /\ pa \in Pages /\ k2.mem[pa] = Zero

ReplaceAs(k, G, k2, v, p, root, va) == \E G2, pa : Replace(k, G, k2, G2, v, p, root, va, pa)

\* syscall_page_alloc, with a page left, where there is one already.
LEMMA ReplaceIs ==
    ASSUME NEW k, NEW G, NEW v, Inner(k, G, v), v # NoPage, NEW p \in Processes, NEW root, NEW D,
           Has(k, G, p, root, D), NEW va \in ProcStart .. StackPage, va \in D, Free(k) # {},
           NEW m, MapNew(k, root, va) = m, NEW ptr, Pa(m, Vmiter(m, root, va)) = ptr
    PROVE  ptr # NoPage /\ ReplaceAs(k, G, StoreIn(m, ptr, Zero), v, p, root, va) /\ MapNewAsserts(k, root, va)
<1>0. p \in Nat /\ va \in 0 .. VaEnd - 1 /\ ~ (va < ProcStart)
    BY ImageIs, LowPages
<1>1. /\ Layout(k, G, {}) /\ IsRoot(G, p, root) /\ Shows(k, root, D) /\ Reach(G, p, va) /\ root \in Pages
      /\ Shape(k)
    BY InSpaceFrees DEF Inner, Has, IsRoot
\* The new page, at first nobody's.
<1>2. PICK pa : FreePage(k) = pa
    OBVIOUS
<1>3. pa \in Free(k) /\ pa # NoPage /\ pa \in Pages
    BY <1>2, FreePageIs
<1>4. PICK k1 : NewPage(k, pa, Junk) = k1
    OBVIOUS
<1>5. Take(k, pa) = k1
    BY <1>1, <1>4, TakeNew
<1>6. m = MemoryMap(k1, root, va, pa, PWU).k
    BY <1>2, <1>3, <1>5 DEF MapNew
<1>7. PICK R : Role("viewer", 0, 0, 0) = R
    OBVIOUS
<1>8. R \in Roles /\ R.kind = "viewer"
    <2>1. 0 \in 0 .. TopLevel
        BY PageTableAssumption
    <2> QED
        BY <1>7, <2>1, RoleFields DEF Role, Roles, Kinds
<1>9. PICK G1 : [G EXCEPT ![pa] = R] = G1
    OBVIOUS
<1>10. /\ Layout(k1, G1, {}) /\ SameLeaves(k, G, k1)
       /\ G[pa].kind = "none" /\ G1[pa] = R
       /\ \A q \in Pages : q # pa => G1[q] = G[q] /\ k1.mem[q] = k.mem[q]
    <2>1. NewRole(G, Junk, R)
        BY <1>8 DEF NewRole, Contents
    <2>2. NewPageAs(k, G, pa, Junk, R, k1, G1)
        BY <1>1, <1>3, <1>4, <1>8, <1>9, <2>1, NewPageIs
    <2> QED
        BY <1>8, <2>2 DEF NewPageAs
<1>11. /\ \A q \in Pages : G[q].kind # "none" => G1[q] = G[q] /\ k1.mem[q] = k.mem[q]
       /\ \A p2, r : IsRoot(G, p2, r) => IsRoot(G1, p2, r)
       /\ Reach(G1, p, va) /\ Loose(G1, {})
    <2>1. \A q \in Pages : G[q].kind # "none" => G1[q] = G[q] /\ k1.mem[q] = k.mem[q]
        BY <1>10
    <2>2. \A p2, l, b : TableOf(p2, l, b).kind # "none"
        BY RoleFields
    <2>3. \A p2, r : IsRoot(G, p2, r) => IsRoot(G1, p2, r)
        BY <2>1, <2>2 DEF IsRoot
    <2>4. Reach(G1, p, va)
        BY <1>1, <2>1, <2>2 DEF Reach
    <2> QED
        BY <2>1, <2>3, <2>4 DEF Loose
<1>12. MapNewAsserts(k, root, va)
    <2>1. PWU \in SUBSET PWU
        OBVIOUS
    <2>2. IsRoot(G1, p, root)
        BY <1>1, <1>11
    <2>3. MapAsserts(k1, root, va, pa, PWU)
        BY <1>0, <1>3, <1>10, <1>11, <2>1, <2>2, MapAssertsIs
    <2> QED
        BY <1>2, <1>3, <1>5, <2>3 DEF MapNewAsserts
\* The page that was there.
<1>13. PICK q0 : q0 = Leaf(k, root, va).pa
    OBVIOUS
<1>14. q0 \in Pages /\ Leaf(k, root, va) = Entry(q0, PWU) /\ G[q0] = DataOf(p, va) /\ q0 # pa
    <2>1. PICK e0 : e0 = Leaf(k, root, va)
        OBVIOUS
    <2>2. e0 # Absent
        BY <1>0, <1>1, <2>1 DEF Shows
    <2>3. e0.pa \in Pages /\ e0.perm = PWU /\ G[e0.pa] = DataOf(p, va)
        BY <1>0, <1>1, <2>1, <2>2, PageAt
    <2>4. e0 \in [pa : Pages, perm : SUBSET PWU]
        BY <1>0, <1>1, <2>1, LeafIs
    <2>5. e0 = Entry(e0.pa, PWU)
        BY <2>3, <2>4 DEF Entry
    <2>6. G[e0.pa].kind = "data"
        BY <2>3, RoleFields
    <2> QED
        BY <1>10, <1>13, <2>1, <2>3, <2>5, <2>6
<1>15. Leaf(k1, root, va) = Entry(q0, PWU) /\ G1[q0] = DataOf(p, va)
    BY <1>0, <1>1, <1>10, <1>14 DEF SameLeaves
<1>16. PICK e : e = Entry(pa, PWU)
    OBVIOUS
<1>17. e \in [pa : Pages, perm : SUBSET PWU] /\ e.pa = pa /\ e.perm = PWU /\ PWU # {}
    BY <1>3, <1>16 DEF Entry, PWU
<1>18. PICK t, i : EntryAt(k1, G1, p, root, va, t, i) /\ WithEntryAs(k1, t, i, e, m)
    <2>1. PICK s : Begun(k1, root, va) = s
        OBVIOUS
    <2>2. IsRoot(G1, p, root)
        BY <1>1, <1>11
    <2>3. MemoryMap(k1, root, va, pa, PWU) = SetLeaf(s, va, e) /\ s.it.level = 0
        BY <1>0, <1>10, <1>11, <1>16, <2>1, <2>2, ReachStays
    <2>4. EntrySet(k1, G1, p, root, va, e, SetLeaf(s, va, e).k)
        BY <1>0, <1>10, <1>11, <1>17, <2>1, <2>2, <2>3, SetLeafSets
    <2> QED
        BY <1>6, <2>3, <2>4 DEF EntrySet
<1>19. /\ t \in Pages /\ i \in Index /\ pageindex(va, 0) = i
       /\ G1[t] = TableOf(p, 0, Prefix(va, 1))
       /\ Vmiter(k1, root, va) = Iter(root, t, 0, PWU, va)
    BY <1>18 DEF EntryAt
<1>20. k1.mem[t].entry[i] = Entry(q0, PWU)
    <2>1. PICK it : it = Vmiter(k1, root, va)
        OBVIOUS
    <2>2. it.table = t /\ it.level = 0 /\ it.va = va
        BY <1>19, <2>1, IterFields
    <2>3. At(k1, it) = k1.mem[t].entry[i]
        BY <1>19, <2>2 DEF At
    <2>4. Entry(q0, PWU) # Absent
        <3>1. Entry(q0, PWU).perm = PWU
            BY DEF Entry
        <3> QED
            BY <1>17, <3>1, AbsentIs
    <2>5. PICK f : f = At(k1, it)
        OBVIOUS
    <2>6. Leaf(k1, root, va) = IF f.perm = {} THEN Absent ELSE f
        BY <2>1, <2>5 DEF Leaf
    <2>7. f = Entry(q0, PWU)
        BY <1>15, <2>4, <2>6
    <2> QED
        BY <2>3, <2>5, <2>7
<1>21. PICK G2 : G2 = Swapped(G1, pa, q0)
    OBVIOUS
<1>22. Layout(m, G2, {})
    BY <1>0, <1>3, <1>8, <1>10, <1>14, <1>15, <1>16, <1>18, <1>20, <1>21, SwapLayout
<1>23. /\ G2[pa] = DataOf(p, va) /\ G2[q0] = R
       /\ \A q \in Pages : q # pa /\ q # q0 => G2[q] = G1[q]
    BY <1>3, <1>10, <1>14, <1>15, <1>21 DEF Swapped
<1>24. ASSUME NEW q \in Pages, G[q].kind # "none", G[q] # DataOf(p, va)
       PROVE  G2[q] = G[q] /\ q # pa
    BY <1>10, <1>14, <1>23, <1>24
<1>25. Remaps(k1, G1, m, G1, p, root, va, e)
    <2>1. IsRoot(G1, p, root)
        BY <1>1, <1>11
    <2> QED
        BY <1>0, <1>10, <1>11, <1>17, <1>18, <1>19, <2>1, SetEntryShows
<1>26. ASSUME NEW p2 \in Nat, NEW r \in Pages, NEW w \in 0 .. VaEnd - 1, IsRoot(G, p2, r)
       PROVE  Leaf(m, r, w) = IF r = root /\ w = va THEN e ELSE Leaf(k, r, w)
    <2>1. IsRoot(G1, p2, r)
        BY <1>11, <1>26
    <2>2. Leaf(m, r, w) = IF r = root /\ w = va THEN Shown1(e) ELSE Leaf(k1, r, w)
        BY <1>25, <2>1 DEF Remaps
    <2>3. Shown1(e) = e
        BY <1>17 DEF Shown1
    <2>4. Leaf(k1, r, w) = Leaf(k, r, w)
        BY <1>10, <1>26 DEF SameLeaves
    <2> QED
        BY <2>2, <2>3, <2>4
<1>27. \A p2, r : IsRoot(G, p2, r) => IsRoot(G2, p2, r)
    <2>1. \A p2, l, b : TableOf(p2, l, b).kind = "table" /\ TableOf(p2, l, b) # DataOf(p, va)
        BY RoleFields
    <2> QED
        BY <1>24, <2>1 DEF IsRoot
<1>28. ptr = pa
    <2>1. IsRoot(G2, p, root)
        BY <1>1, <1>27
    <2>2. Leaf(m, root, va) = e
        BY <1>0, <1>1, <1>26
    <2>3. e # Absent
        BY <1>17, AbsentIs
    <2> QED
        BY <1>0, <1>17, <1>22, <2>1, <2>2, <2>3, PageAt
<1>29. G2[pa].kind = "data" /\ G2[pa].pid = p
    BY <1>23, RoleFields
<1>30. Inner(m, G2, v)
    <2>1. \A q \in Pages : G2[q].kind \in {"table", "data"} => G2[q].pid \in Processes
        BY <1>8, <1>10, <1>23, <1>29 DEF Inner
    <2>2. G2[v].kind = "viewer"
        <3>1. G[v].kind = "viewer" /\ v \in Pages
            BY PageTableAssumption DEF Inner
        <3>2. G[v] # DataOf(p, va)
            BY <3>1, RoleFields
        <3> QED
            BY <1>24, <3>1, <3>2
    <2> QED
        BY <1>22, <2>1, <2>2 DEF Inner
\* The store of zeros.
<1>31. PICK k2 : StoreIn(m, pa, Zero) = k2
    OBVIOUS
<1>32. /\ Inner(k2, G2, v) /\ SameLeaves(m, G2, k2)
       /\ k2.mem[pa] = Zero /\ \A r \in Pages : r # pa => k2.mem[r] = m.mem[r]
    <2>1. Zero \in Contents
        BY DEF Contents
    <2>2. StoreAs(m, G2, StoreIn(m, pa, Zero), v, pa, Zero)
        BY <1>3, <1>29, <1>30, <2>1, StoreIs
    <2>3. StoreAs(m, G2, k2, v, pa, Zero)
        BY <1>31, <2>2
    <2> QED
        BY <2>3 DEF StoreAs
<1>33. \A q \in Pages : G[q].kind = "data" /\ G[q] # DataOf(p, va) => k2.mem[q] = k.mem[q]
    <2>1. \A q \in Pages : G1[q].kind = "data" => m.mem[q] = k1.mem[q]
        BY <1>25 DEF Remaps
    <2> QED
        BY <1>11, <1>24, <1>32, <2>1
<1>34. ASSUME NEW p2 \in Nat, NEW r \in Pages, NEW w \in 0 .. VaEnd - 1, IsRoot(G, p2, r)
       PROVE  Leaf(k2, r, w) = IF r = root /\ w = va THEN Entry(pa, PWU) ELSE Leaf(k, r, w)
    <2>1. IsRoot(G2, p2, r)
        BY <1>27, <1>34
    <2>2. Leaf(k2, r, w) = Leaf(m, r, w)
        BY <1>32, <2>1 DEF SameLeaves
    <2> QED
        BY <1>16, <1>26, <1>34, <2>2
<1>35. Replace(k, G, k2, G2, v, p, root, va, pa)
    BY <1>3, <1>24, <1>32, <1>33, <1>34 DEF Replace
<1> QED
    BY <1>3, <1>12, <1>28, <1>31, <1>35 DEF ReplaceAs

\* All address spaces have the pages they had, at other places.
LEMMA ReplaceHas ==
    ASSUME NEW k, NEW G, NEW k2, NEW G2, NEW v, NEW p \in Processes, NEW root, NEW va \in ProcStart .. StackPage,
           NEW pa, Replace(k, G, k2, G2, v, p, root, va, pa), NEW E, Has(k, G, p, root, E), va \in E,
           NEW p2 \in Processes, NEW r, NEW D, Has(k, G, p2, r, D)
    PROVE  /\ Has(k2, G2, p2, r, D)
           /\ r = root <=> p2 = p
           /\ \A w \in 0 .. VaEnd - 1 :
                 Leaf(k2, r, w) = IF r = root /\ w = va THEN Entry(pa, PWU) ELSE Leaf(k, r, w)
<1>0. va \in 0 .. VaEnd - 1 /\ ~ (va < ProcStart) /\ p2 \in Nat
    BY ImageIs, LowPages
<1>1. \A q, l, b : TableOf(q, l, b).kind # "none" /\ TableOf(q, l, b) # DataOf(p, va)
    <2>1. \A q, l, b : TableOf(q, l, b).kind = "table" /\ DataOf(p, va).kind = "data"
        BY RoleFields
    <2> QED
        BY <2>1
<1>2. /\ IsRoot(G, p2, r) /\ r \in Pages /\ Shows(k, r, D) /\ \A w \in ProcStart .. StackPage : Reach(G, p2, w)
      /\ IsRoot(G, p, root) /\ Shows(k, root, E)
    BY DEF Has, IsRoot
<1>3. IsRoot(G2, p2, r) /\ IsRoot(G2, p, root)
    BY <1>1, <1>2 DEF IsRoot, Replace
<1>4. \A w \in ProcStart .. StackPage : Reach(G2, p2, w)
    BY <1>1, <1>2 DEF Reach, Replace
<1>5. \A w \in 0 .. VaEnd - 1 : Leaf(k2, r, w) = IF r = root /\ w = va THEN Entry(pa, PWU) ELSE Leaf(k, r, w)
    BY <1>0, <1>2 DEF Replace
<1>6. r = root <=> p2 = p
    <2>1. ASSUME r = root PROVE p2 = p
        <3>1. TableOf(p2, TopLevel, 0) = TableOf(p, TopLevel, 0)
            BY <1>2, <2>1 DEF IsRoot
        <3> QED
            BY <3>1, TableOfIs
    <2>2. ASSUME p2 = p PROVE r = root
        <3>1. Layout(k2, G2, {})
            BY DEF Replace, Inner
        <3> QED
            BY <1>3, <2>2, <3>1, RootOf
    <2> QED
        BY <2>1, <2>2
<1>7. Entry(pa, PWU) # Absent
    <2>1. Entry(pa, PWU).perm = PWU /\ PWU # {}
        BY DEF Entry, PWU
    <2> QED
        BY <2>1, AbsentIs
<1>8. Shows(k2, r, D)
    <2>1. CASE r = root
        <3>1. \A w \in 0 .. VaEnd - 1 : ~ (w < ProcStart) => (Leaf(k, r, w) # Absent <=> w \in E)
            BY <1>2, <2>1 DEF Shows
        <3>2. va \in D
            BY <1>0, <1>2, <3>1 DEF Shows
        <3> QED
            BY <1>0, <1>2, <1>5, <1>7, <3>2 DEF Shows
    <2>2. CASE r # root
        BY <1>2, <1>5, <2>2 DEF Shows
    <2> QED
        BY <2>1, <2>2
<1> QED
    BY <1>3, <1>4, <1>5, <1>6, <1>8 DEF Has

----------------------------------------------------------------------------
(* The memory that processes see                                            *)

SpaceIn(k, pt) ==
    UNION {{<<p, it.va, k.mem[Pa(k, it)]>> :
               it \in {i \in {Vmiter(k, pt[p].pagetable, va) : va \in ProcStart .. StackPage} :
                          User(k, i)}} : p \in Processes}

SpaceAs(sp, k, pt, D) ==
    \A t : t \in sp <=> \E p \in Processes : \E v \in D[p] :
                          t = <<p, v, k.mem[Leaf(k, pt[p].pagetable, v).pa]>>

\* What vmiter finds above the kernel: the pages of data of the process.
LEMMA UserPage ==
    ASSUME NEW k, NEW G, Layout(k, G, {}), NEW p \in Nat, NEW root, NEW D, Has(k, G, p, root, D),
           NEW v \in 0 .. VaEnd - 1, ~ (v < ProcStart), NEW it, it = Vmiter(k, root, v)
    PROVE  /\ it.va = v
           /\ User(k, it) <=> v \in D
           /\ v \in D => Pa(k, it) = Leaf(k, root, v).pa /\ Leaf(k, root, v).pa \in Pages
                         /\ G[Leaf(k, root, v).pa] = DataOf(p, v)
                         /\ Perm(k, it) = PWU
<1>1. IsRoot(G, p, root) /\ Shows(k, root, D)
    BY DEF Has
<1>2. it.va = v
    <2>1. it = Iter(root, it.table, it.level, PWU, v)
        BY <1>1, VmiterStops
    <2> QED
        BY <2>1, IterFields
<1>3. PICK e : e = Leaf(k, root, v)
    OBVIOUS
<1>4. /\ User(k, it) <=> e.perm = PWU
      /\ Perm(k, it) = e.perm
      /\ e = Absent <=> e.perm = {}
    BY <1>1, <1>3, LeafIs
<1>5. e # Absent <=> v \in D
    BY <1>1, <1>3 DEF Shows
<1>6. e # Absent => Pa(k, it) = e.pa /\ e.pa \in Pages /\ G[e.pa] = DataOf(p, v) /\ e.perm = PWU
    BY <1>1, <1>3, PageAt
<1>7. PWU # {}
    BY DEF PWU
<1> QED
    BY <1>2, <1>3, <1>4, <1>5, <1>6, <1>7

\* The processes see the pages of data in their address spaces.
LEMMA SpaceInIs ==
    ASSUME NEW k, NEW G, Layout(k, G, {}), NEW pt, NEW D,
           \A p \in Processes : Has(k, G, p, pt[p].pagetable, D[p]),
           \A p \in Processes : D[p] \subseteq ProcStart .. StackPage
    PROVE  SpaceAs(SpaceIn(k, pt), k, pt, D)
<1>0. \A v \in ProcStart .. StackPage : v \in 0 .. VaEnd - 1 /\ ~ (v < ProcStart)
    BY LowPages
<1> SUFFICES ASSUME NEW t
             PROVE  t \in SpaceIn(k, pt) <=> \E p \in Processes : \E v \in D[p] :
                          t = <<p, v, k.mem[Leaf(k, pt[p].pagetable, v).pa]>>
    BY DEF SpaceAs
<1>1. ASSUME t \in SpaceIn(k, pt)
      PROVE  \E p \in Processes : \E v \in D[p] : t = <<p, v, k.mem[Leaf(k, pt[p].pagetable, v).pa]>>
    <2>1. PICK p \in Processes, v \in ProcStart .. StackPage :
             \E it : /\ it = Vmiter(k, pt[p].pagetable, v) /\ User(k, it)
                     /\ t = <<p, it.va, k.mem[Pa(k, it)]>>
        BY <1>1 DEF SpaceIn
    <2>2. PICK it : /\ it = Vmiter(k, pt[p].pagetable, v) /\ User(k, it)
                    /\ t = <<p, it.va, k.mem[Pa(k, it)]>>
        BY <2>1
    <2>3. PICK root : root = pt[p].pagetable
        OBVIOUS
    <2>4. PICK E : E = D[p]
        OBVIOUS
    <2>5. p \in Nat /\ Has(k, G, p, root, E) /\ it = Vmiter(k, root, v)
        BY <2>2, <2>3, <2>4, ImageIs
    <2>6. it.va = v /\ v \in E /\ Pa(k, it) = Leaf(k, root, v).pa
        BY <1>0, <2>2, <2>5, UserPage
    <2>7. t = <<p, v, k.mem[Leaf(k, root, v).pa]>>
        BY <2>2, <2>6
    <2> QED
        BY <2>3, <2>4, <2>6, <2>7
<1>2. ASSUME NEW p \in Processes, NEW v \in D[p], t = <<p, v, k.mem[Leaf(k, pt[p].pagetable, v).pa]>>
      PROVE  t \in SpaceIn(k, pt)
    <2>1. PICK it : it = Vmiter(k, pt[p].pagetable, v)
        OBVIOUS
    <2>2. PICK root : root = pt[p].pagetable
        OBVIOUS
    <2>3. PICK E : E = D[p]
        OBVIOUS
    <2>4. p \in Nat /\ Has(k, G, p, root, E) /\ it = Vmiter(k, root, v) /\ v \in E
          /\ v \in ProcStart .. StackPage
        BY <2>1, <2>2, <2>3, ImageIs
    <2>5. it.va = v /\ User(k, it) /\ Pa(k, it) = Leaf(k, root, v).pa
        BY <1>0, <2>4, UserPage
    <2>6. t = <<p, it.va, k.mem[Pa(k, it)]>>
        BY <1>2, <2>2, <2>5
    <2>7. PICK I : I = {i \in {Vmiter(k, pt[p].pagetable, va) : va \in ProcStart .. StackPage} : User(k, i)}
        OBVIOUS
    <2>8. it \in I
        <3>1. it \in {Vmiter(k, pt[p].pagetable, va) : va \in ProcStart .. StackPage}
            BY <2>1, <2>4
        <3> QED
            BY <2>5, <2>7, <3>1
    <2>9. t \in {<<p, i.va, k.mem[Pa(k, i)]>> : i \in I}
        BY <2>6, <2>8
    <2> QED
        BY <2>7, <2>9 DEF SpaceIn
<1> QED
    BY <1>1, <1>2

----------------------------------------------------------------------------
(* Init                                                                     *)

LEMMA ProcessesIn == Processes \subseteq Pids /\ \A p \in Processes : p \in Nat /\ p < NPROC
<1>1. PICK n : Cardinality(Processes) = n
    OBVIOUS
<1>2. n \in Nat /\ n < NPROC /\ Processes = 1 .. n /\ NPROC \in Nat
    BY <1>1, ProcessesAre, KernelAssumption
<1> QED
    BY <1>2 DEF Pids

LEMMA InitIs ==
    ASSUME Init
    PROVE  /\ phys = kernel_start.k
           /\ ptable = [p \in Pids |->
                 IF p \in Processes THEN [state |-> "P_RUNNABLE", pagetable |-> kernel_start.roots[p]]
                 ELSE [state |-> "P_FREE", pagetable |-> NoPage]]
           /\ current = 1 /\ mode = "user" /\ viewer = NoPage
           /\ at = [p \in Processes |-> "start"]
           /\ heap_top = [p \in Processes |-> End(p)]
    BY StartIs DEF Init

LEMMA MapsStart ==
    ASSUME Init, NEW p \in Processes
    PROVE  Maps[p] = LoadedPages(p) \cup {StackPage}
<1>1. at[p] = "start" /\ heap_top[p] = End(p)
    BY InitIs
<1>2. End(p) .. End(p) - 1 = {}
    BY EndIs
<1> QED
    BY <1>1, <1>2 DEF Maps, MappedBy

\* kernel_start establishes the invariant, with the programs loaded.
LEMMA StartReady ==
    ASSUME Init
    PROVE  \E G : /\ Holds(phys, G, viewer, ptable, Maps) /\ Lost(G, viewer, {})
                  /\ \A p \in Processes : Ready(phys, G, p, ptable[p].pagetable)
<1>1. PICK n : Cardinality(Processes) = n
    OBVIOUS
<1>2. n \in Nat /\ Processes = 1 .. n
    BY <1>1, ProcessesAre
<1>3. PICK k : kernel_start.k = k
    OBVIOUS
<1>4. PICK roots : kernel_start.roots = roots
    OBVIOUS
<1>5. AllReady(k, roots, n)
    BY <1>1, <1>3, <1>4, StartIs
<1>6. PICK G : /\ Layout(k, G, {})
               /\ \A q \in Pages : \/ G[q].kind = "none"
                                   \/ G[q].kind \in {"table", "data"} /\ G[q].pid \in 1 .. n
               /\ \A i \in 1 .. n : Ready(k, G, i, roots[i])
    BY <1>5 DEF AllReady
<1>7. phys = k /\ viewer = NoPage /\ \A p \in Processes : ptable[p].pagetable = roots[p]
    BY <1>3, <1>4, InitIs, ProcessesIn
<1>8. Inner(k, G, NoPage)
    <2>1. Free(k) # {}
        BY <1>3, BootAssumption DEF BootAssumes
    <2>2. \A q \in Pages : q # NoPage
        BY PageTableAssumption
    <2> QED
        BY <1>2, <1>6, <2>1, <2>2 DEF Inner
<1>9. ASSUME NEW p \in Processes
      PROVE  Ready(k, G, p, roots[p]) /\ Has(k, G, p, roots[p], Maps[p])
    <2>1. Ready(k, G, p, roots[p])
        BY <1>2, <1>6
    <2> QED
        BY <2>1, MapsStart DEF Ready, Has
<1>10. Holds(phys, G, viewer, ptable, Maps)
    BY <1>7, <1>8, <1>9 DEF Holds
<1>11. Lost(G, viewer, {})
    <2>1. \A q \in Pages : G[q].kind # "viewer"
        BY <1>6
    <2> QED
        BY <2>1 DEF Lost
<1> QED
    BY <1>7, <1>9, <1>10, <1>11

\* A root is a page that kalloc gave out.
LEMMA RootIn ==
    ASSUME NEW k, NEW G, NEW v, NEW pt, NEW D, Holds(k, G, v, pt, D), NEW p \in Processes
    PROVE  pt[p].pagetable \in Allocatable
<1>1. IsRoot(G, p, pt[p].pagetable) /\ Layout(k, G, {})
    BY DEF Holds, Has, Inner
<1>2. PICK r : r = pt[p].pagetable
    OBVIOUS
<1>3. r \in Pages /\ G[r].kind = "table"
    BY <1>1, <1>2, RoleFields DEF IsRoot
<1>4. r \in Allocatable
    <2>1. Owned(k, G)
        BY <1>1 DEF Layout
    <2> QED
        BY <1>3, <2>1 DEF Owned
<1> QED
    BY <1>2, <1>4

\* The invariant holds when the kernel has started.
LEMMA KernelInit == Init => KernelInv
<1> SUFFICES ASSUME Init PROVE KernelInv
    OBVIOUS
<1>1. InnerInv
    BY StartReady DEF InnerInv, Sees
<1>2. PICK G : Holds(phys, G, viewer, ptable, Maps)
    BY <1>1 DEF InnerInv, Sees
<1>3. \A p \in Processes : ptable[p].pagetable \in Allocatable
    BY <1>2, RootIn
<1>4. \A p \in Pids : IF p \in Processes THEN ptable[p] = [state |-> "P_RUNNABLE", pagetable |-> kernel_start.roots[p]]
                      ELSE ptable[p] = [state |-> "P_FREE", pagetable |-> NoPage]
    BY InitIs
<1>5. \A p \in Pids : ptable[p] \in [state : {"P_FREE", "P_RUNNABLE", "P_BROKEN"},
                                     pagetable : Allocatable \cup {NoPage}]
    <2> SUFFICES ASSUME NEW p \in Pids
                 PROVE  ptable[p] \in [state : {"P_FREE", "P_RUNNABLE", "P_BROKEN"},
                                       pagetable : Allocatable \cup {NoPage}]
        OBVIOUS
    <2>1. CASE p \in Processes
        <3>1. ptable[p] = [state |-> "P_RUNNABLE", pagetable |-> kernel_start.roots[p]]
            BY <1>4, <2>1
        <3>2. PICK r \in Allocatable : r = ptable[p].pagetable
            BY <1>3, <2>1
        <3>3. ptable[p] = [state |-> "P_RUNNABLE", pagetable |-> r]
            BY <3>1, <3>2
        <3> QED
            BY <3>3
    <2>2. CASE p \notin Processes
        <3>1. ptable[p] = [state |-> "P_FREE", pagetable |-> NoPage]
            BY <1>4, <2>2
        <3> QED
            BY <3>1
    <2> QED
        BY <2>1, <2>2
<1>6. ptable \in [Pids -> [state : {"P_FREE", "P_RUNNABLE", "P_BROKEN"},
                           pagetable : Allocatable \cup {NoPage}]]
    <2>1. ptable = [p \in Pids |-> ptable[p]]
        BY InitIs
    <2> QED
        BY <1>5, <2>1
<1>7. current \in Processes /\ mode = "user"
    <2>1. PICK n : Cardinality(Processes) = n
        OBVIOUS
    <2>2. n \in Nat /\ n > 0 /\ Processes = 1 .. n
        BY <2>1, ProcessesAre
    <2> QED
        BY <2>2, InitIs
<1>8. at \in [Processes -> {"start", "loop", "write", "done"}] /\ heap_top \in [Processes -> 0 .. StackPage]
      /\ \A p \in Processes : End(p) <= heap_top[p] /\ at[p] # "write"
    <2>1. \A p \in Processes : End(p) \in 0 .. StackPage /\ End(p) <= End(p)
        BY EndIs, LowPages
    <2> QED
        BY <2>1, InitIs
<1>9. ASSUME NEW p \in Pids \ Processes PROVE ptable[p].state = "P_FREE"
    <2>1. ptable[p] = [state |-> "P_FREE", pagetable |-> NoPage]
        BY <1>4
    <2> QED
        BY <2>1
<1> QED
    BY <1>1, <1>6, <1>7, <1>8, <1>9 DEF KernelInv, OuterInv

----------------------------------------------------------------------------
(* Traps                                                                    *)

\* What the processes see now, and after a step.
LEMMA SpaceNow ==
    ASSUME NEW G, NEW D, Holds(phys, G, viewer, ptable, D), Within(D)
    PROVE  SpaceAs(Space, phys, ptable, D)
<1>1. Space = SpaceIn(phys, ptable)
    BY DEF Space, SpaceIn, Root
<1>2. Layout(phys, G, {}) /\ \A p \in Processes : Has(phys, G, p, ptable[p].pagetable, D[p])
    BY DEF Holds, Inner
<1> QED
    BY <1>1, <1>2, SpaceInIs DEF Within

LEMMA SpaceNext ==
    ASSUME NEW k, NEW G, NEW v, NEW pt, NEW D, Holds(k, G, v, pt, D), Within(D), phys' = k, ptable' = pt
    PROVE  SpaceAs(Space', k, pt, D)
<1>1. Space' = SpaceIn(k, pt)
    BY DEF Space, SpaceIn, Root
<1>2. Layout(k, G, {}) /\ \A p \in Processes : Has(k, G, p, pt[p].pagetable, D[p])
    BY DEF Holds, Inner
<1> QED
    BY <1>1, <1>2, SpaceInIs DEF Within

LEMMA MapsAre ==
    ASSUME OuterInv, NEW p \in Processes
    PROVE  /\ Maps[p] = MappedBy(p, at[p], heap_top[p])
           /\ \A v \in Maps[p] : v \in ProcStart .. StackPage /\ v \in 0 .. VaEnd - 1 /\ ~ (v < ProcStart)
                                 /\ v \in 0 .. MemVirtual
<1>1. heap_top[p] \in 0 .. StackPage /\ End(p) <= heap_top[p]
    BY DEF OuterInv
<1>2. Maps[p] = MappedBy(p, at[p], heap_top[p])
    BY DEF Maps
<1> QED
    BY <1>1, <1>2, MappedByIs

\* Two memories in which every process sees the same.
LEMMA SameSeen ==
    ASSUME NEW k, NEW G, NEW k1, NEW G1, SameSpaces(k, G, k1, G1), Layout(k, G, {}),
           NEW p \in Processes, NEW root, NEW D, Has(k, G, p, root, D),
           NEW v \in D, v \in 0 .. VaEnd - 1, ~ (v < ProcStart)
    PROVE  k1.mem[Leaf(k1, root, v).pa] = k.mem[Leaf(k, root, v).pa]
<1>1. p \in Nat /\ root \in Pages /\ IsRoot(G, p, root)
    BY ImageIs DEF Has, IsRoot
<1>2. Leaf(k1, root, v) = Leaf(k, root, v)
    BY <1>1 DEF SameSpaces, SameLeaves
<1>3. PICK q : q = Leaf(k, root, v).pa
    OBVIOUS
<1>4. q \in Pages /\ G[q] = DataOf(p, v)
    BY <1>1, <1>3, UserPage
<1>5. G[q].kind = "data"
    BY <1>4, RoleFields
<1>6. k1.mem[q] = k.mem[q]
    BY <1>4, <1>5 DEF SameSpaces
<1> QED
    BY <1>2, <1>3, <1>6

\* The memory after memshow(): k, with the viewer's page v.
ShownTo(k, v, D, L) ==
    /\ v # NoPage
    /\ Sees(k, v, ptable, D, L)
    /\ SpaceAs(Space, k, ptable, D)

\* After memshow() the invariant holds of the memory that the system call starts from.
LEMMA ShownHolds ==
    ASSUME NEW D, NEW L, Now(D, L)
    PROVE  ShownTo(Shown.k, Shown.page, D, L)
<1>0. PICK k : k = Shown.k
    OBVIOUS
<1>1. PICK G : Holds(phys, G, viewer, ptable, D) /\ Lost(G, viewer, L)
    BY DEF Now, Sees
<1>2. Inner(phys, G, viewer) /\ Layout(phys, G, {})
    BY <1>1 DEF Holds, Inner
<1>3. PICK v : v = Shown.page
    OBVIOUS
<1>4. ShownAs(phys, G, viewer, k, v) /\ v # NoPage
    BY <1>0, <1>2, <1>3, ShownIs
<1>5. PICK G1 : Inner(k, G1, v) /\ SameSpaces(phys, G, k, G1) /\ Lost(G1, v, L)
    BY <1>1, <1>4 DEF ShownAs
<1>6. ASSUME NEW p \in Processes PROVE Has(k, G1, p, ptable[p].pagetable, D[p])
    <2>1. PICK r : r = ptable[p].pagetable
        OBVIOUS
    <2>2. PICK E : E = D[p]
        OBVIOUS
    <2>3. Has(phys, G, p, r, E) /\ p \in Nat
        BY <1>1, <2>1, <2>2, ImageIs DEF Holds
    <2>4. Has(k, G1, p, r, E)
        BY <1>5, <2>3, HasKept
    <2> QED
        BY <2>1, <2>2, <2>4
<1>7. Holds(k, G1, v, ptable, D)
    BY <1>5, <1>6 DEF Holds
<1>8. SpaceAs(Space, k, ptable, D)
    <2>1. SpaceAs(Space, phys, ptable, D)
        BY <1>1, SpaceNow DEF Now
    <2>2. ASSUME NEW p \in Processes, NEW w \in D[p]
          PROVE  k.mem[Leaf(k, ptable[p].pagetable, w).pa]
                 = phys.mem[Leaf(phys, ptable[p].pagetable, w).pa]
        <3>1. PICK r : r = ptable[p].pagetable
            OBVIOUS
        <3>2. PICK E : E = D[p]
            OBVIOUS
        <3>3. Has(phys, G, p, r, E)
            BY <1>1, <3>1, <3>2 DEF Holds
        <3>4. w \in E /\ w \in 0 .. VaEnd - 1 /\ ~ (w < ProcStart)
            BY <3>2, LowPages DEF Now, Within
        <3>5. k.mem[Leaf(k, r, w).pa] = phys.mem[Leaf(phys, r, w).pa]
            BY <1>2, <1>5, <3>3, <3>4, SameSeen
        <3> QED
            BY <3>1, <3>5
    <2> QED
        BY <2>1, <2>2 DEF SpaceAs
<1> QED
    BY <1>0, <1>3, <1>4, <1>5, <1>7, <1>8 DEF ShownTo, Sees

\* A trap that allocates nothing for the process: memshow() and no more.
LEMMA QuietTrap ==
    ASSUME NEW D, NEW L, Now(D, L), Trap, phys' = Shown.k,
           \A p \in Processes : ptable'[p].pagetable = ptable[p].pagetable
    PROVE  Sees(phys', viewer', ptable', D, L) /\ viewer' # NoPage /\ Space' = Space
<1>1. PICK k : k = Shown.k
    OBVIOUS
<1>2. PICK v : v = Shown.page
    OBVIOUS
<1>3. phys' = k /\ viewer' = v
    BY <1>1, <1>2 DEF Trap
<1>4. v # NoPage /\ Sees(k, v, ptable, D, L) /\ SpaceAs(Space, k, ptable, D)
    BY <1>1, <1>2, ShownHolds DEF ShownTo
<1>5. PICK G : Holds(k, G, v, ptable, D) /\ Lost(G, v, L)
    BY <1>4 DEF Sees
<1>6. PICK pt : pt = ptable'
    OBVIOUS
<1>7. Holds(k, G, v, pt, D)
    BY <1>5, <1>6 DEF Holds
<1>8. SpaceAs(Space', k, pt, D)
    BY <1>3, <1>6, <1>7, SpaceNext DEF Now
<1>9. SpaceAs(Space, k, pt, D)
    BY <1>4, <1>6 DEF SpaceAs
<1>10. Space' = Space
    <2>1. \A t : t \in Space' <=> t \in Space
        BY <1>8, <1>9 DEF SpaceAs
    <2> QED
        BY <2>1
<1>11. Sees(k, v, pt, D, L)
    BY <1>5, <1>7 DEF Sees
<1> QED
    BY <1>3, <1>4, <1>6, <1>10, <1>11

\* check_pagetable never fails, and the next process is runnable.
LEMMA ScheduleIs ==
    ASSUME NEW k, NEW G, NEW v, NEW pt, NEW D, Holds(k, G, v, pt, D),
           \A p \in Pids \ Processes : pt[p].state = "P_FREE",
           current \in Processes, viewer' # NoPage, Schedule(k, pt)
    PROVE  current' \in Processes /\ mode' \in {"user", "spin"}
<1> DEFINE turns == {i \in 1 .. NPROC : Runnable(pt, (current + i) % NPROC)}
<1>1. CASE turns = {}
    BY <1>1 DEF Schedule
<1>2. CASE turns # {}
    <2>0. NPROC \in Nat /\ current \in Nat /\ current < NPROC
        BY KernelAssumption, ProcessesIn
    <2>1. PICK i \in turns : \A j \in turns : i <= j
        <3>1. turns \in SUBSET Nat
            BY <2>0
        <3> QED
            BY <1>2, <3>1, LeastNat
    <2>2. PICK c : c = CHOOSE h \in turns : \A j \in turns : h <= j
        OBVIOUS
    <2>3. c \in turns
        BY <2>1, <2>2
    <2>4. PICK p : p = (current + c) % NPROC
        OBVIOUS
    <2>5. Run(p, k, pt)
        BY <1>2, <2>2, <2>4 DEF Schedule
    <2>6. Runnable(pt, p) /\ p \in Pids
        <3>1. Runnable(pt, p)
            BY <2>3, <2>4
        <3>2. current + c \in Nat /\ NPROC \in Nat /\ NPROC > 0
            BY <2>0, <2>3
        <3>3. p \in 0 .. NPROC - 1
            BY <2>4, <3>2, DivIs
        <3> QED
            BY <3>1, <3>3 DEF Pids
    <2>7. p \in Processes
        BY <2>6 DEF Runnable
    <2>8. check_pagetable(k, pt[p].pagetable)
        <3>1. PICK r : r = pt[p].pagetable
            OBVIOUS
        <3>2. Layout(k, G, {}) /\ IsRoot(G, p, r) /\ Shows(k, r, D[p]) /\ p \in Nat
            BY <2>7, <3>1, ImageIs DEF Holds, Inner, Has
        <3>3. ASSUME NEW pa \in KernelImage PROVE Pa(k, Vmiter(k, r, pa)) = pa
            <4>1. pa \in 1 .. ProcStart - 1 /\ pa \in 0 .. VaEnd - 1 /\ pa < ProcStart /\ pa # 0
                <5>1. pa \in 1 .. ProcStart - 1
                    BY LayoutAssumption
                <5> QED
                    BY <5>1, LowPages
            <4>2. PICK e : e = Leaf(k, r, pa)
                OBVIOUS
            <4>3. e = Entry(pa, IF pa = Console THEN PWU ELSE {"P", "W"})
                BY <3>2, <4>1, <4>2 DEF Shows, LowEntry
            <4>4. e.pa = pa /\ e.perm # {}
                BY <4>3 DEF Entry, PWU
            <4>5. e # Absent
                BY <4>4, AbsentIs
            <4>6. Pa(k, Vmiter(k, r, pa)) = IF e = Absent THEN NoPage ELSE e.pa
                BY <3>2, <4>1, <4>2, LeafIs
            <4> QED
                BY <4>4, <4>5, <4>6
        <3> QED
            BY <3>1, <3>3 DEF check_pagetable
    <2> QED
        BY <2>5, <2>6, <2>7, <2>8 DEF Run
<1> QED
    BY <1>1, <1>2

\* A step in which no process sees anything change, with pages where they were.
Quiet(D, L) == OuterInv' /\ Sees(phys', viewer', ptable', D, L) /\ Space' = Space

\* A trap that schedules, with some process perhaps marked broken.
LEMMA SchedulingQuiet ==
    ASSUME NEW D, NEW L, Now(D, L), Trap, phys' = Shown.k, Schedule(phys', ptable'),
           UNCHANGED <<at, heap_top>>,
           ptable' \in [Pids -> [state : {"P_FREE", "P_RUNNABLE", "P_BROKEN"},
                                 pagetable : Allocatable \cup {NoPage}]],
           \A p \in Processes : ptable'[p].pagetable = ptable[p].pagetable,
           \A p \in Pids \ Processes : ptable'[p].state = "P_FREE"
    PROVE  Quiet(D, L)
<1>1. Sees(phys', viewer', ptable', D, L) /\ viewer' # NoPage /\ Space' = Space
    BY QuietTrap
<1>2. current' \in Processes /\ mode' \in {"user", "spin"}
    <2>1. PICK G : Holds(phys', G, viewer', ptable', D)
        BY <1>1 DEF Sees
    <2>2. current \in Processes
        BY DEF Now, OuterInv
    <2>3. PICK k : k = phys'
        OBVIOUS
    <2>4. PICK pt : pt = ptable'
        OBVIOUS
    <2>5. PICK v : v = viewer'
        OBVIOUS
    <2>6. Holds(k, G, v, pt, D) /\ Schedule(k, pt) /\ \A p \in Pids \ Processes : pt[p].state = "P_FREE"
        BY <2>1, <2>3, <2>4, <2>5
    <2> QED
        BY <1>1, <2>2, <2>6, ScheduleIs
<1>3. OuterInv'
    BY <1>2 DEF Now, OuterInv
<1> QED
    BY <1>1, <1>3 DEF Quiet

\* INT_IRQ: another process runs.
LEMMA TimerInterruptQuiet ==
    ASSUME NEW D, NEW L, Now(D, L), TimerInterrupt
    PROVE  Quiet(D, L)
<1>1. Trap /\ phys' = Shown.k /\ Schedule(phys', ptable) /\ ptable' = ptable /\ UNCHANGED <<at, heap_top>>
    BY DEF TimerInterrupt
<1>2. Schedule(phys', ptable')
    BY <1>1
<1> QED
    BY <1>1, <1>2, SchedulingQuiet DEF Now, OuterInv

\* INT_PF: the process is broken, its memory stays.
LEMMA PageFaultQuiet ==
    ASSUME NEW D, NEW L, Now(D, L), PageFault
    PROVE  Quiet(D, L)
<1>1. /\ Trap /\ phys' = Shown.k /\ Schedule(phys', ptable') /\ UNCHANGED <<at, heap_top>>
      /\ ptable' = [ptable EXCEPT ![current].state = "P_BROKEN"]
    BY DEF PageFault
<1>2. /\ ptable \in [Pids -> [state : {"P_FREE", "P_RUNNABLE", "P_BROKEN"},
                            pagetable : Allocatable \cup {NoPage}]]
      /\ \A p \in Pids \ Processes : ptable[p].state = "P_FREE"
      /\ current \in Processes /\ current \in Pids
    BY ProcessesIn DEF Now, OuterInv
<1>3. PICK x : x = [ptable[current] EXCEPT !.state = "P_BROKEN"]
    OBVIOUS
<1>4. /\ x \in [state : {"P_FREE", "P_RUNNABLE", "P_BROKEN"}, pagetable : Allocatable \cup {NoPage}]
      /\ x.pagetable = ptable[current].pagetable
    <2>1. PICK s \in {"P_FREE", "P_RUNNABLE", "P_BROKEN"}, r \in Allocatable \cup {NoPage} :
             ptable[current] = [state |-> s, pagetable |-> r]
        <3>1. ptable[current] \in [state : {"P_FREE", "P_RUNNABLE", "P_BROKEN"},
                                   pagetable : Allocatable \cup {NoPage}]
            BY <1>2
        <3> QED
            BY <3>1
    <2>2. x = [state |-> "P_BROKEN", pagetable |-> r]
        BY <1>3, <2>1
    <2> QED
        BY <2>1, <2>2
<1>5. ptable' = [p \in Pids |-> IF p = current THEN x ELSE ptable[p]]
    BY <1>1, <1>2, <1>3
<1>6. ptable' \in [Pids -> [state : {"P_FREE", "P_RUNNABLE", "P_BROKEN"},
                            pagetable : Allocatable \cup {NoPage}]]
    BY <1>2, <1>4, <1>5
<1>7. \A p \in Processes : ptable'[p].pagetable = ptable[p].pagetable
    BY <1>4, <1>5, ProcessesIn
<1>8. \A p \in Pids \ Processes : ptable'[p].state = "P_FREE"
    BY <1>2, <1>5
<1> QED
    BY <1>1, <1>6, <1>7, <1>8, SchedulingQuiet

\* A trap that returns to the process, or asks for a panic.
LEMMA ReturningQuiet ==
    ASSUME NEW D, NEW L, Now(D, L), Trap, phys' = Shown.k, UNCHANGED <<ptable, current, heap_top>>,
           at' \in [Processes -> {"start", "loop", "write", "done"}],
           \A p \in Processes : at'[p] = "write" => at[p] = "write",
           viewer' # NoPage => mode' \in {"user", "asked"}
    PROVE  Quiet(D, L)
<1>1. Sees(phys', viewer', ptable', D, L) /\ viewer' # NoPage /\ Space' = Space
    BY QuietTrap
<1>2. OuterInv'
    BY <1>1 DEF Now, OuterInv
<1> QED
    BY <1>1, <1>2 DEF Quiet

\* SYSCALL_PANIC stops the kernel, as asked.
LEMMA PanicQuiet ==
    ASSUME NEW D, NEW L, Now(D, L), Panic
    PROVE  Quiet(D, L)
<1>1. /\ Trap /\ mode' = "asked" /\ phys' = Shown.k /\ UNCHANGED <<ptable, current, heap_top>>
      /\ at' = at
    BY DEF Panic
<1>2. at' \in [Processes -> {"start", "loop", "write", "done"}]
    BY <1>1 DEF Now, OuterInv
<1> QED
    BY <1>1, <1>2, ReturningQuiet

----------------------------------------------------------------------------
(* The steps of p-allocator.cc in which nothing that processes see changes  *)

\* A step in which no process sees anything change.
QuietStep == KernelInv' /\ current' \in Processes /\ Space' = Space

LEMMA MapsSame ==
    ASSUME heap_top' = heap_top, \A p \in Processes : at'[p] = "write" <=> at[p] = "write"
    PROVE  Maps' = Maps
<1>1. \A p \in Processes : MappedBy(p, at'[p], heap_top[p]) = MappedBy(p, at[p], heap_top[p])
    BY DEF MappedBy
<1> QED
    BY <1>1 DEF Maps

LEMMA NowIs ==
    ASSUME KernelInv, NEW D, D = Maps, NEW L, L = {}
    PROVE  Now(D, L)
<1>1. Within(D)
    BY MapsAre DEF KernelInv, Within
<1> QED
    BY <1>1 DEF Now, KernelInv, InnerInv

LEMMA QuietIs ==
    ASSUME NEW D, NEW L, L = {}, D = Maps, Maps' = Maps, Quiet(D, L)
    PROVE  QuietStep
<1>1. OuterInv' /\ InnerInv' /\ Space' = Space
    BY DEF Quiet, InnerInv
<1> QED
    BY <1>1 DEF QuietStep, KernelInv, OuterInv

\* INT_IRQ, INT_PF and a panic keep the pages of all.
LEMMA ExceptionStep ==
    ASSUME KernelInv, TimerInterrupt \/ PageFault \/ Panic
    PROVE  QuietStep
<1>1. PICK D : D = Maps
    OBVIOUS
<1>2. PICK L : L = {}
    OBVIOUS
<1>3. Quiet(D, L)
    BY <1>1, <1>2, NowIs, TimerInterruptQuiet, PageFaultQuiet, PanicQuiet
<1>4. Maps' = Maps
    BY MapsSame DEF TimerInterrupt, PageFault, Panic
<1> QED
    BY <1>1, <1>2, <1>3, <1>4, QuietIs

\* SYSCALL_YIELD: another process runs.
LEMMA YieldStep ==
    ASSUME KernelInv, Yield
    PROVE  QuietStep
<1>1. Trap /\ phys' = Shown.k /\ Schedule(phys', ptable) /\ ptable' = ptable /\ UNCHANGED <<at, heap_top>>
    BY DEF Yield
<1>2. Schedule(phys', ptable')
    BY <1>1
<1>3. PICK D : D = Maps
    OBVIOUS
<1>4. PICK L : L = {}
    OBVIOUS
<1>5. Quiet(D, L)
    BY <1>1, <1>2, <1>3, <1>4, NowIs, SchedulingQuiet DEF KernelInv, OuterInv
<1>6. Maps' = Maps
    BY <1>1, MapsSame
<1> QED
    BY <1>3, <1>4, <1>5, <1>6, QuietIs

\* A trap that returns to the process.
LEMMA ReturningStep ==
    ASSUME KernelInv, Trap, phys' = Shown.k, UNCHANGED <<ptable, current, heap_top>>,
           at' \in [Processes -> {"start", "loop", "write", "done"}],
           \A p \in Processes : at'[p] = "write" <=> at[p] = "write",
           viewer' # NoPage => mode' = mode
    PROVE  QuietStep
<1>1. PICK D : D = Maps
    OBVIOUS
<1>2. PICK L : L = {}
    OBVIOUS
<1>3. viewer' # NoPage => mode' \in {"user", "asked"}
    BY DEF Trap
<1>4. Quiet(D, L)
    BY <1>1, <1>2, <1>3, NowIs, ReturningQuiet
<1>5. Maps' = Maps
    BY MapsSame
<1> QED
    BY <1>1, <1>2, <1>4, <1>5, QuietIs

\* SYSCALL_GETPID returns to the process.
LEMMA GetpidStep ==
    ASSUME KernelInv, Getpid
    PROVE  QuietStep
<1>1. /\ Trap /\ at[current] = "start" /\ at' = [at EXCEPT ![current] = "loop"]
      /\ phys' = Shown.k /\ UNCHANGED <<ptable, current, heap_top>>
      /\ viewer' # NoPage => mode' = mode
      /\ mode = "user"
    BY DEF Getpid, Trap
<1>2. at \in [Processes -> {"start", "loop", "write", "done"}] /\ current \in Processes
    BY DEF KernelInv, OuterInv
<1>3. at' \in [Processes -> {"start", "loop", "write", "done"}]
    BY <1>1, <1>2
<1>4. \A p \in Processes : at'[p] = "write" <=> at[p] = "write"
    BY <1>1, <1>2
<1> QED
    BY <1>1, <1>3, <1>4, ReturningStep

\* The process stops allocating at its stack.
LEMMA ReachStackStep ==
    ASSUME KernelInv, ReachStack
    PROVE  QuietStep
<1>1. /\ at[current] = "loop" /\ at' = [at EXCEPT ![current] = "done"]
      /\ UNCHANGED <<phys, ptable, current, mode, viewer, heap_top>>
    BY DEF ReachStack
<1>2. at \in [Processes -> {"start", "loop", "write", "done"}] /\ current \in Processes
    BY DEF KernelInv, OuterInv
<1>3. at' \in [Processes -> {"start", "loop", "write", "done"}]
    BY <1>1, <1>2
<1>4. \A p \in Processes : at'[p] = "write" <=> at[p] = "write"
    BY <1>1, <1>2
<1>5. Maps' = Maps
    BY <1>1, <1>4, MapsSame
<1>6. InnerInv'
    BY <1>1, <1>5 DEF KernelInv, InnerInv
<1>7. OuterInv'
    BY <1>1, <1>3, <1>4 DEF KernelInv, OuterInv
<1>8. Space' = Space
    BY <1>1 DEF Space, Root
<1> QED
    BY <1>1, <1>2, <1>6, <1>7, <1>8 DEF QuietStep, KernelInv

----------------------------------------------------------------------------
(* The steps that change what a process sees                                *)

\* What syscall_page_alloc comes to: no page left, or a new page, if try_map's assertions hold
\* and the page is found where it was mapped.
LEMMA AllocResult ==
    ASSUME NEW k, NEW addr, NEW r, r = Root(current), NEW m, MapNew(k, r, addr) = m,
           NEW ptr, Pa(m, Vmiter(m, r, addr)) = ptr, NEW s, s = syscall_page_alloc(k, addr)
    PROVE  /\ Free(k) = {} => s.k = k /\ s.result < 0 /\ ~ (s.result > 0)
           /\ Free(k) # {} /\ MapNewAsserts(k, r, addr) /\ ptr # NoPage =>
                 s.k = StoreIn(m, ptr, Zero) /\ ~ (s.result < 0) /\ ~ (s.result > 0)
<1>1. PICK pa : pa = FreePage(k)
    OBVIOUS
<1>2. CASE Free(k) = {}
    <2>1. pa = NoPage
        BY <1>1, <1>2, FreePageIs
    <2>2. s = [k |-> k, result |-> -1]
        BY <1>1, <2>1 DEF syscall_page_alloc
    <2>3. s.k = k /\ s.result = -1 /\ -1 < 0 /\ ~ (-1 > 0)
        BY <2>2
    <2> QED
        BY <1>2, <2>3
<1>3. CASE Free(k) # {} /\ MapNewAsserts(k, r, addr) /\ ptr # NoPage
    <2>1. pa # NoPage
        BY <1>1, <1>3, FreePageIs
    <2>2. m = MemoryMap(Take(k, pa), r, addr, pa, PWU).k
        BY <1>1, <2>1 DEF MapNew
    <2>3. s = [k |-> StoreIn(m, ptr, Zero), result |-> 0]
        BY <1>1, <1>3, <2>1, <2>2 DEF syscall_page_alloc, StoreIn
    <2>4. s.k = StoreIn(m, ptr, Zero) /\ s.result = 0 /\ ~ (0 < 0) /\ ~ (0 > 0)
        BY <2>3
    <2> QED
        BY <1>3, <2>4
<1> QED
    BY <1>2, <1>3

\* A page at h added to the pages of process c.
AddedAt(D, c, h) == [p \in Processes |-> IF p = c THEN D[p] \cup {h} ELSE D[p]]

\* The invariant after syscall_page_alloc.
LEMMA AllocHolds ==
    ASSUME NEW k, NEW G, NEW k2, NEW G2, NEW v, NEW c \in Processes, NEW h \in ProcStart .. StackPage, NEW pa,
           NEW pt, NEW D, Holds(k, G, v, pt, D), Alloc(k, G, k2, G2, v, c, pt[c].pagetable, h, pa)
    PROVE  Holds(k2, G2, v, pt, AddedAt(D, c, h))
<1>1. PICK r : r = pt[c].pagetable
    OBVIOUS
<1>2. Has(k, G, c, r, D[c]) /\ Alloc(k, G, k2, G2, v, c, r, h, pa)
    BY <1>1 DEF Holds
<1>3. IsRoot(G, c, r)
    BY <1>2 DEF Has
<1>4. ASSUME NEW p \in Processes PROVE Has(k2, G2, p, pt[p].pagetable, AddedAt(D, c, h)[p])
    <2>1. PICK rp : rp = pt[p].pagetable
        OBVIOUS
    <2>2. PICK E : E = D[p]
        OBVIOUS
    <2>3. Has(k, G, p, rp, E)
        BY <2>1, <2>2 DEF Holds
    <2>4. Has(k2, G2, p, rp, IF p = c THEN E \cup {h} ELSE E)
        BY <1>2, <1>3, <2>3, AllocHas
    <2>5. AddedAt(D, c, h)[p] = IF p = c THEN E \cup {h} ELSE E
        BY <2>2 DEF AddedAt
    <2> QED
        BY <2>1, <2>4, <2>5
<1>5. Inner(k2, G2, v)
    BY <1>2 DEF Alloc
<1> QED
    BY <1>4, <1>5 DEF Holds

\* In k2 the new page of c, at h, is zeroed, and the pages at D hold what they hold in k.
SeenNew(k, k2, pt, D, c, h) ==
    /\ k2.mem[Leaf(k2, pt[c].pagetable, h).pa] = Zero
    /\ \A p \in Processes : \A w \in D[p] :
          k2.mem[Leaf(k2, pt[p].pagetable, w).pa] = k.mem[Leaf(k, pt[p].pagetable, w).pa]

\* What the processes see of it.
LEMMA AllocSeen ==
    ASSUME NEW k, NEW G, NEW k2, NEW G2, NEW v, NEW c \in Processes, NEW h \in ProcStart .. StackPage, NEW pa,
           NEW pt, NEW D, Holds(k, G, v, pt, D), Alloc(k, G, k2, G2, v, c, pt[c].pagetable, h, pa),
           h \notin D[c], \A p \in Processes : D[p] \subseteq ProcStart .. StackPage
    PROVE  SeenNew(k, k2, pt, D, c, h)
<1>0. \A w \in ProcStart .. StackPage : w \in 0 .. VaEnd - 1 /\ ~ (w < ProcStart)
    BY LowPages
<1>1. PICK r : r = pt[c].pagetable
    OBVIOUS
<1>2. Has(k, G, c, r, D[c]) /\ Alloc(k, G, k2, G2, v, c, r, h, pa) /\ c \in Nat
    BY <1>1, ImageIs DEF Holds
<1>3. IsRoot(G, c, r) /\ r \in Pages
    BY <1>2 DEF Has, IsRoot
<1>4. Leaf(k2, r, h) = Entry(pa, PWU) /\ k2.mem[pa] = Zero
    BY <1>0, <1>2, <1>3 DEF Alloc
<1>5. Entry(pa, PWU).pa = pa
    BY DEF Entry
<1>6. ASSUME NEW p \in Processes, NEW w \in D[p]
      PROVE  k2.mem[Leaf(k2, pt[p].pagetable, w).pa] = k.mem[Leaf(k, pt[p].pagetable, w).pa]
    <2>1. PICK rp : rp = pt[p].pagetable
        OBVIOUS
    <2>2. PICK E : E = D[p]
        OBVIOUS
    <2>3. Has(k, G, p, rp, E) /\ p \in Nat /\ w \in E /\ w \in 0 .. VaEnd - 1 /\ ~ (w < ProcStart)
        BY <1>0, <2>1, <2>2, ImageIs DEF Holds
    <2>4. IsRoot(G, p, rp) /\ rp \in Pages
        BY <2>3 DEF Has, IsRoot
    <2>5. ~ (rp = r /\ w = h)
        <3>1. ASSUME rp = r, w = h PROVE FALSE
            <4>1. TableOf(p, TopLevel, 0) = TableOf(c, TopLevel, 0)
                BY <1>3, <2>4, <3>1 DEF IsRoot
            <4>2. p = c
                BY <4>1, TableOfIs
            <4> QED
                BY <2>2, <2>3, <3>1, <4>2
        <3> QED
            BY <3>1
    <2>6. Leaf(k2, rp, w) = Leaf(k, rp, w)
        BY <1>2, <2>3, <2>4, <2>5 DEF Alloc
    <2>7. PICK q : q = Leaf(k, rp, w).pa
        OBVIOUS
    <2>8. q \in Pages /\ G[q] = DataOf(p, w)
        <3>1. Layout(k, G, {})
            BY DEF Holds, Inner
        <3> QED
            BY <2>3, <2>7, <3>1, UserPage
    <2>9. k2.mem[q] = k.mem[q]
        BY <1>2, <2>8, RoleFields DEF Alloc
    <2> QED
        BY <2>1, <2>6, <2>7, <2>9
<1> QED
    BY <1>1, <1>4, <1>5, <1>6 DEF SeenNew

\* One more page to see.
LEMMA SpaceAdded ==
    ASSUME NEW sp, NEW sp2, NEW k, NEW k2, NEW pt, NEW D, NEW c \in Processes, NEW h, NEW E,
           E = AddedAt(D, c, h), SpaceAs(sp, k, pt, D), SpaceAs(sp2, k2, pt, E), h \notin D[c],
           SeenNew(k, k2, pt, D, c, h)
    PROVE  /\ sp2 = sp \cup {<<c, h, Zero>>}
           /\ \A u \in sp : u[1] = c => u[2] # h
<1>0. \A p \in Processes : E[p] = IF p = c THEN D[p] \cup {h} ELSE D[p]
    BY DEF AddedAt
<1>1. ASSUME NEW u \in sp2 PROVE u \in sp \cup {<<c, h, Zero>>}
    <2>1. PICK p \in Processes : \E w \in E[p] : u = <<p, w, k2.mem[Leaf(k2, pt[p].pagetable, w).pa]>>
        BY DEF SpaceAs
    <2>2. PICK w \in E[p] : u = <<p, w, k2.mem[Leaf(k2, pt[p].pagetable, w).pa]>>
        BY <2>1
    <2>3. CASE w \in D[p]
        <3>1. u = <<p, w, k.mem[Leaf(k, pt[p].pagetable, w).pa]>>
            BY <2>2, <2>3 DEF SeenNew
        <3>2. u \in sp
            BY <2>3, <3>1 DEF SpaceAs
        <3> QED
            BY <3>2
    <2>4. CASE w \notin D[p]
        <3>1. p = c /\ w = h
            BY <1>0, <2>4
        <3> QED
            BY <2>2, <3>1 DEF SeenNew
    <2> QED
        BY <2>3, <2>4
<1>2. ASSUME NEW u \in sp PROVE u \in sp2 /\ (u[1] = c => u[2] # h)
    <2>1. PICK p \in Processes : \E w \in D[p] : u = <<p, w, k.mem[Leaf(k, pt[p].pagetable, w).pa]>>
        BY DEF SpaceAs
    <2>2. PICK w \in D[p] : u = <<p, w, k.mem[Leaf(k, pt[p].pagetable, w).pa]>>
        BY <2>1
    <2>3. w \in E[p] /\ u = <<p, w, k2.mem[Leaf(k2, pt[p].pagetable, w).pa]>>
        BY <1>0, <2>2 DEF SeenNew
    <2>4. u \in sp2
        BY <2>3 DEF SpaceAs
    <2>5. u[1] = p /\ u[2] = w
        BY <2>2
    <2> QED
        BY <2>4, <2>5
<1>3. <<c, h, Zero>> \in sp2
    <2>1. h \in E[c] /\ <<c, h, Zero>> = <<c, h, k2.mem[Leaf(k2, pt[c].pagetable, h).pa]>>
        BY <1>0 DEF SeenNew
    <2> QED
        BY <2>1 DEF SpaceAs
<1> QED
    BY <1>1, <1>2, <1>3

\* A new page of c at h: everybody has the pages of D still, and c one more.
Allocated(k, k2, v, pt, D, L, c, h) ==
    Sees(k2, v, pt, AddedAt(D, c, h), L) /\ SeenNew(k, k2, pt, D, c, h)

\* With a page left a new page is mapped where the process has none.
LEMMA AllocWorks ==
    ASSUME NEW k, NEW v, v # NoPage, NEW pt, NEW D, Within(D), NEW L, Sees(k, v, pt, D, L),
           NEW c \in Processes, NEW h \in ProcStart .. StackPage, h \notin D[c], Free(k) # {},
           NEW r, pt[c].pagetable = r, NEW m, MapNew(k, r, h) = m, NEW ptr, Pa(m, Vmiter(m, r, h)) = ptr
    PROVE  MapNewAsserts(k, r, h) /\ ptr # NoPage /\ Allocated(k, StoreIn(m, ptr, Zero), v, pt, D, L, c, h)
<1>1. PICK G : Holds(k, G, v, pt, D) /\ Lost(G, v, L)
    BY DEF Sees
<1>2. PICK E : E = D[c]
    OBVIOUS
<1>3. Inner(k, G, v) /\ Has(k, G, c, r, E) /\ h \notin E
    BY <1>1, <1>2 DEF Holds
<1>4. ptr # NoPage /\ AllocAs(k, G, StoreIn(m, ptr, Zero), v, c, r, h) /\ MapNewAsserts(k, r, h)
    BY <1>3, AllocIs
<1>5. PICK k2 : k2 = StoreIn(m, ptr, Zero)
    OBVIOUS
<1>6. PICK G2, pa : Alloc(k, G, k2, G2, v, c, r, h, pa)
    BY <1>4, <1>5 DEF AllocAs
<1>7. Alloc(k, G, k2, G2, v, c, pt[c].pagetable, h, pa)
    BY <1>6
<1>8. Holds(k2, G2, v, pt, AddedAt(D, c, h))
    BY <1>1, <1>7, AllocHolds
<1>9. Lost(G2, v, L)
    BY <1>1, <1>6 DEF Alloc
<1>10. SeenNew(k, k2, pt, D, c, h)
    BY <1>1, <1>7, AllocSeen DEF Within
<1>11. Sees(k2, v, pt, AddedAt(D, c, h), L)
    BY <1>8, <1>9 DEF Sees
<1> QED
    BY <1>4, <1>5, <1>10, <1>11 DEF Allocated

\* What the processes see of it.
LEMMA AllocShows ==
    ASSUME NEW k, NEW k2, NEW v, NEW pt, NEW D, Within(D), NEW L, NEW c \in Processes,
           NEW h \in ProcStart .. StackPage, h \notin D[c], NEW sp, SpaceAs(sp, k, pt, D),
           Allocated(k, k2, v, pt, D, L, c, h), phys' = k2, ptable' = pt
    PROVE  /\ Space' = sp \cup {<<c, h, Zero>>}
           /\ \A u \in sp : u[1] = c => u[2] # h
<1>1. PICK E : E = AddedAt(D, c, h)
    OBVIOUS
<1>2. Within(E)
    BY <1>1 DEF Within, AddedAt
<1>3. PICK G : Holds(k2, G, v, pt, E)
    BY <1>1 DEF Allocated, Sees
<1>4. PICK sp2 : sp2 = Space'
    OBVIOUS
<1>5. SpaceAs(sp2, k2, pt, E)
    BY <1>2, <1>3, <1>4, SpaceNext
<1>6. SeenNew(k, k2, pt, D, c, h)
    BY DEF Allocated
<1> QED
    BY <1>1, <1>4, <1>5, <1>6, SpaceAdded

LEMMA MapsWrite ==
    ASSUME KernelInv, at[current] = "loop", heap_top' = heap_top, at' = [at EXCEPT ![current] = "write"]
    PROVE  Maps' = AddedAt(Maps, current, heap_top[current])
<1>1. current \in Processes /\ at \in [Processes -> {"start", "loop", "write", "done"}]
    BY DEF KernelInv, OuterInv
<1>2. ASSUME NEW p \in Processes
      PROVE  MappedBy(p, at'[p], heap_top[p]) = IF p = current THEN Maps[p] \cup {heap_top[p]} ELSE Maps[p]
    <2>1. CASE p = current
        <3>1. at'[p] = "write" /\ at[p] # "write"
            BY <1>1, <2>1
        <3> QED
            BY <2>1, <3>1 DEF MappedBy, Maps
    <2>2. CASE p # current
        <3>1. at'[p] = at[p]
            BY <1>1, <2>2
        <3> QED
            BY <2>2, <3>1 DEF Maps
    <2> QED
        BY <2>1, <2>2
<1>3. Maps' = [p \in Processes |-> MappedBy(p, at'[p], heap_top[p])]
    BY DEF Maps
<1> QED
    BY <1>2, <1>3 DEF AddedAt

\* A step that allocates a page for the process that runs.
AllocatingStep ==
    /\ KernelInv'
    /\ current' = current
    /\ Space' = Space \cup {<<current, heap_top[current], Zero>>}
    /\ \A u \in Space : u[1] = current => u[2] # heap_top[current]

\* SYSCALL_PAGE_ALLOC: a new page for the process, or -1 and nothing.
LEMMA PageAllocStep ==
    ASSUME KernelInv, PageAlloc
    PROVE  QuietStep \/ AllocatingStep
<1>1. PICK k : k = Shown.k
    OBVIOUS
<1>2. PICK v : v = Shown.page
    OBVIOUS
<1>3. PICK D : D = Maps
    OBVIOUS
<1>4. PICK L : L = {}
    OBVIOUS
<1>5. PICK pt : pt = ptable
    OBVIOUS
<1>6. PICK c : c = current
    OBVIOUS
<1>7. PICK h : h = heap_top[c]
    OBVIOUS
<1>8. PICK r : pt[c].pagetable = r
    OBVIOUS
<1>9. PICK m : MapNew(k, r, h) = m
    OBVIOUS
<1>10. PICK ptr : Pa(m, Vmiter(m, r, h)) = ptr
    OBVIOUS
<1>11. Now(D, L)
    BY <1>3, <1>4, NowIs
<1>12. v # NoPage /\ Sees(k, v, pt, D, L) /\ SpaceAs(Space, k, pt, D)
    BY <1>1, <1>2, <1>5, <1>11, ShownHolds DEF ShownTo
<1>13. PICK s : /\ s = syscall_page_alloc(k, h)
                /\ phys' = s.k
                /\ at' = [at EXCEPT ![current] = IF s.result < 0 THEN "done" ELSE "write"]
                /\ mode' = IF s.result > 0 \/ viewer' = NoPage THEN "panic" ELSE mode
    BY <1>1, <1>6, <1>7 DEF PageAlloc
<1>14. /\ Trap /\ at[current] = "loop" /\ h # StackPage /\ UNCHANGED <<ptable, current, heap_top>>
       /\ viewer' = v /\ mode = "user"
    BY <1>2, <1>6, <1>7 DEF PageAlloc, Trap
<1>15. r = Root(current)
    BY <1>5, <1>6, <1>8 DEF Root
<1>16. /\ c \in Processes /\ h \in 0 .. StackPage /\ End(c) <= h
       /\ at \in [Processes -> {"start", "loop", "write", "done"}]
       /\ heap_top \in [Processes -> 0 .. StackPage]
       /\ \A p \in Processes : End(p) <= heap_top[p] /\ (at[p] = "write" => heap_top[p] # StackPage)
    BY <1>6, <1>7 DEF KernelInv, OuterInv
<1>17. h \in ProcStart .. StackPage
    <2>1. ProcStart <= End(c) /\ End(c) \in Nat /\ ProcStart \in Nat
        BY <1>16, EndIs, LowPages
    <2> QED
        BY <1>16, <2>1
<1>18. h \notin D[c]
    <2>1. D[c] = MappedBy(c, at[c], h)
        BY <1>3, <1>7, <1>16 DEF Maps
    <2>2. at[c] # "write"
        BY <1>6, <1>14
    <2> QED
        BY <1>14, <1>16, <2>1, <2>2, MappedByIs
<1>19. CASE Free(k) = {}
    <2>1. s.k = k /\ s.result < 0 /\ ~ (s.result > 0)
        BY <1>9, <1>10, <1>13, <1>15, <1>19, AllocResult
    <2>2. at' = [at EXCEPT ![current] = "done"] /\ phys' = Shown.k
        BY <1>1, <1>13, <2>1
    <2>3. at' \in [Processes -> {"start", "loop", "write", "done"}]
        BY <1>16, <2>2
    <2>4. \A p \in Processes : at'[p] = "write" <=> at[p] = "write"
        BY <1>14, <1>16, <2>2
    <2>5. viewer' # NoPage => mode' = mode
        BY <1>13, <2>1
    <2> QED
        BY <1>14, <2>2, <2>3, <2>4, <2>5, ReturningStep
<1>20. CASE Free(k) # {}
    <2>1. MapNewAsserts(k, r, h) /\ ptr # NoPage /\ Allocated(k, StoreIn(m, ptr, Zero), v, pt, D, L, c, h)
        BY <1>8, <1>9, <1>10, <1>11, <1>12, <1>16, <1>17, <1>18, <1>20, AllocWorks DEF Now
    <2>2. s.k = StoreIn(m, ptr, Zero) /\ ~ (s.result < 0) /\ ~ (s.result > 0)
        BY <1>9, <1>10, <1>13, <1>15, <1>20, <2>1, AllocResult
    <2>3. PICK k2 : k2 = phys'
        OBVIOUS
    <2>4. Allocated(k, k2, v, pt, D, L, c, h)
        BY <1>13, <2>1, <2>2, <2>3
    <2>5. at' = [at EXCEPT ![current] = "write"] /\ mode' = "user"
        BY <1>12, <1>13, <1>14, <2>2
    <2>6. Maps' = AddedAt(D, c, h)
        BY <1>3, <1>6, <1>7, <1>14, <2>5, MapsWrite
    <2>7. InnerInv'
        <3>1. Sees(k2, v, pt, AddedAt(D, c, h), L)
            BY <2>4 DEF Allocated
        <3>2. viewer' = v /\ ptable' = pt /\ phys' = k2
            BY <1>5, <1>14, <2>3
        <3> QED
            BY <1>4, <2>6, <3>1, <3>2 DEF InnerInv
    <2>8. OuterInv'
        <3>1. at' \in [Processes -> {"start", "loop", "write", "done"}]
            BY <1>16, <2>5
        <3>2. \A p \in Processes : at'[p] = "write" => heap_top[p] # StackPage
            BY <1>6, <1>7, <1>14, <1>16, <2>5
        <3> QED
            BY <1>14, <2>5, <3>1, <3>2 DEF KernelInv, OuterInv
    <2>9. PICK sp : sp = Space
        OBVIOUS
    <2>10. Space' = sp \cup {<<c, h, Zero>>} /\ \A u \in sp : u[1] = c => u[2] # h
        <3>1. SpaceAs(sp, k, pt, D) /\ phys' = k2 /\ ptable' = pt
            BY <1>5, <1>12, <1>14, <2>3, <2>9
        <3> QED
            BY <1>11, <1>16, <1>17, <1>18, <2>4, <3>1, AllocShows DEF Now
    <2>11. KernelInv' /\ current' = current
        BY <1>14, <2>7, <2>8 DEF KernelInv
    <2>12. AllocatingStep
        BY <1>6, <1>7, <2>9, <2>10, <2>11 DEF AllocatingStep
    <2> QED
        BY <2>12
<1> QED
    BY <1>19, <1>20

\* A step that stores the pid of the process that runs in one of its pages.
StoringStep ==
    /\ KernelInv'
    /\ current' = current
    /\ \E t \in Space : /\ t[1] = current
                        /\ Space' = (Space \ {t}) \cup {<<current, t[2], Data("stored", current, 0)>>}

\* The page at h of process c now holds s, and the other pages at D what they held.
SeenStored(k, k2, pt, D, c, h, s) ==
    \A p \in Processes : \A w \in D[p] :
       k2.mem[Leaf(k2, pt[p].pagetable, w).pa] =
          IF p = c /\ w = h THEN s ELSE k.mem[Leaf(k, pt[p].pagetable, w).pa]

\* The invariant after a store of the process, and what the others see.
LEMMA StoreHolds ==
    ASSUME NEW k, NEW G, NEW v, NEW pt, NEW D, Holds(k, G, v, pt, D),
           \A p \in Processes : D[p] \subseteq ProcStart .. StackPage,
           NEW c \in Processes, NEW h \in D[c], NEW q, Leaf(k, pt[c].pagetable, h).pa = q,
           NEW s \in Contents, NEW k2, StoreIn(k, q, s) = k2
    PROVE  Holds(k2, G, v, pt, D) /\ SeenStored(k, k2, pt, D, c, h, s)
<1>0. \A w \in ProcStart .. StackPage : w \in 0 .. VaEnd - 1 /\ ~ (w < ProcStart)
    BY LowPages
<1>1. Inner(k, G, v) /\ Layout(k, G, {})
    BY DEF Holds, Inner
<1>2. ASSUME NEW p \in Processes, NEW w \in D[p], NEW x, x = Leaf(k, pt[p].pagetable, w).pa
      PROVE  x \in Pages /\ G[x] = DataOf(p, w)
    <2>1. PICK r : r = pt[p].pagetable
        OBVIOUS
    <2>2. PICK E : E = D[p]
        OBVIOUS
    <2>3. Has(k, G, p, r, E) /\ p \in Nat /\ w \in E /\ w \in 0 .. VaEnd - 1 /\ ~ (w < ProcStart)
        BY <1>0, <2>1, <2>2, ImageIs DEF Holds
    <2>4. x = Leaf(k, r, w).pa
        BY <1>2, <2>1
    <2> QED
        BY <1>1, <2>3, <2>4, UserPage
<1>3. q \in Pages /\ G[q] = DataOf(c, h)
    BY <1>2
<1>4. G[q].kind = "data"
    BY <1>3, RoleFields
<1>5. StoreAs(k, G, k2, v, q, s)
    <2>1. StoreAs(k, G, StoreIn(k, q, s), v, q, s)
        BY <1>1, <1>3, <1>4, StoreIs
    <2> QED
        BY <2>1
<1>6. /\ Inner(k2, G, v) /\ SameLeaves(k, G, k2)
      /\ k2.mem[q] = s /\ \A r \in Pages : r # q => k2.mem[r] = k.mem[r]
    BY <1>5 DEF StoreAs
<1>7. ASSUME NEW p \in Processes
      PROVE  /\ Has(k2, G, p, pt[p].pagetable, D[p])
             /\ \A w \in D[p] : Leaf(k2, pt[p].pagetable, w) = Leaf(k, pt[p].pagetable, w)
    <2>1. PICK r : r = pt[p].pagetable
        OBVIOUS
    <2>2. PICK E : E = D[p]
        OBVIOUS
    <2>3. Has(k, G, p, r, E) /\ p \in Nat
        BY <2>1, <2>2, ImageIs DEF Holds
    <2>4. r \in Pages /\ IsRoot(G, p, r)
        BY <2>3 DEF Has, IsRoot
    <2>5. \A w \in 0 .. VaEnd - 1 : Leaf(k2, r, w) = Leaf(k, r, w)
        BY <1>6, <2>3, <2>4 DEF SameLeaves
    <2>6. Shows(k2, r, E)
        BY <2>3, <2>5 DEF Has, Shows
    <2>7. Has(k2, G, p, r, E)
        BY <2>3, <2>6 DEF Has
    <2>8. \A w \in E : w \in 0 .. VaEnd - 1
        BY <1>0, <2>2
    <2> QED
        BY <2>1, <2>2, <2>5, <2>7, <2>8
<1>8. Holds(k2, G, v, pt, D)
    BY <1>6, <1>7 DEF Holds
<1>9. ASSUME NEW p \in Processes, NEW w \in D[p]
      PROVE  k2.mem[Leaf(k2, pt[p].pagetable, w).pa] =
                IF p = c /\ w = h THEN s ELSE k.mem[Leaf(k, pt[p].pagetable, w).pa]
    <2>1. PICK x : x = Leaf(k, pt[p].pagetable, w).pa
        OBVIOUS
    <2>2. x \in Pages /\ G[x] = DataOf(p, w)
        BY <1>2, <2>1
    <2>3. Leaf(k2, pt[p].pagetable, w).pa = x
        BY <1>7, <2>1
    <2>4. x = q <=> p = c /\ w = h
        <3>1. ASSUME x = q PROVE p = c /\ w = h
            <4>1. DataOf(p, w) = DataOf(c, h)
                BY <1>3, <2>2, <3>1
            <4> QED
                BY <4>1, DataOfIs
        <3>2. ASSUME p = c, w = h PROVE x = q
            BY <2>1, <3>2
        <3> QED
            BY <3>1, <3>2
    <2>5. k2.mem[x] = IF p = c /\ w = h THEN s ELSE k.mem[x]
        BY <1>6, <2>2, <2>4
    <2> QED
        BY <2>1, <2>3, <2>5
<1> QED
    BY <1>8, <1>9 DEF SeenStored

\* One page of c in sp holds s in sp2.
StoredFrom(sp, sp2, c, s) == \E t \in sp : t[1] = c /\ sp2 = (sp \ {t}) \cup {<<c, t[2], s>>}

\* One page that processes see is changed.
LEMMA SpaceStored ==
    ASSUME NEW sp, NEW sp2, NEW k, NEW k2, NEW pt, NEW D, NEW c \in Processes, NEW h \in D[c], NEW s,
           SpaceAs(sp, k, pt, D), SpaceAs(sp2, k2, pt, D), SeenStored(k, k2, pt, D, c, h, s)
    PROVE  StoredFrom(sp, sp2, c, s)
<1>1. PICK t : t = <<c, h, k.mem[Leaf(k, pt[c].pagetable, h).pa]>>
    OBVIOUS
<1>2. t \in sp /\ t[1] = c /\ t[2] = h
    BY <1>1 DEF SpaceAs
<1>3. PICK u0 : u0 = <<c, h, s>>
    OBVIOUS
<1>4. ASSUME NEW u \in sp2 PROVE u \in (sp \ {t}) \cup {u0}
    <2>1. PICK p \in Processes : \E w \in D[p] : u = <<p, w, k2.mem[Leaf(k2, pt[p].pagetable, w).pa]>>
        BY DEF SpaceAs
    <2>2. PICK w \in D[p] : u = <<p, w, k2.mem[Leaf(k2, pt[p].pagetable, w).pa]>>
        BY <2>1
    <2>3. CASE p = c /\ w = h
        <3>1. k2.mem[Leaf(k2, pt[p].pagetable, w).pa] = s
            BY <2>3 DEF SeenStored
        <3> QED
            BY <1>3, <2>2, <2>3, <3>1
    <2>4. CASE ~ (p = c /\ w = h)
        <3>1. k2.mem[Leaf(k2, pt[p].pagetable, w).pa] = k.mem[Leaf(k, pt[p].pagetable, w).pa]
            BY <2>4 DEF SeenStored
        <3>2. u = <<p, w, k.mem[Leaf(k, pt[p].pagetable, w).pa]>>
            BY <2>2, <3>1
        <3>3. u \in sp
            BY <3>2 DEF SpaceAs
        <3>4. u # t
            BY <1>1, <2>4, <3>2
        <3> QED
            BY <3>3, <3>4
    <2> QED
        BY <2>3, <2>4
<1>5. ASSUME NEW u \in sp, u # t PROVE u \in sp2
    <2>1. PICK p \in Processes : \E w \in D[p] : u = <<p, w, k.mem[Leaf(k, pt[p].pagetable, w).pa]>>
        BY DEF SpaceAs
    <2>2. PICK w \in D[p] : u = <<p, w, k.mem[Leaf(k, pt[p].pagetable, w).pa]>>
        BY <2>1
    <2>3. ~ (p = c /\ w = h)
        BY <1>1, <1>5, <2>2
    <2>4. k2.mem[Leaf(k2, pt[p].pagetable, w).pa] = k.mem[Leaf(k, pt[p].pagetable, w).pa]
        BY <2>3 DEF SeenStored
    <2>5. u = <<p, w, k2.mem[Leaf(k2, pt[p].pagetable, w).pa]>>
        BY <2>2, <2>4
    <2> QED
        BY <2>5 DEF SpaceAs
<1>6. u0 \in sp2
    <2>1. k2.mem[Leaf(k2, pt[c].pagetable, h).pa] = s
        BY DEF SeenStored
    <2>2. u0 = <<c, h, k2.mem[Leaf(k2, pt[c].pagetable, h).pa]>>
        BY <1>3, <2>1
    <2> QED
        BY <2>2 DEF SpaceAs
<1>7. sp2 = (sp \ {t}) \cup {u0}
    BY <1>4, <1>5, <1>6
<1> QED
    BY <1>2, <1>3, <1>7 DEF StoredFrom

\* The page just written is the last of the heap.
LEMMA MapsLoop ==
    ASSUME KernelInv, at[current] = "write", heap_top' = [heap_top EXCEPT ![current] = @ + 1],
           at' = [at EXCEPT ![current] = "loop"]
    PROVE  /\ Maps' = Maps /\ heap_top[current] \in Maps[current]
           /\ at' \in [Processes -> {"start", "loop", "write", "done"}]
           /\ heap_top' \in [Processes -> 0 .. StackPage]
           /\ \A p \in Processes : End(p) <= heap_top'[p] /\ (at'[p] = "write" => heap_top'[p] # StackPage)
<1>1. /\ current \in Processes
      /\ at \in [Processes -> {"start", "loop", "write", "done"}]
      /\ heap_top \in [Processes -> 0 .. StackPage]
      /\ \A p \in Processes : End(p) <= heap_top[p] /\ (at[p] = "write" => heap_top[p] # StackPage)
    BY DEF KernelInv, OuterInv
<1>2. PICK h \in 0 .. StackPage : h = heap_top[current]
    BY <1>1
<1>3. h # StackPage /\ h + 1 \in 0 .. StackPage /\ End(current) <= h /\ End(current) <= h + 1
      /\ End(current) .. (h + 1) - 1 = (End(current) .. h - 1) \cup {h}
    <2>1. End(current) \in Nat /\ StackPage \in Nat
        BY <1>1, EndIs, LowPages
    <2>2. h # StackPage /\ End(current) <= h
        BY <1>1, <1>2
    <2>3. (h + 1) - 1 = h /\ h + 1 \in 0 .. StackPage
        BY <1>2, <2>1, <2>2
    <2>4. \A x : x \in End(current) .. h <=> x \in End(current) .. h - 1 \/ x = h
        BY <1>2, <2>1, <2>2
    <2> QED
        BY <1>2, <2>1, <2>2, <2>3, <2>4
<1>4. \A p \in Processes : /\ heap_top'[p] = IF p = current THEN h + 1 ELSE heap_top[p]
                           /\ at'[p] = IF p = current THEN "loop" ELSE at[p]
    BY <1>1, <1>2
<1>5. at' \in [Processes -> {"start", "loop", "write", "done"}]
    BY <1>1
<1>6. heap_top' \in [Processes -> 0 .. StackPage]
    <2>1. heap_top' = [p \in Processes |-> heap_top'[p]]
        BY <1>1
    <2>2. \A p \in Processes : heap_top'[p] \in 0 .. StackPage
        BY <1>1, <1>3, <1>4
    <2> QED
        BY <2>1, <2>2
<1>7. \A p \in Processes : End(p) <= heap_top'[p] /\ (at'[p] = "write" => heap_top'[p] # StackPage)
    BY <1>1, <1>3, <1>4
<1>8. ASSUME NEW p \in Processes
      PROVE  MappedBy(p, at'[p], heap_top'[p]) = MappedBy(p, at[p], heap_top[p])
    <2>1. CASE p = current
        <3>1. at[p] = "write" /\ at'[p] = "loop" /\ heap_top[p] = h /\ heap_top'[p] = h + 1
            BY <1>2, <1>4, <2>1
        <3>2. MappedBy(p, "write", h) = MappedBy(p, "loop", h + 1)
            BY <1>3, <2>1 DEF MappedBy
        <3> QED
            BY <3>1, <3>2
    <2>2. CASE p # current
        BY <1>4, <2>2
    <2> QED
        BY <2>1, <2>2
<1>9. Maps' = Maps
    <2>1. Maps' = [p \in Processes |-> MappedBy(p, at'[p], heap_top'[p])]
        BY DEF Maps
    <2>2. Maps = [p \in Processes |-> MappedBy(p, at[p], heap_top[p])]
        BY DEF Maps
    <2> QED
        BY <1>8, <2>1, <2>2
<1>10. heap_top[current] \in Maps[current]
    BY <1>1 DEF Maps, MappedBy
<1> QED
    BY <1>5, <1>6, <1>7, <1>9, <1>10

\* The store of p-allocator.cc in its new page.
LEMMA WriteHeapStep ==
    ASSUME KernelInv, WriteHeap
    PROVE  StoringStep
<1>1. PICK c : c = current
    OBVIOUS
<1>2. PICK h : h = heap_top[c]
    OBVIOUS
<1>3. PICK r : r = ptable[c].pagetable
    OBVIOUS
<1>4. PICK k : k = phys
    OBVIOUS
<1>5. PICK pt : pt = ptable
    OBVIOUS
<1>6. PICK D : D = Maps
    OBVIOUS
<1>7. PICK q : q = Pa(k, Vmiter(k, r, h))
    OBVIOUS
<1>8. PICK s : s = Data("stored", c, 0)
    OBVIOUS
<1>9. PICK k2 : k2 = phys'
    OBVIOUS
<1>10. /\ mode = "user" /\ at[current] = "write"
       /\ at' = [at EXCEPT ![current] = "loop"]
       /\ heap_top' = [heap_top EXCEPT ![current] = @ + 1]
       /\ UNCHANGED <<ptable, current, mode, viewer>>
       /\ StoreIn(k, q, s) = k2
    BY <1>1, <1>2, <1>3, <1>4, <1>7, <1>8, <1>9 DEF WriteHeap, Root, StoreIn
<1>11. /\ Maps' = Maps /\ heap_top[current] \in Maps[current]
       /\ at' \in [Processes -> {"start", "loop", "write", "done"}]
       /\ heap_top' \in [Processes -> 0 .. StackPage]
       /\ \A p \in Processes : End(p) <= heap_top'[p] /\ (at'[p] = "write" => heap_top'[p] # StackPage)
    BY <1>10, MapsLoop
<1>12. PICK G : Holds(k, G, viewer, pt, D) /\ Lost(G, viewer, {})
    BY <1>4, <1>5, <1>6 DEF KernelInv, InnerInv, Sees
<1>13. c \in Processes /\ h \in D[c] /\ \A p \in Processes : D[p] \subseteq ProcStart .. StackPage
    <2>1. current \in Processes
        BY DEF KernelInv, OuterInv
    <2>2. \A p \in Processes : Maps[p] \subseteq ProcStart .. StackPage
        BY MapsAre DEF KernelInv
    <2> QED
        BY <1>1, <1>2, <1>6, <1>11, <2>1, <2>2
<1>14. Leaf(k, pt[c].pagetable, h).pa = q
    <2>1. h \in 0 .. VaEnd - 1 /\ ~ (h < ProcStart)
        BY <1>13, LowPages
    <2>2. PICK E : E = D[c]
        OBVIOUS
    <2>3. Has(k, G, c, r, E) /\ Layout(k, G, {}) /\ c \in Nat /\ h \in E
        BY <1>3, <1>5, <1>12, <1>13, <2>2, ImageIs DEF Holds, Inner
    <2>4. PICK it : it = Vmiter(k, r, h)
        OBVIOUS
    <2>5. Pa(k, it) = Leaf(k, r, h).pa
        BY <2>1, <2>3, <2>4, UserPage
    <2> QED
        BY <1>3, <1>5, <1>7, <2>4, <2>5
<1>15. s \in Contents
    BY <1>8, <1>13 DEF Contents
<1>16. PICK v : v = viewer
    OBVIOUS
<1>17. Holds(k2, G, v, pt, D) /\ SeenStored(k, k2, pt, D, c, h, s)
    BY <1>10, <1>12, <1>13, <1>14, <1>15, <1>16, StoreHolds
<1>18. InnerInv'
    <2>1. viewer' = v /\ ptable' = pt /\ Maps' = D
        BY <1>5, <1>6, <1>10, <1>11, <1>16
    <2>2. Sees(k2, v, pt, D, {})
        BY <1>12, <1>16, <1>17 DEF Sees
    <2> QED
        BY <1>9, <2>1, <2>2 DEF InnerInv
<1>19. OuterInv'
    BY <1>10, <1>11 DEF KernelInv, OuterInv
<1>20. PICK sp : sp = Space
    OBVIOUS
<1>21. PICK sp2 : sp2 = Space'
    OBVIOUS
<1>22. SpaceAs(sp, k, pt, D)
    <2>1. Holds(phys, G, viewer, ptable, D) /\ Within(D)
        BY <1>4, <1>5, <1>12, <1>13 DEF Within
    <2>2. SpaceAs(Space, phys, ptable, D)
        BY <2>1, SpaceNow
    <2> QED
        BY <1>4, <1>5, <1>20, <2>2
<1>23. SpaceAs(sp2, k2, pt, D)
    <2>1. Within(D) /\ phys' = k2 /\ ptable' = pt
        BY <1>5, <1>9, <1>10, <1>13 DEF Within
    <2>2. SpaceAs(Space', k2, pt, D)
        BY <1>17, <2>1, SpaceNext
    <2> QED
        BY <1>21, <2>2
<1>24. StoredFrom(sp, sp2, c, s)
    BY <1>13, <1>17, <1>22, <1>23, SpaceStored
<1>25. KernelInv' /\ current' = current
    BY <1>10, <1>18, <1>19 DEF KernelInv
<1> QED
    BY <1>1, <1>8, <1>20, <1>21, <1>24, <1>25 DEF StoringStep, StoredFrom

----------------------------------------------------------------------------
(* The theorems                                                             *)

\* Every step keeps the invariant, and does one of four things to what processes see.
LEMMA KernelStep ==
    ASSUME KernelInv, [Next]_vars
    PROVE  KernelInv' /\ (UNCHANGED <<Space, current>> \/ QuietStep \/ AllocatingStep \/ StoringStep)
<1>1. CASE TimerInterrupt
    BY <1>1, ExceptionStep DEF QuietStep
<1>2. CASE PageFault
    BY <1>2, ExceptionStep DEF QuietStep
<1>3. CASE Getpid
    BY <1>3, GetpidStep DEF QuietStep
<1>4. CASE Yield
    BY <1>4, YieldStep DEF QuietStep
<1>5. CASE PageAlloc
    BY <1>5, PageAllocStep DEF QuietStep, AllocatingStep
<1>6. CASE Panic
    BY <1>6, ExceptionStep DEF QuietStep
<1>7. CASE ReachStack
    BY <1>7, ReachStackStep DEF QuietStep
<1>8. CASE WriteHeap
    BY <1>8, WriteHeapStep DEF StoringStep
<1>9. CASE UNCHANGED vars
    <2>1. /\ phys' = phys /\ ptable' = ptable /\ current' = current /\ mode' = mode
          /\ viewer' = viewer /\ at' = at /\ heap_top' = heap_top
        BY <1>9 DEF vars
    <2>2. Space' = Space
        BY <2>1 DEF Space, Root
    <2>3. Maps' = Maps
        BY <2>1 DEF Maps
    <2>4. OuterInv'
        BY <2>1 DEF KernelInv, OuterInv
    <2>5. InnerInv'
        <3>1. PICK D : D = Maps
            OBVIOUS
        <3>2. PICK k, v, pt : k = phys /\ v = viewer /\ pt = ptable
            OBVIOUS
        <3>3. Sees(k, v, pt, D, {})
            BY <3>1, <3>2 DEF KernelInv, InnerInv
        <3> QED
            BY <2>1, <2>3, <3>1, <3>2, <3>3 DEF InnerInv
    <2> QED
        BY <2>1, <2>2, <2>4, <2>5 DEF KernelInv
<1> QED
    BY <1>1, <1>2, <1>3, <1>4, <1>5, <1>6, <1>7, <1>8, <1>9 DEF Next

\* The invariant: every page has its role, every process the address space that its steps
\* so far have made (kernel.c, k-vmiter.cc), and the kernel has not panicked.
THEOREM KernelInvariant == Spec => []KernelInv
<1>1. KernelInv /\ [Next]_vars => KernelInv'
    BY KernelStep
<1> QED
    BY <1>1, KernelInit, PTL DEF Spec

LEMMA DataIsNoTable == \A c \in Contents : ~ IsTable(c)
<1>1. \A kind, p, v : DOMAIN Data(kind, p, v) = {"data"}
    BY DEF Data
<1>2. \A c \in Contents : \E kind, p, v : c = Data(kind, p, v)
    BY DEF Contents, Junk, Zero
<1> QED
    BY <1>1, <1>2 DEF IsTable

\* The types follow from the invariant.
LEMMA InvTypes == KernelInv => KernelTypeOK
<1> SUFFICES ASSUME KernelInv PROVE KernelTypeOK
    OBVIOUS
<1>1. PICK G : Holds(phys, G, viewer, ptable, Maps)
    BY DEF KernelInv, InnerInv, Sees
<1>2. Inner(phys, G, viewer) /\ Layout(phys, G, {})
    BY <1>1 DEF Holds, Inner
<1>3. phys \in Memories /\ Owned(phys, G) /\ G \in [Pages -> Roles] /\ viewer \in Allocatable \cup {NoPage}
    BY <1>2 DEF Inner, Layout
<1>4. ASSUME NEW pa \in Pages
      PROVE  \/ phys.mem[pa] \in Contents
             \/ /\ IsTable(phys.mem[pa])
                /\ phys.mem[pa].entry \in [Index -> [pa : Pages, perm : SUBSET PWU]]
    <2>1. PICK c : c = phys.mem[pa]
        OBVIOUS
    <2>2. c \in Contents \cup Tables
        BY <1>3, <2>1 DEF Memories
    <2>3. CASE c \in Tables
        <3>1. PICK f \in [Index -> [pa : Pages, perm : SUBSET PWU]] : c = [entry |-> f]
            BY <2>3 DEF Tables
        <3>2. c.entry = f /\ DOMAIN c = {"entry"}
            BY <3>1
        <3> QED
            BY <2>1, <3>1, <3>2 DEF IsTable
    <2> QED
        BY <2>1, <2>2, <2>3
<1>5. phys.refcount \in [Pages -> 0 .. 1]
    <2>1. \A q \in Pages : phys.refcount[q] = 0 \/ phys.refcount[q] = 1
        <3>1. \A q \in Pages : G[q].kind = "none" \/ G[q].kind # "none"
            OBVIOUS
        <3> QED
            BY <1>3, <3>1 DEF Owned
    <2>2. phys.refcount \in [Pages -> Nat]
        BY <1>3 DEF Memories
    <2> QED
        BY <2>1, <2>2
<1> QED
    BY <1>3, <1>4, <1>5 DEF KernelTypeOK, KernelInv, OuterInv

\* The process table, pages[] and every page table entry hold what they may hold, and
\* no page is counted twice (kernel.c:23-25, kalloc).
THEOREM KernelTypes == Spec => []KernelTypeOK
    BY KernelInvariant, InvTypes, PTL

\* Process 0 is none, and the kernel has not panicked.
LEMMA OuterAsserts == OuterInv => AssertionsHold
<1> SUFFICES ASSUME OuterInv PROVE AssertionsHold
    OBVIOUS
<1>1. 0 \in Pids
    BY KernelAssumption DEF Pids
<1>2. 0 \notin Processes
    BY KernelAssumption DEF Processes
<1> QED
    BY <1>1, <1>2 DEF OuterInv, AssertionsHold

\* With processes that behave as those of p-allocator.cc, which pass sys_page_alloc the
\* next page of their heap, the assertions of Kernel hold: those of try_map in each of
\* kernel_start's and their calls (k-vmiter.cc:73-86), run()'s (kernel.c:383, k-hardware.cc
\* :305, 309) and the viewer's (k-memviewer.cc:73, 234); and syscall_page_alloc finds
\* the page that it zeroes (kernel.c:349-350).
THEOREM NeverPanics == Spec => []AssertionsHold
<1>1. KernelInv => AssertionsHold
    BY OuterAsserts DEF KernelInv
<1> QED
    BY <1>1, KernelInvariant, PTL

\* What p maps at w: nothing but the console below its program, its own data above.
LEMMA UserSees ==
    ASSUME NEW k, NEW G, NEW v, NEW pt, NEW D, Holds(k, G, v, pt, D), NEW p \in Processes,
           NEW w \in 0 .. VaEnd - 1, NEW r, r = pt[p].pagetable, NEW it, it = Vmiter(k, r, w)
    PROVE  /\ w < ProcStart => /\ User(k, it) <=> w = Console
                               /\ w = Console => Pa(k, it) = Console
           /\ ~ (w < ProcStart) => /\ User(k, it) <=> w \in D[p]
                                   /\ w \in D[p] => Pa(k, it) \in Pages /\ G[Pa(k, it)] = DataOf(p, w)
<1>1. PICK E : E = D[p]
    OBVIOUS
<1>2. Has(k, G, p, r, E) /\ Layout(k, G, {}) /\ p \in Nat
    BY <1>1, ImageIs DEF Holds, Inner
<1>3. IsRoot(G, p, r) /\ Shows(k, r, E)
    BY <1>2 DEF Has
<1>4. CASE w < ProcStart
    <2>1. PICK e : e = Leaf(k, r, w)
        OBVIOUS
    <2>2. /\ Pa(k, it) = IF e = Absent THEN NoPage ELSE e.pa
          /\ User(k, it) <=> e.perm = PWU
          /\ e = Absent <=> e.perm = {}
        BY <1>2, <1>3, <2>1, LeafIs
    <2>3. e = LowEntry(w)
        BY <1>3, <1>4, <2>1 DEF Shows
    <2>4. Console # 0 /\ {"P", "W"} # PWU /\ PWU # {}
        <3>1. Console \in 1 .. ProcStart - 1 /\ "U" \notin {"P", "W"}
            BY LayoutAssumption
        <3>2. Console # 0
            BY <3>1, LayoutAssumption
        <3> QED
            BY <3>1, <3>2 DEF PWU
    <2>5. CASE w = 0
        <3>1. e = Absent
            BY <2>3, <2>5 DEF LowEntry
        <3> QED
            BY <1>4, <2>2, <2>4, <2>5, <3>1
    <2>6. CASE w = Console
        <3>1. e = Entry(Console, PWU)
            BY <2>3, <2>4, <2>6 DEF LowEntry
        <3>2. e.pa = Console /\ e.perm = PWU
            BY <3>1 DEF Entry
        <3> QED
            BY <1>4, <2>2, <2>4, <2>6, <3>2
    <2>7. CASE w # 0 /\ w # Console
        <3>1. e = Entry(w, {"P", "W"})
            BY <2>3, <2>7 DEF LowEntry
        <3>2. e.perm = {"P", "W"}
            BY <3>1 DEF Entry
        <3> QED
            BY <1>4, <2>2, <2>4, <2>7, <3>2
    <2> QED
        BY <2>5, <2>6, <2>7
<1>5. CASE ~ (w < ProcStart)
    <2>1. /\ User(k, it) <=> w \in E
          /\ w \in E => Pa(k, it) = Leaf(k, r, w).pa /\ Leaf(k, r, w).pa \in Pages
                        /\ G[Leaf(k, r, w).pa] = DataOf(p, w)
        BY <1>2, <1>5, UserPage
    <2> QED
        BY <1>1, <1>5, <2>1
<1> QED
    BY <1>4, <1>5

\* Isolation follows from the layout: roles name one process and one address.
LEMMA MapsIsolate ==
    ASSUME NEW G, NEW D, Holds(phys, G, viewer, ptable, D), Within(D),
           \A p \in Processes : StackPage \in D[p]
    PROVE  Isolation
<1> DEFINE maps == UNION {{<<p, va, Pa(phys, Vmiter(phys, Root(p), va))>> :
                              va \in {w \in 0 .. MemVirtual : User(phys, Vmiter(phys, Root(p), w))}} :
                          p \in Processes}
<1>2. Inner(phys, G, viewer) /\ Layout(phys, G, {})
    BY DEF Holds, Inner
<1>3. Owned(phys, G) /\ phys \in Memories
    BY <1>2 DEF Layout
<1>4. /\ ProcStart \in Nat /\ MemVirtual \in Nat /\ Console < ProcStart /\ StackPage < MemVirtual
      /\ Console \in 0 .. MemVirtual /\ StackPage \in 0 .. MemVirtual /\ ~ (StackPage < ProcStart)
      /\ \A w \in 0 .. MemVirtual : w \in 0 .. VaEnd - 1
      /\ Console \notin Allocatable
    <2>1. Console \in 1 .. ProcStart - 1 /\ Console \notin Allocatable
        BY LayoutAssumption, KernelAssumption
    <2>2. VaEnd \in Nat /\ MemVirtual < VaEnd /\ ProcStart \in Nat /\ MemVirtual \in Nat /\ ProcStart < MemVirtual
        BY LowPages, LayoutAssumption
    <2> QED
        BY <2>1, <2>2 DEF StackPage
<1>5. ASSUME NEW p \in Processes, NEW w \in 0 .. MemVirtual, NEW it, it = Vmiter(phys, Root(p), w)
      PROVE  /\ w < ProcStart => /\ User(phys, it) <=> w = Console
                                 /\ w = Console => Pa(phys, it) = Console
             /\ ~ (w < ProcStart) => /\ User(phys, it) <=> w \in D[p]
                                     /\ w \in D[p] => Pa(phys, it) \in Pages /\ G[Pa(phys, it)] = DataOf(p, w)
    <2>1. PICK r : r = ptable[p].pagetable
        OBVIOUS
    <2>2. it = Vmiter(phys, r, w) /\ w \in 0 .. VaEnd - 1
        BY <1>4, <1>5, <2>1 DEF Root
    <2>3. PICK k, v, pt : k = phys /\ v = viewer /\ pt = ptable
        OBVIOUS
    <2>4. Holds(k, G, v, pt, D) /\ it = Vmiter(k, r, w) /\ r = pt[p].pagetable
        BY <2>1, <2>2, <2>3
    <2>5. /\ w < ProcStart => /\ User(k, it) <=> w = Console
                              /\ w = Console => Pa(k, it) = Console
          /\ ~ (w < ProcStart) => /\ User(k, it) <=> w \in D[p]
                                  /\ w \in D[p] => Pa(k, it) \in Pages /\ G[Pa(k, it)] = DataOf(p, w)
        BY <2>2, <2>4, UserSees
    <2> QED
        BY <2>3, <2>5
<1>6. ASSUME NEW m \in maps
      PROVE  \E p \in Processes, w \in 0 .. MemVirtual :
                /\ m[1] = p /\ m[2] = w
                /\ m = <<p, w, m[3]>>
                /\ \/ w = Console /\ m[3] = Console
                   \/ w \in D[p] /\ m[3] \in Pages /\ G[m[3]] = DataOf(p, w)
    <2>1. PICK p \in Processes :
             m \in {<<p, va, Pa(phys, Vmiter(phys, Root(p), va))>> :
                       va \in {w \in 0 .. MemVirtual : User(phys, Vmiter(phys, Root(p), w))}}
        OBVIOUS
    <2>2. PICK w \in 0 .. MemVirtual : /\ User(phys, Vmiter(phys, Root(p), w))
                                       /\ m = <<p, w, Pa(phys, Vmiter(phys, Root(p), w))>>
        BY <2>1
    <2>3. PICK it : it = Vmiter(phys, Root(p), w)
        OBVIOUS
    <2>4. User(phys, it) /\ m = <<p, w, Pa(phys, it)>>
        BY <2>2, <2>3
    <2>5. m[1] = p /\ m[2] = w /\ m[3] = Pa(phys, it)
        BY <2>4
    <2>6. \/ w = Console /\ Pa(phys, it) = Console
          \/ w \in D[p] /\ Pa(phys, it) \in Pages /\ G[Pa(phys, it)] = DataOf(p, w)
        BY <1>5, <2>3, <2>4
    <2> QED
        BY <2>4, <2>5, <2>6
<1>7. \A q \in Pages : G[q].kind = "data" => q \in Allocatable \ {viewer} /\ ~ IsTable(phys.mem[q])
    <2>1. \A q \in Pages : G[q].kind = "data" => q \in Allocatable /\ phys.mem[q] \in Contents /\ q # viewer
        BY <1>2, <1>3, PageTableAssumption DEF Owned, Inner
    <2> QED
        BY <2>1, DataIsNoTable
<1>8. \A p \in Processes : \A w \in D[p] : w < MemVirtual /\ ~ (w < ProcStart)
    <2>1. \A p \in Processes : \A w \in D[p] : w \in ProcStart .. StackPage
        BY DEF Within
    <2> QED
        BY <1>4, <2>1 DEF StackPage
<1>9. \A p, w : DataOf(p, w).kind = "data"
    BY RoleFields
<1>10. ASSUME NEW m \in maps
       PROVE  IF m[2] < ProcStart THEN m[2] = Console /\ m[3] = Console
              ELSE m[2] < MemVirtual /\ m[3] \in Allocatable \ {viewer} /\ ~ IsTable(phys.mem[m[3]])
    <2>1. PICK p \in Processes, w \in 0 .. MemVirtual :
             /\ m[1] = p /\ m[2] = w
             /\ m = <<p, w, m[3]>>
             /\ \/ w = Console /\ m[3] = Console
                \/ w \in D[p] /\ m[3] \in Pages /\ G[m[3]] = DataOf(p, w)
        BY <1>6
    <2>2. CASE w = Console /\ m[3] = Console
        BY <1>4, <2>1, <2>2
    <2>3. CASE w \in D[p] /\ m[3] \in Pages /\ G[m[3]] = DataOf(p, w)
        <3>1. G[m[3]].kind = "data"
            BY <1>9, <2>3
        <3>2. m[3] \in Allocatable \ {viewer} /\ ~ IsTable(phys.mem[m[3]])
            BY <1>7, <2>3, <3>1
        <3>3. m[2] < MemVirtual /\ ~ (m[2] < ProcStart)
            BY <1>8, <2>1, <2>3
        <3> QED
            BY <3>2, <3>3
    <2> QED
        BY <2>1, <2>2, <2>3
<1>11. ASSUME NEW m \in maps, NEW n \in maps, m[3] = n[3], m[3] # Console
       PROVE  m = n
    <2>1. PICK p \in Processes, w \in 0 .. MemVirtual :
             m = <<p, w, m[3]>> /\ w \in D[p] /\ m[3] \in Pages /\ G[m[3]] = DataOf(p, w)
        BY <1>6, <1>11
    <2>2. PICK p2 \in Processes, w2 \in 0 .. MemVirtual :
             n = <<p2, w2, n[3]>> /\ w2 \in D[p2] /\ n[3] \in Pages /\ G[n[3]] = DataOf(p2, w2)
        BY <1>6, <1>11
    <2>3. DataOf(p, w) = DataOf(p2, w2)
        BY <1>11, <2>1, <2>2
    <2>4. p = p2 /\ w = w2
        BY <2>3, DataOfIs
    <2> QED
        BY <1>11, <2>1, <2>2, <2>4
<1>12. ASSUME NEW p \in Processes
       PROVE  {Console, StackPage} \subseteq {m[2] : m \in {n \in maps : n[1] = p}}
    <2>1. StackPage \in D[p]
        OBVIOUS
    <2>2. ASSUME NEW w \in {Console, StackPage} PROVE w \in {m[2] : m \in {n \in maps : n[1] = p}}
        <3>1. w \in 0 .. MemVirtual
            BY <1>4
        <3>2. PICK it : it = Vmiter(phys, Root(p), w)
            OBVIOUS
        <3>3. User(phys, it)
            BY <1>4, <1>5, <2>1, <3>1, <3>2
        <3>4. w \in {x \in 0 .. MemVirtual : User(phys, Vmiter(phys, Root(p), x))}
            BY <3>1, <3>2, <3>3
        <3>5. PICK t : t = <<p, w, Pa(phys, Vmiter(phys, Root(p), w))>>
            OBVIOUS
        <3>6. t \in maps
            BY <3>4, <3>5
        <3>7. t[1] = p /\ t[2] = w
            BY <3>5
        <3> HIDE DEF maps
        <3> QED
            BY <3>6, <3>7
    <2> HIDE DEF maps
    <2> QED
        BY <2>2
<1> HIDE DEF maps
<1>13. /\ \A m \in maps :
             IF m[2] < ProcStart THEN m[2] = Console /\ m[3] = Console
             ELSE m[2] < MemVirtual /\ m[3] \in Allocatable \ {viewer} /\ ~ IsTable(phys.mem[m[3]])
       /\ \A m, n \in maps : m[3] = n[3] /\ m[3] # Console => m = n
       /\ \A p \in Processes : {Console, StackPage} \subseteq {m[2] : m \in {n \in maps : n[1] = p}}
    BY <1>10, <1>11, <1>12
<1> QED
    BY <1>13 DEF Isolation, maps

LEMMA InvIsolates == KernelInv => Isolation
<1> SUFFICES ASSUME KernelInv PROVE Isolation
    OBVIOUS
<1>1. PICK D : D = Maps
    OBVIOUS
<1>2. PICK G : Holds(phys, G, viewer, ptable, D)
    BY <1>1 DEF KernelInv, InnerInv, Sees
<1>3. Within(D)
    BY <1>1, MapsAre DEF KernelInv, Within
<1>4. \A p \in Processes : StackPage \in D[p]
    BY <1>1 DEF Maps, MappedBy
<1> QED
    BY <1>2, <1>3, <1>4, MapsIsolate

\* Of processes that behave as those of p-allocator.cc, which pass sys_page_alloc the next
\* page of their heap only, none reaches the kernel's pages other than the console, a
\* page table or a page of another (the page tables process_setup and
\* syscall_page_alloc build).
THEOREM KernelIsolates == Spec => []Isolation
    BY KernelInvariant, InvIsolates, PTL

\* The memories at the start are the programs and the stacks.
LEMMA StartLoaded == Init => Memory!Init
<1> SUFFICES ASSUME Init PROVE Memory!Init
    OBVIOUS
<1>1. KernelInv
    BY KernelInit
<1>2. PICK G : /\ Holds(phys, G, viewer, ptable, Maps)
               /\ \A p \in Processes : Ready(phys, G, p, ptable[p].pagetable)
    BY StartReady
<1>3. SpaceAs(Space, phys, ptable, Maps)
    <2>1. PICK D : D = Maps
        OBVIOUS
    <2>2. Within(D)
        BY <1>1, <2>1, MapsAre DEF KernelInv, Within
    <2>3. SpaceAs(Space, phys, ptable, D)
        BY <1>2, <2>1, <2>2, SpaceNow
    <2> QED
        BY <2>1, <2>3
<1>4. ASSUME NEW p \in Processes
      PROVE  /\ \A v \in LoadedPages(p) : phys.mem[Leaf(phys, ptable[p].pagetable, v).pa] = Data("image", p, v)
             /\ phys.mem[Leaf(phys, ptable[p].pagetable, StackPage).pa] = Junk
             /\ Maps[p] = LoadedPages(p) \cup {StackPage}
    BY <1>2, MapsStart DEF Ready
<1>5. ASSUME NEW t \in Space PROVE t \in LoadedSpace
    <2>1. PICK p \in Processes : \E v \in Maps[p] : t = <<p, v, phys.mem[Leaf(phys, ptable[p].pagetable, v).pa]>>
        BY <1>3 DEF SpaceAs
    <2>2. PICK v \in Maps[p] : t = <<p, v, phys.mem[Leaf(phys, ptable[p].pagetable, v).pa]>>
        BY <2>1
    <2>3. CASE v \in LoadedPages(p)
        <3>1. t = <<p, v, Data("image", p, v)>>
            BY <1>4, <2>2, <2>3
        <3> QED
            BY <2>3, <3>1 DEF LoadedSpace
    <2>4. CASE v = StackPage
        <3>1. t = <<p, StackPage, Junk>>
            BY <1>4, <2>2, <2>4
        <3> QED
            BY <3>1 DEF LoadedSpace
    <2> QED
        BY <1>4, <2>3, <2>4
<1>6. ASSUME NEW t \in LoadedSpace PROVE t \in Space
    <2>1. PICK p \in Processes : \/ \E v \in LoadedPages(p) : t = <<p, v, Data("image", p, v)>>
                                 \/ t = <<p, StackPage, Junk>>
        BY DEF LoadedSpace
    <2>2. \E v \in Maps[p] : t = <<p, v, phys.mem[Leaf(phys, ptable[p].pagetable, v).pa]>>
        BY <1>4, <2>1
    <2> QED
        BY <1>3, <2>2 DEF SpaceAs
<1>7. Space = LoadedSpace
    BY <1>5, <1>6
<1>8. current \in Processes
    BY <1>1 DEF KernelInv, OuterInv
<1> QED
    BY <1>7, <1>8 DEF Memory!Init

\* Every step is a step of PrivateMemory.
LEMMA StepOfMemory ==
    ASSUME KernelInv, [Next]_vars
    PROVE  [Memory!Next]_(Memory!vars)
<1>1. current \in Processes
    BY DEF KernelInv, OuterInv
<1>2. CASE QuietStep
    BY <1>2 DEF QuietStep, Memory!Next, Memory!Switch
<1>3. CASE UNCHANGED <<Space, current>>
    BY <1>3 DEF Memory!vars
<1>4. CASE AllocatingStep
    <2>1. PICK sp : sp = Space
        OBVIOUS
    <2>2. PICK sp2 : sp2 = Space'
        OBVIOUS
    <2>3. PICK t : t = <<current, heap_top[current], Zero>>
        OBVIOUS
    <2>4. /\ current' = current /\ sp2 = sp \cup {t}
          /\ \A u \in sp : u[1] = current => u[2] # heap_top[current]
        BY <1>4, <2>1, <2>2, <2>3 DEF AllocatingStep
    <2>5. t[1] = current /\ t[2] = heap_top[current] /\ t[3] = Zero
        BY <2>3
    <2>6. t \in sp2 \ sp
        BY <2>4, <2>5
    <2>7. t \in Space' \ Space /\ Space' = Space \cup {t}
          /\ \A u \in Space : u[1] = current => u[2] # t[2]
        BY <2>1, <2>2, <2>4, <2>5, <2>6
    <2>8. Memory!Allocate
        BY <2>4, <2>5, <2>7 DEF Memory!Allocate
    <2> QED
        BY <2>8 DEF Memory!Next
<1>5. CASE StoringStep
    <2>1. PICK t \in Space : /\ t[1] = current
                             /\ Space' = (Space \ {t}) \cup {<<current, t[2], Data("stored", current, 0)>>}
        BY <1>5 DEF StoringStep
    <2>2. Data("stored", current, 0) \in {Data("stored", p, 0) : p \in Processes}
        BY <1>1
    <2>3. current' = current
        BY <1>5 DEF StoringStep
    <2>4. Memory!Store
        BY <2>1, <2>2, <2>3 DEF Memory!Store
    <2> QED
        BY <2>4 DEF Memory!Next
<1> QED
    BY <1>2, <1>3, <1>4, <1>5, KernelStep

\* The kernel implements PrivateMemory: page tables, scattered pages and the viewer's page
\* change nothing that a process can see of its memory (kernel.c, exception and syscall).
THEOREM KernelGivesPrivateMemory == Spec => ImplementsPrivateMemory
<1>1. KernelInv /\ [Next]_vars => [Memory!Next]_(Memory!vars)
    BY StepOfMemory
<1> QED
    BY <1>1, StartLoaded, KernelInvariant, PTL DEF Spec, ImplementsPrivateMemory, Memory!Spec

----------------------------------------------------------------------------
(* Any calls, in any order                                                  *)

\* A page of c replaced at h: everybody has pages where they were.
Replaced(k, k2, v, pt, D, c, h) == Sees(k2, v, pt, D, Pages) /\ SeenStored(k, k2, pt, D, c, h, Zero)

\* With a page left a new page is mapped where the process has one.
LEMMA ReplaceWorks ==
    ASSUME NEW k, NEW v, v # NoPage, NEW pt, NEW D, Within(D), NEW L, Sees(k, v, pt, D, L),
           NEW c \in Processes, NEW h \in D[c], Free(k) # {},
           NEW r, pt[c].pagetable = r, NEW m, MapNew(k, r, h) = m, NEW ptr, Pa(m, Vmiter(m, r, h)) = ptr
    PROVE  MapNewAsserts(k, r, h) /\ ptr # NoPage /\ Replaced(k, StoreIn(m, ptr, Zero), v, pt, D, c, h)
<1>0. h \in ProcStart .. StackPage /\ \A w \in ProcStart .. StackPage : w \in 0 .. VaEnd - 1 /\ ~ (w < ProcStart)
    BY LowPages DEF Within
<1>1. PICK G : Holds(k, G, v, pt, D)
    BY DEF Sees
<1>2. PICK E : E = D[c]
    OBVIOUS
<1>3. Inner(k, G, v) /\ Layout(k, G, {}) /\ Has(k, G, c, r, E) /\ h \in E
    BY <1>1, <1>2 DEF Holds, Inner
<1>4. ptr # NoPage /\ ReplaceAs(k, G, StoreIn(m, ptr, Zero), v, c, r, h) /\ MapNewAsserts(k, r, h)
    BY <1>0, <1>3, ReplaceIs
<1>5. PICK k2 : k2 = StoreIn(m, ptr, Zero)
    OBVIOUS
<1>6. PICK G2, pa : Replace(k, G, k2, G2, v, c, r, h, pa)
    BY <1>4, <1>5 DEF ReplaceAs
<1>7. ASSUME NEW p \in Processes, NEW rp, rp = pt[p].pagetable, NEW F, F = D[p]
      PROVE  /\ Has(k, G, p, rp, F) /\ Has(k2, G2, p, rp, F)
             /\ rp = r <=> p = c
             /\ \A w \in F : Leaf(k2, rp, w) = IF rp = r /\ w = h THEN Entry(pa, PWU) ELSE Leaf(k, rp, w)
    <2>1. Has(k, G, p, rp, F)
        BY <1>1, <1>7 DEF Holds
    <2>2. /\ Has(k2, G2, p, rp, F)
          /\ rp = r <=> p = c
          /\ \A w \in 0 .. VaEnd - 1 :
                Leaf(k2, rp, w) = IF rp = r /\ w = h THEN Entry(pa, PWU) ELSE Leaf(k, rp, w)
        BY <1>0, <1>3, <1>6, <2>1, ReplaceHas
    <2>3. \A w \in F : w \in 0 .. VaEnd - 1
        BY <1>0, <1>7 DEF Within
    <2> QED
        BY <2>1, <2>2, <2>3
<1>8. Holds(k2, G2, v, pt, D)
    <2>1. Inner(k2, G2, v)
        BY <1>6 DEF Replace
    <2> QED
        BY <1>7, <2>1 DEF Holds
<1>9. Lost(G2, v, Pages)
    BY DEF Lost
<1>10. ASSUME NEW p \in Processes, NEW w \in D[p]
       PROVE  k2.mem[Leaf(k2, pt[p].pagetable, w).pa] =
                 IF p = c /\ w = h THEN Zero ELSE k.mem[Leaf(k, pt[p].pagetable, w).pa]
    <2>1. PICK rp : rp = pt[p].pagetable
        OBVIOUS
    <2>2. PICK F : F = D[p]
        OBVIOUS
    <2>3. /\ Has(k, G, p, rp, F) /\ (rp = r <=> p = c) /\ w \in F
          /\ Leaf(k2, rp, w) = IF rp = r /\ w = h THEN Entry(pa, PWU) ELSE Leaf(k, rp, w)
        BY <1>7, <2>1, <2>2
    <2>4. CASE p = c /\ w = h
        <3>1. Leaf(k2, rp, w).pa = pa
            BY <2>3, <2>4 DEF Entry
        <3>2. k2.mem[pa] = Zero
            BY <1>6 DEF Replace
        <3> QED
            BY <2>1, <2>4, <3>1, <3>2
    <2>5. CASE ~ (p = c /\ w = h)
        <3>1. PICK q : q = Leaf(k, rp, w).pa
            OBVIOUS
        <3>2. q \in Pages /\ G[q] = DataOf(p, w)
            <4>1. p \in Nat /\ w \in 0 .. VaEnd - 1 /\ ~ (w < ProcStart)
                BY <1>0, ImageIs DEF Within
            <4> QED
                BY <1>3, <2>3, <3>1, <4>1, UserPage
        <3>3. G[q].kind = "data" /\ G[q] # DataOf(c, h)
            <4>1. DataOf(p, w) # DataOf(c, h)
                BY <2>5, DataOfIs
            <4> QED
                BY <3>2, <4>1, RoleFields
        <3>4. k2.mem[q] = k.mem[q]
            BY <1>6, <3>2, <3>3 DEF Replace
        <3>5. Leaf(k2, rp, w).pa = q
            BY <2>3, <2>5, <3>1
        <3> QED
            BY <2>1, <2>5, <3>1, <3>4, <3>5
    <2> QED
        BY <2>4, <2>5
<1>11. Sees(k2, v, pt, D, Pages)
    BY <1>8, <1>9 DEF Sees
<1>12. SeenStored(k, k2, pt, D, c, h, Zero)
    BY <1>10 DEF SeenStored
<1> QED
    BY <1>4, <1>5, <1>11, <1>12 DEF Replaced

\* The invariant under any calls: every process has a stack, and pages where it has asked
\* for them; pages that were replaced are lost.
HasStack(D) == \A p \in Processes : StackPage \in D[p]
CallInv     == \E D : Now(D, Pages) /\ HasStack(D)

\* What a call may do to what processes see.
Spared ==
    \/ Space' = Space
    \/ \E h : Space' = Space \cup {<<current, h, Zero>>}
    \/ \E s \in {Zero, Data("stored", current, 0)} : StoredFrom(Space, Space', current, s)

LEMMA CallsBegin == KernelInv => CallInv
<1> SUFFICES ASSUME KernelInv PROVE CallInv
    OBVIOUS
<1>1. PICK D : D = Maps
    OBVIOUS
<1>2. PICK L : L = {}
    OBVIOUS
<1>3. Now(D, L)
    BY <1>1, <1>2, NowIs
<1>4. PICK G : Holds(phys, G, viewer, ptable, D) /\ Lost(G, viewer, L)
    BY <1>3 DEF Now, Sees
<1>5. Lost(G, viewer, Pages)
    BY DEF Lost
<1>6. Now(D, Pages)
    BY <1>3, <1>4, <1>5 DEF Now, Sees
<1>7. HasStack(D)
    BY <1>1 DEF HasStack, Maps, MappedBy
<1> QED
    BY <1>6, <1>7 DEF CallInv

LEMMA CallQuiet ==
    ASSUME NEW D, Now(D, Pages), HasStack(D), Quiet(D, Pages)
    PROVE  CallInv' /\ Spared
<1>1. OuterInv' /\ Within(D) /\ Sees(phys', viewer', ptable', D, Pages) /\ Space' = Space
    BY DEF Quiet, Now
<1>2. CallInv'
    BY <1>1 DEF CallInv, Now
<1> QED
    BY <1>1, <1>2 DEF Spared

\* The calls that allocate nothing.
LEMMA CallReturns ==
    ASSUME CallInv, \/ TimerInterrupt \/ PageFault \/ Panic
                    \/ UNCHANGED program /\ (CallGetpid \/ CallYield)
    PROVE  CallInv' /\ Spared
<1>1. PICK D : Now(D, Pages) /\ HasStack(D)
    BY DEF CallInv
<1>2. PICK L : L = Pages
    OBVIOUS
<1>3. Now(D, L)
    BY <1>1, <1>2
<1>4. CASE TimerInterrupt \/ PageFault \/ Panic
    <2>1. Quiet(D, L)
        BY <1>3, <1>4, TimerInterruptQuiet, PageFaultQuiet, PanicQuiet
    <2> QED
        BY <1>1, <1>2, <2>1, CallQuiet
<1>5. CASE UNCHANGED program /\ CallGetpid
    <2>1. /\ Trap /\ phys' = Shown.k /\ UNCHANGED <<ptable, current, heap_top>> /\ at' = at
          /\ mode = "user" /\ (viewer' # NoPage => mode' = mode)
        BY <1>5 DEF program, CallGetpid, Trap
    <2>2. at' \in [Processes -> {"start", "loop", "write", "done"}]
        BY <1>1, <2>1 DEF Now, OuterInv
    <2>3. Quiet(D, L)
        BY <1>3, <2>1, <2>2, ReturningQuiet
    <2> QED
        BY <1>1, <1>2, <2>3, CallQuiet
<1>6. CASE UNCHANGED program /\ CallYield
    <2>1. /\ Trap /\ phys' = Shown.k /\ Schedule(phys', ptable) /\ ptable' = ptable
          /\ UNCHANGED <<at, heap_top>>
        BY <1>6 DEF program, CallYield
    <2>2. Schedule(phys', ptable')
        BY <2>1
    <2>3. Quiet(D, L)
        BY <1>1, <1>3, <2>1, <2>2, SchedulingQuiet DEF Now, OuterInv
    <2> QED
        BY <1>1, <1>2, <2>3, CallQuiet
<1> QED
    BY <1>4, <1>5, <1>6

\* SYSCALL_PAGE_ALLOC at any address above the kernel's.
LEMMA CallAllocates ==
    ASSUME CallInv, UNCHANGED program, NEW h \in ProcStart .. StackPage, CallPageAlloc(h)
    PROVE  CallInv' /\ Spared
<1>1. PICK D : Now(D, Pages) /\ HasStack(D)
    BY DEF CallInv
<1>2. PICK L : L = Pages
    OBVIOUS
<1>3. PICK k : k = Shown.k
    OBVIOUS
<1>4. PICK v : v = Shown.page
    OBVIOUS
<1>5. PICK pt : pt = ptable
    OBVIOUS
<1>6. PICK c : c = current
    OBVIOUS
<1>7. PICK r : pt[c].pagetable = r
    OBVIOUS
<1>8. PICK m : MapNew(k, r, h) = m
    OBVIOUS
<1>9. PICK ptr : Pa(m, Vmiter(m, r, h)) = ptr
    OBVIOUS
<1>10. Now(D, L) /\ Within(D) /\ OuterInv
    BY <1>1, <1>2 DEF Now
<1>11. v # NoPage /\ Sees(k, v, pt, D, L) /\ SpaceAs(Space, k, pt, D)
    BY <1>3, <1>4, <1>5, <1>10, ShownHolds DEF ShownTo
<1>12. PICK s : /\ s = syscall_page_alloc(k, h)
                /\ phys' = s.k
                /\ mode' = IF s.result > 0 \/ viewer' = NoPage THEN "panic" ELSE mode
    BY <1>3 DEF CallPageAlloc
<1>13. /\ Trap /\ UNCHANGED <<ptable, current, heap_top>> /\ at' = at
       /\ viewer' = v /\ mode = "user"
    BY <1>4 DEF CallPageAlloc, Trap, program
<1>14. r = Root(current) /\ c \in Processes
    BY <1>5, <1>6, <1>7, <1>10 DEF Root, OuterInv
<1>15. CASE Free(k) = {}
    <2>1. s.k = k /\ ~ (s.result > 0)
        BY <1>8, <1>9, <1>12, <1>14, <1>15, AllocResult
    <2>2. phys' = Shown.k /\ mode' = mode
        BY <1>3, <1>11, <1>12, <1>13, <2>1
    <2>3. at' \in [Processes -> {"start", "loop", "write", "done"}]
        BY <1>10, <1>13 DEF OuterInv
    <2>4. Quiet(D, L)
        BY <1>10, <1>13, <2>2, <2>3, ReturningQuiet
    <2> QED
        BY <1>1, <1>2, <2>4, CallQuiet
<1>16. CASE Free(k) # {}
    <2>1. PICK k2 : k2 = StoreIn(m, ptr, Zero)
        OBVIOUS
    <2>2. /\ MapNewAsserts(k, r, h) /\ ptr # NoPage
          /\ IF h \in D[c] THEN Replaced(k, k2, v, pt, D, c, h)
             ELSE Allocated(k, k2, v, pt, D, L, c, h)
        <3>1. CASE h \in D[c]
            BY <1>7, <1>8, <1>9, <1>10, <1>11, <1>14, <1>16, <2>1, <3>1, ReplaceWorks
        <3>2. CASE h \notin D[c]
            BY <1>7, <1>8, <1>9, <1>10, <1>11, <1>14, <1>16, <2>1, <3>2, AllocWorks
        <3> QED
            BY <3>1, <3>2
    <2>3. s.k = k2 /\ ~ (s.result > 0)
        BY <1>8, <1>9, <1>12, <1>14, <1>16, <2>1, <2>2, AllocResult
    <2>4. phys' = k2 /\ ptable' = pt /\ viewer' = v /\ mode' = "user"
        BY <1>5, <1>11, <1>12, <1>13, <2>3
    <2>5. OuterInv'
        BY <1>10, <1>13, <2>4 DEF OuterInv
    <2>6. PICK sp : sp = Space
        OBVIOUS
    <2>7. PICK sp2 : sp2 = Space'
        OBVIOUS
    <2>8. SpaceAs(sp, k, pt, D)
        BY <1>11, <2>6
    <2>9. CASE h \in D[c]
        <3>1. Sees(k2, v, pt, D, Pages) /\ SeenStored(k, k2, pt, D, c, h, Zero)
            BY <2>2, <2>9 DEF Replaced
        <3>2. CallInv'
            BY <1>1, <1>10, <2>4, <2>5, <3>1 DEF CallInv, Now
        <3>3. PICK G : Holds(k2, G, v, pt, D)
            BY <3>1 DEF Sees
        <3>4. SpaceAs(sp2, k2, pt, D)
            BY <1>10, <2>4, <2>7, <3>3, SpaceNext
        <3>5. StoredFrom(sp, sp2, c, Zero)
            BY <1>14, <2>8, <2>9, <3>1, <3>4, SpaceStored
        <3>6. Spared
            BY <1>6, <2>6, <2>7, <3>5 DEF Spared
        <3> QED
            BY <3>2, <3>6
    <2>10. CASE h \notin D[c]
        <3>1. PICK E : E = AddedAt(D, c, h)
            OBVIOUS
        <3>2. Allocated(k, k2, v, pt, D, L, c, h)
            BY <2>2, <2>10
        <3>3. Sees(k2, v, pt, E, Pages)
            BY <1>2, <3>1, <3>2 DEF Allocated
        <3>4. Within(E) /\ HasStack(E)
            BY <1>1, <1>10, <3>1 DEF Within, HasStack, AddedAt
        <3>5. CallInv'
            BY <2>4, <2>5, <3>3, <3>4 DEF CallInv, Now
        <3>6. Space' = sp \cup {<<c, h, Zero>>}
            BY <1>10, <1>14, <2>4, <2>8, <2>10, <3>2, AllocShows
        <3>7. Spared
            BY <1>6, <2>6, <3>6 DEF Spared
        <3> QED
            BY <3>5, <3>7
    <2> QED
        BY <2>9, <2>10
<1> QED
    BY <1>15, <1>16

\* A store where the process may write.
LEMMA CallStores ==
    ASSUME CallInv, UNCHANGED program, NEW h \in ProcStart .. StackPage, StoreAt(h)
    PROVE  CallInv' /\ Spared
<1>1. PICK D : Now(D, Pages) /\ HasStack(D)
    BY DEF CallInv
<1>2. PICK c : c = current
    OBVIOUS
<1>3. PICK pt : pt = ptable
    OBVIOUS
<1>4. PICK r : r = pt[c].pagetable
    OBVIOUS
<1>5. PICK k : k = phys
    OBVIOUS
<1>6. PICK v : v = viewer
    OBVIOUS
<1>7. PICK it : it = Vmiter(k, r, h)
    OBVIOUS
<1>8. PICK q : q = Pa(k, it)
    OBVIOUS
<1>9. PICK s : s = Data("stored", c, 0)
    OBVIOUS
<1>10. PICK k2 : k2 = phys'
    OBVIOUS
<1>11. PICK E : E = D[c]
    OBVIOUS
<1>12. /\ StoreIn(k, q, s) = k2 /\ PWU \subseteq Perm(k, it)
       /\ UNCHANGED <<ptable, current, mode, viewer, at, heap_top>>
    BY <1>2, <1>3, <1>4, <1>5, <1>7, <1>8, <1>9, <1>10 DEF StoreAt, StoreIn, MayWrite, Root, program
<1>13. OuterInv /\ Within(D) /\ c \in Processes /\ c \in Nat
    BY <1>1, <1>2, ImageIs DEF Now, OuterInv
<1>14. PICK G : Holds(k, G, v, pt, D)
    BY <1>1, <1>3, <1>5, <1>6 DEF Now, Sees
<1>15. Layout(k, G, {}) /\ Has(k, G, c, r, E)
    BY <1>4, <1>11, <1>13, <1>14 DEF Holds, Inner
<1>16. h \in 0 .. VaEnd - 1 /\ ~ (h < ProcStart)
    BY LowPages
<1>17. h \in E /\ q = Leaf(k, r, h).pa
    <2>1. User(k, it)
        BY <1>12 DEF User, PWU
    <2> QED
        BY <1>7, <1>8, <1>13, <1>15, <1>16, <2>1, UserPage
<1>18. s \in Contents
    BY <1>9, <1>13 DEF Contents
<1>19. Holds(k2, G, v, pt, D) /\ SeenStored(k, k2, pt, D, c, h, s)
    <2>1. h \in D[c] /\ Leaf(k, pt[c].pagetable, h).pa = q
        BY <1>4, <1>11, <1>17
    <2> QED
        BY <1>12, <1>13, <1>14, <1>18, <2>1, StoreHolds DEF Within
<1>20. CallInv'
    <2>1. Sees(k2, v, pt, D, Pages)
        <3>1. Lost(G, v, Pages)
            BY DEF Lost
        <3> QED
            BY <1>19, <3>1 DEF Sees
    <2>2. OuterInv'
        BY <1>12, <1>13 DEF OuterInv
    <2>3. phys' = k2 /\ viewer' = v /\ ptable' = pt
        BY <1>3, <1>6, <1>10, <1>12
    <2> QED
        BY <1>1, <1>13, <2>1, <2>2, <2>3 DEF CallInv, Now
<1>21. PICK sp : sp = Space
    OBVIOUS
<1>22. PICK sp2 : sp2 = Space'
    OBVIOUS
<1>23. SpaceAs(sp, k, pt, D)
    <2>1. SpaceAs(Space, phys, ptable, D)
        BY <1>3, <1>5, <1>6, <1>13, <1>14, SpaceNow
    <2> QED
        BY <1>3, <1>5, <1>21, <2>1
<1>24. SpaceAs(sp2, k2, pt, D)
    <2>1. phys' = k2 /\ ptable' = pt
        BY <1>3, <1>10, <1>12
    <2> QED
        BY <1>13, <1>19, <1>22, <2>1, SpaceNext
<1>25. StoredFrom(sp, sp2, c, s)
    <2>1. h \in D[c]
        BY <1>11, <1>17
    <2> QED
        BY <1>13, <1>19, <1>23, <1>24, <2>1, SpaceStored
<1>26. Spared
    BY <1>2, <1>9, <1>21, <1>22, <1>25 DEF Spared
<1> QED
    BY <1>20, <1>26

\* Every step keeps the invariant, and spares what others see.
LEMMA CallStep ==
    ASSUME CallInv, [CallNext]_vars
    PROVE  CallInv' /\ Spared
<1>1. CASE \/ TimerInterrupt \/ PageFault \/ Panic
           \/ UNCHANGED program /\ (CallGetpid \/ CallYield)
    BY <1>1, CallReturns
<1>2. CASE UNCHANGED program /\ \E h \in ProcStart .. StackPage : CallPageAlloc(h)
    BY <1>2, CallAllocates
<1>3. CASE UNCHANGED program /\ \E h \in ProcStart .. StackPage : StoreAt(h)
    BY <1>3, CallStores
<1>4. CASE UNCHANGED vars
    <2>1. /\ phys' = phys /\ ptable' = ptable /\ current' = current /\ mode' = mode
          /\ viewer' = viewer /\ at' = at /\ heap_top' = heap_top
        BY <1>4 DEF vars
    <2>2. Space' = Space
        BY <2>1 DEF Space, Root
    <2>3. PICK D : Now(D, Pages) /\ HasStack(D)
        BY DEF CallInv
    <2>4. OuterInv'
        BY <2>1, <2>3 DEF Now, OuterInv
    <2>5. Sees(phys', viewer', ptable', D, Pages)
        BY <2>1, <2>3 DEF Now
    <2>6. CallInv'
        BY <2>3, <2>4, <2>5 DEF CallInv, Now
    <2> QED
        BY <2>2, <2>6 DEF Spared
<1> QED
    BY <1>1, <1>2, <1>3, <1>4 DEF CallNext

\* The invariant of KernelCalls: the roles of KernelInv, with pages wherever processes have
\* asked for them and pages that syscall_page_alloc has replaced left over (kernel.c:338-351).
THEOREM CallsKeepLayout == CallSpec => []CallInv
<1>1. CallInv /\ [CallNext]_vars => CallInv'
    BY CallStep
<1>2. Init => CallInv
    BY KernelInit, CallsBegin
<1> QED
    BY <1>1, <1>2, PTL DEF CallSpec

\* Whatever calls processes make, with any address that u-lib.hh:97 allows sys_page_alloc,
\* the assertions of the kernel hold: try_map's (k-vmiter.cc:73-86), run()'s and the viewer's.
THEOREM CallsNeverPanic == CallSpec => []AssertionsHold
<1>1. CallInv => AssertionsHold
    BY OuterAsserts DEF CallInv, Now
<1> QED
    BY <1>1, CallsKeepLayout, PTL

\* Nor does any process reach the kernel's pages other than the console, a page table or a
\* page of another, an address of its program or its stack allocated anew included.
THEOREM CallsIsolated == CallSpec => []Isolation
<1>1. ASSUME CallInv PROVE Isolation
    <2>1. PICK D : Now(D, Pages) /\ HasStack(D)
        BY <1>1 DEF CallInv
    <2>2. PICK G : Holds(phys, G, viewer, ptable, D)
        BY <2>1 DEF Now, Sees
    <2> QED
        BY <2>1, <2>2, MapsIsolate DEF Now, HasStack
<1> QED
    BY <1>1, CallsKeepLayout, PTL

\* What a step changes is at one address of the process that runs, which holds zeros or
\* what it stored afterwards (kernel.c:338-351).
THEOREM CallsKeepToThemselves == CallSpec => OnlyOwnMemory
<1> DEFINE changed == (Space \ Space') \cup (Space' \ Space)
           Own == \A t, u \in changed :
                     /\ t[1] = current /\ t[2] = u[2]
                     /\ t \in Space' => t[3] \in {Zero, Data("stored", current, 0)}
<1>1. ASSUME Spared PROVE Own
    <2>1. PICK sp, sp2, c : sp = Space /\ sp2 = Space' /\ c = current
        OBVIOUS
    <2>2. PICK ch : ch = (sp \ sp2) \cup (sp2 \ sp)
        OBVIOUS
    <2>3. PICK stored : stored = Data("stored", c, 0)
        OBVIOUS
    <2>4. \A t, u \in ch : t[1] = c /\ t[2] = u[2] /\ (t \in sp2 => t[3] \in {Zero, stored})
        <3>1. CASE sp2 = sp
            BY <2>2, <3>1
        <3>2. CASE \E h : sp2 = sp \cup {<<c, h, Zero>>}
            <4>1. PICK h : sp2 = sp \cup {<<c, h, Zero>>}
                BY <3>2
            <4>2. \A t \in ch : t = <<c, h, Zero>>
                BY <2>2, <4>1
            <4> QED
                BY <4>2
        <3>3. CASE \E s \in {Zero, stored} : StoredFrom(sp, sp2, c, s)
            <4>1. PICK s \in {Zero, stored}, x \in sp : x[1] = c /\ sp2 = (sp \ {x}) \cup {<<c, x[2], s>>}
                BY <3>3 DEF StoredFrom
            <4>2. PICK y : y = <<c, x[2], s>>
                OBVIOUS
            <4>3. y[1] = c /\ y[2] = x[2] /\ y[3] = s
                BY <4>2
            <4>4. \A t \in ch : (t = x \/ t = y) /\ (t \in sp2 => t = y)
                BY <2>2, <4>1, <4>2
            <4> QED
                BY <4>1, <4>3, <4>4
        <3> QED
            BY <1>1, <2>1, <2>3, <3>1, <3>2, <3>3 DEF Spared
    <2> QED
        BY <2>1, <2>2, <2>3, <2>4
<1>2. CallInv /\ [CallNext]_vars => [Own]_vars
    BY <1>1, CallStep
<1> QED
    BY <1>2, CallsKeepLayout, PTL DEF CallSpec, OnlyOwnMemory
================================================================================
