---------------------------- MODULE IteratorProofs ----------------------------
(****************************************************************************)
(* The iterators over page tables and the memory viewer that uses them, for *)
(* every machine and every set of programs: vmiter and ptiter find what is  *)
(* in the tables, and the viewer's account of the pages is right.  An       *)
(* iterator only reads, so that the roles of the pages (Layout) are all     *)
(* that these proofs take from the kernel's invariant.                      *)
(****************************************************************************)
EXTENDS KernelProofs

Passes(l, e)    == l > 0 /\ "P" \in e.perm
Narrows(q, p, e) == q = p \cap e.perm

\* down() follows an entry that is present, whatever it is.
LEMMA DownMoves ==
    ASSUME NEW k, NEW root, NEW t, NEW l, NEW p, NEW va, NEW w, w = Iter(root, t, l, p, va),
           NEW e, e = At(k, w), Passes(l, e), NEW m, m = l - 1, NEW q, Narrows(q, p, e)
    PROVE  Down(k, w) = Iter(root, e.pa, m, q, va)
<1>1. w.level = l /\ w.perm = p
    BY IterFields
<1>2. Down(k, w) = [w EXCEPT !.table = e.pa, !.level = @ - 1, !.perm = @ \cap e.perm]
    BY <1>1 DEF Down, Passes
<1>4. [w EXCEPT !.table = e.pa, !.level = @ - 1, !.perm = @ \cap e.perm]
      = [w EXCEPT !.table = e.pa, !.level = m, !.perm = q]
    BY <1>1 DEF Narrows
<1>5. PICK a : a = [w EXCEPT !.table = e.pa]
    OBVIOUS
<1>6. PICK b : b = [a EXCEPT !.level = m]
    OBVIOUS
<1>7. PICK c : c = [b EXCEPT !.perm = q]
    OBVIOUS
<1>8. a = Iter(root, e.pa, l, p, va)
    BY <1>5, IterExcept
<1>9. b = Iter(root, e.pa, m, p, va)
    BY <1>6, <1>8, IterExcept
<1>10. c = Iter(root, e.pa, m, q, va)
    BY <1>7, <1>9, IterExcept
<1>11. [w EXCEPT !.table = e.pa, !.level = m, !.perm = q] = c
    BY <1>5, <1>6, <1>7
<1> QED
    BY <1>2, <1>4, <1>10, <1>11

\* The turns of a walk.
Steps(k, g, n) == \A i \in 1 .. n : g[i] = Down(k, g[i - 1])

\* After i turns from level l0 a walk has moved i times or for the last time.
Settles(k, g, i, root, l0, va) ==
    /\ g[i] = Iter(root, g[i].table, g[i].level, g[i].perm, va)
    /\ g[i].level \in 0 .. l0
    /\ g[i].level >= l0 - i
    /\ Down(k, g[i]) = g[i] \/ g[i].level = l0 - i

\* A walk stops moving after as many turns as there are levels below its start.
LEMMA WalkStops ==
    ASSUME NEW k, NEW n \in Nat, NEW g, NEW root, NEW t0, NEW l0 \in Nat, NEW p0, NEW va,
           g[0] = Iter(root, t0, l0, p0, va),
           Steps(k, g, n)
    PROVE  \A i \in 0 .. n : Settles(k, g, i, root, l0, va) /\ (i >= l0 => Down(k, g[i]) = g[i])
<1> DEFINE Good(i) == Settles(k, g, i, root, l0, va)
           S == {i \in Nat : i <= n /\ ~ Good(i)}
<1>1. Good(0)
    BY IterFields DEF Settles
<1>2. ASSUME NEW i \in 1 .. n, Good(i - 1) PROVE Good(i)
    <2>1. PICK w : w = g[i - 1]
        OBVIOUS
    <2>2. /\ g[i] = Down(k, w)
          /\ w = Iter(root, w.table, w.level, w.perm, va)
          /\ w.level \in 0 .. l0
          /\ w.level >= l0 - (i - 1)
          /\ Down(k, w) = w \/ w.level = l0 - (i - 1)
        BY <1>2, <2>1 DEF Steps, Settles
    <2>3. CASE Down(k, w) = w
        BY <2>2, <2>3 DEF Settles
    <2>4. CASE Down(k, w) # w
        <3>1. PICK e : e = At(k, w)
            OBVIOUS
        <3>2. w.level > 0 /\ "P" \in e.perm
            BY <2>4, <3>1 DEF Down
        <3>3. PICK t, l, p, m, q : t = w.table /\ l = w.level /\ p = w.perm /\ m = l - 1 /\ q = p \cap e.perm
            OBVIOUS
        <3>4. w = Iter(root, t, l, p, va) /\ Passes(l, e)
            BY <2>2, <3>2, <3>3 DEF Passes
        <3>5. Down(k, w) = Iter(root, e.pa, m, q, va)
            BY <3>1, <3>3, <3>4, DownMoves DEF Narrows
        <3>6. /\ g[i] = Iter(root, g[i].table, g[i].level, g[i].perm, va)
              /\ g[i].level = w.level - 1
            BY <2>2, <3>3, <3>5, IterFields
        <3>7. g[i].level = l0 - i /\ g[i].level \in 0 .. l0
            BY <2>2, <2>4, <3>2, <3>6
        <3> QED
            BY <3>6, <3>7 DEF Settles
    <2> QED
        BY <2>3, <2>4
<1> HIDE DEF Good
<1>3. S = {}
    <2>1. SUFFICES ASSUME S # {} PROVE FALSE
        OBVIOUS
    <2>2. PICK a \in S : \A b \in S : a <= b
        BY <2>1, LeastNat
    <2>3. a \in 1 .. n
        BY <1>1, <2>2
    <2>4. a - 1 \in Nat /\ a - 1 <= n /\ a - 1 \notin S
        BY <2>2, <2>3
    <2> QED
        BY <1>2, <2>2, <2>3, <2>4
<1>4. ASSUME NEW i \in 0 .. n PROVE Settles(k, g, i, root, l0, va) /\ (i >= l0 => Down(k, g[i]) = g[i])
    <2>1. Settles(k, g, i, root, l0, va)
        BY <1>3 DEF Good
    <2>2. g[i].level = 0 => Down(k, g[i]) = g[i]
        <3>1. PICK w : w = g[i]
            OBVIOUS
        <3>2. w.level = 0 => ~ (w.level > 0)
            OBVIOUS
        <3>3. w.level = 0 => Down(k, w) = w
            BY <3>2 DEF Down
        <3> QED
            BY <3>1, <3>3
    <2>3. i >= l0 => (Down(k, g[i]) = g[i] \/ g[i].level = 0)
        BY <2>1 DEF Settles
    <2> QED
        BY <2>1, <2>2, <2>3
<1> QED
    BY <1>4 DEF Good

\* Once a walk does not move, it stays.
LEMMA WalkStays ==
    ASSUME NEW k, NEW n \in Nat, NEW g, Steps(k, g, n),
           NEW a \in 0 .. n, Down(k, g[a]) = g[a]
    PROVE  \A i \in a .. n : g[i] = g[a]
<1> DEFINE S == {i \in Nat : i \in a .. n /\ g[i] # g[a]}
<1>1. SUFFICES ASSUME S # {} PROVE FALSE
    OBVIOUS
<1>2. PICK b \in S : \A c \in S : b <= c
    BY <1>1, LeastNat
<1>3. b # a /\ b \in a + 1 .. n
    BY <1>2
<1>4. b - 1 \in Nat /\ b - 1 \in a .. n /\ b - 1 \notin S /\ b \in 1 .. n
    BY <1>2, <1>3
<1>5. g[b - 1] = g[a]
    BY <1>4
<1>6. g[b] = Down(k, g[b - 1])
    BY <1>4 DEF Steps
<1> QED
    BY <1>2, <1>5, <1>6

\* A walk that starts where another one stands goes on as that one does.
LEMMA WalksAgree ==
    ASSUME NEW k, NEW n \in Nat, NEW m \in Nat, NEW g, NEW f, NEW a \in 0 .. n, f[0] = g[a],
           Steps(k, g, n), Steps(k, f, m)
    PROVE  \A j \in 0 .. m : a + j <= n => f[j] = g[a + j]
<1> DEFINE S == {j \in Nat : j <= m /\ a + j <= n /\ f[j] # g[a + j]}
<1>1. SUFFICES ASSUME S # {} PROVE FALSE
    OBVIOUS
<1>2. PICK b \in S : \A c \in S : b <= c
    BY <1>1, LeastNat
<1>3. b # 0
    BY <1>2
<1>4. b - 1 \in Nat /\ b - 1 \notin S /\ b \in 1 .. m /\ a + b \in 1 .. n /\ a + (b - 1) = a + b - 1
    BY <1>2, <1>3
<1>5. f[b - 1] = g[a + b - 1]
    BY <1>2, <1>4
<1>6. f[b] = Down(k, f[b - 1]) /\ g[a + b] = Down(k, g[a + b - 1])
    BY <1>4 DEF Steps
<1> QED
    BY <1>2, <1>5, <1>6

\* Addresses with the same digits above a level.
LEMMA PrefixUp ==
    ASSUME NEW v \in Nat, NEW w \in Nat, NEW l \in 0 .. TopLevel + 1, Prefix(v, l) = Prefix(w, l)
    PROVE  /\ \A m \in l .. TopLevel + 1 : Prefix(v, m) = Prefix(w, m)
           /\ \A m \in l .. TopLevel : pageindex(v, m) = pageindex(w, m)
<1> USE PageTableAssumption
<1>1. \A m \in l .. TopLevel + 1 : Prefix(v, m) = Prefix(w, m)
    <2> DEFINE S == {m \in Nat : m \in l .. TopLevel + 1 /\ Prefix(v, m) # Prefix(w, m)}
    <2>1. SUFFICES ASSUME S # {} PROVE FALSE
        OBVIOUS
    <2>2. PICK b \in S : \A c \in S : b <= c
        BY <2>1, LeastNat
    <2>3. b - 1 \in Nat /\ b - 1 \in l .. TopLevel /\ b - 1 \notin S /\ b - 1 \in 0 .. TopLevel /\ b - 1 + 1 = b
        BY <2>2
    <2>4. Prefix(v, b - 1) = Prefix(w, b - 1)
        BY <2>3
    <2>5. Prefix(v, b - 1) \div Fanout = Prefix(v, b) /\ Prefix(w, b - 1) \div Fanout = Prefix(w, b)
        BY <2>3, PrefixIs
    <2> QED
        BY <2>2, <2>4, <2>5
<1>2. ASSUME NEW m \in l .. TopLevel PROVE pageindex(v, m) = pageindex(w, m)
    <2>1. Prefix(v, m) = Prefix(w, m)
        BY <1>1
    <2> QED
        BY <2>1 DEF Prefix, pageindex
<1> QED
    BY <1>1, <1>2

\* find within the range at hand does not start over, and finds what it would have.
LEMMA FindIs ==
    ASSUME NEW k, NEW root, NEW va \in Nat, NEW v2 \in Nat, NEW it, it = Vmiter(k, root, va)
    PROVE  Find(k, it, v2) = Vmiter(k, root, v2)
<1> USE PageTableAssumption
<1>1. PICK g : g = Walk(k, AtRoot(root, va), TopLevel)
    OBVIOUS
<1>2. PICK h : h = Walk(k, AtRoot(root, v2), TopLevel)
    OBVIOUS
<1>3. /\ g[0] = Iter(root, root, TopLevel, PWU, va) /\ Steps(k, g, TopLevel)
      /\ h[0] = Iter(root, root, TopLevel, PWU, v2) /\ Steps(k, h, TopLevel)
      /\ it = g[TopLevel] /\ Vmiter(k, root, v2) = h[TopLevel]
    <2>1. \A v : AtRoot(root, v) = Iter(root, root, TopLevel, PWU, v)
        BY DEF AtRoot, Iter
    <2>2. g[0] = AtRoot(root, va) /\ Steps(k, g, TopLevel)
        BY <1>1, WalkIs DEF Steps
    <2>3. h[0] = AtRoot(root, v2) /\ Steps(k, h, TopLevel)
        BY <1>2, WalkIs DEF Steps
    <2> QED
        BY <1>1, <1>2, <2>1, <2>2, <2>3, VmiterIs
<1>4. \A i \in 0 .. TopLevel : Settles(k, g, i, root, TopLevel, va)
    BY <1>3, WalkStops
<1>5. Down(k, h[TopLevel]) = h[TopLevel]
    <2>1. TopLevel \in 0 .. TopLevel
        OBVIOUS
    <2> QED
        BY <1>3, <2>1, WalkStops
<1>6. it = Iter(root, it.table, it.level, it.perm, va) /\ it.level \in 0 .. TopLevel
    <2>1. TopLevel \in 0 .. TopLevel
        OBVIOUS
    <2> QED
        BY <1>3, <1>4, <2>1 DEF Settles
<1>7. it.root = root /\ it.va = va
    BY <1>6, IterFields
<1> DEFINE same == /\ it.level < TopLevel
                   /\ v2 \div Span(it.level + 1) = it.va \div Span(it.level + 1)
<1>8. CASE ~ same
    <2>1. Find(k, it, v2) = Iterate(LAMBDA i : Down(k, i), AtRoot(root, v2), TopLevel)
        BY <1>7, <1>8 DEF Find
    <2>2. Iterate(LAMBDA i : Down(k, i), AtRoot(root, v2), TopLevel) = h[TopLevel]
        BY <1>2 DEF Iterate, Iterates, Walk, Walks
    <2> QED
        BY <1>3, <2>1, <2>2
<1>9. CASE same
    <2>1. PICK L : L = it.level
        OBVIOUS
    <2>2. L \in 0 .. TopLevel - 1 /\ Prefix(v2, L + 1) = Prefix(va, L + 1)
        BY <1>6, <1>7, <1>9, <2>1 DEF Prefix
    <2>3. \A m \in L + 1 .. TopLevel : pageindex(v2, m) = pageindex(va, m)
        BY <2>2, PrefixUp
    <2>4. PICK a : a = TopLevel - L
        OBVIOUS
    <2>5. a \in 0 .. TopLevel /\ TopLevel - a = L
        BY <2>2, <2>4
    <2>6. ASSUME NEW i \in 0 .. a PROVE g[i].level = TopLevel - i
        <3>1. i \in 0 .. TopLevel
            BY <2>5
        <3>2. CASE Down(k, g[i]) = g[i]
            <4>1. g[TopLevel] = g[i]
                <5>1. \A j \in i .. TopLevel : g[j] = g[i]
                    BY <1>3, <3>1, <3>2, WalkStays
                <5> QED
                    BY <3>1, <5>1
            <4>2. g[i].level = L /\ L >= TopLevel - i
                BY <1>3, <1>4, <2>1, <3>1, <4>1 DEF Settles
            <4> QED
                BY <2>2, <2>5, <3>1, <4>2
        <3> QED
            BY <1>4, <3>1, <3>2 DEF Settles
    <2>7. g[a].level = L /\ g[TopLevel] = g[a]
        <3>1. g[a].level = L
            BY <2>5, <2>6
        <3>2. PICK w : w = g[a]
            OBVIOUS
        <3>3. SUFFICES ASSUME Down(k, w) # w PROVE FALSE
            <4>1. CASE Down(k, w) = w
                <5>1. \A j \in a .. TopLevel : g[j] = g[a]
                    BY <1>3, <2>5, <3>2, <4>1, WalkStays
                <5> QED
                    BY <2>5, <3>1, <5>1
            <4> QED
                BY <3>2, <4>1
        <3>4. PICK e : e = At(k, w)
            OBVIOUS
        <3>5. w.level > 0 /\ "P" \in e.perm
            BY <3>3, <3>4 DEF Down
        <3>6. w = Iter(root, w.table, w.level, w.perm, va) /\ w.level = L
            BY <1>4, <2>5, <3>1, <3>2 DEF Settles
        <3>7. \E t, q : Down(k, w) = Iter(root, t, L - 1, q, va)
            <4>1. PICK t, p, m, q : t = w.table /\ p = w.perm /\ m = L - 1 /\ q = p \cap e.perm
                OBVIOUS
            <4>2. w = Iter(root, t, L, p, va) /\ Passes(L, e)
                BY <3>5, <3>6, <4>1 DEF Passes
            <4>3. Down(k, w) = Iter(root, e.pa, m, q, va)
                BY <3>4, <4>1, <4>2, DownMoves DEF Narrows
            <4> QED
                BY <4>1, <4>3
        <3>8. a + 1 \in 0 .. TopLevel /\ a + 1 \in 1 .. TopLevel /\ L - 1 \in Nat
            BY <2>2, <2>4, <3>5, <3>6
        <3>9. PICK t, l, p : l = L - 1 /\ g[a + 1] = Iter(root, t, l, p, va)
            <4>1. PICK b : b = a + 1
                OBVIOUS
            <4>3. b \in 1 .. TopLevel /\ b - 1 = a
                BY <2>5, <3>8, <4>1
            <4>2. g[a + 1] = Down(k, w)
                BY <1>3, <3>2, <4>1, <4>3 DEF Steps
            <4> QED
                BY <3>7, <4>2
        <3>10. PICK n : n = TopLevel - (a + 1)
            OBVIOUS
        <3>11. n \in Nat /\ n \in 0 .. n /\ a + 1 + n = TopLevel
            BY <3>8, <3>10
        <3>12. PICK f : f = [j \in 0 .. n |-> g[a + 1 + j]]
            OBVIOUS
        <3>13. f[0] = g[a + 1] /\ f[n] = g[TopLevel]
            BY <3>8, <3>11, <3>12
        <3>14. Steps(k, f, n)
            <4>0. SUFFICES \A i \in 1 .. n : f[i] = Down(k, f[i - 1])
                BY DEF Steps
            <4>1. TAKE i \in 1 .. n
            <4>2. i \in 0 .. n /\ i - 1 \in 0 .. n /\ a + 1 + i \in 1 .. TopLevel /\ a + 1 + i - 1 = a + 1 + (i - 1)
                BY <3>8, <3>11, <4>1
            <4>3. PICK j : j = a + 1 + i
                OBVIOUS
            <4>4. g[j] = Down(k, g[j - 1])
                BY <1>3, <4>2, <4>3 DEF Steps
            <4>5. j - 1 = a + 1 + (i - 1)
                BY <2>5, <3>11, <4>1, <4>3
            <4>6. f[i] = g[j] /\ f[i - 1] = g[j - 1]
                BY <3>12, <4>2, <4>3, <4>5
            <4> QED
                BY <4>4, <4>6
        <3>15. f[n].level \in 0 .. L - 1
            <4>2. f[0] = Iter(root, t, l, p, va) /\ l \in Nat
                BY <3>8, <3>9, <3>13
            <4>3. \A i \in 0 .. n : Settles(k, f, i, root, l, va)
                BY <3>11, <3>14, <4>2, WalkStops
            <4> QED
                BY <3>9, <3>11, <4>3 DEF Settles
        <3> QED
            BY <1>3, <2>1, <2>2, <3>13, <3>15
    <2>8. \A i \in 0 .. a : h[i] = [g[i] EXCEPT !.va = v2]
        <3> DEFINE S == {i \in Nat : i <= a /\ h[i] # [g[i] EXCEPT !.va = v2]}
        <3>1. SUFFICES ASSUME S # {} PROVE FALSE
            OBVIOUS
        <3>2. PICK b \in S : \A c \in S : b <= c
            BY <3>1, LeastNat
        <3>3. h[0] = [g[0] EXCEPT !.va = v2]
            BY <1>3, IterExcept
        <3>4. b \in 1 .. a /\ b \in 1 .. TopLevel
            BY <2>5, <3>2, <3>3
        <3>5. b - 1 \in Nat /\ b - 1 <= a /\ b - 1 \notin S /\ b - 1 \in 0 .. a /\ b - 1 \in 0 .. TopLevel /\ b \in 0 .. a
            BY <2>5, <3>2, <3>4
        <3>6. PICK u, t, l, p : u = g[b - 1] /\ t = u.table /\ l = u.level /\ p = u.perm
            OBVIOUS
        <3>7. u = Iter(root, t, l, p, va) /\ l \in L + 1 .. TopLevel /\ g[b].level = l - 1
            <4>1. g[b - 1].level = TopLevel - (b - 1) /\ g[b].level = TopLevel - b
                BY <2>6, <3>5
            <4>2. u = Iter(root, t, l, p, va)
                BY <1>4, <3>5, <3>6 DEF Settles
            <4> QED
                BY <2>2, <2>5, <3>4, <3>6, <4>1, <4>2
        <3>8. PICK x : x = h[b - 1]
            OBVIOUS
        <3>9. x = Iter(root, t, l, p, v2)
            <4>1. x = [u EXCEPT !.va = v2]
                BY <3>5, <3>6, <3>8
            <4> QED
                BY <3>7, <4>1, IterExcept
        <3>10. PICK e : e = At(k, u)
            OBVIOUS
        <3>11. At(k, x) = e
            <4>1. u.table = t /\ u.level = l /\ u.va = va /\ x.table = t /\ x.level = l /\ x.va = v2
                BY <3>7, <3>9, IterFields
            <4>2. pageindex(v2, l) = pageindex(va, l)
                BY <2>3, <3>7
            <4> QED
                BY <3>10, <4>1, <4>2 DEF At
        <3>12. g[b] = Down(k, u) /\ h[b] = Down(k, x)
            BY <1>3, <3>4, <3>6, <3>8 DEF Steps
        <3>13. u.level = l /\ x.level = l /\ u.perm = p /\ x.perm = p
            BY <3>7, <3>9, IterFields
        <3>14. Passes(l, e)
            <4>1. Down(k, u) # u
                BY <2>2, <3>7, <3>12, <3>13
            <4> QED
                BY <3>10, <3>13, <4>1 DEF Down, Passes
        <3>18. PICK m, q : m = l - 1 /\ q = p \cap e.perm
            OBVIOUS
        <3>15. Down(k, u) = Iter(root, e.pa, m, q, va)
            BY <3>7, <3>10, <3>14, <3>18, DownMoves DEF Narrows
        <3>16. Down(k, x) = Iter(root, e.pa, m, q, v2)
            BY <3>9, <3>11, <3>14, <3>18, DownMoves DEF Narrows
        <3>17. h[b] = [g[b] EXCEPT !.va = v2]
            BY <3>12, <3>15, <3>16, IterExcept
        <3> QED
            BY <3>2, <3>17
    <2>9. [it EXCEPT !.va = v2] = h[a]
        <3>1. a \in 0 .. a
            BY <2>5
        <3> QED
            BY <1>3, <2>7, <2>8, <3>1
    <2>10. PICK f : f = Walk(k, h[a], TopLevel)
        OBVIOUS
    <2>11. f[0] = h[a] /\ Steps(k, f, TopLevel)
        BY <2>10, WalkIs DEF Steps
    <2>12. Find(k, it, v2) = f[TopLevel]
        <3>1. Find(k, it, v2) = Iterate(LAMBDA i : Down(k, i), [it EXCEPT !.va = v2], TopLevel)
            BY <1>9 DEF Find
        <3>2. Iterate(LAMBDA i : Down(k, i), h[a], TopLevel) = f[TopLevel]
            BY <2>10 DEF Iterate, Iterates, Walk, Walks
        <3> QED
            BY <2>9, <3>1, <3>2
    <2>13. f[L] = h[TopLevel]
        <3>1. L \in 0 .. TopLevel /\ a + L <= TopLevel /\ a + L = TopLevel
            BY <2>2, <2>4
        <3>2. \A j \in 0 .. TopLevel : a + j <= TopLevel => f[j] = h[a + j]
            BY <1>3, <2>5, <2>11, WalksAgree
        <3> QED
            BY <3>1, <3>2
    <2>14. f[TopLevel] = f[L]
        <3>1. L \in 0 .. TopLevel /\ TopLevel \in L .. TopLevel
            BY <2>2
        <3>2. \A i \in L .. TopLevel : f[i] = f[L]
            BY <1>5, <2>11, <2>13, <3>1, WalkStays
        <3> QED
            BY <3>1, <3>2
    <2> QED
        BY <1>3, <2>12, <2>13, <2>14
<1> QED
    BY <1>8, <1>9

----------------------------------------------------------------------------
(* Loops: turns of a function on a set of states.                           *)

Turns(F, g, n) == \A i \in 1 .. n : g[i] = F[g[i - 1]]

\* n turns from any state.
LEMMA TurnsExist ==
    ASSUME NEW S, NEW F \in [S -> S], NEW x \in S
    PROVE  \A n \in Nat : \E g \in [0 .. n -> S] : g[0] = x /\ Turns(F, g, n)
<1> DEFINE T == {n \in Nat : ~ \E g \in [0 .. n -> S] : g[0] = x /\ Turns(F, g, n)}
<1>1. SUFFICES ASSUME T # {} PROVE FALSE
    OBVIOUS
<1>2. PICK a \in T : \A b \in T : a <= b
    BY <1>1, LeastNat
<1>3. CASE a = 0
    <2>1. PICK g : g = [i \in 0 .. 0 |-> x]
        OBVIOUS
    <2>2. g \in [0 .. 0 -> S] /\ g[0] = x
        BY <2>1
    <2>3. Turns(F, g, 0)
        BY DEF Turns
    <2> QED
        BY <1>2, <1>3, <2>2, <2>3
<1>4. CASE a # 0
    <2>1. a - 1 \in Nat /\ a - 1 \notin T
        BY <1>2, <1>4
    <2>2. PICK g \in [0 .. a - 1 -> S] : g[0] = x /\ Turns(F, g, a - 1)
        BY <2>1
    <2>3. PICK h : h = [i \in 0 .. a |-> IF i = a THEN F[g[a - 1]] ELSE g[i]]
        OBVIOUS
    <2>4. a - 1 \in 0 .. a - 1
        BY <2>1
    <2>5. ASSUME NEW i \in 0 .. a PROVE h[i] \in S
        <3>1. CASE i = a
            BY <2>2, <2>3, <2>4, <3>1
        <3>2. CASE i # a
            <4>1. i \in 0 .. a - 1
                BY <3>2
            <4> QED
                BY <2>2, <2>3, <3>2, <4>1
        <3> QED
            BY <3>1, <3>2
    <2>6. h \in [0 .. a -> S] /\ h[0] = x
        BY <1>4, <2>2, <2>3, <2>5
    <2>7. ASSUME NEW i \in 1 .. a PROVE h[i] = F[h[i - 1]]
        <3>1. i - 1 \in 0 .. a /\ i - 1 # a /\ i \in 0 .. a
            BY <2>1
        <3>2. h[i - 1] = g[i - 1]
            BY <2>3, <3>1
        <3>3. CASE i = a
            BY <2>3, <3>1, <3>2, <3>3
        <3>4. CASE i # a
            <4>1. i \in 1 .. a - 1
                BY <3>4
            <4>2. g[i] = F[g[i - 1]]
                BY <2>2, <4>1 DEF Turns
            <4> QED
                BY <2>3, <3>1, <3>2, <3>4, <4>2
        <3> QED
            BY <3>3, <3>4
    <2>8. Turns(F, h, a)
        BY <2>7 DEF Turns
    <2> QED
        BY <1>2, <2>6, <2>8
<1> QED
    BY <1>3, <1>4

\* n turns of F from x end at y.
Runs(S, F, x, n, y) == \E g \in [0 .. n -> S] : g[0] = x /\ Turns(F, g, n) /\ g[n] = y

\* Every turn that does not end the loop raises M by c.
Climbs(S, F, Done, M, c) ==
    \A s \in S : /\ s \in Done => F[s] \in Done
                 /\ s \notin Done => F[s] \in Done \/ M[F[s]] >= M[s] + c

\* A measure that grows by c with every turn but the last has grown by c times the turns.
LEMMA ClimbsTo ==
    ASSUME NEW S, NEW F \in [S -> S], NEW n \in Nat, NEW g \in [0 .. n -> S], Turns(F, g, n),
           NEW Done, NEW M \in [S -> Nat], NEW c \in Nat, Climbs(S, F, Done, M, c)
    PROVE  g[n] \in Done \/ M[g[n]] >= M[g[0]] + c * n
<1> DEFINE P(i) == g[i] \in Done \/ M[g[i]] >= M[g[0]] + c * i
           T == {i \in Nat : i <= n /\ ~ P(i)}
<1>1. M[g[0]] \in Nat
    <2>1. g[0] \in S
        OBVIOUS
    <2> QED
        BY <2>1
<1>2. P(0)
    <2>1. c * 0 = 0
        OBVIOUS
    <2> QED
        BY <1>1, <2>1
<1>3. ASSUME NEW i \in 1 .. n, P(i - 1) PROVE P(i)
    <2>1. i - 1 \in 0 .. n /\ i \in 0 .. n
        OBVIOUS
    <2>2. PICK s \in S : s = g[i - 1]
        BY <2>1
    <2>3. PICK t \in S : t = g[i]
        BY <2>1
    <2>4. t = F[s]
        BY <2>2, <2>3 DEF Turns
    <2>5. /\ s \in Done => t \in Done
          /\ s \notin Done => t \in Done \/ M[t] >= M[s] + c
        BY <2>4 DEF Climbs
    <2>6. M[s] \in Nat /\ M[t] \in Nat
        OBVIOUS
    <2>7. c * i = c * (i - 1) + c /\ c * (i - 1) \in Nat
        OBVIOUS
    <2>8. s \in Done \/ M[s] >= M[g[0]] + c * (i - 1)
        BY <1>3, <2>2
    <2>9. t \in Done \/ M[t] >= M[g[0]] + c * i
        BY <1>1, <2>5, <2>6, <2>7, <2>8
    <2> QED
        BY <2>3, <2>9
<1> HIDE DEF P
<1>4. T = {}
    <2>1. SUFFICES ASSUME T # {} PROVE FALSE
        OBVIOUS
    <2>2. PICK a \in T : \A b \in T : a <= b
        BY <2>1, LeastNat
    <2>3. a \in 1 .. n
        BY <1>2, <2>2
    <2>4. a - 1 \in Nat /\ a - 1 <= n /\ a - 1 \notin T
        BY <2>2, <2>3
    <2> QED
        BY <1>3, <2>2, <2>3, <2>4
<1>5. P(n)
    BY <1>4
<1> QED
    BY <1>5 DEF P

\* The same of a run.
LEMMA RunClimbs ==
    ASSUME NEW S, NEW F \in [S -> S], NEW n \in Nat, NEW x, NEW y, Runs(S, F, x, n, y),
           NEW Done, NEW M \in [S -> Nat], NEW c \in Nat, Climbs(S, F, Done, M, c)
    PROVE  y \in S /\ (y \in Done \/ M[y] >= M[x] + c * n)
<1>1. PICK g \in [0 .. n -> S] : g[0] = x /\ Turns(F, g, n) /\ g[n] = y
    BY DEF Runs
<1>2. g[n] \in Done \/ M[g[n]] >= M[g[0]] + c * n
    BY <1>1, ClimbsTo
<1>3. g[n] \in S
    OBVIOUS
<1> QED
    BY <1>1, <1>2, <1>3

\* h turns as F wherever it has followed g.
Follows(F, g, h, n) == \A i \in 1 .. n : g[i - 1] = h[i - 1] => h[i] = F[h[i - 1]]

\* Two records of the same turns.
LEMMA TurnsAgree ==
    ASSUME NEW S, NEW F \in [S -> S], NEW n \in Nat, NEW g \in [0 .. n -> S], NEW h, g[0] = h[0], Turns(F, g, n),
           Follows(F, g, h, n)
    PROVE  \A i \in 0 .. n : h[i] = g[i]
<1> DEFINE T == {i \in Nat : i <= n /\ h[i] # g[i]}
<1>1. SUFFICES ASSUME T # {} PROVE FALSE
    OBVIOUS
<1>2. PICK a \in T : \A b \in T : a <= b
    BY <1>1, LeastNat
<1>3. a \in 1 .. n
    BY <1>2
<1>4. a - 1 \in Nat /\ a - 1 <= n /\ a - 1 \notin T
    BY <1>2, <1>3
<1>5. h[a - 1] = g[a - 1]
    BY <1>4
<1>6. h[a] = F[h[a - 1]] /\ g[a] = F[g[a - 1]]
    BY <1>3, <1>5 DEF Turns, Follows
<1> QED
    BY <1>2, <1>5, <1>6

----------------------------------------------------------------------------
(* The user's pages, as memusage::refresh finds them.                       *)

\* The turns of the iteration, and its rounds.
UserTurns(g, k, x, n) ==
    g = [i \in 0 .. n |-> IF i = 0 THEN x
                          ELSE CHOOSE y \in {UserStep(k, z) : z \in {g[i - 1]}} : TRUE]

UserLoop(k, x, n) == Iterate(LAMBDA t : UserStep(k, t), x, n)

UserRound(k, n, s) == IF s.it.va >= VaEnd THEN s ELSE UserLoop(k, s, n)

UserRounds(g, k, m, x, n) ==
    g = [i \in 0 .. n |-> IF i = 0 THEN x
                          ELSE CHOOSE y \in {UserRound(k, m, z) : z \in {g[i - 1]}} : TRUE]

UserLoops(k, m, x, n) == Iterate(LAMBDA t : UserRound(k, m, t), x, n)

Turning(F, k, S)     == \A s \in S : F[s] = UserStep(k, s)
Rounding(F, k, m, S) == \A s \in S : F[s] = UserRound(k, m, s)

\* What the turns of the iteration come to.
LEMMA UserTurnsIs ==
    ASSUME NEW k, NEW S, NEW F \in [S -> S], NEW x \in S, NEW n \in Nat,
           Turning(F, k, S)
    PROVE  Runs(S, F, x, n, UserLoop(k, x, n))
<1>1. PICK g \in [0 .. n -> S] : g[0] = x /\ Turns(F, g, n)
    BY TurnsExist
<1>2. \A z : (CHOOSE y \in {UserStep(k, w) : w \in {z}} : TRUE) = UserStep(k, z)
    <2>1. TAKE z
    <2>2. {UserStep(k, w) : w \in {z}} = {UserStep(k, z)}
        OBVIOUS
    <2> QED
        BY <2>2, OneOf
<1>3. UserTurns(g, k, x, n)
    <2>1. \A i \in 0 .. n : g[i] = IF i = 0 THEN x
                                   ELSE CHOOSE y \in {UserStep(k, z) : z \in {g[i - 1]}} : TRUE
        <3>1. TAKE i \in 0 .. n
        <3>2. CASE i = 0
            BY <1>1, <3>2
        <3>3. CASE i # 0
            <4>1. i \in 1 .. n /\ i - 1 \in 0 .. n
                BY <3>1, <3>3
            <4>2. PICK z \in S : z = g[i - 1]
                BY <4>1
            <4>3. g[i] = UserStep(k, z)
                BY <1>1, <4>1, <4>2 DEF Turns, Turning
            <4> QED
                BY <1>2, <3>3, <4>2, <4>3
        <3> QED
            BY <3>2, <3>3
    <2>2. g = [i \in 0 .. n |-> g[i]]
        OBVIOUS
    <2> QED
        BY <2>1, <2>2 DEF UserTurns
<1>4. PICK h : h = CHOOSE f : UserTurns(f, k, x, n)
    OBVIOUS
<1>5. UserTurns(h, k, x, n)
    BY <1>3, <1>4
<1>6. h[0] = x /\ \A i \in 1 .. n : h[i] = UserStep(k, h[i - 1])
    <2>1. h = [i \in 0 .. n |-> IF i = 0 THEN x
                                ELSE CHOOSE y \in {UserStep(k, z) : z \in {h[i - 1]}} : TRUE]
        BY <1>5 DEF UserTurns
    <2>2. h[0] = x
        BY <2>1
    <2>3. ASSUME NEW i \in 1 .. n PROVE h[i] = UserStep(k, h[i - 1])
        <3>1. i \in 0 .. n /\ i # 0
            OBVIOUS
        <3>2. h[i] = CHOOSE y \in {UserStep(k, z) : z \in {h[i - 1]}} : TRUE
            BY <2>1, <3>1
        <3> QED
            BY <1>2, <3>2
    <2> QED
        BY <2>2, <2>3
<1>7. Follows(F, g, h, n)
    <2>1. SUFFICES ASSUME NEW i \in 1 .. n, g[i - 1] = h[i - 1] PROVE h[i] = F[h[i - 1]]
        BY DEF Follows
    <2>2. i - 1 \in 0 .. n
        OBVIOUS
    <2>3. h[i - 1] \in S
        BY <2>1, <2>2
    <2> QED
        BY <1>6, <2>3 DEF Turning
<1>8. h[n] = g[n]
    <2>1. g[0] = h[0]
        BY <1>1, <1>6
    <2>2. \A i \in 0 .. n : h[i] = g[i]
        BY <1>1, <1>7, <2>1, TurnsAgree
    <2> QED
        BY <2>2
<1>9. UserLoop(k, x, n) = h[n]
    BY <1>4 DEF UserLoop, Iterate, Iterates, UserTurns
<1> QED
    BY <1>1, <1>8, <1>9 DEF Runs

\* And its rounds.
LEMMA UserRoundsIs ==
    ASSUME NEW k, NEW m, NEW S, NEW F \in [S -> S], NEW x \in S, NEW n \in Nat,
           Rounding(F, k, m, S)
    PROVE  Runs(S, F, x, n, UserLoops(k, m, x, n))
<1>1. PICK g \in [0 .. n -> S] : g[0] = x /\ Turns(F, g, n)
    BY TurnsExist
<1>2. \A z : (CHOOSE y \in {UserRound(k, m, w) : w \in {z}} : TRUE) = UserRound(k, m, z)
    <2>1. TAKE z
    <2>2. {UserRound(k, m, w) : w \in {z}} = {UserRound(k, m, z)}
        OBVIOUS
    <2> QED
        BY <2>2, OneOf
<1>3. UserRounds(g, k, m, x, n)
    <2>1. \A i \in 0 .. n : g[i] = IF i = 0 THEN x
                                   ELSE CHOOSE y \in {UserRound(k, m, z) : z \in {g[i - 1]}} : TRUE
        <3>1. TAKE i \in 0 .. n
        <3>2. CASE i = 0
            BY <1>1, <3>2
        <3>3. CASE i # 0
            <4>1. i \in 1 .. n /\ i - 1 \in 0 .. n
                BY <3>1, <3>3
            <4>2. PICK z \in S : z = g[i - 1]
                BY <4>1
            <4>3. g[i] = UserRound(k, m, z)
                BY <1>1, <4>1, <4>2 DEF Turns, Rounding
            <4> QED
                BY <1>2, <3>3, <4>2, <4>3
        <3> QED
            BY <3>2, <3>3
    <2>2. g = [i \in 0 .. n |-> g[i]]
        OBVIOUS
    <2> QED
        BY <2>1, <2>2 DEF UserRounds
<1>4. PICK h : h = CHOOSE f : UserRounds(f, k, m, x, n)
    OBVIOUS
<1>5. UserRounds(h, k, m, x, n)
    BY <1>3, <1>4
<1>6. h[0] = x /\ \A i \in 1 .. n : h[i] = UserRound(k, m, h[i - 1])
    <2>1. h = [i \in 0 .. n |-> IF i = 0 THEN x
                                ELSE CHOOSE y \in {UserRound(k, m, z) : z \in {h[i - 1]}} : TRUE]
        BY <1>5 DEF UserRounds
    <2>2. h[0] = x
        BY <2>1
    <2>3. ASSUME NEW i \in 1 .. n PROVE h[i] = UserRound(k, m, h[i - 1])
        <3>1. i \in 0 .. n /\ i # 0
            OBVIOUS
        <3>2. h[i] = CHOOSE y \in {UserRound(k, m, z) : z \in {h[i - 1]}} : TRUE
            BY <2>1, <3>1
        <3> QED
            BY <1>2, <3>2
    <2> QED
        BY <2>2, <2>3
<1>7. Follows(F, g, h, n)
    <2>1. SUFFICES ASSUME NEW i \in 1 .. n, g[i - 1] = h[i - 1] PROVE h[i] = F[h[i - 1]]
        BY DEF Follows
    <2>2. i - 1 \in 0 .. n
        OBVIOUS
    <2>3. h[i - 1] \in S
        BY <2>1, <2>2
    <2> QED
        BY <1>6, <2>3 DEF Rounding
<1>8. h[n] = g[n]
    <2>1. g[0] = h[0]
        BY <1>1, <1>6
    <2>2. \A i \in 0 .. n : h[i] = g[i]
        BY <1>1, <1>7, <2>1, TurnsAgree
    <2> QED
        BY <2>2
<1>9. UserLoops(k, m, x, n) = h[n]
    BY <1>4 DEF UserLoops, Iterate, Iterates, UserRounds
<1> QED
    BY <1>1, <1>8, <1>9 DEF Runs

\* An iterator has the shape of one, whatever it has read.
LEMMA VmiterShape ==
    ASSUME NEW k, NEW root, NEW va
    PROVE  \E t, p : \E l \in 0 .. TopLevel : Vmiter(k, root, va) = Iter(root, t, l, p, va)
<1> USE PageTableAssumption
<1>1. PICK g : g = Walk(k, AtRoot(root, va), TopLevel)
    OBVIOUS
<1>2. g[0] = Iter(root, root, TopLevel, PWU, va) /\ Steps(k, g, TopLevel)
    <2>1. AtRoot(root, va) = Iter(root, root, TopLevel, PWU, va)
        BY DEF AtRoot, Iter
    <2> QED
        BY <1>1, <2>1, WalkIs DEF Steps
<1>3. Vmiter(k, root, va) = g[TopLevel]
    BY <1>1, VmiterIs
<1>4. Settles(k, g, TopLevel, root, TopLevel, va)
    <2>1. \A i \in 0 .. TopLevel : Settles(k, g, i, root, TopLevel, va)
        BY <1>2, WalkStops
    <2>2. TopLevel \in 0 .. TopLevel
        OBVIOUS
    <2> QED
        BY <2>1, <2>2
<1> QED
    BY <1>3, <1>4 DEF Settles

\* Permissions, by those of the entry.
LEMMA PermIs ==
    ASSUME NEW k, NEW w
    PROVE  /\ At(k, w).perm = {} => ~ User(k, w)
           /\ User(k, w) => Perm(k, w) # {}
<1>1. Perm(k, w) \subseteq At(k, w).perm
    BY DEF Perm
<1> QED
    BY <1>1 DEF User

\* An iterator that has stopped at an absent entry stands there for its whole range.
LEMMA RangeIs ==
    ASSUME NEW k, NEW G, NEW S, Layout(k, G, S), NEW p \in Nat, NEW root, IsRoot(G, p, root),
           NEW va \in 0 .. VaEnd - 1, NEW it, it = Vmiter(k, root, va), it.level # 0,
           NEW w \in Nat, Prefix(w, it.level) = Prefix(va, it.level)
    PROVE  ~ User(k, Vmiter(k, root, w))
<1> USE PageTableAssumption
<1>0. va \in Nat /\ va < VaEnd
    BY SpanIs DEF VaEnd
<1>1. PICK t, l : t = it.table /\ l = it.level
    OBVIOUS
<1>2. /\ it = Iter(root, t, l, PWU, va) /\ t \in Pages /\ l \in 1 .. TopLevel
      /\ G[t] = TableOf(p, l, Prefix(va, l + 1)) /\ At(k, it).perm = {}
    BY <1>1, VmiterStops
<1>3. PICK x : x = Iter(root, t, l, PWU, w)
    OBVIOUS
<1>4. At(k, x) = At(k, it)
    <2>1. pageindex(w, l) = pageindex(va, l)
        BY <1>1 DEF Prefix, pageindex
    <2>2. x.table = t /\ x.level = l /\ x.va = w /\ it.table = t /\ it.level = l /\ it.va = va
        BY <1>2, <1>3, IterFields
    <2> QED
        BY <2>1, <2>2 DEF At
<1>5. Down(k, x) = x
    BY <1>2, <1>4 DEF Down
<1>6. Vmiter(k, root, w) = Iterate(LAMBDA i : Down(k, i), x, TopLevel)
    <2>1. it.root = root /\ it.va = va
        BY <1>2, IterFields
    <2>2. CASE l < TopLevel
        <3>1. l + 1 \in l .. TopLevel + 1 /\ l \in 0 .. TopLevel + 1
            BY <1>2, <2>2
        <3>2. Prefix(w, l + 1) = Prefix(va, l + 1)
            BY <1>0, <1>1, <3>1, PrefixUp
        <3>3. Find(k, it, w) = Iterate(LAMBDA i : Down(k, i), [it EXCEPT !.va = w], TopLevel)
            BY <1>1, <2>1, <2>2, <3>2 DEF Find, Prefix
        <3>4. [it EXCEPT !.va = w] = x
            BY <1>2, <1>3, IterExcept
        <3>5. Find(k, it, w) = Vmiter(k, root, w)
            BY <1>0, FindIs
        <3> QED
            BY <3>3, <3>4, <3>5
    <2>3. CASE ~ (l < TopLevel)
        <3>1. l = TopLevel /\ Prefix(va, TopLevel + 1) = 0
            BY <1>0, <1>2, <2>3, PrefixIs
        <3>2. G[t] = G[root] /\ root \in Pages /\ G[t].kind = "table"
            BY <1>2, <3>1, RoleFields DEF IsRoot
        <3>3. t = root
            BY <1>2, <3>2 DEF Layout, Owned
        <3>4. x = AtRoot(root, w)
            BY <1>3, <3>1, <3>3 DEF AtRoot, Iter
        <3>5. PICK y : y = AtRoot(root, 0)
            OBVIOUS
        <3>6. ~ (y.level < TopLevel) /\ y.root = root
            BY <3>5 DEF AtRoot
        <3>7. Vmiter(k, root, w) = Iterate(LAMBDA i : Down(k, i), AtRoot(root, w), TopLevel)
            BY <3>5, <3>6 DEF Vmiter, Find
        <3> QED
            BY <3>4, <3>7
    <2> QED
        BY <2>2, <2>3
<1>7. PICK f : f = Walk(k, x, TopLevel)
    OBVIOUS
<1>8. Iterate(LAMBDA i : Down(k, i), x, TopLevel) = f[TopLevel]
    BY <1>7 DEF Iterate, Iterates, Walk, Walks
<1>9. f[TopLevel] = x
    <2>1. f[0] = x /\ Steps(k, f, TopLevel)
        BY <1>7, WalkIs DEF Steps
    <2>2. Down(k, f[0]) = f[0] /\ 0 \in 0 .. TopLevel
        BY <1>5, <2>1
    <2>3. \A i \in 0 .. TopLevel : f[i] = f[0]
        BY <2>1, <2>2, WalkStays
    <2>4. TopLevel \in 0 .. TopLevel
        OBVIOUS
    <2> QED
        BY <2>1, <2>3, <2>4
<1>10. ~ User(k, x)
    BY <1>2, <1>4, PermIs
<1> QED
    BY <1>6, <1>8, <1>9, <1>10

\* The addresses below v that the user may use, what they map, and the iteration that
\* has come to v.
UsedTo(k, r, v) == {u \in Nat : u < v /\ u < VaEnd /\ User(k, Vmiter(k, r, u))}
SeenTo(k, r, v) == {Pa(k, Vmiter(k, r, w)) : w \in UsedTo(k, r, v)}
UserState(k, r, v) == [it |-> Vmiter(k, r, v), seen |-> SeenTo(k, r, v)]

\* The parts of a state of the iteration over the pages of the user.
LEMMA UserStateIs ==
    ASSUME NEW k, NEW r, NEW v
    PROVE  /\ UserState(k, r, v).it = Vmiter(k, r, v) /\ UserState(k, r, v).it.va = v
           /\ UserState(k, r, v).seen = SeenTo(k, r, v)
<1>1. Vmiter(k, r, v).va = v
    BY VmiterShape, IterFields
<1> QED
    BY <1>1 DEF UserState

\* A turn goes on to a later address and misses nothing.
LEMMA UserStepIs ==
    ASSUME NEW k, NEW G, NEW S, Layout(k, G, S), NEW p \in Nat, NEW r, IsRoot(G, p, r),
           NEW v \in Nat, v < VaEnd
    PROVE  \E v2 \in Nat : v2 >= v + 1 /\ UserStep(k, UserState(k, r, v)) = UserState(k, r, v2)
<1> USE PageTableAssumption
<1>0. VaEnd \in Nat /\ v \in 0 .. VaEnd - 1
    BY SpanIs DEF VaEnd
<1>1. PICK it : it = Vmiter(k, r, v)
    OBVIOUS
<1>2. PICK s : s = UserState(k, r, v)
    OBVIOUS
<1>3. s.it = it /\ s.it.va = v /\ s.seen = SeenTo(k, r, v) /\ it.va = v
    BY <1>1, <1>2, UserStateIs
<1>4. ~ (v >= VaEnd)
    BY <1>0
<1>5. UserStep(k, s) = IF User(k, it)
                       THEN [it |-> NextVa(k, it), seen |-> SeenTo(k, r, v) \cup {Pa(k, it)}]
                       ELSE [it |-> NextRange(k, it), seen |-> SeenTo(k, r, v)]
    BY <1>3, <1>4 DEF UserStep
<1>6. CASE User(k, it)
    <2>1. NextVa(k, it) = Find(k, it, v + 1)
        BY <1>3, <1>6, PermIs DEF NextVa
    <2>2. Find(k, it, v + 1) = Vmiter(k, r, v + 1)
        <3>1. PICK v2 \in Nat : v2 = v + 1
            OBVIOUS
        <3> QED
            BY <1>1, <3>1, FindIs
    <2>3. SeenTo(k, r, v + 1) = SeenTo(k, r, v) \cup {Pa(k, it)}
        <3>1. \A u : u \in UsedTo(k, r, v + 1) <=> u \in UsedTo(k, r, v) \/ u = v
            BY <1>0, <1>1, <1>6 DEF UsedTo
        <3> QED
            BY <1>1, <3>1 DEF SeenTo
    <2>4. UserStep(k, s) = UserState(k, r, v + 1)
        BY <1>5, <1>6, <2>1, <2>2, <2>3 DEF UserState
    <2> QED
        BY <1>2, <2>4
<1>7. CASE ~ User(k, it)
    <2>1. PICK l : l = it.level
        OBVIOUS
    <2>2. l \in 0 .. TopLevel
        BY <1>0, <1>1, <2>1, VmiterStops
    <2>3. PICK d, q : d = Span(l) /\ q = Prefix(v, l)
        OBVIOUS
    <2>4. d \in Nat /\ d > 0 /\ q \in Nat
        <3>1. l \in 0 .. TopLevel + 1
            BY <2>2
        <3> QED
            BY <2>3, <3>1, SpanIs, PrefixIs
    <2>5. v = d * q + (v % d) /\ v % d \in 0 .. d - 1
        BY <2>3, <2>4, DivIs DEF Prefix
    <2>6. PICK v2 : v2 = (q + 1) * d
        OBVIOUS
    <2>7. d * q \in Nat /\ v2 = d * q + d /\ d * q <= v /\ v < v2 /\ v2 \in Nat
        <3>1. d * q \in Nat
            BY <2>4
        <3>2. (q + 1) * d = d * q + d
            BY <2>4
        <3> QED
            BY <2>4, <2>5, <2>6, <3>1, <3>2
    <2>8. NextRange(k, it) = Vmiter(k, r, v2)
        <3>1. LastVa(it) = v2
            BY <1>3, <2>1, <2>3, <2>6 DEF LastVa, Prefix
        <3> QED
            BY <1>1, <2>7, <3>1, FindIs DEF NextRange
    <2>9. ASSUME NEW u \in v .. v2 - 1 PROVE ~ User(k, Vmiter(k, r, u))
        <3>1. CASE l = 0
            <4>1. d = 1
                BY <2>3, <3>1, SpanIs
            <4>2. q * 1 = q /\ q = v
                BY <2>4, <2>5, <4>1
            <4>3. u = v
                BY <2>7, <4>1, <4>2
            <4> QED
                BY <1>1, <1>7, <4>3
        <3>2. CASE l # 0
            <4>1. PICK m \in Nat : m = u - d * q
                BY <2>7
            <4>4. PICK e \in Nat : e = d * q
                BY <2>7
            <4>5. u \in e .. e + d - 1 /\ m = u - e /\ u = e + m
                BY <2>4, <2>7, <4>1, <4>4
            <4>2. u = d * q + m /\ m < d /\ u \in Nat
                BY <2>4, <4>4, <4>5
            <4>3. Prefix(u, l) = q
                BY <2>3, <2>4, <4>2, DivUnique DEF Prefix
            <4> QED
                BY <1>0, <1>1, <2>1, <2>3, <3>2, <4>2, <4>3, RangeIs
        <3> QED
            BY <3>1, <3>2
    <2>10. UsedTo(k, r, v2) = UsedTo(k, r, v)
        <3>1. ASSUME NEW u PROVE u \in UsedTo(k, r, v2) <=> u \in UsedTo(k, r, v)
            <4>1. u \in UsedTo(k, r, v) => u \in UsedTo(k, r, v2)
                BY <2>7 DEF UsedTo
            <4>2. u \in UsedTo(k, r, v2) => u \in UsedTo(k, r, v)
                <5>1. SUFFICES ASSUME u \in Nat, u < v2, u < VaEnd, User(k, Vmiter(k, r, u)), ~ (u < v)
                               PROVE FALSE
                    BY DEF UsedTo
                <5>2. u \in v .. v2 - 1
                    BY <2>7, <5>1
                <5> QED
                    BY <2>9, <5>1, <5>2
            <4> QED
                BY <4>1, <4>2
        <3> QED
            BY <3>1
    <2>11. UserStep(k, s) = UserState(k, r, v2)
        BY <1>5, <1>7, <2>8, <2>10 DEF UserState, SeenTo
    <2>12. v2 >= v + 1
        BY <2>7
    <2> QED
        BY <1>2, <2>7, <2>11, <2>12
<1> QED
    BY <1>6, <1>7

\* The iteration ends when it has seen every page the user may use, and no other.
LEMMA UserPagesAre ==
    ASSUME NEW k, NEW G, NEW S0, Layout(k, G, S0), NEW p \in Nat, NEW r, IsRoot(G, p, r)
    PROVE  UserPages(k, r) = SeenTo(k, r, VaEnd)
<1>1. VaEnd \in Nat /\ WalkBound \in Nat /\ VaEnd <= WalkBound * WalkBound
    BY SpanIs, PageTableAssumption, WalkAssumption DEF VaEnd
<1> DEFINE S == {UserState(k, r, v) : v \in Nat}
           F == [s \in S |-> UserStep(k, s)]
           M == [s \in S |-> s.it.va]
           Done == {s \in S : s.it.va >= VaEnd}
           x == UserState(k, r, 0)
<1>2. \A v \in Nat : UserState(k, r, v) \in S /\ M[UserState(k, r, v)] = v
                     /\ (UserState(k, r, v) \in Done <=> v >= VaEnd)
    BY UserStateIs
<1>3. ASSUME NEW v \in Nat
      PROVE  \E v2 \in Nat : /\ F[UserState(k, r, v)] = UserState(k, r, v2)
                             /\ v >= VaEnd => v2 = v
                             /\ ~ (v >= VaEnd) => v2 >= v + 1
    <2>1. F[UserState(k, r, v)] = UserStep(k, UserState(k, r, v))
        BY <1>2
    <2>2. CASE v >= VaEnd
        <3>1. PICK s : s = UserState(k, r, v)
            OBVIOUS
        <3>2. s.it.va >= VaEnd
            BY <2>2, <3>1, UserStateIs
        <3>3. UserStep(k, s) = s
            BY <3>2 DEF UserStep
        <3> QED
            BY <2>1, <2>2, <3>1, <3>3
    <2>3. CASE ~ (v >= VaEnd)
        <3>1. v < VaEnd
            BY <1>1, <2>3
        <3>2. PICK v2 \in Nat : v2 >= v + 1 /\ UserStep(k, UserState(k, r, v)) = UserState(k, r, v2)
            BY <3>1, UserStepIs
        <3> QED
            BY <2>1, <2>3, <3>2
    <2> QED
        BY <2>2, <2>3
<1>4. F \in [S -> S]
    <2>1. ASSUME NEW s \in S PROVE UserStep(k, s) \in S
        <3>1. PICK v \in Nat : s = UserState(k, r, v)
            OBVIOUS
        <3>2. PICK v2 \in Nat : F[s] = UserState(k, r, v2)
            BY <1>3, <3>1
        <3>3. F[s] = UserStep(k, s)
            OBVIOUS
        <3> QED
            BY <1>2, <3>2, <3>3
    <2> QED
        BY <2>1
<1>5. M \in [S -> Nat] /\ Turning(F, k, S)
    <2>1. ASSUME NEW s \in S PROVE s.it.va \in Nat
        BY UserStateIs
    <2> QED
        BY <2>1 DEF Turning
<1>6. Climbs(S, F, Done, M, 1)
    <2>1. ASSUME NEW s \in S
          PROVE  /\ s \in Done => F[s] \in Done
                 /\ s \notin Done => F[s] \in Done \/ M[F[s]] >= M[s] + 1
        <3>1. PICK v \in Nat : s = UserState(k, r, v)
            OBVIOUS
        <3>2. PICK v2 \in Nat : /\ F[s] = UserState(k, r, v2)
                                /\ v >= VaEnd => v2 = v
                                /\ ~ (v >= VaEnd) => v2 >= v + 1
            BY <1>3, <3>1
        <3> HIDE DEF S, F, M, Done
        <3> QED
            BY <1>2, <3>1, <3>2
    <2> QED
        BY <2>1 DEF Climbs
<1> HIDE DEF F, M
<1> DEFINE n == WalkBound
           R == [s \in S |-> UserRound(k, n, s)]
<1>7. ASSUME NEW s \in S
      PROVE  /\ UserRound(k, n, s) \in S
             /\ s \in Done => UserRound(k, n, s) \in Done
             /\ s \notin Done => UserRound(k, n, s) \in Done \/ M[UserRound(k, n, s)] >= M[s] + n
    <2>1. CASE s \in Done
        BY <2>1 DEF UserRound
    <2>2. CASE s \notin Done
        <3>1. UserRound(k, n, s) = UserLoop(k, s, n)
            BY <2>2 DEF UserRound
        <3>2. PICK y : y = UserLoop(k, s, n)
            OBVIOUS
        <3>3. Runs(S, F, s, n, y)
            BY <1>1, <1>4, <1>5, <3>2, UserTurnsIs
        <3>4. y \in S /\ (y \in Done \/ M[y] >= M[s] + 1 * n)
            BY <1>1, <1>4, <1>5, <1>6, <3>3, RunClimbs
        <3>5. 1 * n = n
            BY <1>1
        <3> QED
            BY <2>2, <3>1, <3>2, <3>4, <3>5
    <2> QED
        BY <2>1, <2>2
<1>8. R \in [S -> S] /\ Rounding(R, k, n, S)
    BY <1>7 DEF Rounding
<1>9. Climbs(S, R, Done, M, n)
    BY <1>7, <1>8 DEF Climbs, Rounding
<1>10. x \in S /\ M[x] = 0
    BY <1>2
<1> HIDE DEF R, S, Done, x
<1>11. PICK y : y = UserLoops(k, n, x, n)
    OBVIOUS
<1>12. y \in S /\ (y \in Done \/ M[y] >= M[x] + n * n)
    <2>1. Runs(S, R, x, n, y)
        BY <1>1, <1>8, <1>10, <1>11, UserRoundsIs
    <2> QED
        BY <1>1, <1>5, <1>8, <1>9, <2>1, RunClimbs
<1>13. UserPages(k, r) = y.seen
    <2>1. x = [it |-> Vmiter(k, r, 0), seen |-> {}]
        <3>1. SeenTo(k, r, 0) = {}
            BY DEF SeenTo, UsedTo
        <3> QED
            BY <3>1 DEF UserState, x
    <2>2. UserPages(k, r) = UserLoops(k, n, [it |-> Vmiter(k, r, 0), seen |-> {}], n).seen
        BY DEF UserPages, Rounds, UserRound, UserLoop, UserLoops
    <2> QED
        BY <1>11, <2>1, <2>2
<1>14. PICK v \in Nat : y = UserState(k, r, v)
    BY <1>12 DEF S
<1>15. v >= VaEnd
    <2>1. y \in Done => v >= VaEnd
        BY <1>2, <1>14
    <2>2. M[y] = v
        BY <1>2, <1>14
    <2>3. n * n \in Nat
        BY <1>1
    <2>4. M[y] >= M[x] + n * n => v >= VaEnd
        BY <1>1, <1>10, <2>2, <2>3
    <2> QED
        BY <1>12, <2>1, <2>4
<1>16. SeenTo(k, r, v) = SeenTo(k, r, VaEnd)
    <2>1. UsedTo(k, r, v) = UsedTo(k, r, VaEnd)
        BY <1>1, <1>15 DEF UsedTo
    <2> QED
        BY <2>1 DEF SeenTo
<1> QED
    BY <1>13, <1>14, <1>16, UserStateIs

----------------------------------------------------------------------------
(* The page table pages, as ptiter visits them.                             *)

Yes == TRUE
No  == FALSE

PtAt(r, t, l, v, st, sk, dn, pg) ==
    [root |-> r, table |-> t, level |-> l, va |-> v, stop |-> st, skip |-> sk, done |-> dn, pages |-> pg]

\* The parts of a state of a ptiter, and what a change of one makes of it.
LEMMA PtFields ==
    ASSUME NEW r, NEW t, NEW l, NEW v, NEW st, NEW sk, NEW dn, NEW pg
    PROVE  LET s == PtAt(r, t, l, v, st, sk, dn, pg)
           IN /\ s.root = r /\ s.table = t /\ s.level = l /\ s.va = v
              /\ s.stop = st /\ s.skip = sk /\ s.done = dn /\ s.pages = pg
    BY DEF PtAt

LEMMA PtTable ==
    ASSUME NEW r, NEW t, NEW l, NEW v, NEW st, NEW sk, NEW dn, NEW pg, NEW x
    PROVE  [PtAt(r, t, l, v, st, sk, dn, pg) EXCEPT !.table = x] = PtAt(r, x, l, v, st, sk, dn, pg)
    BY DEF PtAt

LEMMA PtLevel ==
    ASSUME NEW r, NEW t, NEW l, NEW v, NEW st, NEW sk, NEW dn, NEW pg, NEW x
    PROVE  [PtAt(r, t, l, v, st, sk, dn, pg) EXCEPT !.level = x] = PtAt(r, t, x, v, st, sk, dn, pg)
    BY DEF PtAt

LEMMA PtVa ==
    ASSUME NEW r, NEW t, NEW l, NEW v, NEW st, NEW sk, NEW dn, NEW pg, NEW x
    PROVE  [PtAt(r, t, l, v, st, sk, dn, pg) EXCEPT !.va = x] = PtAt(r, t, l, x, st, sk, dn, pg)
    BY DEF PtAt

LEMMA PtStop ==
    ASSUME NEW r, NEW t, NEW l, NEW v, NEW st, NEW sk, NEW dn, NEW pg, NEW x
    PROVE  [PtAt(r, t, l, v, st, sk, dn, pg) EXCEPT !.stop = x] = PtAt(r, t, l, v, x, sk, dn, pg)
    BY DEF PtAt

LEMMA PtSkip ==
    ASSUME NEW r, NEW t, NEW l, NEW v, NEW st, NEW sk, NEW dn, NEW pg, NEW x
    PROVE  [PtAt(r, t, l, v, st, sk, dn, pg) EXCEPT !.skip = x] = PtAt(r, t, l, v, st, x, dn, pg)
    BY DEF PtAt

LEMMA PtDone ==
    ASSUME NEW r, NEW t, NEW l, NEW v, NEW st, NEW sk, NEW dn, NEW pg, NEW x
    PROVE  [PtAt(r, t, l, v, st, sk, dn, pg) EXCEPT !.done = x] = PtAt(r, t, l, v, st, sk, x, pg)
    BY DEF PtAt

LEMMA PtPages ==
    ASSUME NEW r, NEW t, NEW l, NEW v, NEW st, NEW sk, NEW dn, NEW pg, NEW x
    PROVE  [PtAt(r, t, l, v, st, sk, dn, pg) EXCEPT !.pages = x] = PtAt(r, t, l, v, st, sk, dn, x)
    BY DEF PtAt

\* The five kinds of turns.
LEMMA PtStepIs ==
    ASSUME NEW k, NEW r, NEW t, NEW l, NEW v, NEW st, NEW sk, NEW pg,
           NEW s, s = PtAt(r, t, l, v, st, sk, No, pg),
           NEW e, e = At(k, s), NEW v2, v2 = LastVa(s)
    PROVE  LET present == "P" \in e.perm /\ ~ sk
               ends    == v2 \div Span(l + 1) # v \div Span(l + 1)
           IN /\ present /\ l = st => PtStep(k, s) = PtAt(r, t, l, v, 1, Yes, No, Append(pg, e.pa))
              /\ present /\ l # st => PtStep(k, s) = PtAt(r, e.pa, l - 1, v, st, sk, No, pg)
              /\ ~ present /\ ends /\ l = TopLevel => PtStep(k, s) = PtAt(r, t, l, v, st, sk, Yes, pg)
              /\ ~ present /\ ends /\ l # TopLevel => PtStep(k, s) = PtAt(r, r, TopLevel, v, l + 1, No, No, pg)
              /\ ~ present /\ ~ ends => PtStep(k, s) = PtAt(r, t, l, v2, st, No, No, pg)
<1>1. /\ s.root = r /\ s.table = t /\ s.level = l /\ s.va = v
      /\ s.stop = st /\ s.skip = sk /\ s.done = No /\ s.pages = pg
    BY PtFields
<1> DEFINE present == "P" \in e.perm /\ ~ sk
           ends    == v2 \div Span(l + 1) # v \div Span(l + 1)
<1>2. PtStep(k, s) =
          IF present THEN
             IF l = st THEN [s EXCEPT !.pages = Append(@, e.pa), !.skip = Yes, !.stop = 1]
             ELSE [s EXCEPT !.table = e.pa, !.level = @ - 1]
          ELSE IF ends THEN
             IF l = TopLevel THEN [s EXCEPT !.done = Yes]
             ELSE [s EXCEPT !.stop = l + 1, !.level = TopLevel, !.table = r, !.skip = No]
          ELSE [s EXCEPT !.va = v2, !.skip = No]
    BY <1>1 DEF PtStep, Yes, No
<1>3. [s EXCEPT !.pages = Append(@, e.pa), !.skip = Yes, !.stop = 1]
      = PtAt(r, t, l, v, 1, Yes, No, Append(pg, e.pa))
    <2>1. PICK n : n = Append(pg, e.pa)
        OBVIOUS
    <2>2. PICK a : a = [s EXCEPT !.pages = n]
        OBVIOUS
    <2>3. PICK b : b = [a EXCEPT !.skip = Yes]
        OBVIOUS
    <2>4. PICK c : c = [b EXCEPT !.stop = 1]
        OBVIOUS
    <2>5. a = PtAt(r, t, l, v, st, sk, No, n)
        BY <2>2, PtPages
    <2>6. b = PtAt(r, t, l, v, st, Yes, No, n)
        BY <2>3, <2>5, PtSkip
    <2>7. c = PtAt(r, t, l, v, 1, Yes, No, n)
        BY <2>4, <2>6, PtStop
    <2>8. [s EXCEPT !.pages = Append(@, e.pa), !.skip = Yes, !.stop = 1] = c
        BY <1>1, <2>1, <2>2, <2>3, <2>4
    <2> QED
        BY <2>1, <2>7, <2>8
<1>4. [s EXCEPT !.table = e.pa, !.level = @ - 1] = PtAt(r, e.pa, l - 1, v, st, sk, No, pg)
    <2>1. PICK x, y : x = e.pa /\ y = l - 1
        OBVIOUS
    <2>2. PICK a : a = [s EXCEPT !.table = x]
        OBVIOUS
    <2>3. PICK b : b = [a EXCEPT !.level = y]
        OBVIOUS
    <2>4. a = PtAt(r, x, l, v, st, sk, No, pg)
        BY <2>2, PtTable
    <2>5. b = PtAt(r, x, y, v, st, sk, No, pg)
        BY <2>3, <2>4, PtLevel
    <2>6. [s EXCEPT !.table = e.pa, !.level = @ - 1] = b
        BY <1>1, <2>1, <2>2, <2>3
    <2> QED
        BY <2>1, <2>5, <2>6
<1>5. [s EXCEPT !.done = Yes] = PtAt(r, t, l, v, st, sk, Yes, pg)
    BY PtDone
<1>6. [s EXCEPT !.stop = l + 1, !.level = TopLevel, !.table = r, !.skip = No]
      = PtAt(r, r, TopLevel, v, l + 1, No, No, pg)
    <2>1. PICK x, y : x = l + 1 /\ y = TopLevel
        OBVIOUS
    <2>2. PICK a : a = [s EXCEPT !.stop = x]
        OBVIOUS
    <2>3. PICK b : b = [a EXCEPT !.level = y]
        OBVIOUS
    <2>4. PICK c : c = [b EXCEPT !.table = r]
        OBVIOUS
    <2>5. PICK d : d = [c EXCEPT !.skip = No]
        OBVIOUS
    <2>6. a = PtAt(r, t, l, v, x, sk, No, pg)
        BY <2>2, PtStop
    <2>7. b = PtAt(r, t, y, v, x, sk, No, pg)
        BY <2>3, <2>6, PtLevel
    <2>8. c = PtAt(r, r, y, v, x, sk, No, pg)
        BY <2>4, <2>7, PtTable
    <2>9. d = PtAt(r, r, y, v, x, No, No, pg)
        BY <2>5, <2>8, PtSkip
    <2>10. [s EXCEPT !.stop = l + 1, !.level = TopLevel, !.table = r, !.skip = No] = d
        BY <2>1, <2>2, <2>3, <2>4, <2>5
    <2> QED
        BY <2>1, <2>9, <2>10
<1>7. [s EXCEPT !.va = v2, !.skip = No] = PtAt(r, t, l, v2, st, No, No, pg)
    <2>1. PICK a : a = [s EXCEPT !.va = v2]
        OBVIOUS
    <2>2. PICK b : b = [a EXCEPT !.skip = No]
        OBVIOUS
    <2>3. a = PtAt(r, t, l, v2, st, sk, No, pg)
        BY <2>1, PtVa
    <2>4. b = PtAt(r, t, l, v2, st, No, No, pg)
        BY <2>2, <2>3, PtSkip
    <2> QED
        BY <2>1, <2>2, <2>4
<1> HIDE DEF present, ends
<1>8. PICK u : u = PtStep(k, s)
    OBVIOUS
<1>9. /\ present /\ l = st => u = PtAt(r, t, l, v, 1, Yes, No, Append(pg, e.pa))
      /\ present /\ l # st => u = PtAt(r, e.pa, l - 1, v, st, sk, No, pg)
      /\ ~ present /\ ends /\ l = TopLevel => u = PtAt(r, t, l, v, st, sk, Yes, pg)
      /\ ~ present /\ ends /\ l # TopLevel => u = PtAt(r, r, TopLevel, v, l + 1, No, No, pg)
      /\ ~ present /\ ~ ends => u = PtAt(r, t, l, v2, st, No, No, pg)
    BY <1>2, <1>3, <1>4, <1>5, <1>6, <1>7, <1>8
<1> QED
    BY <1>8, <1>9 DEF present, ends

\* Division by a positive number is monotone.
LEMMA DivMono ==
    ASSUME NEW a \in Nat, NEW b \in Nat, a <= b, NEW s \in Nat, s > 0
    PROVE  a \div s <= b \div s
<1> DEFINE x == a \div s
           y == b \div s
<1>1. /\ x \in Nat /\ a % s \in 0 .. s - 1 /\ a = s * x + (a % s)
      /\ y \in Nat /\ b % s \in 0 .. s - 1 /\ b = s * y + (b % s)
    BY DivIs
<1> HIDE DEF x, y
<1>2. SUFFICES ASSUME y + 1 <= x PROVE FALSE
    BY <1>1 DEF x, y
<1>3. s * (y + 1) <= s * x
    BY <1>1, <1>2, MulMono
<1>4. s * (y + 1) = s * y + s /\ s * y \in Nat /\ s * x \in Nat
    BY <1>1
<1> QED
    BY <1>1, <1>3, <1>4

\* A greater address has no smaller prefix, at any level above.
LEMMA PrefixMono ==
    ASSUME NEW u \in Nat, NEW w \in Nat, NEW m \in 0 .. TopLevel + 1, Prefix(u, m) <= Prefix(w, m)
    PROVE  \A l \in m .. TopLevel + 1 : Prefix(u, l) <= Prefix(w, l)
<1> USE PageTableAssumption
<1> DEFINE S == {l \in Nat : m <= l /\ l <= TopLevel + 1 /\ ~ (Prefix(u, l) <= Prefix(w, l))}
<1>1. SUFFICES ASSUME S # {} PROVE FALSE
    OBVIOUS
<1>2. PICK a \in S : \A b \in S : a <= b
    BY <1>1, LeastNat
<1>3. a # m
    BY <1>2
<1>4. PICK c \in Nat : c = a - 1 /\ c \in 0 .. TopLevel /\ c + 1 = a /\ m <= c
    BY <1>2, <1>3
<1>5. Prefix(u, c) <= Prefix(w, c)
    <2>1. c \notin S
        BY <1>2, <1>4
    <2> QED
        BY <1>4, <2>1
<1>6. /\ Prefix(u, c) \in Nat /\ Prefix(w, c) \in Nat
      /\ Prefix(u, c) \div Fanout = Prefix(u, a) /\ Prefix(w, c) \div Fanout = Prefix(w, a)
    <2>1. /\ Prefix(u, c) \in Nat /\ Prefix(w, c) \in Nat
          /\ Prefix(u, c) \div Fanout = Prefix(u, c + 1) /\ Prefix(w, c) \div Fanout = Prefix(w, c + 1)
        <3>1. c \in 0 .. TopLevel + 1
            BY <1>4
        <3>2. ASSUME NEW x \in Nat PROVE Prefix(x, c) \in Nat /\ Prefix(x, c) \div Fanout = Prefix(x, c + 1)
            BY <1>4, <3>1, PrefixIs
        <3> QED
            BY <3>2
    <2> QED
        BY <1>4, <2>1
<1>7. Prefix(u, a) <= Prefix(w, a)
    <2>1. Fanout \in Nat /\ Fanout > 0
        OBVIOUS
    <2> QED
        BY <1>5, <1>6, <2>1, DivMono
<1> QED
    BY <1>2, <1>7

\* A smaller prefix stays one at the levels below.
LEMMA PrefixBelow ==
    ASSUME NEW u \in Nat, NEW w \in Nat, NEW l \in 0 .. TopLevel + 1, Prefix(u, l) < Prefix(w, l),
           NEW m \in 0 .. l
    PROVE  Prefix(u, m) < Prefix(w, m)
<1> USE PageTableAssumption
<1>1. m \in 0 .. TopLevel + 1 /\ l \in m .. TopLevel + 1
    OBVIOUS
<1>2. Prefix(u, m) \in Nat /\ Prefix(w, m) \in Nat /\ Prefix(u, l) \in Nat /\ Prefix(w, l) \in Nat
    BY <1>1, PrefixIs
<1>3. SUFFICES ASSUME Prefix(w, m) <= Prefix(u, m) PROVE FALSE
    BY <1>2
<1>4. Prefix(w, l) <= Prefix(u, l)
    BY <1>1, <1>3, PrefixMono
<1> QED
    BY <1>2, <1>4

\* The first address of a table.
LEMMA BaseIs ==
    ASSUME NEW b \in Nat, NEW m \in 0 .. TopLevel + 1
    PROVE  b * Span(m) \in Nat /\ Prefix(b * Span(m), m) = b
<1>1. Span(m) \in Nat /\ Span(m) > 0
    BY SpanIs
<1>2. b * Span(m) = Span(m) * b + 0 /\ b * Span(m) \in Nat
    BY <1>1
<1> QED
    BY <1>1, <1>2, DivUnique DEF Prefix

\* Where a turn moves to, after the entry of va at level l, and whether that is in the
\* same table.
AfterEntry(va, l) == (Prefix(va, l) + 1) * Span(l)
Leaves(va, l)     == Prefix(AfterEntry(va, l), l + 1) # Prefix(va, l + 1)

\* The address after an entry: the prefix at its level is one more, and the ones above are
\* the same unless the entry is the last of its table.
LEMMA AfterEntryIs ==
    ASSUME NEW va \in Nat, NEW l \in 0 .. TopLevel, NEW v2, v2 = AfterEntry(va, l)
    PROVE  /\ v2 \in Nat /\ Prefix(v2, l) = Prefix(va, l) + 1
           /\ ~ Leaves(va, l) => \A m \in l + 1 .. TopLevel + 1 : Prefix(v2, m) = Prefix(va, m)
           /\ l > 0 => Prefix(v2, 1) >= Prefix(va, 1) + 1
           /\ \A u \in Nat : Leaves(va, l) /\ Prefix(u, l + 1) = Prefix(va, l + 1) => Prefix(u, l) <= Prefix(va, l)
<1> USE PageTableAssumption
<1>1. l \in 0 .. TopLevel + 1 /\ l + 1 \in 0 .. TopLevel + 1 /\ Prefix(va, l) \in Nat
    BY PrefixIs
<1>2. v2 \in Nat /\ Prefix(v2, l) = Prefix(va, l) + 1
    <2>1. PICK b \in Nat : b = Prefix(va, l) + 1
        BY <1>1
    <2> QED
        BY <1>1, <2>1, BaseIs DEF AfterEntry
<1>3. ~ Leaves(va, l) => \A m \in l + 1 .. TopLevel + 1 : Prefix(v2, m) = Prefix(va, m)
    <2>1. SUFFICES ASSUME Prefix(v2, l + 1) = Prefix(va, l + 1)
                   PROVE \A m \in l + 1 .. TopLevel + 1 : Prefix(v2, m) = Prefix(va, m)
        BY DEF Leaves
    <2>2. PICK m0 \in 0 .. TopLevel + 1 : m0 = l + 1
        BY <1>1
    <2> QED
        BY <1>2, <2>1, <2>2, PrefixUp
<1>4. l > 0 => Prefix(v2, 1) >= Prefix(va, 1) + 1
    <2>1. SUFFICES ASSUME l > 0 PROVE Prefix(va, 1) < Prefix(v2, 1)
        <3>1. Prefix(va, 1) \in Nat /\ Prefix(v2, 1) \in Nat
            BY <1>2, PrefixIs
        <3> QED
            BY <3>1
    <2>2. 1 \in 0 .. l /\ Prefix(va, l) < Prefix(v2, l)
        BY <1>1, <1>2, <2>1
    <2> QED
        BY <1>1, <1>2, <2>2, PrefixBelow
<1>5. ASSUME NEW u \in Nat, Leaves(va, l), Prefix(u, l + 1) = Prefix(va, l + 1)
      PROVE  Prefix(u, l) <= Prefix(va, l)
    <2>1. Prefix(u, l) \in Nat
        BY <1>1, PrefixIs
    <2>2. SUFFICES ASSUME Prefix(v2, l) <= Prefix(u, l) PROVE FALSE
        BY <1>1, <1>2, <2>1
    <2>3. l + 1 \in l .. TopLevel + 1
        BY <1>1
    <2>4. Prefix(v2, l + 1) <= Prefix(u, l + 1)
        BY <1>1, <1>2, <2>2, <2>3, PrefixMono
    <2>5. Prefix(va, l) <= Prefix(v2, l)
        BY <1>1, <1>2
    <2>6. Prefix(va, l + 1) <= Prefix(v2, l + 1)
        BY <1>1, <1>2, <2>3, <2>5, PrefixMono
    <2>7. Prefix(v2, l + 1) \in Nat /\ Prefix(va, l + 1) \in Nat
        BY <1>1, <1>2, PrefixIs
    <2> QED
        BY <1>5, <2>4, <2>6, <2>7 DEF Leaves
<1> QED
    BY <1>2, <1>3, <1>4, <1>5

\* The table of p for va at level l, and that its entry for va is present.
TableFor(G, p, va, l, t) == t \in Pages /\ G[t] = TableOf(p, l, Prefix(va, l + 1))
Opens(k, t, va, l)       == k.mem[t].entry[pageindex(va, l)].perm = PWU

\* A table below the root hangs in the one above it.
LEMMA ParentIs ==
    ASSUME NEW k, NEW G, Layout(k, G, {}), NEW p, NEW u \in Nat, NEW l \in 0 .. TopLevel - 1,
           NEW q, TableFor(G, p, u, l, q)
    PROVE  \E t : TableFor(G, p, u, l + 1, t) /\ Opens(k, t, u, l + 1)
                  /\ k.mem[t].entry[pageindex(u, l + 1)] = Entry(q, PWU)
<1> USE PageTableAssumption
<1>1. /\ q \in Pages /\ G[q].kind = "table" /\ G[q].pid = p
      /\ G[q].level = l /\ G[q].base = Prefix(u, l + 1)
    BY RoleFields DEF TableFor
<1>2. PICK t \in Pages, i \in Index :
          /\ k.mem[t].entry[i] = Entry(q, PWU)
          /\ G[q].base = G[t].base * Fanout + i
          /\ G[t] = TableOf(p, l + 1, G[t].base)
    <2>1. G[q] # TableOf(G[q].pid, TopLevel, 0)
        BY <1>1, RoleFields
    <2>2. G[q] # DataOf(G[q].pid, G[q].base)
        BY <1>1, RoleFields
    <2>3. Linked(k, G, {})
        BY DEF Layout
    <2> QED
        BY <1>1, <2>1, <2>2, <2>3 DEF Linked
<1>3. G[t].base \in Nat
    <2>1. G[t] \in Roles
        BY <1>2 DEF Layout
    <2> QED
        BY <2>1 DEF Roles
<1>4. PICK m : m = l + 1
    OBVIOUS
<1>5. m \in 0 .. TopLevel /\ m + 1 \in 0 .. TopLevel + 1
    BY <1>4
<1>6. Prefix(u, m) = Prefix(u, m + 1) * Fanout + pageindex(u, m) /\ pageindex(u, m) \in Index
      /\ Prefix(u, m + 1) \in Nat
    BY <1>5, PrefixIs
<1>7. G[t].base = Prefix(u, m + 1) /\ i = pageindex(u, m)
    <2>1. PICK b \in Nat : b = G[t].base
        BY <1>3
    <2>2. PICK c \in Nat, j \in Index : c = Prefix(u, m + 1) /\ j = pageindex(u, m)
        BY <1>6
    <2>3. b * Fanout + i = c * Fanout + j
        BY <1>1, <1>2, <1>4, <1>6, <2>1, <2>2
    <2>4. b = c /\ i = j
        BY <2>3, DigitsIs
    <2> QED
        BY <2>1, <2>2, <2>4
<1>8. TableFor(G, p, u, m, t)
    BY <1>2, <1>4, <1>7 DEF TableFor
<1>9. k.mem[t].entry[pageindex(u, m)] = Entry(q, PWU)
    BY <1>2, <1>7
<1>10. Opens(k, t, u, m)
    BY <1>9 DEF Opens, Entry
<1> QED
    BY <1>4, <1>8, <1>9, <1>10

\* There is one table for an address at a level.
LEMMA TableUnique ==
    ASSUME NEW k, NEW G, Layout(k, G, {}), NEW p, NEW u, NEW v, NEW l, Prefix(u, l + 1) = Prefix(v, l + 1),
           NEW q, TableFor(G, p, u, l, q), NEW t, TableFor(G, p, v, l, t)
    PROVE  t = q
<1>1. G[q].kind = "table" /\ G[q] = G[t] /\ q \in Pages /\ t \in Pages
    BY RoleFields DEF TableFor
<1>2. Owned(k, G)
    BY DEF Layout
<1> QED
    BY <1>1, <1>2 DEF Owned

\* Above a table are open tables, up to the root.
LEMMA Ancestors ==
    ASSUME NEW k, NEW G, Layout(k, G, {}), NEW p, NEW u \in Nat, NEW l \in 0 .. TopLevel,
           NEW q, TableFor(G, p, u, l, q)
    PROVE  \A m \in l .. TopLevel : \E t : TableFor(G, p, u, m, t) /\ (m > l => Opens(k, t, u, m))
<1> USE PageTableAssumption
<1> DEFINE S == {m \in Nat : l <= m /\ m <= TopLevel
                               /\ ~ \E t : TableFor(G, p, u, m, t) /\ (m > l => Opens(k, t, u, m))}
<1>1. SUFFICES ASSUME S # {} PROVE FALSE
    OBVIOUS
<1>2. PICK a \in S : \A b \in S : a <= b
    BY <1>1, LeastNat
<1>3. a # l
    BY <1>2
<1>4. PICK c \in Nat : c = a - 1 /\ c \in 0 .. TopLevel - 1 /\ c + 1 = a /\ l <= c
    BY <1>2, <1>3
<1>5. PICK t : TableFor(G, p, u, c, t)
    <2>1. c \notin S
        BY <1>2, <1>4
    <2> QED
        BY <1>4, <2>1
<1>6. \E s : TableFor(G, p, u, c + 1, s) /\ Opens(k, s, u, c + 1)
    BY <1>4, <1>5, ParentIs
<1> QED
    BY <1>2, <1>4, <1>6

\* No table below an entry that is not present.
LEMMA NothingBelow ==
    ASSUME NEW k, NEW G, Layout(k, G, {}), NEW p, NEW va \in Nat, NEW m \in 0 .. TopLevel, NEW t,
           TableFor(G, p, va, m, t), ~ Opens(k, t, va, m),
           NEW u \in Nat, Prefix(u, m) = Prefix(va, m), NEW l \in 0 .. TopLevel, l < m,
           NEW q, TableFor(G, p, u, l, q)
    PROVE  FALSE
<1> USE PageTableAssumption
<1>1. PICK s : TableFor(G, p, u, m, s) /\ Opens(k, s, u, m)
    <2>1. m \in l .. TopLevel /\ m > l
        OBVIOUS
    <2> QED
        BY <2>1, Ancestors
<1>2. Prefix(u, m + 1) = Prefix(va, m + 1) /\ pageindex(u, m) = pageindex(va, m)
    <2>1. m \in 0 .. TopLevel + 1
        OBVIOUS
    <2> QED
        BY <2>1, PrefixUp
<1>3. s = t
    BY <1>1, <1>2, TableUnique
<1> QED
    BY <1>1, <1>2, <1>3 DEF Opens

\* The addresses of tables are below the end of the address space.
LEMMA TableBelowEnd ==
    ASSUME NEW k, NEW G, Layout(k, G, {}), NEW p, NEW u \in Nat, NEW l \in 0 .. TopLevel,
           NEW q, TableFor(G, p, u, l, q)
    PROVE  Prefix(u, TopLevel + 1) = 0
<1> USE PageTableAssumption
<1>1. PICK t : TableFor(G, p, u, TopLevel, t)
    <2>1. TopLevel \in l .. TopLevel
        OBVIOUS
    <2> QED
        BY <2>1, Ancestors
<1>2. G[t].kind = "table" /\ G[t].level = TopLevel /\ G[t].base = Prefix(u, TopLevel + 1) /\ t \in Pages
    BY <1>1, RoleFields DEF TableFor
<1>3. G[t] = TableOf(G[t].pid, TopLevel, 0)
    <2>1. Linked(k, G, {})
        BY DEF Layout
    <2>2. G[t] # DataOf(G[t].pid, G[t].base)
        BY <1>2, RoleFields
    <2>3. ~ (G[t].level < TopLevel)
        BY <1>2
    <2> QED
        BY <1>2, <2>1, <2>2, <2>3 DEF Linked
<1>4. TableOf(G[t].pid, TopLevel, 0).base = 0
    BY RoleFields
<1>5. G[t].base = 0
    BY <1>3, <1>4
<1> QED
    BY <1>2, <1>5

\* The tables before v: with c levels up from the leaves those for v too.
Passed(v, c, l, u) == \/ Prefix(u, l + 1) < Prefix(v, l + 1)
                      \/ Prefix(u, l + 1) = Prefix(v, l + 1) /\ l < c
PastTables(G, p, v, c) ==
    {q \in Pages : \E u \in Nat : \E l \in 0 .. TopLevel - 1 : TableFor(G, p, u, l, q) /\ Passed(v, c, l, u)}

\* Whether a table is past depends on its level and address alone.
LEMMA PastIs ==
    ASSUME NEW G, NEW p, NEW u \in Nat, NEW l \in 0 .. TopLevel - 1, NEW q, TableFor(G, p, u, l, q),
           NEW v, NEW c
    PROVE  q \in PastTables(G, p, v, c) <=> Passed(v, c, l, u)
<1>1. q \in Pages /\ G[q].level = l /\ G[q].base = Prefix(u, l + 1)
    BY RoleFields DEF TableFor
<1>2. ASSUME NEW u1 \in Nat, NEW l1 \in 0 .. TopLevel - 1, TableFor(G, p, u1, l1, q), Passed(v, c, l1, u1)
      PROVE  Passed(v, c, l, u)
    <2>1. G[q].level = l1 /\ G[q].base = Prefix(u1, l1 + 1)
        BY <1>2, RoleFields DEF TableFor
    <2>2. l1 = l
        BY <1>1, <2>1
    <2>3. Prefix(u1, l + 1) = Prefix(u, l + 1) /\ Passed(v, c, l, u1)
        BY <1>1, <1>2, <2>1, <2>2
    <2> QED
        BY <2>3 DEF Passed
<1>3. q \in PastTables(G, p, v, c) => Passed(v, c, l, u)
    BY <1>2 DEF PastTables
<1>4. Passed(v, c, l, u) => q \in PastTables(G, p, v, c)
    BY <1>1 DEF PastTables
<1> QED
    BY <1>3, <1>4

\* When the same tables are past.
LEMMA SamePast ==
    ASSUME NEW G, NEW p, NEW v, NEW c, NEW v2, NEW c2,
           \A u \in Nat : \A l \in 0 .. TopLevel - 1 : \A q :
              TableFor(G, p, u, l, q) => (Passed(v, c, l, u) <=> Passed(v2, c2, l, u))
    PROVE  PastTables(G, p, v, c) = PastTables(G, p, v2, c2)
    BY DEF PastTables

\* No table in the range of v at level m is after v.
Over(G, p, v, m) ==
    \A u \in Nat : \A l \in 0 .. m - 1 : \A q :
       TableFor(G, p, u, l, q) /\ Prefix(u, m) = Prefix(v, m) => Prefix(u, l + 1) <= Prefix(v, l + 1)

\* Where the iterator may be between two turns.
Place(G, p, t, l, v, st, sk) ==
    /\ l \in 1 .. TopLevel /\ v \in 0 .. VaEnd - 1 /\ st \in 1 .. TopLevel /\ sk \in {Yes, No}
    /\ TableFor(G, p, v, l, t)
    /\ sk = Yes => st = 1 /\ Over(G, p, v, l)
    /\ sk = No => l >= st
    /\ sk = No /\ st > 1 => Over(G, p, v, st) /\ \E q : TableFor(G, p, v, st - 1, q)
Cut(l, st, sk) == IF sk = Yes THEN l ELSE st - 1

\* The entry it is at.
LEMMA PtAtFits ==
    ASSUME NEW k, NEW G, Layout(k, G, {}), NEW p \in Nat, NEW v \in Nat, NEW l \in 1 .. TopLevel,
           NEW t, TableFor(G, p, v, l, t), NEW e, e = k.mem[t].entry[pageindex(v, l)]
    PROVE  /\ "P" \in e.perm <=> Opens(k, t, v, l)
           /\ Opens(k, t, v, l) => TableFor(G, p, v, l - 1, e.pa)
<1> USE PageTableAssumption
<1>1. PICK w : w = Iter(0, t, l, PWU, v)
    OBVIOUS
<1>2. w.table = t /\ w.level = l /\ w.va = v
    BY <1>1, IterFields
<1>3. e = At(k, w)
    BY <1>2 DEF At
<1>4. t \in Pages /\ l \in 0 .. TopLevel /\ G[t] = TableOf(p, l, Prefix(v, l + 1))
    BY DEF TableFor
<1>5. e \in [pa : Pages, perm : SUBSET PWU] /\ EntryFits(G, e, G[t], Prefix(v, l))
    BY <1>2, <1>3, <1>4, AtFits
<1>6. G[t].level = l /\ G[t].pid = p /\ l # 0
    BY <1>4, RoleFields
<1>7. e.perm = {} \/ (e.perm = PWU /\ G[e.pa] = TableOf(p, l - 1, Prefix(v, l)))
    BY <1>5, <1>6 DEF EntryFits
<1>9. "P" \in PWU
    BY DEF PWU
<1>10. "P" \in e.perm <=> e.perm = PWU
    BY <1>7, <1>9
<1>11. e.perm = PWU => TableFor(G, p, v, l - 1, e.pa)
    <2>1. SUFFICES ASSUME e.perm = PWU PROVE TableFor(G, p, v, l - 1, e.pa)
        OBVIOUS
    <2>2. G[e.pa] = TableOf(p, l - 1, Prefix(v, l)) /\ e.pa \in Pages
        BY <1>5, <1>7, <1>9, <2>1
    <2>3. l - 1 + 1 = l
        OBVIOUS
    <2> QED
        BY <2>2, <2>3 DEF TableFor
<1>12. Opens(k, t, v, l) <=> e.perm = PWU
    BY DEF Opens
<1> QED
    BY <1>10, <1>11, <1>12

\* The two values of skip differ.
LEMMA SkipTwo == Yes # No
    BY DEF Yes, No

\* The types of a place.
LEMMA PlaceIs ==
    ASSUME NEW G, NEW p, NEW t, NEW l, NEW v, NEW st, NEW sk, Place(G, p, t, l, v, st, sk)
    PROVE  /\ l \in 1 .. TopLevel /\ l \in 0 .. TopLevel /\ v \in Nat /\ v \in 0 .. VaEnd - 1
           /\ st \in 1 .. TopLevel /\ sk \in {Yes, No}
           /\ TableFor(G, p, v, l, t) /\ Cut(l, st, sk) \in 0 .. l
<1>1. VaEnd \in Nat
    BY SpanIs, PageTableAssumption DEF VaEnd
<1> QED
    BY <1>1, SkipTwo, PageTableAssumption DEF Place, Cut

\* Below the entry it has done with, every table is past.
LEMMA EntryOver ==
    ASSUME NEW k, NEW G, Layout(k, G, {}), NEW p, NEW t, NEW l, NEW v, NEW st, NEW sk,
           Place(G, p, t, l, v, st, sk), sk = Yes \/ ~ Opens(k, t, v, l),
           NEW u \in Nat, NEW m \in 0 .. TopLevel, m < l, NEW q, TableFor(G, p, u, m, q),
           Prefix(u, l) = Prefix(v, l)
    PROVE  sk = Yes /\ Passed(v, Cut(l, st, sk), m, u)
<1>1. l \in 1 .. TopLevel /\ l \in 0 .. TopLevel /\ v \in Nat /\ TableFor(G, p, v, l, t)
    BY PlaceIs
<1>2. sk = Yes
    <2>1. SUFFICES ASSUME ~ Opens(k, t, v, l) PROVE FALSE
        OBVIOUS
    <2> QED
        BY <1>1, <2>1, NothingBelow
<1>3. Over(G, p, v, l) /\ Cut(l, st, sk) = l
    BY <1>2 DEF Place, Cut
<1>4. Prefix(u, m + 1) <= Prefix(v, m + 1)
    <2>1. m \in 0 .. l - 1
        BY <1>1
    <2> QED
        BY <1>3, <2>1 DEF Over
<1>5. Prefix(u, m + 1) \in Nat /\ Prefix(v, m + 1) \in Nat
    <2>1. PICK n \in 0 .. TopLevel + 1 : n = m + 1
        BY PageTableAssumption
    <2> QED
        BY <1>1, <2>1, PrefixIs
<1> QED
    BY <1>2, <1>3, <1>4, <1>5 DEF Passed

\* It stops at a table, and skips it afterwards.
LEMMA StopPlace ==
    ASSUME NEW k, NEW G, Layout(k, G, {}), NEW p \in Nat, NEW t, NEW l, NEW v, NEW st, NEW sk,
           Place(G, p, t, l, v, st, sk), sk = No, Opens(k, t, v, l), l = st
    PROVE  Place(G, p, t, l, v, 1, Yes)
<1> USE PageTableAssumption
<1>1. l \in 1 .. TopLevel /\ v \in 0 .. VaEnd - 1 /\ v \in Nat /\ TableFor(G, p, v, l, t)
    BY PlaceIs
<1>2. Over(G, p, v, l)
    <2>1. CASE st > 1
        BY <2>1 DEF Place
    <2>2. CASE ~ (st > 1)
        <3>1. l = 1
            BY <1>1, <2>2
        <3>2. ASSUME NEW u \in Nat, Prefix(u, 1) = Prefix(v, 1) PROVE Prefix(u, 0 + 1) <= Prefix(v, 0 + 1)
            <4>1. Prefix(v, 1) \in Nat
                BY <1>1, PrefixIs
            <4> QED
                BY <3>2, <4>1
        <3> QED
            BY <3>1, <3>2 DEF Over
    <2> QED
        BY <2>1, <2>2
<1> QED
    BY <1>1, <1>2, SkipTwo DEF Place

\* It goes down into a table.
LEMMA DownPlace ==
    ASSUME NEW k, NEW G, Layout(k, G, {}), NEW p \in Nat, NEW t, NEW l, NEW v, NEW st, NEW sk,
           Place(G, p, t, l, v, st, sk), sk = No, NEW q, TableFor(G, p, v, l - 1, q), l # st
    PROVE  Place(G, p, q, l - 1, v, st, No)
<1> USE PageTableAssumption
<1>1. l \in 1 .. TopLevel /\ v \in 0 .. VaEnd - 1 /\ st \in 1 .. TopLevel
    BY PlaceIs
<1>2. l >= st /\ (st > 1 => Over(G, p, v, st) /\ \E s : TableFor(G, p, v, st - 1, s))
    BY DEF Place
<1>3. l - 1 \in 1 .. TopLevel /\ l - 1 >= st
    BY <1>1, <1>2
<1> QED
    BY <1>1, <1>2, <1>3, SkipTwo DEF Place

\* It has come to the end of a table, and goes to the table from above.
LEMMA UpPlace ==
    ASSUME NEW k, NEW G, Layout(k, G, {}), NEW p \in Nat, NEW t, NEW l, NEW v, NEW st, NEW sk,
           Place(G, p, t, l, v, st, sk), sk = Yes \/ ~ Opens(k, t, v, l), Leaves(v, l), l # TopLevel,
           NEW r, IsRoot(G, p, r)
    PROVE  Place(G, p, r, TopLevel, v, l + 1, No)
<1> USE PageTableAssumption
<1>1. l \in 1 .. TopLevel /\ l \in 0 .. TopLevel /\ v \in 0 .. VaEnd - 1 /\ v \in Nat /\ TableFor(G, p, v, l, t)
    BY PlaceIs
<1>2. TableFor(G, p, v, TopLevel, r)
    <2>1. Prefix(v, TopLevel + 1) = 0
        <3>1. v < VaEnd
            <4>1. VaEnd \in Nat
                BY SpanIs DEF VaEnd
            <4> QED
                BY <1>1, <4>1
        <3> QED
            BY <1>1, <3>1, PrefixIs
    <2> QED
        BY <2>1 DEF TableFor, IsRoot
<1>3. PICK n : n = l + 1
    OBVIOUS
<1>4. n \in 1 .. TopLevel /\ n > 1 /\ n - 1 = l /\ TopLevel >= n
    BY <1>1, <1>3
<1>5. ASSUME NEW u \in Nat, NEW m \in 0 .. n - 1, NEW q, TableFor(G, p, u, m, q), Prefix(u, n) = Prefix(v, n)
      PROVE  Prefix(u, m + 1) <= Prefix(v, m + 1)
    <2>1. Prefix(u, m + 1) \in Nat /\ Prefix(v, m + 1) \in Nat
        <3>1. PICK j \in 0 .. TopLevel + 1 : j = m + 1
            BY <1>4
        <3> QED
            BY <1>1, <3>1, PrefixIs
    <2>2. CASE m = l
        BY <1>3, <1>5, <2>1, <2>2
    <2>3. CASE m # l
        <3>1. m < l /\ m \in 0 .. TopLevel
            BY <1>1, <1>4, <2>3
        <3>2. Prefix(u, l) <= Prefix(v, l)
            BY <1>1, <1>3, <1>5, AfterEntryIs
        <3>3. Prefix(u, l) \in Nat /\ Prefix(v, l) \in Nat
            <4>1. l \in 0 .. TopLevel + 1
                BY <1>1
            <4> QED
                BY <1>1, <4>1, PrefixIs
        <3>4. CASE Prefix(u, l) < Prefix(v, l)
            <4>1. l \in 0 .. TopLevel + 1 /\ m + 1 \in 0 .. l
                BY <1>1, <3>1
            <4>2. Prefix(u, m + 1) < Prefix(v, m + 1)
                BY <1>1, <3>4, <4>1, PrefixBelow
            <4> QED
                BY <2>1, <4>2
        <3>5. CASE Prefix(u, l) = Prefix(v, l)
            <4>1. Passed(v, Cut(l, st, sk), m, u)
                BY <1>1, <1>5, <3>1, <3>5, EntryOver
            <4> QED
                BY <2>1, <4>1 DEF Passed
        <3> QED
            BY <3>2, <3>3, <3>4, <3>5
    <2> QED
        BY <2>2, <2>3
<1>6. Over(G, p, v, n)
    BY <1>5 DEF Over
<1>7. \E q : TableFor(G, p, v, n - 1, q)
    BY <1>1, <1>4
<1>8. TopLevel \in 1 .. TopLevel
    OBVIOUS
<1> QED
    BY <1>1, <1>2, <1>3, <1>4, <1>6, <1>7, <1>8, SkipTwo DEF Place

\* It goes on to the next entry; stop is 1 then.
LEMMA NextPlace ==
    ASSUME NEW k, NEW G, Layout(k, G, {}), NEW p \in Nat, NEW t, NEW l, NEW v, NEW st, NEW sk,
           Place(G, p, t, l, v, st, sk), sk = Yes \/ ~ Opens(k, t, v, l), ~ Leaves(v, l),
           NEW v2, v2 = AfterEntry(v, l)
    PROVE  st = 1 /\ Place(G, p, t, l, v2, st, No)
<1> USE PageTableAssumption
<1>1. /\ l \in 1 .. TopLevel /\ l \in 0 .. TopLevel /\ v \in 0 .. VaEnd - 1 /\ v \in Nat
      /\ st \in 1 .. TopLevel /\ sk \in {Yes, No} /\ TableFor(G, p, v, l, t)
    BY PlaceIs
<1>2. st = 1
    <2>1. SUFFICES ASSUME sk # Yes, st # 1 PROVE FALSE
        BY DEF Place
    <2>2. sk = No /\ st > 1 /\ l >= st /\ ~ Opens(k, t, v, l)
        BY <1>1, <2>1 DEF Place
    <2>3. PICK q : TableFor(G, p, v, st - 1, q)
        BY <2>2 DEF Place
    <2>4. PICK m \in 0 .. TopLevel : m = st - 1 /\ m < l
        BY <1>1, <2>2
    <2>5. TableFor(G, p, v, m, q)
        BY <2>3, <2>4
    <2> QED
        BY <1>1, <2>2, <2>4, <2>5, NothingBelow
<1>3. v2 \in Nat /\ \A m \in l + 1 .. TopLevel + 1 : Prefix(v2, m) = Prefix(v, m)
    BY <1>1, AfterEntryIs
<1>4. Prefix(v2, l + 1) = Prefix(v, l + 1) /\ Prefix(v2, TopLevel + 1) = Prefix(v, TopLevel + 1)
    <2>1. l + 1 \in l + 1 .. TopLevel + 1 /\ TopLevel + 1 \in l + 1 .. TopLevel + 1
        BY <1>1
    <2> QED
        BY <1>3, <2>1
<1>5. v2 \in 0 .. VaEnd - 1
    <2>1. PICK d \in Nat : d = VaEnd /\ d > 0
        BY SpanIs DEF VaEnd
    <2>2. v \div d = 0
        <3>1. v < VaEnd
            BY <1>1, <2>1
        <3>2. Prefix(v, TopLevel + 1) = 0
            BY <1>1, <3>1, PrefixIs
        <3> QED
            BY <2>1, <3>2 DEF Prefix, VaEnd
    <2>3. v2 \div d = 0
        BY <1>4, <2>1, <2>2 DEF Prefix, VaEnd
    <2>4. v2 = d * 0 + (v2 % d) /\ v2 % d \in 0 .. d - 1
        BY <1>3, <2>1, <2>3, DivIs
    <2>5. v2 = v2 % d
        BY <2>1, <2>4
    <2> QED
        BY <2>1, <2>4, <2>5
<1>6. TableFor(G, p, v2, l, t)
    BY <1>1, <1>4 DEF TableFor
<1> QED
    BY <1>1, <1>2, <1>5, <1>6, SkipTwo DEF Place

\* The table it stops at was not past, and is.
LEMMA StopPast ==
    ASSUME NEW k, NEW G, Layout(k, G, {}), NEW p \in Nat, NEW v \in Nat, NEW l \in 1 .. TopLevel,
           NEW q, TableFor(G, p, v, l - 1, q)
    PROVE  /\ PastTables(G, p, v, l) = PastTables(G, p, v, l - 1) \cup {q}
           /\ q \notin PastTables(G, p, v, l - 1)
<1> USE PageTableAssumption
<1>1. PICK m : m = l - 1
    OBVIOUS
<1>2. m \in 0 .. TopLevel - 1 /\ m + 1 = l
    BY <1>1
<1>3. TableFor(G, p, v, m, q) /\ q \in Pages
    BY <1>1 DEF TableFor
<1>4. Prefix(v, l) \in Nat
    <2>1. l \in 0 .. TopLevel + 1
        OBVIOUS
    <2> QED
        BY <2>1, PrefixIs
<1>5. ~ Passed(v, m, m, v) /\ Passed(v, l, m, v)
    BY <1>2, <1>4 DEF Passed
<1>6. q \notin PastTables(G, p, v, m) /\ q \in PastTables(G, p, v, l)
    BY <1>2, <1>3, <1>5, PastIs
<1>7. ASSUME NEW s \in Pages, s # q
      PROVE  s \in PastTables(G, p, v, l) <=> s \in PastTables(G, p, v, m)
    <2>1. ASSUME NEW u \in Nat, NEW j \in 0 .. TopLevel - 1, TableFor(G, p, u, j, s)
          PROVE  Passed(v, l, j, u) <=> Passed(v, m, j, u)
        <3>1. CASE j # m
            BY <1>2, <3>1 DEF Passed
        <3>2. CASE j = m
            <4>1. Prefix(u, j + 1) # Prefix(v, j + 1)
                <5>1. SUFFICES ASSUME Prefix(u, m + 1) = Prefix(v, m + 1) PROVE FALSE
                    BY <3>2
                <5>2. TableFor(G, p, u, m, s)
                    BY <2>1, <3>2
                <5> QED
                    BY <1>3, <1>7, <5>1, <5>2, TableUnique
            <4> QED
                BY <4>1 DEF Passed
        <3> QED
            BY <3>1, <3>2
    <2> QED
        BY <2>1 DEF PastTables
<1> QED
    <2>1. PastTables(G, p, v, l) \subseteq Pages /\ PastTables(G, p, v, m) \subseteq Pages
        BY DEF PastTables
    <2> QED
        BY <1>1, <1>3, <1>6, <1>7, <2>1

\* Going up passes no table.
LEMMA UpPast ==
    ASSUME NEW k, NEW G, Layout(k, G, {}), NEW p \in Nat, NEW t, NEW l, NEW v, NEW st, NEW sk,
           Place(G, p, t, l, v, st, sk), sk = Yes \/ ~ Opens(k, t, v, l)
    PROVE  PastTables(G, p, v, Cut(l, st, sk)) = PastTables(G, p, v, l)
<1> USE PageTableAssumption
<1>1. PICK c : c = Cut(l, st, sk)
    OBVIOUS
<1>2. l \in 1 .. TopLevel /\ v \in Nat /\ c \in 0 .. l
    BY <1>1, PlaceIs
<1>3. ASSUME NEW u \in Nat, NEW m \in 0 .. TopLevel - 1, NEW q, TableFor(G, p, u, m, q)
      PROVE  Passed(v, c, m, u) <=> Passed(v, l, m, u)
    <2>1. Passed(v, c, m, u) => Passed(v, l, m, u)
        BY <1>2 DEF Passed
    <2>2. ASSUME Passed(v, l, m, u) PROVE Passed(v, c, m, u)
        <3>1. CASE Prefix(u, m + 1) < Prefix(v, m + 1)
            BY <3>1 DEF Passed
        <3>2. CASE Prefix(u, m + 1) = Prefix(v, m + 1) /\ m < l
            <4>1. PICK n \in 0 .. TopLevel + 1 : n = m + 1
                OBVIOUS
            <4>2. Prefix(u, n) = Prefix(v, n) /\ l \in n .. TopLevel + 1
                BY <1>2, <3>2, <4>1
            <4>3. Prefix(u, l) = Prefix(v, l)
                BY <1>2, <4>2, PrefixUp
            <4> QED
                BY <1>1, <1>3, <3>2, <4>3, EntryOver
        <3> QED
            BY <2>2, <3>1, <3>2 DEF Passed
    <2> QED
        BY <2>1, <2>2
<1> QED
    BY <1>1, <1>3, SamePast

\* Nor does going on to the next entry.
LEMMA NextPast ==
    ASSUME NEW k, NEW G, Layout(k, G, {}), NEW p \in Nat, NEW t, NEW l, NEW v, NEW st, NEW sk,
           Place(G, p, t, l, v, st, sk), sk = Yes \/ ~ Opens(k, t, v, l), ~ Leaves(v, l),
           NEW v2, v2 = AfterEntry(v, l)
    PROVE  PastTables(G, p, v, Cut(l, st, sk)) = PastTables(G, p, v2, 0)
<1> USE PageTableAssumption
<1>1. PICK c : c = Cut(l, st, sk)
    OBVIOUS
<1>2. l \in 1 .. TopLevel /\ l \in 0 .. TopLevel /\ v \in Nat /\ c \in 0 .. l
    BY <1>1, PlaceIs
<1>3. /\ v2 \in Nat /\ Prefix(v2, l) = Prefix(v, l) + 1
      /\ \A m \in l + 1 .. TopLevel + 1 : Prefix(v2, m) = Prefix(v, m)
    BY <1>2, AfterEntryIs
<1>4. ASSUME NEW u \in Nat, NEW m \in 0 .. TopLevel - 1, NEW q, TableFor(G, p, u, m, q)
      PROVE  Passed(v, c, m, u) <=> Passed(v2, 0, m, u)
    <2>1. PICK n \in 0 .. TopLevel + 1 : n = m + 1
        OBVIOUS
    <2>2. /\ Prefix(u, n) \in Nat /\ Prefix(v, n) \in Nat /\ Prefix(v2, n) \in Nat
          /\ Prefix(u, l) \in Nat /\ Prefix(v, l) \in Nat
        <3>1. l \in 0 .. TopLevel + 1
            BY <1>2
        <3> QED
            BY <1>2, <1>3, <3>1, PrefixIs
    <2>3. CASE ~ (m < l)
        <3>1. n \in l + 1 .. TopLevel + 1
            BY <1>2, <2>1, <2>3
        <3>2. Prefix(v2, n) = Prefix(v, n)
            BY <1>3, <3>1
        <3>3. ~ (m < c) /\ ~ (m < 0)
            BY <1>2, <2>3
        <3> QED
            BY <2>1, <3>2, <3>3 DEF Passed
    <2>4. CASE m < l
        <3>0. n \in 0 .. l /\ l \in n .. TopLevel + 1 /\ l \in 0 .. TopLevel + 1
            BY <1>2, <2>1, <2>4
        <3>1. Passed(v, c, m, u) => Prefix(u, l) <= Prefix(v, l)
            <4>1. SUFFICES ASSUME Prefix(u, n) <= Prefix(v, n) PROVE Prefix(u, l) <= Prefix(v, l)
                BY <2>1, <2>2 DEF Passed
            <4> QED
                BY <1>2, <3>0, <4>1, PrefixMono
        <3>2. Prefix(u, l) < Prefix(v, l) => Passed(v, c, m, u)
            <4>1. SUFFICES ASSUME Prefix(u, l) < Prefix(v, l) PROVE Passed(v, c, m, u)
                OBVIOUS
            <4>2. Prefix(u, n) < Prefix(v, n)
                BY <1>2, <3>0, <4>1, PrefixBelow
            <4> QED
                BY <2>1, <4>2 DEF Passed
        <3>3. Prefix(u, l) = Prefix(v, l) => Passed(v, c, m, u)
            <4>1. m \in 0 .. TopLevel
                OBVIOUS
            <4> QED
                BY <1>1, <1>4, <2>4, <4>1, EntryOver
        <3>4. Passed(v2, 0, m, u) <=> Prefix(u, n) < Prefix(v2, n)
            BY <2>1 DEF Passed
        <3>5. Prefix(u, n) < Prefix(v2, n) => Prefix(u, l) <= Prefix(v, l)
            <4>1. SUFFICES ASSUME Prefix(u, n) < Prefix(v2, n), ~ (Prefix(u, l) <= Prefix(v, l)) PROVE FALSE
                OBVIOUS
            <4>2. Prefix(v2, 0) = v2 /\ Prefix(u, 0) = u
                BY <1>3, PrefixIs
            <4>3. u < v2
                <5>1. SUFFICES ASSUME Prefix(v2, 0) <= Prefix(u, 0) PROVE FALSE
                    BY <1>3, <4>2
                <5>2. 0 \in 0 .. TopLevel + 1 /\ n \in 0 .. TopLevel + 1
                    OBVIOUS
                <5>3. Prefix(v2, n) <= Prefix(u, n)
                    BY <1>3, <5>1, <5>2, PrefixMono
                <5> QED
                    BY <2>2, <4>1, <5>3
            <4>4. PICK d, x : d = Span(l) /\ x = Prefix(v, l)
                OBVIOUS
            <4>5. d \in Nat /\ d > 0 /\ x \in Nat /\ v2 = (x + 1) * d
                BY <2>2, <3>0, <4>4, SpanIs DEF AfterEntry
            <4>6. PICK y \in Nat : y = Prefix(u, l) /\ x + 1 <= y
                BY <2>2, <4>1, <4>4
            <4>7. u = d * y + (u % d) /\ u % d \in 0 .. d - 1
                BY <4>4, <4>5, <4>6, DivIs DEF Prefix
            <4>8. d * (x + 1) <= d * y
                BY <4>5, <4>6, MulMono
            <4>9. (x + 1) * d = d * (x + 1) /\ d * y \in Nat /\ d * (x + 1) \in Nat
                BY <4>5
            <4> QED
                BY <4>3, <4>5, <4>7, <4>8, <4>9
        <3>6. Prefix(u, l) <= Prefix(v, l) => Prefix(u, n) < Prefix(v2, n)
            <4>1. SUFFICES ASSUME Prefix(u, l) <= Prefix(v, l) PROVE Prefix(u, n) < Prefix(v2, n)
                OBVIOUS
            <4>2. Prefix(u, l) < Prefix(v2, l)
                BY <1>3, <2>2, <4>1
            <4> QED
                BY <1>3, <3>0, <4>2, PrefixBelow
        <3>7. Prefix(u, l) <= Prefix(v, l) => Passed(v, c, m, u)
            BY <2>2, <3>2, <3>3
        <3> QED
            BY <3>1, <3>4, <3>5, <3>6, <3>7
    <2> QED
        BY <2>3, <2>4
<1> QED
    BY <1>1, <1>4, SamePast

\* At the end of the root table every table below it is past.
LEMMA EndPast ==
    ASSUME NEW k, NEW G, Layout(k, G, {}), NEW p \in Nat, NEW t, NEW v, NEW st, NEW sk,
           Place(G, p, t, TopLevel, v, st, sk), sk = Yes \/ ~ Opens(k, t, v, TopLevel), Leaves(v, TopLevel),
           NEW u \in Nat, NEW m \in 0 .. TopLevel - 1, NEW q, TableFor(G, p, u, m, q)
    PROVE  q \in PastTables(G, p, v, Cut(TopLevel, st, sk))
<1> USE PageTableAssumption
<1>1. PICK c : c = Cut(TopLevel, st, sk)
    OBVIOUS
<1>2. v \in Nat /\ TableFor(G, p, v, TopLevel, t) /\ TopLevel \in 0 .. TopLevel
    BY PlaceIs
<1>3. Prefix(u, TopLevel + 1) = Prefix(v, TopLevel + 1)
    <2>1. m \in 0 .. TopLevel
        OBVIOUS
    <2> QED
        BY <1>2, <2>1, TableBelowEnd
<1>4. Prefix(u, TopLevel) <= Prefix(v, TopLevel)
    BY <1>2, <1>3, AfterEntryIs
<1>5. Prefix(u, TopLevel) \in Nat /\ Prefix(v, TopLevel) \in Nat
    <2>1. TopLevel \in 0 .. TopLevel + 1
        OBVIOUS
    <2> QED
        BY <1>2, <2>1, PrefixIs
<1>6. Passed(v, c, m, u)
    <2>1. CASE Prefix(u, TopLevel) < Prefix(v, TopLevel)
        <3>1. m + 1 \in 0 .. TopLevel /\ TopLevel \in 0 .. TopLevel + 1
            OBVIOUS
        <3>2. Prefix(u, m + 1) < Prefix(v, m + 1)
            BY <1>2, <2>1, <3>1, PrefixBelow
        <3> QED
            BY <3>2 DEF Passed
    <2>2. CASE Prefix(u, TopLevel) = Prefix(v, TopLevel)
        <3>1. m \in 0 .. TopLevel /\ m < TopLevel
            OBVIOUS
        <3> QED
            BY <1>1, <2>2, <3>1, EntryOver
    <2> QED
        BY <1>4, <1>5, <2>1, <2>2
<1> QED
    BY <1>1, <1>6, PastIs

\* Table c hangs in table q.
HangsIn(G, p, c, q) ==
    \E u \in Nat : \E l \in 0 .. TopLevel - 2 : TableFor(G, p, u, l, c) /\ TableFor(G, p, u, l + 1, q)

\* When it stops at a table the one that it hangs in is not past.
LEMMA StopHung ==
    ASSUME NEW k, NEW G, Layout(k, G, {}), NEW p \in Nat, NEW t, NEW l, NEW v, NEW st,
           Place(G, p, t, l, v, st, No), NEW q, TableFor(G, p, v, l - 1, q), NEW s
    PROVE  HangsIn(G, p, q, s) => s \notin PastTables(G, p, v, l - 1)
<1> USE PageTableAssumption
<1>1. l \in 1 .. TopLevel /\ v \in Nat
    BY PlaceIs
<1>2. G[q].level = l - 1 /\ G[q].base = Prefix(v, l)
    <2>1. l - 1 + 1 = l
        BY <1>1
    <2> QED
        BY <2>1, RoleFields DEF TableFor
<1>3. \A n \in 0 .. TopLevel + 1 : \A x \in Nat : Prefix(x, n) \in Nat
    BY PrefixIs
<1>4. ASSUME NEW u \in Nat, NEW m \in 0 .. TopLevel - 2, TableFor(G, p, u, m, q), TableFor(G, p, u, m + 1, s)
      PROVE  s \notin PastTables(G, p, v, l - 1)
    <2>1. G[q].level = m /\ G[q].base = Prefix(u, m + 1)
        BY <1>4, RoleFields DEF TableFor
    <2>2. l = m + 1 /\ Prefix(u, l) = Prefix(v, l)
        BY <1>1, <1>2, <2>1
    <2>3. TableFor(G, p, u, l, s) /\ l \in 0 .. TopLevel - 1
        BY <1>4, <2>2
    <2>4. Prefix(u, l + 1) = Prefix(v, l + 1) /\ Prefix(v, l + 1) \in Nat
        <3>1. l \in 0 .. TopLevel + 1 /\ l + 1 \in l .. TopLevel + 1 /\ l + 1 \in 0 .. TopLevel + 1
            BY <2>3
        <3>2. Prefix(u, l + 1) = Prefix(v, l + 1)
            BY <1>1, <2>2, <3>1, PrefixUp
        <3> QED
            BY <1>1, <1>3, <3>1, <3>2
    <2>5. ~ Passed(v, l - 1, l, u)
        BY <1>1, <2>4 DEF Passed
    <2> QED
        BY <2>3, <2>5, PastIs
<1> QED
    BY <1>4 DEF HangsIn

\* The pages of pg are those of X, each once.
Lists(pg, X) ==
    /\ pg \in Seq(Pages)
    /\ \A i \in 1 .. Len(pg) : pg[i] \in X
    /\ \A q \in X : \E i \in 1 .. Len(pg) : pg[i] = q
    /\ \A i, j \in 1 .. Len(pg) : pg[i] = pg[j] => i = j
\* Each after those that hang in it.
HungFirst(G, p, pg) == \A i, j \in 1 .. Len(pg) : HangsIn(G, p, pg[j], pg[i]) => j < i

\* A list without repetitions, and one more page.
LEMMA ListsMore ==
    ASSUME NEW pg, NEW X, Lists(pg, X), NEW q \in Pages, q \notin X, NEW n, n = Append(pg, q)
    PROVE  Lists(n, X \cup {q})
<1>1. /\ n \in Seq(Pages) /\ Len(n) = Len(pg) + 1 /\ n[Len(pg) + 1] = q
      /\ \A i \in 1 .. Len(pg) : n[i] = pg[i]
    BY AppendIs DEF Lists
<1>2. Len(pg) \in Nat
    BY DEF Lists
<1>3. PICK m \in Nat : m = Len(pg)
    BY <1>2
<1>4. Len(n) = m + 1 /\ n[m + 1] = q /\ \A i \in 1 .. m : n[i] = pg[i] /\ pg[i] \in X
    BY <1>1, <1>3 DEF Lists
<1>5. \A i \in 1 .. m + 1 : n[i] \in X \cup {q}
    <2>1. TAKE i \in 1 .. m + 1
    <2>2. i \in 1 .. m \/ i = m + 1
        OBVIOUS
    <2> QED
        BY <1>4, <2>2
<1>6. \A s \in X \cup {q} : \E i \in 1 .. m + 1 : n[i] = s
    <2>1. ASSUME NEW s \in X PROVE \E i \in 1 .. m + 1 : n[i] = s
        <3>1. PICK i \in 1 .. m : pg[i] = s
            BY <1>3 DEF Lists
        <3>2. i \in 1 .. m + 1 /\ n[i] = s
            BY <1>4, <3>1
        <3> QED
            BY <3>2
    <2>2. m + 1 \in 1 .. m + 1
        OBVIOUS
    <2> QED
        BY <1>4, <2>1, <2>2
<1>7. \A i, j \in 1 .. m + 1 : n[i] = n[j] => i = j
    <2>1. TAKE i, j \in 1 .. m + 1
    <2>2. HAVE n[i] = n[j]
    <2>3. (i \in 1 .. m \/ i = m + 1) /\ (j \in 1 .. m \/ j = m + 1)
        OBVIOUS
    <2>4. CASE i \in 1 .. m /\ j \in 1 .. m
        BY <1>3, <1>4, <2>2, <2>4 DEF Lists
    <2>5. CASE i = m + 1 /\ j = m + 1
        BY <2>5
    <2>6. CASE i \in 1 .. m /\ j = m + 1
        BY <1>4, <2>2, <2>6
    <2>7. CASE i = m + 1 /\ j \in 1 .. m
        BY <1>4, <2>2, <2>7
    <2> QED
        BY <2>3, <2>4, <2>5, <2>6, <2>7
<1> QED
    BY <1>1, <1>4, <1>5, <1>6, <1>7 DEF Lists

\* A page comes before the one it hangs in when that is not in the list yet.
LEMMA HungFirstMore ==
    ASSUME NEW G, NEW p, NEW pg, NEW X, Lists(pg, X), HungFirst(G, p, pg), NEW q \in Pages,
           \A s : HangsIn(G, p, q, s) => s \notin X, ~ HangsIn(G, p, q, q), NEW n, n = Append(pg, q)
    PROVE  HungFirst(G, p, n)
<1>1. /\ Len(n) = Len(pg) + 1 /\ n[Len(pg) + 1] = q
      /\ \A i \in 1 .. Len(pg) : n[i] = pg[i]
    BY AppendIs DEF Lists
<1>2. PICK m \in Nat : m = Len(pg)
    BY DEF Lists
<1>3. Len(n) = m + 1 /\ n[m + 1] = q /\ \A i \in 1 .. m : n[i] = pg[i] /\ pg[i] \in X
    BY <1>1, <1>2 DEF Lists
<1>4. ASSUME NEW i \in 1 .. m + 1, NEW j \in 1 .. m + 1, HangsIn(G, p, n[j], n[i]) PROVE j < i
    <2>1. (i \in 1 .. m \/ i = m + 1) /\ (j \in 1 .. m \/ j = m + 1)
        OBVIOUS
    <2>2. CASE i \in 1 .. m /\ j \in 1 .. m
        <3>1. HangsIn(G, p, pg[j], pg[i])
            BY <1>3, <1>4, <2>2
        <3> QED
            BY <1>2, <2>2, <3>1 DEF HungFirst
    <2>3. CASE i = m + 1 /\ j = m + 1
        BY <1>3, <1>4, <2>3
    <2>4. CASE i \in 1 .. m /\ j = m + 1
        <3>1. HangsIn(G, p, q, pg[i]) /\ pg[i] \in X
            BY <1>3, <1>4, <2>4
        <3> QED
            BY <3>1
    <2>5. CASE i = m + 1 /\ j \in 1 .. m
        BY <2>5
    <2> QED
        BY <2>1, <2>2, <2>3, <2>4, <2>5
<1> QED
    BY <1>3, <1>4 DEF HungFirst

\* No table hangs in itself: it has one role, at one level.
LEMMA NotHungInItself ==
    ASSUME NEW G, NEW p, NEW q PROVE ~ HangsIn(G, p, q, q)
<1>1. SUFFICES ASSUME NEW u \in Nat, NEW l \in 0 .. TopLevel - 2, TableFor(G, p, u, l, q), TableFor(G, p, u, l + 1, q)
               PROVE  FALSE
    BY DEF HangsIn
<1>2. G[q].level = l /\ G[q].level = l + 1
    BY <1>1, RoleFields DEF TableFor
<1> QED
    BY <1>2, PageTableAssumption

\* Every turn raises the rank of the state, which the addresses bound.
Width == TopLevel + 2
Cycle == (TopLevel + 1) * (TopLevel + 2)
Phase(l, st, sk) == IF sk = Yes THEN l * Width + (TopLevel + 1) ELSE st * Width + (TopLevel - l)
Rank(l, v, st, sk) == Prefix(v, 1) * Cycle + Phase(l, st, sk)

\* The phases of one entry of the lowest tables are fewer than Cycle.
LEMMA PhaseIs ==
    ASSUME NEW l \in 1 .. TopLevel, NEW st \in 1 .. TopLevel, NEW sk \in {Yes, No}
    PROVE  Phase(l, st, sk) \in 0 .. Cycle - 1 /\ Cycle \in Nat
<1>1. PICK w \in Nat, T \in Nat : w = Width /\ T = TopLevel /\ w = T + 2
    BY PageTableAssumption DEF Width
<1>2. l * w \in Nat /\ st * w \in Nat /\ T * w \in Nat
    BY <1>1
<1>3. l * w <= T * w /\ st * w <= T * w
    <2>1. w * l <= w * T /\ w * st <= w * T
        BY <1>1, MulMono
    <2>2. w * l = l * w /\ w * T = T * w /\ w * st = st * w
        BY <1>1
    <2> QED
        BY <2>1, <2>2
<1>4. Cycle = T * w + w
    <2>1. (T + 1) * w = T * w + w
        BY <1>1
    <2> QED
        BY <1>1, <2>1 DEF Cycle
<1>5. sk = Yes => Phase(l, st, sk) = l * w + (T + 1)
    BY <1>1 DEF Phase
<1>6. sk = No => Phase(l, st, sk) = st * w + (T - l)
    BY <1>1, SkipTwo DEF Phase
<1> QED
    BY <1>1, <1>2, <1>3, <1>4, <1>5, <1>6

\* So the prefix of the address is the higher digit of a rank.
LEMMA RankIs ==
    ASSUME NEW l \in 1 .. TopLevel, NEW st \in 1 .. TopLevel, NEW sk \in {Yes, No}, NEW v \in Nat
    PROVE  /\ Rank(l, v, st, sk) \in Nat /\ Prefix(v, 1) * Cycle \in Nat /\ Cycle \in Nat
           /\ Prefix(v, 1) * Cycle <= Rank(l, v, st, sk)
           /\ Rank(l, v, st, sk) < Prefix(v, 1) * Cycle + Cycle
<1>1. Phase(l, st, sk) \in 0 .. Cycle - 1 /\ Cycle \in Nat
    BY PhaseIs
<1>2. Prefix(v, 1) \in Nat
    <2>1. 1 \in 0 .. TopLevel + 1
        BY PageTableAssumption
    <2> QED
        BY <2>1, PrefixIs
<1>3. PICK x \in Nat, y \in Nat : x = Prefix(v, 1) /\ y = Phase(l, st, sk)
    BY <1>1, <1>2
<1>4. x * Cycle \in Nat
    BY <1>1
<1>5. Rank(l, v, st, sk) = x * Cycle + y
    BY <1>3 DEF Rank
<1> QED
    BY <1>1, <1>3, <1>4, <1>5

\* Stopping, going down and going up raise the rank.
LEMMA RankWithin ==
    ASSUME NEW l \in 1 .. TopLevel, NEW st \in 1 .. TopLevel, NEW v \in Nat
    PROVE  /\ l = st => Rank(l, v, 1, Yes) >= Rank(l, v, st, No) + 1
           /\ l # 1 => Rank(l - 1, v, st, No) >= Rank(l, v, st, No) + 1
           /\ l # TopLevel => /\ Rank(TopLevel, v, l + 1, No) >= Rank(l, v, st, Yes) + 1
                              /\ st <= l => Rank(TopLevel, v, l + 1, No) >= Rank(l, v, st, No) + 1
<1>1. PICK w \in Nat, T \in Nat : w = Width /\ T = TopLevel /\ w = T + 2
    BY PageTableAssumption DEF Width
<1>2. PICK x \in Nat : x = Prefix(v, 1) * Cycle
    BY RankIs, SkipTwo
<1>3. l * w \in Nat /\ st * w \in Nat /\ (l + 1) * w = l * w + w
    BY <1>1
<1>4. st <= l => st * w <= l * w
    <2>1. st <= l => w * st <= w * l
        BY <1>1, MulMono
    <2>2. w * l = l * w /\ w * st = st * w
        BY <1>1
    <2> QED
        BY <2>1, <2>2
<1>5. \A m, s : /\ Rank(m, v, s, Yes) = x + (m * w + (T + 1))
                /\ Rank(m, v, s, No) = x + (s * w + (T - m))
    BY <1>1, <1>2, SkipTwo DEF Rank, Phase
<1>6. PICK a \in Nat, b \in Nat, c \in Nat : a = l * w /\ b = st * w /\ c = (l + 1) * w
    BY <1>3
<1>7. /\ Rank(l, v, 1, Yes) = x + (a + (T + 1)) /\ Rank(l, v, st, Yes) = x + (a + (T + 1))
      /\ Rank(l, v, st, No) = x + (b + (T - l)) /\ Rank(l - 1, v, st, No) = x + (b + (T - (l - 1)))
      /\ Rank(TopLevel, v, l + 1, No) = x + (c + (T - T))
    BY <1>1, <1>5, <1>6
<1>8. l = st => a = b
    BY <1>6
<1>9. c = a + w /\ (st <= l => b <= a)
    BY <1>3, <1>4, <1>6
<1> QED
    BY <1>1, <1>7, <1>8, <1>9

\* Going on to a later entry raises it too.
LEMMA RankNext ==
    ASSUME NEW l \in 1 .. TopLevel, NEW st \in 1 .. TopLevel, NEW sk \in {Yes, No}, NEW v \in Nat,
           NEW v2 \in Nat, Prefix(v2, 1) >= Prefix(v, 1) + 1
    PROVE  Rank(l, v2, st, No) >= Rank(l, v, st, sk) + 1
<1>1. PICK c \in Nat : c = Cycle
    BY PhaseIs
<1>2. PICK x \in Nat, y \in Nat : x = Prefix(v, 1) /\ y = Prefix(v2, 1) /\ x + 1 <= y
    <2>1. 1 \in 0 .. TopLevel + 1
        BY PageTableAssumption
    <2>2. Prefix(v, 1) \in Nat /\ Prefix(v2, 1) \in Nat
        BY <2>1, PrefixIs
    <2> QED
        BY <2>2
<1>3. x * c + c <= y * c
    <2>1. c * (x + 1) <= c * y
        BY <1>2, MulMono
    <2>2. c * (x + 1) = x * c + c /\ c * y = y * c
        OBVIOUS
    <2> QED
        BY <2>1, <2>2
<1>4. x * c \in Nat /\ y * c \in Nat
    OBVIOUS
<1>5. PICK m \in Nat, n \in Nat : m = Rank(l, v, st, sk) /\ n = Rank(l, v2, st, No)
    BY RankIs
<1>6. m < x * c + c
    BY <1>1, <1>2, <1>5, RankIs
<1>7. y * c <= n
    <2>1. No \in {Yes, No}
        OBVIOUS
    <2> QED
        BY <1>1, <1>2, <1>5, <2>1, RankIs
<1> QED
    BY <1>3, <1>4, <1>5, <1>6, <1>7

\* The iteration over the tables of p at a state: the tables listed are those past.
PtHolds(G, p, t, l, v, st, sk, dn, pg) ==
    /\ Place(G, p, t, l, v, st, sk) /\ dn \in {Yes, No}
    /\ Lists(pg, PastTables(G, p, v, Cut(l, st, sk))) /\ HungFirst(G, p, pg)
    /\ dn = Yes => \A u \in Nat : \A m \in 0 .. TopLevel - 1 : \A q :
                      TableFor(G, p, u, m, q) => q \in PastTables(G, p, v, Cut(l, st, sk))

\* A turn ends the iteration, or raises its rank.
PtGoesOn(k, G, p, r, s, n) ==
    \E t, l, v, st, sk, dn, pg :
       /\ PtStep(k, s) = PtAt(r, t, l, v, st, sk, dn, pg)
       /\ PtHolds(G, p, t, l, v, st, sk, dn, pg)
       /\ dn = Yes \/ Rank(l, v, st, sk) >= n + 1

\* Each turn of ptiter::go (k-vmiter.cc:110-140) raises the rank and keeps what holds of the
\* place it is at and of the pages it has stopped at: they are the tables past.
LEMMA PtStepHolds ==
    ASSUME NEW k, NEW G, Layout(k, G, {}), NEW p \in Nat, NEW r, IsRoot(G, p, r),
           NEW t, NEW l, NEW v, NEW st, NEW sk, NEW pg, PtHolds(G, p, t, l, v, st, sk, No, pg),
           NEW s, s = PtAt(r, t, l, v, st, sk, No, pg)
    PROVE  PtGoesOn(k, G, p, r, s, Rank(l, v, st, sk))
<1> USE PageTableAssumption
<1>1. /\ l \in 1 .. TopLevel /\ l \in 0 .. TopLevel /\ v \in Nat /\ v \in 0 .. VaEnd - 1
      /\ st \in 1 .. TopLevel /\ sk \in {Yes, No} /\ TableFor(G, p, v, l, t)
      /\ Place(G, p, t, l, v, st, sk)
    BY PlaceIs DEF PtHolds
<1>2. PICK e : e = k.mem[t].entry[pageindex(v, l)]
    OBVIOUS
<1>3. PICK v2 : v2 = AfterEntry(v, l)
    OBVIOUS
<1>4. e = At(k, s) /\ v2 = LastVa(s)
    <2>1. s.table = t /\ s.va = v /\ s.level = l
        BY PtFields
    <2> QED
        BY <1>2, <1>3, <2>1 DEF At, LastVa, AfterEntry, Prefix
<1>5. PICK present \in BOOLEAN : present <=> "P" \in e.perm /\ ~ sk
    OBVIOUS
<1>6. Leaves(v, l) <=> v2 \div Span(l + 1) # v \div Span(l + 1)
    BY <1>3 DEF Leaves, Prefix
<1>7. /\ present /\ l = st => PtStep(k, s) = PtAt(r, t, l, v, 1, Yes, No, Append(pg, e.pa))
      /\ present /\ l # st => PtStep(k, s) = PtAt(r, e.pa, l - 1, v, st, sk, No, pg)
      /\ ~ present /\ Leaves(v, l) /\ l = TopLevel => PtStep(k, s) = PtAt(r, t, l, v, st, sk, Yes, pg)
      /\ ~ present /\ Leaves(v, l) /\ l # TopLevel => PtStep(k, s) = PtAt(r, r, TopLevel, v, l + 1, No, No, pg)
      /\ ~ present /\ ~ Leaves(v, l) => PtStep(k, s) = PtAt(r, t, l, v2, st, No, No, pg)
    BY <1>4, <1>5, <1>6, PtStepIs
<1>8. /\ present => sk = No /\ Opens(k, t, v, l) /\ TableFor(G, p, v, l - 1, e.pa)
      /\ ~ present => sk = Yes \/ ~ Opens(k, t, v, l)
    <2>1. /\ "P" \in e.perm <=> Opens(k, t, v, l)
          /\ Opens(k, t, v, l) => TableFor(G, p, v, l - 1, e.pa)
        BY <1>1, <1>2, PtAtFits
    <2>2. (sk = Yes <=> sk) /\ (sk = No <=> ~ sk)
        BY <1>1 DEF Yes, No
    <2> QED
        BY <1>1, <1>5, <2>1, <2>2
<1>9. Lists(pg, PastTables(G, p, v, Cut(l, st, sk))) /\ HungFirst(G, p, pg) /\ No \in {Yes, No} /\ Yes \in {Yes, No}
    BY DEF PtHolds
<1>10. CASE present /\ l = st
    <2>1. PICK n : n = Append(pg, e.pa)
        OBVIOUS
    <2>2. Place(G, p, t, l, v, 1, Yes)
        BY <1>1, <1>8, <1>10, StopPlace
    <2>3. Cut(l, st, sk) = l - 1 /\ Cut(l, 1, Yes) = l
        BY <1>8, <1>10, SkipTwo DEF Cut
    <2>4. PastTables(G, p, v, l) = PastTables(G, p, v, l - 1) \cup {e.pa} /\ e.pa \notin PastTables(G, p, v, l - 1)
        BY <1>1, <1>8, <1>10, StopPast
    <2>5. e.pa \in Pages
        BY <1>8, <1>10 DEF TableFor
    <2>6. Lists(n, PastTables(G, p, v, Cut(l, 1, Yes)))
        <3>1. Lists(n, PastTables(G, p, v, l - 1) \cup {e.pa})
            BY <1>9, <2>1, <2>3, <2>4, <2>5, ListsMore
        <3> QED
            BY <2>3, <2>4, <3>1
    <2>7. HungFirst(G, p, n)
        <3>1. \A q : HangsIn(G, p, e.pa, q) => q \notin PastTables(G, p, v, l - 1)
            BY <1>1, <1>8, <1>10, StopHung
        <3>2. ~ HangsIn(G, p, e.pa, e.pa)
            BY NotHungInItself
        <3> QED
            BY <1>9, <2>1, <2>3, <2>5, <3>1, <3>2, HungFirstMore
    <2>8. PtHolds(G, p, t, l, v, 1, Yes, No, n)
        BY <2>2, <2>6, <2>7, SkipTwo DEF PtHolds
    <2>9. Rank(l, v, 1, Yes) >= Rank(l, v, st, sk) + 1
        BY <1>1, <1>8, <1>10, RankWithin
    <2> QED
        BY <1>7, <1>10, <2>1, <2>8, <2>9 DEF PtGoesOn
<1>11. CASE present /\ l # st
    <2>1. PICK m : m = l - 1
        OBVIOUS
    <2>2. Place(G, p, e.pa, m, v, st, No)
        BY <1>1, <1>8, <1>11, <2>1, DownPlace
    <2>3. Cut(l, st, sk) = Cut(m, st, No)
        BY <1>8, <1>11, SkipTwo DEF Cut
    <2>4. PtHolds(G, p, e.pa, m, v, st, No, No, pg)
        BY <1>9, <2>2, <2>3, SkipTwo DEF PtHolds
    <2>5. l # 1
        <3>1. l >= st
            BY <1>1, <1>8, <1>11 DEF Place
        <3> QED
            BY <1>1, <1>11, <3>1
    <2>6. Rank(m, v, st, No) >= Rank(l, v, st, sk) + 1
        BY <1>1, <1>8, <1>11, <2>1, <2>5, RankWithin
    <2> QED
        BY <1>7, <1>8, <1>11, <2>1, <2>4, <2>6 DEF PtGoesOn
<1>12. CASE ~ present /\ Leaves(v, l) /\ l = TopLevel
    <2>1. \A u \in Nat : \A m \in 0 .. TopLevel - 1 : \A q :
             TableFor(G, p, u, m, q) => q \in PastTables(G, p, v, Cut(l, st, sk))
        BY <1>1, <1>8, <1>12, EndPast
    <2>2. PtHolds(G, p, t, l, v, st, sk, Yes, pg)
        BY <1>1, <1>9, <2>1 DEF PtHolds
    <2> QED
        BY <1>7, <1>12, <2>2 DEF PtGoesOn
<1>13. CASE ~ present /\ Leaves(v, l) /\ l # TopLevel
    <2>1. PICK n : n = l + 1
        OBVIOUS
    <2>2. Place(G, p, r, TopLevel, v, n, No)
        BY <1>1, <1>8, <1>13, <2>1, UpPlace
    <2>3. Cut(TopLevel, n, No) = l
        BY <1>1, <2>1, SkipTwo DEF Cut
    <2>4. PastTables(G, p, v, Cut(l, st, sk)) = PastTables(G, p, v, l)
        BY <1>1, <1>8, <1>13, UpPast
    <2>5. PtHolds(G, p, r, TopLevel, v, n, No, No, pg)
        BY <1>9, <2>2, <2>3, <2>4, SkipTwo DEF PtHolds
    <2>6. Rank(TopLevel, v, n, No) >= Rank(l, v, st, sk) + 1
        <3>1. sk = No => st <= l
            BY <1>1 DEF Place
        <3> QED
            BY <1>1, <1>13, <2>1, <3>1, RankWithin
    <2> QED
        BY <1>7, <1>13, <2>1, <2>5, <2>6 DEF PtGoesOn
<1>14. CASE ~ present /\ ~ Leaves(v, l)
    <2>1. st = 1 /\ Place(G, p, t, l, v2, st, No)
        BY <1>1, <1>3, <1>8, <1>14, NextPlace
    <2>2. PastTables(G, p, v, Cut(l, st, sk)) = PastTables(G, p, v2, 0)
        BY <1>1, <1>3, <1>8, <1>14, NextPast
    <2>3. Cut(l, st, No) = 0
        BY <2>1, SkipTwo DEF Cut
    <2>4. PtHolds(G, p, t, l, v2, st, No, No, pg)
        BY <1>9, <2>1, <2>2, <2>3, SkipTwo DEF PtHolds
    <2>5. Rank(l, v2, st, No) >= Rank(l, v, st, sk) + 1
        <3>1. v2 \in Nat /\ Prefix(v2, 1) >= Prefix(v, 1) + 1
            BY <1>1, <1>3, AfterEntryIs
        <3> QED
            BY <1>1, <3>1, RankNext
    <2> QED
        BY <1>7, <1>14, <2>4, <2>5 DEF PtGoesOn
<1> QED
    BY <1>10, <1>11, <1>12, <1>13, <1>14

\* The turns of ptiter, and its rounds.
PtTurns(g, k, x, n) ==
    g = [i \in 0 .. n |-> IF i = 0 THEN x
                          ELSE CHOOSE y \in {PtStep(k, z) : z \in {g[i - 1]}} : TRUE]

PtLoop(k, x, n) == Iterate(LAMBDA t : PtStep(k, t), x, n)

PtRound(k, n, s) == IF s.done THEN s ELSE PtLoop(k, s, n)

PtRounds(g, k, m, x, n) ==
    g = [i \in 0 .. n |-> IF i = 0 THEN x
                          ELSE CHOOSE y \in {PtRound(k, m, z) : z \in {g[i - 1]}} : TRUE]

PtLoops(k, m, x, n) == Iterate(LAMBDA t : PtRound(k, m, t), x, n)

PtTurning(F, k, S)     == \A s \in S : F[s] = PtStep(k, s)
PtRounding(F, k, m, S) == \A s \in S : F[s] = PtRound(k, m, s)

\* What the turns come to.
LEMMA PtTurnsIs ==
    ASSUME NEW k, NEW S, NEW F \in [S -> S], NEW x \in S, NEW n \in Nat,
           PtTurning(F, k, S)
    PROVE  Runs(S, F, x, n, PtLoop(k, x, n))
<1>1. PICK g \in [0 .. n -> S] : g[0] = x /\ Turns(F, g, n)
    BY TurnsExist
<1>2. \A z : (CHOOSE y \in {PtStep(k, w) : w \in {z}} : TRUE) = PtStep(k, z)
    <2>1. TAKE z
    <2>2. {PtStep(k, w) : w \in {z}} = {PtStep(k, z)}
        OBVIOUS
    <2> QED
        BY <2>2, OneOf
<1>3. PtTurns(g, k, x, n)
    <2>1. \A i \in 0 .. n : g[i] = IF i = 0 THEN x
                                   ELSE CHOOSE y \in {PtStep(k, z) : z \in {g[i - 1]}} : TRUE
        <3>1. TAKE i \in 0 .. n
        <3>2. CASE i = 0
            BY <1>1, <3>2
        <3>3. CASE i # 0
            <4>1. i \in 1 .. n /\ i - 1 \in 0 .. n
                BY <3>1, <3>3
            <4>2. PICK z \in S : z = g[i - 1]
                BY <4>1
            <4>3. g[i] = PtStep(k, z)
                BY <1>1, <4>1, <4>2 DEF Turns, PtTurning
            <4> QED
                BY <1>2, <3>3, <4>2, <4>3
        <3> QED
            BY <3>2, <3>3
    <2>2. g = [i \in 0 .. n |-> g[i]]
        OBVIOUS
    <2> QED
        BY <2>1, <2>2 DEF PtTurns
<1>4. PICK h : h = CHOOSE f : PtTurns(f, k, x, n)
    OBVIOUS
<1>5. PtTurns(h, k, x, n)
    BY <1>3, <1>4
<1>6. h[0] = x /\ \A i \in 1 .. n : h[i] = PtStep(k, h[i - 1])
    <2>1. h = [i \in 0 .. n |-> IF i = 0 THEN x
                                ELSE CHOOSE y \in {PtStep(k, z) : z \in {h[i - 1]}} : TRUE]
        BY <1>5 DEF PtTurns
    <2>2. h[0] = x
        BY <2>1
    <2>3. ASSUME NEW i \in 1 .. n PROVE h[i] = PtStep(k, h[i - 1])
        <3>1. i \in 0 .. n /\ i # 0
            OBVIOUS
        <3>2. h[i] = CHOOSE y \in {PtStep(k, z) : z \in {h[i - 1]}} : TRUE
            BY <2>1, <3>1
        <3> QED
            BY <1>2, <3>2
    <2> QED
        BY <2>2, <2>3
<1>7. Follows(F, g, h, n)
    <2>1. SUFFICES ASSUME NEW i \in 1 .. n, g[i - 1] = h[i - 1] PROVE h[i] = F[h[i - 1]]
        BY DEF Follows
    <2>2. i - 1 \in 0 .. n
        OBVIOUS
    <2>3. h[i - 1] \in S
        BY <2>1, <2>2
    <2> QED
        BY <1>6, <2>3 DEF PtTurning
<1>8. h[n] = g[n]
    <2>1. g[0] = h[0]
        BY <1>1, <1>6
    <2>2. \A i \in 0 .. n : h[i] = g[i]
        BY <1>1, <1>7, <2>1, TurnsAgree
    <2> QED
        BY <2>2
<1>9. PtLoop(k, x, n) = h[n]
    BY <1>4 DEF PtLoop, Iterate, Iterates, PtTurns
<1> QED
    BY <1>1, <1>8, <1>9 DEF Runs

\* And its rounds.
LEMMA PtRoundsIs ==
    ASSUME NEW k, NEW m, NEW S, NEW F \in [S -> S], NEW x \in S, NEW n \in Nat,
           PtRounding(F, k, m, S)
    PROVE  Runs(S, F, x, n, PtLoops(k, m, x, n))
<1>1. PICK g \in [0 .. n -> S] : g[0] = x /\ Turns(F, g, n)
    BY TurnsExist
<1>2. \A z : (CHOOSE y \in {PtRound(k, m, w) : w \in {z}} : TRUE) = PtRound(k, m, z)
    <2>1. TAKE z
    <2>2. {PtRound(k, m, w) : w \in {z}} = {PtRound(k, m, z)}
        OBVIOUS
    <2> QED
        BY <2>2, OneOf
<1>3. PtRounds(g, k, m, x, n)
    <2>1. \A i \in 0 .. n : g[i] = IF i = 0 THEN x
                                   ELSE CHOOSE y \in {PtRound(k, m, z) : z \in {g[i - 1]}} : TRUE
        <3>1. TAKE i \in 0 .. n
        <3>2. CASE i = 0
            BY <1>1, <3>2
        <3>3. CASE i # 0
            <4>1. i \in 1 .. n /\ i - 1 \in 0 .. n
                BY <3>1, <3>3
            <4>2. PICK z \in S : z = g[i - 1]
                BY <4>1
            <4>3. g[i] = PtRound(k, m, z)
                BY <1>1, <4>1, <4>2 DEF Turns, PtRounding
            <4> QED
                BY <1>2, <3>3, <4>2, <4>3
        <3> QED
            BY <3>2, <3>3
    <2>2. g = [i \in 0 .. n |-> g[i]]
        OBVIOUS
    <2> QED
        BY <2>1, <2>2 DEF PtRounds
<1>4. PICK h : h = CHOOSE f : PtRounds(f, k, m, x, n)
    OBVIOUS
<1>5. PtRounds(h, k, m, x, n)
    BY <1>3, <1>4
<1>6. h[0] = x /\ \A i \in 1 .. n : h[i] = PtRound(k, m, h[i - 1])
    <2>1. h = [i \in 0 .. n |-> IF i = 0 THEN x
                                ELSE CHOOSE y \in {PtRound(k, m, z) : z \in {h[i - 1]}} : TRUE]
        BY <1>5 DEF PtRounds
    <2>2. h[0] = x
        BY <2>1
    <2>3. ASSUME NEW i \in 1 .. n PROVE h[i] = PtRound(k, m, h[i - 1])
        <3>1. i \in 0 .. n /\ i # 0
            OBVIOUS
        <3>2. h[i] = CHOOSE y \in {PtRound(k, m, z) : z \in {h[i - 1]}} : TRUE
            BY <2>1, <3>1
        <3> QED
            BY <1>2, <3>2
    <2> QED
        BY <2>2, <2>3
<1>7. Follows(F, g, h, n)
    <2>1. SUFFICES ASSUME NEW i \in 1 .. n, g[i - 1] = h[i - 1] PROVE h[i] = F[h[i - 1]]
        BY DEF Follows
    <2>2. i - 1 \in 0 .. n
        OBVIOUS
    <2>3. h[i - 1] \in S
        BY <2>1, <2>2
    <2> QED
        BY <1>6, <2>3 DEF PtRounding
<1>8. h[n] = g[n]
    <2>1. g[0] = h[0]
        BY <1>1, <1>6
    <2>2. \A i \in 0 .. n : h[i] = g[i]
        BY <1>1, <1>7, <2>1, TurnsAgree
    <2> QED
        BY <2>2
<1>9. PtLoops(k, m, x, n) = h[n]
    BY <1>4 DEF PtLoops, Iterate, Iterates, PtRounds
<1> QED
    BY <1>1, <1>8, <1>9 DEF Runs

\* The states of the iteration over the tables of p.
PtStates(r) ==
    [root : {r}, table : Pages, level : 1 .. TopLevel, va : Nat, stop : 1 .. TopLevel,
     skip : {Yes, No}, done : {Yes, No}, pages : Seq(Pages)]
PtIs(G, p, r, s) ==
    \E t, l, v, st, sk, dn, pg : s = PtAt(r, t, l, v, st, sk, dn, pg) /\ PtHolds(G, p, t, l, v, st, sk, dn, pg)
PtReached(G, p, r) == {s \in PtStates(r) : PtIs(G, p, r, s)}
PtRank(s) == Rank(s.level, s.va, s.stop, s.skip)

\* The states with a place are among those that can be reached.
LEMMA PtReachedIs ==
    ASSUME NEW G, NEW p, NEW r, NEW t, NEW l, NEW v, NEW st, NEW sk, NEW dn, NEW pg,
           PtHolds(G, p, t, l, v, st, sk, dn, pg), NEW s, s = PtAt(r, t, l, v, st, sk, dn, pg)
    PROVE  s \in PtReached(G, p, r) /\ PtRank(s) = Rank(l, v, st, sk) /\ PtRank(s) \in Nat
<1>1. /\ l \in 1 .. TopLevel /\ v \in Nat /\ st \in 1 .. TopLevel /\ sk \in {Yes, No}
      /\ TableFor(G, p, v, l, t)
    BY PlaceIs DEF PtHolds
<1>2. dn \in {Yes, No} /\ pg \in Seq(Pages) /\ t \in Pages
    BY <1>1 DEF PtHolds, Lists, TableFor
<1>3. s \in PtStates(r)
    BY <1>1, <1>2 DEF PtAt, PtStates
<1>4. PtIs(G, p, r, s)
    BY DEF PtIs
<1>5. s.level = l /\ s.va = v /\ s.stop = st /\ s.skip = sk
    BY PtFields
<1>6. Rank(l, v, st, sk) \in Nat
    BY <1>1, RankIs
<1> QED
    BY <1>3, <1>4, <1>5, <1>6 DEF PtReached, PtRank

\* So is the state that the constructor makes.
LEMMA PtStartHolds ==
    ASSUME NEW G, NEW p, NEW r, IsRoot(G, p, r)
    PROVE  PtStart(r) \in PtReached(G, p, r)
<1> USE PageTableAssumption
<1>1. \A m \in 0 .. TopLevel + 1 : Prefix(0, m) = 0
    <2>1. TAKE m \in 0 .. TopLevel + 1
    <2>2. 0 * Span(m) = 0
        BY SpanIs
    <2>3. Prefix(0 * Span(m), m) = 0
        BY BaseIs
    <2> QED
        BY <2>2, <2>3
<1>2. 0 \in 0 .. VaEnd - 1 /\ TopLevel \in 1 .. TopLevel /\ 1 \in 1 .. TopLevel
    BY SpanIs DEF VaEnd
<1>3. TableFor(G, p, 0, TopLevel, r)
    <2>1. Prefix(0, TopLevel + 1) = 0
        BY <1>1
    <2> QED
        BY <2>1 DEF TableFor, IsRoot
<1>4. Place(G, p, r, TopLevel, 0, 1, No)
    BY <1>2, <1>3, SkipTwo DEF Place
<1>5. PastTables(G, p, 0, 0) = {}
    <2>1. ASSUME NEW u \in Nat, NEW l \in 0 .. TopLevel - 1 PROVE ~ Passed(0, 0, l, u)
        <3>1. l + 1 \in 0 .. TopLevel + 1
            OBVIOUS
        <3>2. Prefix(0, l + 1) = 0 /\ Prefix(u, l + 1) \in Nat
            BY <1>1, <3>1, PrefixIs
        <3> QED
            BY <3>2 DEF Passed
    <2> QED
        BY <2>1 DEF PastTables
<1>6. Lists(<<>>, {}) /\ HungFirst(G, p, <<>>)
    <2>1. <<>> \in Seq(Pages) /\ Len(<<>>) = 0
        OBVIOUS
    <2> QED
        BY <2>1 DEF Lists, HungFirst
<1>7. Cut(TopLevel, 1, No) = 0
    BY SkipTwo DEF Cut
<1>8. PtHolds(G, p, r, TopLevel, 0, 1, No, No, <<>>)
    BY <1>4, <1>5, <1>6, <1>7, SkipTwo DEF PtHolds
<1>9. PtStart(r) = PtAt(r, r, TopLevel, 0, 1, No, No, <<>>)
    BY DEF PtStart, PtAt, No
<1> QED
    BY <1>8, <1>9, PtReachedIs

\* A turn from any state reached.
LEMMA PtTurn ==
    ASSUME NEW k, NEW G, Layout(k, G, {}), NEW p \in Nat, NEW r, IsRoot(G, p, r),
           NEW s \in PtReached(G, p, r)
    PROVE  /\ PtStep(k, s) \in PtReached(G, p, r) /\ s.done \in {Yes, No} /\ PtRank(s) \in Nat
           /\ s.done = Yes => PtStep(k, s) = s
           /\ s.done # Yes => PtStep(k, s).done = Yes \/ PtRank(PtStep(k, s)) >= PtRank(s) + 1
<1>1. PICK t, l, v, st, sk, dn, pg :
          s = PtAt(r, t, l, v, st, sk, dn, pg) /\ PtHolds(G, p, t, l, v, st, sk, dn, pg)
    BY DEF PtReached, PtIs
<1>2. s.done = dn
    BY <1>1, PtFields
<1>3. dn \in {Yes, No} /\ PtRank(s) = Rank(l, v, st, sk) /\ PtRank(s) \in Nat
    BY <1>1, PtReachedIs DEF PtHolds
<1>4. CASE dn = Yes
    <2>1. s.done
        BY <1>2, <1>4 DEF Yes
    <2>2. PtStep(k, s) = s
        BY <2>1 DEF PtStep
    <2> QED
        BY <1>2, <1>3, <1>4, <2>2
<1>5. CASE dn = No
    <2>1. PtGoesOn(k, G, p, r, s, Rank(l, v, st, sk))
        BY <1>1, <1>5, PtStepHolds
    <2>2. PICK t2, l2, v2, st2, sk2, dn2, pg2 :
              /\ PtStep(k, s) = PtAt(r, t2, l2, v2, st2, sk2, dn2, pg2)
              /\ PtHolds(G, p, t2, l2, v2, st2, sk2, dn2, pg2)
              /\ dn2 = Yes \/ Rank(l2, v2, st2, sk2) >= Rank(l, v, st, sk) + 1
        BY <2>1 DEF PtGoesOn
    <2>3. PICK s2 : s2 = PtStep(k, s)
        OBVIOUS
    <2>4. s2 \in PtReached(G, p, r) /\ PtRank(s2) = Rank(l2, v2, st2, sk2)
        BY <2>2, <2>3, PtReachedIs
    <2>5. s2.done = dn2
        BY <2>2, <2>3, PtFields
    <2> QED
        BY <1>2, <1>3, <1>5, <2>2, <2>3, <2>4, <2>5, SkipTwo
<1> QED
    BY <1>3, <1>4, <1>5

\* The ranks are below what the rounds would raise them to.
LEMMA PtRankBound ==
    ASSUME NEW G, NEW p, NEW r, NEW s \in PtReached(G, p, r)
    PROVE  PtRank(s) \in Nat /\ PtRank(s) < WalkBound * WalkBound
<1> USE PageTableAssumption
<1>1. PICK t, l, v, st, sk, dn, pg :
          s = PtAt(r, t, l, v, st, sk, dn, pg) /\ PtHolds(G, p, t, l, v, st, sk, dn, pg)
    BY DEF PtReached, PtIs
<1>2. PtRank(s) = Rank(l, v, st, sk)
    BY <1>1, PtReachedIs
<1>3. l \in 1 .. TopLevel /\ v \in Nat /\ v \in 0 .. VaEnd - 1 /\ st \in 1 .. TopLevel /\ sk \in {Yes, No}
    BY <1>1, PlaceIs DEF PtHolds
<1>4. PICK a \in Nat, c \in Nat, x \in Nat : a = PtRank(s) /\ c = Cycle /\ x = Prefix(v, 1)
    <2>1. 1 \in 0 .. TopLevel + 1
        OBVIOUS
    <2>2. Prefix(v, 1) \in Nat
        BY <1>3, <2>1, PrefixIs
    <2> QED
        BY <1>2, <1>3, <2>2, RankIs
<1>5. a < x * c + c
    <2>1. Rank(l, v, st, sk) < Prefix(v, 1) * Cycle + Cycle
        BY <1>3, RankIs
    <2> QED
        BY <1>2, <1>4, <2>1
<1>6. PICK y \in Nat : y = VaEnd \div Fanout /\ x <= y
    <2>1. Span(1) = Fanout
        <3>1. Span(0 + 1) = Fanout * Span(0) /\ Span(0) = 1
            BY SpanIs
        <3> QED
            BY <3>1
    <2>2. VaEnd \in Nat /\ v <= VaEnd /\ Fanout > 0
        BY <1>3, SpanIs DEF VaEnd
    <2>3. v \div Fanout <= VaEnd \div Fanout
        BY <1>3, <2>2, DivMono
    <2>4. VaEnd \div Fanout \in Nat
        BY <2>2, DivIs
    <2> QED
        BY <1>4, <2>1, <2>3, <2>4 DEF Prefix
<1>7. x * c + c <= (y + 1) * c
    <2>1. c * (x + 1) <= c * (y + 1)
        BY <1>6, MulMono
    <2>2. c * (x + 1) = x * c + c /\ c * (y + 1) = (y + 1) * c
        OBVIOUS
    <2> QED
        BY <2>1, <2>2
<1>8. PICK b : b = WalkBound * WalkBound
    OBVIOUS
<1>9. b \in Nat /\ (y + 1) * c <= b
    BY <1>4, <1>6, <1>8, WalkAssumption DEF Cycle
<1>10. x * c \in Nat /\ (y + 1) * c \in Nat
    OBVIOUS
<1> QED
    BY <1>4, <1>5, <1>7, <1>8, <1>9, <1>10

\* The tables of p below its root.
InnerTables(G, p) ==
    {q \in Pages : \E u \in Nat : \E l \in 0 .. TopLevel - 1 : TableFor(G, p, u, l, q)}

\* The iteration ends when it has listed every table below the root, once, each after
\* those that hang in it.
LEMMA PtiterIs ==
    ASSUME NEW k, NEW G, Layout(k, G, {}), NEW p \in Nat, NEW r, IsRoot(G, p, r),
           NEW w, w = Ptiter(k, r, WalkBound)
    PROVE  w.done = TRUE /\ Lists(w.pages, InnerTables(G, p)) /\ HungFirst(G, p, w.pages)
<1> DEFINE n == WalkBound
           S == PtReached(G, p, r)
           x == PtStart(r)
           F == [s \in S |-> PtStep(k, s)]
           M == [s \in S |-> PtRank(s)]
           Done == {s \in S : s.done = Yes}
           R == [s \in S |-> PtRound(k, n, s)]
<1>1. n \in Nat /\ n * n \in Nat
    BY WalkAssumption
<1>2. ASSUME NEW s \in S
      PROVE  /\ PtStep(k, s) \in S /\ s.done \in {Yes, No} /\ PtRank(s) \in Nat
             /\ s.done = Yes => PtStep(k, s) = s
             /\ s.done # Yes => PtStep(k, s).done = Yes \/ PtRank(PtStep(k, s)) >= PtRank(s) + 1
    BY PtTurn
<1>3. F \in [S -> S] /\ M \in [S -> Nat] /\ PtTurning(F, k, S)
    BY <1>2 DEF PtTurning
<1>4. Climbs(S, F, Done, M, 1)
    <2>1. ASSUME NEW s \in S
          PROVE  /\ s \in Done => F[s] \in Done
                 /\ s \notin Done => F[s] \in Done \/ M[F[s]] >= M[s] + 1
        <3>1. F[s] = PtStep(k, s) /\ F[s] \in S /\ M[F[s]] = PtRank(F[s]) /\ M[s] = PtRank(s)
            BY <1>2
        <3> HIDE DEF S, F, M
        <3> QED
            BY <1>2, <2>1, <3>1
    <2> QED
        BY <2>1 DEF Climbs
<1> HIDE DEF F
<1>5. ASSUME NEW s \in S
      PROVE  /\ PtRound(k, n, s) \in S
             /\ s \in Done => PtRound(k, n, s) \in Done
             /\ s \notin Done => PtRound(k, n, s) \in Done \/ M[PtRound(k, n, s)] >= M[s] + n
    <2>1. s.done <=> s.done = Yes
        BY <1>2 DEF Yes, No
    <2>2. CASE s \in Done
        BY <2>1, <2>2 DEF PtRound
    <2>3. CASE s \notin Done
        <3>1. PtRound(k, n, s) = PtLoop(k, s, n)
            BY <2>1, <2>3 DEF PtRound
        <3>2. PICK y : y = PtLoop(k, s, n)
            OBVIOUS
        <3> HIDE DEF M, S, Done
        <3>3. Runs(S, F, s, n, y)
            BY <1>1, <1>3, <1>5, <3>2, PtTurnsIs
        <3>4. y \in S /\ (y \in Done \/ M[y] >= M[s] + 1 * n)
            BY <1>1, <1>3, <1>4, <3>3, RunClimbs
        <3>5. 1 * n = n
            BY <1>1
        <3> QED
            BY <2>3, <3>1, <3>2, <3>4, <3>5
    <2> QED
        BY <2>2, <2>3
<1>6. R \in [S -> S] /\ PtRounding(R, k, n, S)
    BY <1>5 DEF PtRounding
<1>7. Climbs(S, R, Done, M, n)
    BY <1>5, <1>6 DEF Climbs, PtRounding
<1>8. x \in S
    BY PtStartHolds
<1> HIDE DEF R, x
<1>9. w = PtLoops(k, n, x, n)
    BY DEF Ptiter, Rounds, PtRound, PtLoop, PtLoops, x
<1>10. w \in S /\ (w \in Done \/ M[w] >= M[x] + n * n)
    <2> HIDE DEF S, M, Done
    <2>1. Runs(S, R, x, n, w)
        BY <1>1, <1>6, <1>8, <1>9, PtRoundsIs
    <2> QED
        BY <1>1, <1>3, <1>6, <1>7, <2>1, RunClimbs
<1>11. w.done = Yes
    <2>1. M[w] = PtRank(w) /\ PtRank(w) < n * n
        BY <1>10, PtRankBound
    <2>2. M[x] \in Nat /\ M[w] \in Nat
        <3> HIDE DEF S, M
        <3> QED
            BY <1>3, <1>8, <1>10
    <2>3. ~ (M[w] >= M[x] + n * n)
        <3>1. PICK a \in Nat, b \in Nat, c \in Nat : a = M[w] /\ b = M[x] /\ c = n * n
            BY <1>1, <2>2
        <3>2. a < c
            BY <2>1, <3>1
        <3> QED
            BY <3>1, <3>2
    <2> QED
        BY <1>10, <2>3
<1>12. PICK t, l, v, st, sk, dn, pg :
           w = PtAt(r, t, l, v, st, sk, dn, pg) /\ PtHolds(G, p, t, l, v, st, sk, dn, pg)
    BY <1>10 DEF PtReached, PtIs
<1>13. w.pages = pg /\ dn = Yes
    BY <1>11, <1>12, PtFields
<1>14. PastTables(G, p, v, Cut(l, st, sk)) = InnerTables(G, p)
    <2>1. \A u \in Nat : \A m \in 0 .. TopLevel - 1 : \A q :
             TableFor(G, p, u, m, q) => q \in PastTables(G, p, v, Cut(l, st, sk))
        BY <1>12, <1>13 DEF PtHolds
    <2> QED
        BY <2>1 DEF InnerTables, PastTables
<1>15. Lists(pg, PastTables(G, p, v, Cut(l, st, sk))) /\ HungFirst(G, p, pg)
    BY <1>12 DEF PtHolds
<1> QED
    BY <1>11, <1>13, <1>14, <1>15 DEF Yes

\* The pages the entries of a table lead to, those of several tables, and of their tables
\* in turn.
BelowIn(k, t)     == {e.pa : e \in {f \in RangeOf(k.mem[t].entry) : "P" \in f.perm}}
DeeperIn(k, X)    == X \cup UNION {BelowIn(k, t) : t \in X}
DeepIn(k, x, n)   == Iterate(LAMBDA X : DeeperIn(k, X), x, n)
Deepens(g, k, x, n) ==
    g = [i \in 0 .. n |-> IF i = 0 THEN x
                          ELSE CHOOSE y \in {DeeperIn(k, z) : z \in {g[i - 1]}} : TRUE]

\* The tables of p from level m up.
TablesFrom(G, p, m) ==
    {q \in Pages : \E u \in Nat : \E l \in 0 .. TopLevel : l >= m /\ TableFor(G, p, u, l, q)}

\* An entry leads to a table iff that hangs there.
LEMMA BelowIs ==
    ASSUME NEW k, NEW G, Layout(k, G, {}), NEW p \in Nat, NEW u \in Nat, NEW l \in 1 .. TopLevel,
           NEW t, TableFor(G, p, u, l, t), NEW q
    PROVE  /\ q \in BelowIn(k, t) => \E v \in Nat : TableFor(G, p, v, l, t) /\ TableFor(G, p, v, l - 1, q)
           /\ \A v \in Nat : TableFor(G, p, v, l, t) /\ TableFor(G, p, v, l - 1, q) => q \in BelowIn(k, t)
<1> USE PageTableAssumption
<1>0. PICK c : c = k.mem[t].entry
    OBVIOUS
<1>1. t \in Pages /\ G[t].kind = "table" /\ G[t] = TableOf(p, l, Prefix(u, l + 1))
    BY RoleFields DEF TableFor
<1>2. c \in [Index -> [pa : Pages, perm : SUBSET PWU]]
    <2>1. k.mem[t] \in Tables
        BY <1>1 DEF Layout, EntriesFit
    <2> QED
        BY <1>0, <2>1 DEF Tables
<1>3. BelowIn(k, t) = {c[i].pa : i \in {j \in Index : "P" \in c[j].perm}}
    <2>1. DOMAIN c = Index
        BY <1>2
    <2> QED
        BY <1>0, <2>1 DEF BelowIn, RangeOf
<1>4. Prefix(u, l + 1) \in Nat /\ l \in 0 .. TopLevel /\ l \in 0 .. TopLevel + 1
    <2>1. PICK m \in 0 .. TopLevel + 1 : m = l + 1
        OBVIOUS
    <2> QED
        BY <2>1, PrefixIs
<1>5. ASSUME q \in BelowIn(k, t)
      PROVE  \E v \in Nat : TableFor(G, p, v, l, t) /\ TableFor(G, p, v, l - 1, q)
    <2>1. PICK i \in Index : q = c[i].pa /\ "P" \in c[i].perm
        BY <1>3, <1>5
    <2>2. PICK b \in Nat : b = Prefix(u, l + 1)
        BY <1>4
    <2>3. PICK a \in Nat : a = b * Fanout + i /\ a \div Fanout = b /\ a % Fanout = i
        BY DigitsIs
    <2>4. PICK v \in Nat : v = a * Span(l) /\ Prefix(v, l) = a
        BY <1>4, BaseIs
    <2>5. Prefix(v, l + 1) = b
        BY <1>4, <2>3, <2>4, PrefixIs
    <2>6. pageindex(v, l) = i
        BY <2>3, <2>4 DEF pageindex, Prefix
    <2>7. TableFor(G, p, v, l, t)
        BY <1>1, <2>2, <2>5 DEF TableFor
    <2>8. PICK e : e = c[i]
        OBVIOUS
    <2>9. "P" \in e.perm /\ e = k.mem[t].entry[pageindex(v, l)] /\ q = e.pa
        BY <1>0, <2>1, <2>6, <2>8
    <2>10. TableFor(G, p, v, l - 1, q)
        BY <2>7, <2>9, PtAtFits
    <2> QED
        BY <2>7, <2>10
<1>6. ASSUME NEW v \in Nat, TableFor(G, p, v, l, t), TableFor(G, p, v, l - 1, q)
      PROVE  q \in BelowIn(k, t)
    <2>1. PICK m \in 0 .. TopLevel - 1 : m = l - 1 /\ m + 1 = l
        OBVIOUS
    <2>2. PICK s : TableFor(G, p, v, l, s) /\ k.mem[s].entry[pageindex(v, l)] = Entry(q, PWU)
        <3>1. TableFor(G, p, v, m, q)
            BY <1>6, <2>1
        <3>2. \E s : TableFor(G, p, v, m + 1, s) /\ k.mem[s].entry[pageindex(v, m + 1)] = Entry(q, PWU)
            BY <3>1, ParentIs
        <3> QED
            BY <2>1, <3>2
    <2>3. s = t
        BY <1>6, <2>2, TableUnique
    <2>4. pageindex(v, l) \in Index
        BY <1>4, PrefixIs
    <2>5. PICK i \in Index : c[i] = Entry(q, PWU)
        BY <1>0, <2>2, <2>3, <2>4
    <2>6. c[i].pa = q /\ "P" \in c[i].perm
        BY <2>5 DEF Entry, PWU
    <2> QED
        BY <1>3, <2>6
<1> QED
    BY <1>5, <1>6

\* One level further down from the root are the tables of the next level.
LEMMA DeeperIs ==
    ASSUME NEW k, NEW G, Layout(k, G, {}), NEW p \in Nat, NEW m \in 1 .. TopLevel
    PROVE  DeeperIn(k, TablesFrom(G, p, m)) = TablesFrom(G, p, m - 1)
<1> USE PageTableAssumption
<1>1. ASSUME NEW q, q \in DeeperIn(k, TablesFrom(G, p, m)) PROVE q \in TablesFrom(G, p, m - 1)
    <2>1. CASE q \in TablesFrom(G, p, m)
        BY <2>1 DEF TablesFrom
    <2>2. CASE q \notin TablesFrom(G, p, m)
        <3>1. PICK t \in TablesFrom(G, p, m) : q \in BelowIn(k, t)
            BY <1>1, <2>2 DEF DeeperIn
        <3>2. PICK u \in Nat, l \in 0 .. TopLevel : l >= m /\ TableFor(G, p, u, l, t)
            BY <3>1 DEF TablesFrom
        <3>3. l \in 1 .. TopLevel
            BY <3>2
        <3>4. PICK v \in Nat : TableFor(G, p, v, l - 1, q)
            BY <3>1, <3>2, <3>3, BelowIs
        <3>5. l - 1 \in 0 .. TopLevel /\ l - 1 >= m - 1 /\ q \in Pages
            BY <3>2, <3>3, <3>4 DEF TableFor
        <3> QED
            BY <3>4, <3>5 DEF TablesFrom
    <2> QED
        BY <2>1, <2>2
<1>2. ASSUME NEW q, q \in TablesFrom(G, p, m - 1) PROVE q \in DeeperIn(k, TablesFrom(G, p, m))
    <2>1. PICK u \in Nat, l \in 0 .. TopLevel : l >= m - 1 /\ TableFor(G, p, u, l, q)
        BY <1>2 DEF TablesFrom
    <2>2. CASE l >= m
        <3>1. q \in TablesFrom(G, p, m)
            BY <2>1, <2>2 DEF TablesFrom, TableFor
        <3> QED
            BY <3>1 DEF DeeperIn
    <2>3. CASE ~ (l >= m)
        <3>1. l = m - 1 /\ l \in 0 .. TopLevel - 1 /\ l + 1 = m
            BY <2>1, <2>3
        <3>2. PICK t : TableFor(G, p, u, l + 1, t)
            BY <2>1, <3>1, ParentIs
        <3>3. TableFor(G, p, u, m, t) /\ TableFor(G, p, u, m - 1, q)
            BY <2>1, <3>1, <3>2
        <3>4. q \in BelowIn(k, t)
            BY <3>3, BelowIs
        <3>5. t \in TablesFrom(G, p, m)
            <4>1. m \in 0 .. TopLevel /\ m >= m
                OBVIOUS
            <4> QED
                BY <3>3, <4>1 DEF TablesFrom, TableFor
        <3> QED
            BY <3>4, <3>5 DEF DeeperIn
    <2> QED
        BY <2>2, <2>3
<1> QED
    BY <1>1, <1>2

\* The tables at the top are the root, and the ones below it are all the others.
LEMMA RootOnly ==
    ASSUME NEW k, NEW G, Layout(k, G, {}), NEW p \in Nat, NEW r, IsRoot(G, p, r)
    PROVE  /\ TablesFrom(G, p, TopLevel) = {r}
           /\ TablesFrom(G, p, 0) \ {r} = InnerTables(G, p)
<1> USE PageTableAssumption
<1>1. TableFor(G, p, 0, TopLevel, r)
    <2>1. 0 < VaEnd
        BY SpanIs DEF VaEnd
    <2>2. Prefix(0, TopLevel + 1) = 0
        BY <2>1, PrefixIs
    <2> QED
        BY <2>2 DEF TableFor, IsRoot
<1>2. r \in Pages /\ G[r].level = TopLevel
    BY RoleFields DEF IsRoot
<1>3. ASSUME NEW u \in Nat, NEW q, TableFor(G, p, u, TopLevel, q) PROVE q = r
    <2>1. TopLevel \in 0 .. TopLevel
        OBVIOUS
    <2>2. Prefix(u, TopLevel + 1) = 0 /\ Prefix(0, TopLevel + 1) = 0
        BY <1>1, <1>3, <2>1, TableBelowEnd
    <2>3. PICK v \in Nat : v = 0
        OBVIOUS
    <2>4. TableFor(G, p, v, TopLevel, r) /\ Prefix(u, TopLevel + 1) = Prefix(v, TopLevel + 1)
        BY <1>1, <2>2, <2>3
    <2> QED
        BY <1>3, <2>4, TableUnique
<1>4. ASSUME NEW q PROVE q \in TablesFrom(G, p, TopLevel) <=> q = r
    <2>1. q \in TablesFrom(G, p, TopLevel) => q = r
        <3>1. SUFFICES ASSUME NEW u \in Nat, NEW l \in 0 .. TopLevel, l >= TopLevel, TableFor(G, p, u, l, q)
                       PROVE q = r
            BY DEF TablesFrom
        <3>2. l = TopLevel
            BY <3>1
        <3> QED
            BY <1>3, <3>1, <3>2
    <2>2. r \in TablesFrom(G, p, TopLevel)
        <3>1. TopLevel \in 0 .. TopLevel /\ TopLevel >= TopLevel /\ 0 \in Nat
            OBVIOUS
        <3> QED
            BY <1>1, <1>2, <3>1 DEF TablesFrom
    <2> QED
        BY <2>1, <2>2
<1>5. ASSUME NEW q PROVE q \in TablesFrom(G, p, 0) /\ q # r <=> q \in InnerTables(G, p)
    <2>1. ASSUME q \in TablesFrom(G, p, 0), q # r PROVE q \in InnerTables(G, p)
        <3>1. PICK u \in Nat, l \in 0 .. TopLevel : TableFor(G, p, u, l, q)
            BY <2>1 DEF TablesFrom
        <3>2. l # TopLevel
            BY <1>3, <2>1, <3>1
        <3>3. l \in 0 .. TopLevel - 1
            BY <3>2
        <3> QED
            BY <2>1, <3>1, <3>3 DEF InnerTables, TablesFrom
    <2>2. ASSUME q \in InnerTables(G, p) PROVE q \in TablesFrom(G, p, 0) /\ q # r
        <3>1. PICK u \in Nat, l \in 0 .. TopLevel - 1 : TableFor(G, p, u, l, q)
            BY <2>2 DEF InnerTables
        <3>2. l \in 0 .. TopLevel /\ l >= 0 /\ l # TopLevel
            OBVIOUS
        <3>3. G[q].level = l
            BY <3>1, RoleFields DEF TableFor
        <3> QED
            BY <1>2, <2>2, <3>1, <3>2, <3>3 DEF InnerTables, TablesFrom
    <2> QED
        BY <2>1, <2>2
<1> QED
    BY <1>4, <1>5

\* The pages n levels below a root.
LEMMA DeepIs ==
    ASSUME NEW k, NEW G, Layout(k, G, {}), NEW p \in Nat, NEW r, IsRoot(G, p, r), NEW n \in 0 .. TopLevel
    PROVE  DeepIn(k, {r}, n) = TablesFrom(G, p, TopLevel - n)
<1> USE PageTableAssumption
<1> DEFINE S == {TablesFrom(G, p, m) : m \in 0 .. TopLevel}
           F == [X \in S |-> IF DeeperIn(k, X) \in S THEN DeeperIn(k, X) ELSE X]
           g == [i \in 0 .. n |-> TablesFrom(G, p, TopLevel - i)]
<1>1. F \in [S -> S] /\ g \in [0 .. n -> S]
    <2>1. \A i \in 0 .. n : TopLevel - i \in 0 .. TopLevel
        OBVIOUS
    <2> QED
        BY <2>1
<1>2. g[0] = {r}
    BY RootOnly
<1>3. ASSUME NEW i \in 1 .. n
      PROVE  g[i - 1] \in S /\ DeeperIn(k, g[i - 1]) = g[i] /\ F[g[i - 1]] = g[i]
    <2>1. PICK m \in 1 .. TopLevel : m = TopLevel - (i - 1) /\ m - 1 = TopLevel - i
        OBVIOUS
    <2>2. g[i - 1] = TablesFrom(G, p, m) /\ g[i] = TablesFrom(G, p, m - 1)
        BY <2>1
    <2>3. DeeperIn(k, g[i - 1]) = g[i]
        BY <2>2, DeeperIs
    <2>4. g[i - 1] \in S /\ g[i] \in S
        <3>1. m \in 0 .. TopLevel /\ m - 1 \in 0 .. TopLevel
            OBVIOUS
        <3>2. TablesFrom(G, p, m) \in S /\ TablesFrom(G, p, m - 1) \in S
            BY <3>1
        <3> HIDE DEF S, g
        <3> QED
            BY <2>2, <3>2
    <2> QED
        BY <2>3, <2>4
<1>4. \A z : (CHOOSE y \in {DeeperIn(k, x) : x \in {z}} : TRUE) = DeeperIn(k, z)
    <2>1. TAKE z
    <2>2. {DeeperIn(k, x) : x \in {z}} = {DeeperIn(k, z)}
        OBVIOUS
    <2> QED
        BY <2>2, OneOf
<1> HIDE DEF F, g, S
<1>5. Deepens(g, k, {r}, n)
    <2>1. ASSUME NEW i \in 0 .. n
          PROVE  g[i] = IF i = 0 THEN {r} ELSE CHOOSE y \in {DeeperIn(k, z) : z \in {g[i - 1]}} : TRUE
        <3>1. CASE i = 0
            BY <1>2, <3>1
        <3>2. CASE i # 0
            <4>1. i \in 1 .. n
                BY <3>2
            <4>2. PICK z : z = g[i - 1]
                OBVIOUS
            <4>3. g[i] = DeeperIn(k, z)
                BY <1>3, <4>1, <4>2
            <4> QED
                BY <1>4, <3>2, <4>2, <4>3
        <3> QED
            BY <3>1, <3>2
    <2>2. g = [i \in 0 .. n |-> g[i]]
        BY <1>1
    <2> QED
        BY <2>1, <2>2 DEF Deepens
<1>6. PICK h : h = CHOOSE f : Deepens(f, k, {r}, n)
    OBVIOUS
<1>7. h[0] = {r} /\ \A i \in 1 .. n : h[i] = DeeperIn(k, h[i - 1])
    <2>1. Deepens(h, k, {r}, n)
        BY <1>5, <1>6
    <2>2. h = [i \in 0 .. n |-> IF i = 0 THEN {r}
                                ELSE CHOOSE y \in {DeeperIn(k, z) : z \in {h[i - 1]}} : TRUE]
        BY <2>1 DEF Deepens
    <2>3. h[0] = {r}
        BY <2>2
    <2>4. ASSUME NEW i \in 1 .. n PROVE h[i] = DeeperIn(k, h[i - 1])
        <3>1. i \in 0 .. n /\ i # 0
            OBVIOUS
        <3>2. h[i] = CHOOSE y \in {DeeperIn(k, z) : z \in {h[i - 1]}} : TRUE
            BY <2>2, <3>1
        <3> QED
            BY <1>4, <3>2
    <2> QED
        BY <2>3, <2>4
<1>8. Follows(F, g, h, n)
    <2>1. SUFFICES ASSUME NEW i \in 1 .. n, g[i - 1] = h[i - 1] PROVE h[i] = F[h[i - 1]]
        BY DEF Follows
    <2> QED
        BY <1>3, <1>7, <2>1
<1>9. h[n] = g[n]
    <2>1. Turns(F, g, n)
        BY <1>3 DEF Turns
    <2>2. n \in Nat /\ g[0] = h[0]
        BY <1>2, <1>7
    <2>3. \A i \in 0 .. n : h[i] = g[i]
        BY <1>1, <1>8, <2>1, <2>2, TurnsAgree
    <2>4. n \in 0 .. n
        OBVIOUS
    <2> QED
        BY <2>3, <2>4
<1>10. DeepIn(k, {r}, n) = h[n]
    BY <1>6 DEF DeepIn, Iterate, Iterates, Deepens
<1> QED
    BY <1>9, <1>10 DEF g

\* A vmiter finds from anywhere what a new one would.
LEMMA FindsAre ==
    ASSUME NEW k, NEW r, NEW X \in SUBSET Nat,
           NEW i \in {Vmiter(k, r, va) : va \in X}, NEW j \in {Vmiter(k, r, va) : va \in X}
    PROVE  Find(k, i, j.va) = j
<1>1. PICK a \in Nat, b \in Nat : i = Vmiter(k, r, a) /\ j = Vmiter(k, r, b)
    OBVIOUS
<1>2. j.va = b
    BY <1>1, VmiterShape, IterFields
<1> QED
    BY <1>1, <1>2, FindIs

\* What IteratorsExact says of one address space.
Probes == {0, Console, Fanout - 1, Fanout, StackPage, 2 * Fanout, VaEnd - 1}
WalkExact(k, r, w) ==
    LET inner == DeepIn(k, {r}, TopLevel - 1)
    IN /\ w.done
       /\ RangeOf(w.pages) = DeeperIn(k, inner) \ {r}
       /\ \A i, j \in DOMAIN w.pages :
             /\ w.pages[i] = w.pages[j] => i = j
             /\ w.pages[i] \in inner /\ w.pages[j] \in BelowIn(k, w.pages[i]) => j < i

\* The addresses find is tried at.
LEMMA ProbesIn == Probes \in SUBSET Nat
<1>1. VaEnd - 1 \in Nat /\ Fanout - 1 \in Nat /\ 2 * Fanout \in Nat
    BY SpanIs, PageTableAssumption DEF VaEnd
<1>2. Console \in Nat /\ StackPage \in Nat
    BY LayoutAssumption DEF StackPage
<1> QED
    BY <1>1, <1>2, PageTableAssumption DEF Probes

\* A ptiter stops once at each page table but the root, and at none before its children.
LEMMA WalkIsExact ==
    ASSUME NEW k, NEW G, Layout(k, G, {}), NEW p \in Nat, NEW r, IsRoot(G, p, r)
    PROVE  WalkExact(k, r, Ptiter(k, r, WalkBound))
<1> USE PageTableAssumption
<1>1. PICK w : w = Ptiter(k, r, WalkBound)
    OBVIOUS
<1>2. w.done /\ Lists(w.pages, InnerTables(G, p)) /\ HungFirst(G, p, w.pages)
    BY <1>1, PtiterIs
<1>3. PICK pg : pg = w.pages
    OBVIOUS
<1>4. PICK inner : inner = DeepIn(k, {r}, TopLevel - 1)
    OBVIOUS
<1>5. inner = TablesFrom(G, p, 1) /\ DeeperIn(k, inner) \ {r} = InnerTables(G, p)
    <2>1. TopLevel - 1 \in 0 .. TopLevel /\ TopLevel - (TopLevel - 1) = 1 /\ 1 \in 1 .. TopLevel /\ 1 - 1 = 0
        OBVIOUS
    <2>2. inner = TablesFrom(G, p, TopLevel - (TopLevel - 1))
        BY <1>4, <2>1, DeepIs
    <2>3. inner = TablesFrom(G, p, 1)
        BY <2>1, <2>2
    <2>4. DeeperIn(k, inner) = TablesFrom(G, p, 1 - 1)
        BY <2>1, <2>3, DeeperIs
    <2> QED
        BY <2>1, <2>3, <2>4, RootOnly
<1>6. pg \in Seq(Pages) /\ DOMAIN pg = 1 .. Len(pg)
    BY <1>2, <1>3 DEF Lists
<1>7. RangeOf(pg) = InnerTables(G, p)
    BY <1>2, <1>3, <1>6 DEF Lists, RangeOf
<1>8. ASSUME NEW i \in 1 .. Len(pg), NEW j \in 1 .. Len(pg), pg[i] \in inner, pg[j] \in BelowIn(k, pg[i])
      PROVE  j < i
    <2>1. PICK t, c : t = pg[i] /\ c = pg[j]
        OBVIOUS
    <2>2. PICK u \in Nat, l \in 0 .. TopLevel : l >= 1 /\ TableFor(G, p, u, l, t)
        BY <1>5, <1>8, <2>1 DEF TablesFrom
    <2>3. l \in 1 .. TopLevel - 1
        <3>1. t \in InnerTables(G, p)
            BY <1>2, <1>3, <2>1 DEF Lists
        <3>2. PICK u2 \in Nat, l2 \in 0 .. TopLevel - 1 : TableFor(G, p, u2, l2, t)
            BY <3>1 DEF InnerTables
        <3>3. l = l2
            BY <2>2, <3>2, RoleFields DEF TableFor
        <3> QED
            BY <2>2, <3>2, <3>3
    <2>4. PICK v \in Nat : TableFor(G, p, v, l, t) /\ TableFor(G, p, v, l - 1, c)
        <3>1. l \in 1 .. TopLevel /\ c \in BelowIn(k, t)
            BY <1>8, <2>1, <2>3
        <3> QED
            BY <2>2, <3>1, BelowIs
    <2>5. HangsIn(G, p, c, t)
        <3>1. PICK m \in 0 .. TopLevel - 2 : m = l - 1 /\ m + 1 = l
            BY <2>3
        <3> QED
            BY <2>4, <3>1 DEF HangsIn
    <2> QED
        BY <1>2, <1>3, <2>1, <2>5 DEF HungFirst
<1>9. \A i, j \in 1 .. Len(pg) : pg[i] = pg[j] => i = j
    BY <1>2, <1>3 DEF Lists
<1> QED
    BY <1>1, <1>2, <1>3, <1>4, <1>5, <1>6, <1>7, <1>8, <1>9 DEF WalkExact

\* The iterators are exact in every state that the invariant describes.
LEMMA InvExact == KernelInv => IteratorsExact
<1> SUFFICES ASSUME KernelInv PROVE IteratorsExact
    OBVIOUS
<1>1. PICK G : Holds(phys, G, viewer, ptable, Maps)
    BY DEF KernelInv, InnerInv, Sees
<1>2. ASSUME NEW p \in Processes
      PROVE  /\ \A i, j \in {Vmiter(phys, Root(p), va) : va \in Probes} : Find(phys, i, j.va) = j
             /\ WalkExact(phys, Root(p), Ptiter(phys, Root(p), WalkBound))
    <2>1. Layout(phys, G, {}) /\ IsRoot(G, p, Root(p)) /\ p \in Nat
        BY <1>1, ProcessesIn DEF Holds, Inner, Has, Root
    <2>2. WalkExact(phys, Root(p), Ptiter(phys, Root(p), WalkBound))
        BY <2>1, WalkIsExact
    <2>3. \A i, j \in {Vmiter(phys, Root(p), va) : va \in Probes} : Find(phys, i, j.va) = j
        BY ProbesIn, FindsAre
    <2> QED
        BY <2>2, <2>3
<1> QED
    BY <1>2 DEF IteratorsExact, WalkExact, DeepIn, DeeperIn, BelowIn, Probes

\* The page table iterators are exact in every reachable state: vmiter::find from anywhere
\* finds what a new iterator would (k-vmiter.cc:42-58), and ptiter visits every page table
\* page of a process but its root exactly once, children before their parents, as a kernel
\* that frees them needs it (k-vmiter.hh:84-92, k-vmiter.cc:103-140).
THEOREM IteratorsAreExact == Spec => []IteratorsExact
<1>1. KernelInv => IteratorsExact
    BY InvExact
<1> QED
    BY <1>1, KernelInvariant, PTL

----------------------------------------------------------------------------
(* The memory viewer's account of the pages                                 *)

\* The tables it finds are those of the process.
LEMMA TablePagesAre ==
    ASSUME NEW k, NEW G, Layout(k, G, {}), NEW p \in Nat, NEW r, IsRoot(G, p, r), NEW q \in Pages
    PROVE  q \in TablePages(k, r) <=> G[q].kind = "table" /\ G[q].pid = p
<1> USE PageTableAssumption
<1>1. PICK w : w = Ptiter(k, r, WalkBound)
    OBVIOUS
<1>2. Lists(w.pages, InnerTables(G, p))
    BY <1>1, PtiterIs
<1>3. RangeOf(w.pages) = InnerTables(G, p)
    <2>1. w.pages \in Seq(Pages) /\ DOMAIN w.pages = 1 .. Len(w.pages)
        BY <1>2 DEF Lists
    <2> QED
        BY <1>2, <2>1 DEF Lists, RangeOf
<1>4. r \in TablesFrom(G, p, 0)
    <2>1. r \in TablesFrom(G, p, TopLevel)
        BY RootOnly
    <2> QED
        BY <2>1 DEF TablesFrom
<1>5. TablePages(k, r) = TablesFrom(G, p, 0)
    <2>1. TablePages(k, r) = InnerTables(G, p) \cup {r}
        BY <1>1, <1>3 DEF TablePages
    <2> QED
        BY <1>4, <2>1, RootOnly
<1>6. ASSUME q \in TablesFrom(G, p, 0) PROVE G[q].kind = "table" /\ G[q].pid = p
    <2>1. PICK u, l : TableFor(G, p, u, l, q)
        BY <1>6 DEF TablesFrom
    <2> QED
        BY <2>1, RoleFields DEF TableFor
<1>7. ASSUME G[q].kind = "table", G[q].pid = p PROVE q \in TablesFrom(G, p, 0)
    <2>1. G[q] \in Roles
        BY DEF Layout
    <2>2. PICK l \in 0 .. TopLevel, b \in Nat : l = G[q].level /\ b = G[q].base
        BY <2>1 DEF Roles
    <2>3. G[q] = TableOf(p, l, b)
        BY <1>7, <2>1, <2>2 DEF Roles, TableOf, Role
    <2>4. PICK m \in 0 .. TopLevel + 1 : m = l + 1
        OBVIOUS
    <2>5. PICK u \in Nat : u = b * Span(m) /\ Prefix(u, m) = b
        BY BaseIs
    <2>6. TableFor(G, p, u, l, q)
        BY <2>3, <2>4, <2>5 DEF TableFor
    <2> QED
        BY <2>6 DEF TablesFrom
<1> QED
    BY <1>5, <1>6, <1>7

\* A page of data is mapped where its role says.
LEMMA DataSeen ==
    ASSUME NEW k, NEW G, Layout(k, G, {}), NEW p \in Nat, NEW r, IsRoot(G, p, r),
           NEW q \in Pages, G[q].kind = "data", G[q].pid = p
    PROVE  q \in SeenTo(k, r, VaEnd)
<1> USE PageTableAssumption
<1>1. G[q] \in Roles /\ Linked(k, G, {}) /\ EntriesFit(k, G) /\ Owned(k, G)
    BY DEF Layout
<1>2. PICK u \in Nat : u = G[q].base
    BY <1>1 DEF Roles
<1>3. PICK t \in Pages, i \in Index :
          /\ k.mem[t].entry[i] = Entry(q, PWU)
          /\ u = G[t].base * Fanout + i
          /\ G[t] = TableOf(p, 0, G[t].base)
    <2>1. G[q] # TableOf(G[q].pid, TopLevel, 0)
        BY RoleFields
    <2> QED
        BY <1>1, <1>2, <2>1 DEF Linked
<1>4. PICK b \in Nat : b = G[t].base
    <2>1. G[t] \in Roles
        BY DEF Layout
    <2> QED
        BY <2>1 DEF Roles
<1>5. Prefix(u, 0) = u /\ Prefix(u, 1) = b /\ pageindex(u, 0) = i
    <2>1. u = b * Fanout + i
        BY <1>3, <1>4
    <2>2. u \div Fanout = b /\ u % Fanout = i
        BY <2>1, DigitsIs
    <2>3. Prefix(u, 0) = u
        BY PrefixIs
    <2>4. Prefix(u, 0) \div Fanout = Prefix(u, 0 + 1)
        BY PrefixIs
    <2> QED
        BY <2>2, <2>3, <2>4 DEF pageindex, Prefix
<1>6. TableFor(G, p, u, 0, t)
    BY <1>3, <1>4, <1>5 DEF TableFor
<1>7. u < VaEnd
    <2>1. PICK e : e = k.mem[t].entry[i]
        OBVIOUS
    <2>2. e.pa = q /\ e.perm = PWU /\ PWU # {}
        BY <1>3, <2>1 DEF Entry, PWU
    <2>3. G[t].kind = "table" /\ G[t].level = 0
        BY <1>3, RoleFields
    <2>4. EntryFits(G, e, G[t], u)
        BY <1>1, <1>3, <2>1, <2>3 DEF EntriesFit
    <2>5. (u < ProcStart /\ q = u /\ u = Console) \/ u \in ProcStart .. StackPage
        BY <2>2, <2>3, <2>4 DEF EntryFits
    <2>6. q \in Allocatable
        BY <1>1 DEF Owned
    <2>7. Console \notin Allocatable
        BY KernelAssumption
    <2>8. u \in ProcStart .. StackPage
        BY <2>5, <2>6, <2>7
    <2> QED
        BY <2>8, LayoutAssumption, SpanIs DEF StackPage, VaEnd
<1>8. PICK it : it = Vmiter(k, r, u)
    OBVIOUS
<1>9. PICK a, l : a = it.table /\ l = it.level
    OBVIOUS
<1>10. /\ it = Iter(r, a, l, PWU, u) /\ l \in 0 .. TopLevel /\ TableFor(G, p, u, l, a)
       /\ l # 0 => At(k, it).perm = {}
    <2>1. u \in 0 .. VaEnd - 1
        BY <1>7, SpanIs DEF VaEnd
    <2> QED
        BY <1>8, <1>9, <2>1, VmiterStops DEF TableFor
<1>11. At(k, it) = k.mem[a].entry[pageindex(u, l)] /\ it.perm = PWU
    BY <1>10, IterFields DEF At
<1>12. l = 0
    <2>1. SUFFICES ASSUME l # 0 PROVE FALSE
        OBVIOUS
    <2>2. ~ Opens(k, a, u, l)
        <3>1. PWU # {}
            BY DEF PWU
        <3> QED
            BY <1>10, <1>11, <2>1, <3>1 DEF Opens
    <2>3. 0 \in 0 .. TopLevel /\ 0 < l
        BY <1>10, <2>1
    <2> QED
        BY <1>6, <1>10, <2>2, <2>3, NothingBelow
<1>13. a = t
    <2>1. TableFor(G, p, u, 0, a)
        BY <1>10, <1>12
    <2> QED
        BY <1>6, <2>1, TableUnique
<1>14. At(k, it) = Entry(q, PWU)
    BY <1>3, <1>5, <1>11, <1>12, <1>13
<1>15. Pa(k, it) = q /\ User(k, it)
    <2>1. At(k, it).pa = q /\ At(k, it).perm = PWU /\ PWU \cap PWU = PWU /\ {"P", "U"} \subseteq PWU /\ "P" \in PWU
        BY <1>14 DEF Entry, PWU
    <2> QED
        BY <1>11, <2>1 DEF Pa, User, Perm
<1> QED
    BY <1>7, <1>8, <1>15 DEF SeenTo, UsedTo

\* The pages it finds the user can use are the console and the data of the process.
LEMMA UserPagesOf ==
    ASSUME NEW k, NEW G, NEW v, NEW pt, NEW D, Holds(k, G, v, pt, D), NEW p \in Processes,
           NEW q \in Pages, q # Console
    PROVE  q \in UserPages(k, pt[p].pagetable) <=> G[q].kind = "data" /\ G[q].pid = p
<1>1. PICK r : r = pt[p].pagetable
    OBVIOUS
<1>2. Layout(k, G, {}) /\ IsRoot(G, p, r) /\ p \in Nat
    BY <1>1, ProcessesIn DEF Holds, Inner, Has
<1>3. UserPages(k, r) = SeenTo(k, r, VaEnd)
    BY <1>2, UserPagesAre
<1>4. ASSUME q \in SeenTo(k, r, VaEnd) PROVE G[q].kind = "data" /\ G[q].pid = p
    <2>1. PICK w \in UsedTo(k, r, VaEnd) : q = Pa(k, Vmiter(k, r, w))
        BY <1>4 DEF SeenTo
    <2>2. w \in 0 .. VaEnd - 1 /\ User(k, Vmiter(k, r, w))
        BY <2>1, SpanIs, PageTableAssumption DEF UsedTo, VaEnd
    <2>3. PICK it : it = Vmiter(k, r, w)
        OBVIOUS
    <2>4. /\ w < ProcStart => /\ User(k, it) <=> w = Console
                              /\ w = Console => Pa(k, it) = Console
          /\ ~ (w < ProcStart) => /\ User(k, it) <=> w \in D[p]
                                  /\ w \in D[p] => Pa(k, it) \in Pages /\ G[Pa(k, it)] = DataOf(p, w)
        BY <1>1, <2>2, <2>3, UserSees
    <2>5. G[q] = DataOf(p, w)
        BY <2>1, <2>2, <2>3, <2>4
    <2> QED
        BY <2>5, RoleFields
<1>5. G[q].kind = "data" /\ G[q].pid = p => q \in SeenTo(k, r, VaEnd)
    BY <1>2, DataSeen
<1> QED
    BY <1>1, <1>3, <1>4, <1>5

\* The marks of a page, by the role it has.
MarksOf(pa) == {m \in Refresh : m[2] = pa}

\* Which marks a page has.
LEMMA MarksAre ==
    ASSUME NEW pa, NEW m
    PROVE  m \in MarksOf(pa) <=>
              \E p \in Processes : \/ m = <<p, pa, "kernel">> /\ pa \in TablePages(phys, Root(p))
                                   \/ m = <<p, pa, "user">> /\ pa \in UserPages(phys, Root(p))
<1>1. m \in Refresh <=>
         \E p \in Processes : \E q : \/ m = <<p, q, "kernel">> /\ q \in TablePages(phys, Root(p))
                                     \/ m = <<p, q, "user">> /\ q \in UserPages(phys, Root(p))
    <2> DEFINE K(p) == {<<p, q, "kernel">> : q \in TablePages(phys, Root(p))}
               U(p) == {<<p, q, "user">> : q \in UserPages(phys, Root(p))}
    <2>1. Refresh = UNION {K(p) \cup U(p) : p \in Processes}
        BY DEF Refresh
    <2>2. /\ \A p : m \in K(p) <=> \E q : m = <<p, q, "kernel">> /\ q \in TablePages(phys, Root(p))
          /\ \A p : m \in U(p) <=> \E q : m = <<p, q, "user">> /\ q \in UserPages(phys, Root(p))
        OBVIOUS
    <2> HIDE DEF K, U
    <2>3. m \in Refresh <=> \E p \in Processes : m \in K(p) \/ m \in U(p)
        BY <2>1
    <2> QED
        BY <2>2, <2>3
<1>2. \A p, q, c : <<p, q, c>>[2] = q
    OBVIOUS
<1> QED
    BY <1>1, <1>2 DEF MarksOf

\* A page with marks of one process, as a table or as data.
LEMMA SignOfOne ==
    ASSUME NEW pa, NEW p, NEW c \in {"kernel", "user"}, NEW v, \A m : m \in v <=> m = <<p, pa, c>>,
           pa # Console, pa \in Allocatable, pa # viewer \/ c = "kernel"
    PROVE  SymbolAt(pa, v) = "process"
<1>1. v = {<<p, pa, c>>}
    OBVIOUS
<1>2. {m[1] : m \in v} = {p} /\ {m[3] : m \in v} = {c}
    BY <1>1
<1>3. Cardinality({p}) = 1
    BY FS_Singleton
<1>4. {p} # {} /\ ~ ("user" \in {c} /\ ("kernel" \in {c} \/ pa = viewer))
    OBVIOUS
<1>5. ~ (pa \in Pages \ Allocatable)
    OBVIOUS
<1>6. ~ (Cardinality({p}) > 1)
    BY <1>3
<1>7. PICK P, K : P = {m[1] : m \in v} /\ K = {m[3] : m \in v}
    OBVIOUS
<1>8. P # {} /\ ~ ("user" \in K /\ ("kernel" \in K \/ pa = viewer)) /\ ~ (Cardinality(P) > 1)
    BY <1>2, <1>4, <1>6, <1>7
<1> QED
    BY <1>5, <1>7, <1>8 DEF SymbolAt

\* A page without marks.
LEMMA SignOfNone ==
    ASSUME NEW pa, pa # Console
    PROVE  /\ pa \in Allocatable => SymbolAt(pa, {}) = IF pa = viewer THEN "K" ELSE "."
           /\ pa \in Pages \ Allocatable => SymbolAt(pa, {}) \in {"R", "K"}
<1>1. {m[1] : m \in {}} = {} /\ {m[3] : m \in {}} = {}
    OBVIOUS
<1> QED
    BY <1>1 DEF SymbolAt

\* The account is right in every state that the invariant describes.
LEMMA InvAccounts == KernelInv => PagesAccounted
<1> SUFFICES ASSUME KernelInv PROVE PagesAccounted
    OBVIOUS
<1>1. PICK G : Holds(phys, G, viewer, ptable, Maps) /\ Lost(G, viewer, {})
    BY DEF KernelInv, InnerInv, Sees
<1>2. /\ Layout(phys, G, {}) /\ Owned(phys, G) /\ G \in [Pages -> Roles]
      /\ \A q \in Pages : G[q].kind \in {"table", "data"} => G[q].pid \in Processes
      /\ \A q \in Pages : G[q].kind = "viewer" <=> q = viewer
    <2>1. Inner(phys, G, viewer)
        BY <1>1 DEF Holds
    <2>2. \A q \in Pages : G[q].kind = "viewer" <=> q = viewer
        BY <1>1, <2>1, PageTableAssumption DEF Inner, Lost
    <2> QED
        BY <2>1, <2>2 DEF Inner, Layout
<1>3. ASSUME NEW p \in Processes, NEW q \in Pages, q # Console
      PROVE  /\ q \in TablePages(phys, Root(p)) <=> G[q].kind = "table" /\ G[q].pid = p
             /\ q \in UserPages(phys, Root(p)) <=> G[q].kind = "data" /\ G[q].pid = p
    <2>1. IsRoot(G, p, Root(p)) /\ p \in Nat
        BY <1>1, ProcessesIn DEF Holds, Has, Root
    <2>2. q \in TablePages(phys, Root(p)) <=> G[q].kind = "table" /\ G[q].pid = p
        BY <1>2, <2>1, TablePagesAre
    <2>3. q \in UserPages(phys, Root(p)) <=> G[q].kind = "data" /\ G[q].pid = p
        BY <1>1, <1>3, UserPagesOf DEF Root
    <2> QED
        BY <2>2, <2>3
<1>4. ASSUME NEW pa \in Pages, NEW sign, sign = SymbolAt(pa, MarksOf(pa))
      PROVE  /\ sign \notin {"error", "S"}
             /\ pa \in Allocatable => (sign = "." <=> phys.refcount[pa] = 0)
    <2>1. PICK v : v = MarksOf(pa)
        OBVIOUS
    <2>2. CASE pa = Console
        <3>1. sign = "C"
            BY <1>4, <2>2 DEF SymbolAt
        <3>2. pa \notin Allocatable
            BY <2>2, KernelAssumption
        <3> QED
            BY <3>1, <3>2
    <2>3. CASE pa # Console /\ G[pa].kind \in {"table", "data"}
        <3>1. PICK p \in Processes : p = G[pa].pid
            BY <1>2, <2>3
        <3>2. PICK c \in {"kernel", "user"} : /\ G[pa].kind = "table" => c = "kernel"
                                              /\ G[pa].kind = "data" => c = "user"
            BY <2>3
        <3>3. \A m : m \in v <=> m = <<p, pa, c>>
            <4>1. TAKE m
            <4>2. ASSUME m \in v PROVE m = <<p, pa, c>>
                <5>1. PICK p2 \in Processes : \/ m = <<p2, pa, "kernel">> /\ pa \in TablePages(phys, Root(p2))
                                              \/ m = <<p2, pa, "user">> /\ pa \in UserPages(phys, Root(p2))
                    BY <2>1, <4>2, MarksAre
                <5> QED
                    BY <1>3, <2>3, <3>1, <3>2, <5>1
            <4>3. \/ c = "kernel" /\ pa \in TablePages(phys, Root(p))
                  \/ c = "user" /\ pa \in UserPages(phys, Root(p))
                BY <1>3, <2>3, <3>1, <3>2
            <4>4. m = <<p, pa, c>> => m \in v
                BY <2>1, <4>3, MarksAre
            <4> QED
                BY <4>2, <4>4
        <3>4. pa \in Allocatable /\ phys.refcount[pa] = 1
            BY <1>2, <2>3 DEF Owned
        <3>5. pa # viewer
            BY <1>2, <2>3
        <3>6. sign = "process"
            BY <1>4, <2>1, <2>3, <3>3, <3>4, <3>5, SignOfOne
        <3> QED
            BY <3>4, <3>6
    <2>4. CASE pa # Console /\ G[pa].kind \notin {"table", "data"}
        <3>1. v = {}
            <4>1. ASSUME NEW m \in v PROVE FALSE
                <5>1. PICK p2 \in Processes : \/ pa \in TablePages(phys, Root(p2))
                                              \/ pa \in UserPages(phys, Root(p2))
                    BY <2>1, <4>1, MarksAre
                <5> QED
                    BY <1>3, <2>4, <5>1
            <4> QED
                BY <4>1
        <3>2. CASE pa \notin Allocatable
            <4>1. sign \in {"R", "K"}
                BY <1>4, <2>1, <2>4, <3>1, <3>2, SignOfNone
            <4> QED
                BY <3>2, <4>1
        <3>3. CASE pa \in Allocatable
            <4>1. sign = IF pa = viewer THEN "K" ELSE "."
                BY <1>4, <2>1, <2>4, <3>1, <3>3, SignOfNone
            <4>2. G[pa].kind \in {"none", "viewer"}
                BY <1>2, <2>4 DEF Roles, Kinds
            <4>3. CASE pa = viewer
                <5>1. phys.refcount[pa] = 1
                    BY <1>2, <4>3 DEF Owned
                <5> QED
                    BY <4>1, <4>3, <5>1
            <4>4. CASE pa # viewer
                <5>1. phys.refcount[pa] = 0
                    BY <1>2, <4>2, <4>4 DEF Owned
                <5> QED
                    BY <4>1, <4>4, <5>1
            <4> QED
                BY <4>3, <4>4
        <3> QED
            BY <3>2, <3>3
    <2> QED
        BY <2>2, <2>3, <2>4
<1> QED
    BY <1>4 DEF PagesAccounted, MarksOf

\* The account that the memory viewer makes is right in every reachable state: no page
\* shows an error or two owners, and a page that kalloc may give shows as free iff it is
\* (memusage::refresh and symbol_at, k-memviewer.cc:70-201).
THEOREM EveryPageAccounted == Spec => []PagesAccounted
<1>1. KernelInv => PagesAccounted
    BY InvAccounts
<1> QED
    BY <1>1, KernelInvariant, PTL

================================================================================
