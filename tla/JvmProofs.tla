------------------------------- MODULE JvmProofs -------------------------------
(****************************************************************************)
(* Theorems of the interpreter: for any class file, that it frees what it   *)
(* takes; for those that keep javac's discipline, that it runs them so.     *)
(****************************************************************************)
EXTENDS JvmTypes, FiniteSetTheorems, SequenceTheorems, WellFoundedInduction, TLAPS

------------------------------------------------------------------------------
(* Sequences, of whatever they hold, and what is made of them *)

IsSeq(s) == \E S : s \in Seq(S)

IsUpdate(t, s, k, x) ==
    /\ IsSeq(t) /\ Len(t) = Len(s)
    /\ t[k] = x
    /\ \A i \in 1 .. Len(s) : i # k => t[i] = s[i]

IsLonger(t, s, x) ==
    /\ IsSeq(t) /\ Len(t) = Len(s) + 1
    /\ t[Len(s) + 1] = x
    /\ \A i \in 1 .. Len(s) : t[i] = s[i]

IsStart(t, s, n) ==
    /\ IsSeq(t) /\ Len(t) = n
    /\ \A i \in 1 .. n : t[i] = s[i]

IsConcat(u, s, t) ==
    /\ IsSeq(u) /\ Len(u) = Len(s) + Len(t)
    /\ \A i \in 1 .. Len(s) : u[i] = s[i]
    /\ \A i \in 1 .. Len(t) : u[Len(s) + i] = t[i]

LEMMA SeqFacts ==
    ASSUME NEW s, IsSeq(s)
    PROVE  Len(s) \in Nat /\ DOMAIN s = 1 .. Len(s) /\ s = [i \in 1 .. Len(s) |-> s[i]]
    BY LenProperties DEF IsSeq

LEMMA SeqFromFunction ==
    ASSUME NEW s, NEW n \in Nat, s = [i \in 1 .. n |-> s[i]]
    PROVE  IsSeq(s) /\ Len(s) = n
<1>1. s \in Seq({s[i] : i \in 1 .. n})
    OBVIOUS
<1>2. Len(s) \in Nat /\ DOMAIN s = 1 .. Len(s)
    BY <1>1, LenProperties
<1>3. DOMAIN s = 1 .. n
    OBVIOUS
<1>4. Len(s) <= n
    <2>1. Len(s) > 0 => Len(s) \in 1 .. n
        BY <1>2, <1>3
    <2> QED
        BY <1>2, <2>1
<1>5. n <= Len(s)
    <2>1. n > 0 => n \in 1 .. Len(s)
        BY <1>2, <1>3
    <2> QED
        BY <1>2, <2>1
<1> QED
    BY <1>1, <1>2, <1>4, <1>5 DEF IsSeq

LEMMA SeqUpdate ==
    ASSUME NEW s, IsSeq(s), NEW k \in 1 .. Len(s), NEW x
    PROVE  IsUpdate([s EXCEPT ![k] = x], s, k, x)
<1>1. Len(s) \in Nat /\ DOMAIN s = 1 .. Len(s)
    BY SeqFacts
<1>2. PICK t : t = [s EXCEPT ![k] = x]
    OBVIOUS
<1>3. t = [i \in 1 .. Len(s) |-> IF i = k THEN x ELSE s[i]]
    BY <1>1, <1>2
<1>4. t = [i \in 1 .. Len(s) |-> t[i]]
    BY <1>3
<1>5. IsSeq(t) /\ Len(t) = Len(s)
    BY <1>1, <1>4, SeqFromFunction
<1> QED
    BY <1>2, <1>3, <1>5 DEF IsUpdate

LEMMA SeqAppend ==
    ASSUME NEW s, IsSeq(s), NEW x
    PROVE  IsLonger(Append(s, x), s, x)
<1>1. PICK S : s \in Seq(S)
    BY DEF IsSeq
<1>2. s \in Seq(S \cup {x}) /\ x \in S \cup {x}
    BY <1>1, SeqMonotonic
<1>3. Append(s, x) \in Seq(S \cup {x})
    BY <1>2, AppendProperties
<1>4. /\ Len(Append(s, x)) = Len(s) + 1
      /\ Append(s, x)[Len(s) + 1] = x
      /\ \A i \in 1 .. Len(s) : Append(s, x)[i] = s[i]
    BY <1>2, AppendProperties
<1> QED
    BY <1>3, <1>4 DEF IsLonger, IsSeq

LEMMA SeqPrefix ==
    ASSUME NEW s, IsSeq(s), NEW n \in 0 .. Len(s)
    PROVE  IsStart(SubSeq(s, 1, n), s, n)
<1>1. PICK S : s \in Seq(S)
    BY DEF IsSeq
<1>2. Len(s) \in Nat
    BY SeqFacts
<1>3. 1 \in 1 .. Len(s) + 1 /\ n \in 1 - 1 .. Len(s)
    BY <1>2
<1>4. SubSeq(s, 1, n) \in Seq(S)
    BY <1>1, <1>3, SubSeqProperties
<1>5. Len(SubSeq(s, 1, n)) = n - 1 + 1
    BY <1>1, <1>3, SubSeqProperties
<1>6. \A i \in 1 .. n - 1 + 1 : SubSeq(s, 1, n)[i] = s[1 + i - 1]
    BY <1>1, <1>3, SubSeqProperties
<1> QED
    BY <1>4, <1>5, <1>6 DEF IsStart, IsSeq

LEMMA SeqConcat ==
    ASSUME NEW s, NEW t, IsSeq(s), IsSeq(t)
    PROVE  IsConcat(s \o t, s, t)
<1>1. PICK S : s \in Seq(S)
    BY DEF IsSeq
<1>2. PICK T : t \in Seq(T)
    BY DEF IsSeq
<1>3. s \in Seq(S \cup T) /\ t \in Seq(S \cup T)
    BY <1>1, <1>2, SeqMonotonic
<1>4. Len(s) \in Nat /\ Len(t) \in Nat
    BY SeqFacts
<1>5. s \o t \in Seq(S \cup T) /\ Len(s \o t) = Len(s) + Len(t)
    BY <1>3, ConcatProperties
<1>6. \A i \in 1 .. Len(s) + Len(t) : (s \o t)[i] = IF i <= Len(s) THEN s[i] ELSE t[i - Len(s)]
    BY <1>3, ConcatProperties
<1>7. \A i \in 1 .. Len(s) : (s \o t)[i] = s[i]
    BY <1>4, <1>6
<1>8. \A i \in 1 .. Len(t) : (s \o t)[Len(s) + i] = t[i]
    BY <1>4, <1>6
<1> QED
    BY <1>5, <1>7, <1>8 DEF IsConcat, IsSeq

LEMMA ContinueFrames ==
    ASSUME IsSeq(frames), Top >= 1, NEW pushed, NEW pc, NEW locals, Continue(pushed, pc, locals)
    PROVE  IsUpdate(frames', frames, Top,
                    [Frame EXCEPT !.stack = SubSeq(Stack, 1, Len(Stack) - Pops) \o pushed,
                                  !.pc = pc, !.locals = locals])
<1>1. Top \in 1 .. Len(frames)
    BY SeqFacts DEF Top
<1> QED
    BY <1>1, SeqUpdate DEF Continue

------------------------------------------------------------------------------
(* What was taken and freed *)

LeakInv ==
    /\ IsSeq(frames)
    /\ \E n \in Nat : DOMAIN heap = 0 .. n - 1
    /\ status = "running" => Len(frames) >= 1
    /\ NothingLeaks

LEMMA HeapSize ==
    ASSUME NEW n \in Nat, DOMAIN heap = 0 .. n - 1
    PROVE  Cardinality(DOMAIN heap) = n
    BY FS_Interval

LEMMA InitLeak == Init => LeakInv
<1> SUFFICES ASSUME Init PROVE LeakInv
    OBVIOUS
<1>1. PICK x : frames = <<x>>
    BY DEF Init
<1>2. IsSeq(frames) /\ Len(frames) = 1
    <2>1. frames \in Seq({x})
        BY <1>1
    <2> QED
        BY <1>1, <2>1 DEF IsSeq
<1>3. DOMAIN heap = 0 .. 0 - 1
    BY DEF Init
<1>4. heap_free = 1
    BY <1>3, HeapSize DEF heap_free
<1> QED
    BY <1>2, <1>3, <1>4 DEF Init, LeakInv, NothingLeaks

\* The instructions that stay in the frame and take nothing.
LEMMA ContinueLeak ==
    ASSUME LeakInv, status = "running", UNCHANGED <<blocks, status>>, DOMAIN heap' = DOMAIN heap,
           NEW pushed, NEW pc, NEW locals, Continue(pushed, pc, locals)
    PROVE  LeakInv'
<1>1. IsSeq(frames') /\ Len(frames') = Len(frames)
    BY ContinueFrames DEF LeakInv, Top, IsUpdate
<1>2. heap_free' = heap_free
    BY DEF heap_free
<1> QED
    BY <1>1, <1>2 DEF LeakInv, NothingLeaks

LEMMA NewarrayLeak ==
    ASSUME LeakInv, Newarray
    PROVE  LeakInv'
<1>1. status = "running" /\ status' = status
    BY DEF Newarray, At
<1>2. PICK n \in Nat : DOMAIN heap = 0 .. n - 1
    BY DEF LeakInv
<1>3. Cardinality(DOMAIN heap) = n
    BY <1>2, HeapSize
<1>4. IsSeq(frames') /\ Len(frames') = Len(frames)
    BY <1>1, ContinueFrames DEF LeakInv, Top, IsUpdate, Newarray, Then
<1>5. DOMAIN heap' = 0 .. n
    BY <1>2, <1>3 DEF Newarray
<1>6. Cardinality(DOMAIN heap') = n + 1
    BY <1>5, FS_Interval
<1>7. heap_free = n + (IF n = 0 THEN 1 ELSE 2) /\ heap_free' = n + 3
    BY <1>2, <1>3, <1>5, <1>6 DEF heap_free
<1>8. blocks' = blocks + (IF n = 0 THEN 2 ELSE 1)
    BY <1>2 DEF Newarray
<1>9. Len(frames) \in Nat
    BY SeqFacts DEF LeakInv
<1> QED
    BY <1>1, <1>4, <1>5, <1>7, <1>8, <1>9 DEF LeakInv, NothingLeaks

LEMMA InvokeFrames ==
    ASSUME IsSeq(frames), Top >= 1, Invokestatic
    PROVE  \E called :
              /\ IsUpdate(called, frames, Top,
                          [Frame EXCEPT !.stack = SubSeq(Stack, 1, Len(Stack) - Parameters)])
              /\ IsLonger(frames', called,
                          NewFrame(Callee, [i \in 1 .. Parameters |-> Item(Parameters - i + 1)]))
<1>1. Top \in 1 .. Len(frames)
    BY SeqFacts DEF Top
<1>2. PICK under, over :
          /\ under = [Frame EXCEPT !.stack = SubSeq(Stack, 1, Len(Stack) - Parameters)]
          /\ over = NewFrame(Callee, [i \in 1 .. Parameters |-> Item(Parameters - i + 1)])
          /\ frames' = Append([frames EXCEPT ![Top] = under], over)
    BY DEF Invokestatic, Frame
<1>3. IsUpdate([frames EXCEPT ![Top] = under], frames, Top, under)
    BY <1>1, SeqUpdate
<1>4. IsSeq([frames EXCEPT ![Top] = under])
    BY <1>3 DEF IsUpdate
<1>5. IsLonger(frames', [frames EXCEPT ![Top] = under], over)
    BY <1>2, <1>4, SeqAppend
<1> QED
    BY <1>2, <1>3, <1>5

LEMMA ReturnFrames ==
    ASSUME IsSeq(frames), Top > 1, NEW next,
           frames' = [SubSeq(frames, 1, Top - 1) EXCEPT ![Top - 1] = next]
    PROVE  \E under : IsStart(under, frames, Top - 1) /\ IsUpdate(frames', under, Top - 1, next)
<1>1. Top \in Nat /\ Top - 1 \in 0 .. Len(frames) /\ Top - 1 \in 1 .. Top - 1
    BY SeqFacts DEF Top
<1>2. IsStart(SubSeq(frames, 1, Top - 1), frames, Top - 1)
    BY <1>1, SeqPrefix
<1>3. IsSeq(SubSeq(frames, 1, Top - 1)) /\ Len(SubSeq(frames, 1, Top - 1)) = Top - 1
    BY <1>2 DEF IsStart
<1>4. IsUpdate(frames', SubSeq(frames, 1, Top - 1), Top - 1, next)
    BY <1>1, <1>3, SeqUpdate
<1> QED
    BY <1>2, <1>4

LEMMA ReturnLeak ==
    ASSUME LeakInv, Return
    PROVE  LeakInv'
<1>1. status = "running" /\ heap' = heap /\ Len(frames) \in Nat /\ Len(frames) >= 1
    BY SeqFacts DEF Return, LeakInv
<1>2. heap_free' = heap_free
    BY <1>1 DEF heap_free
<1>3. heap_free \in Int
    BY HeapSize DEF LeakInv, heap_free
<1>4. CASE Top = 1
    <2>1. /\ frames' = <<>>
          /\ \/ status' = "done" /\ blocks' = blocks - 2 - heap_free
             \/ status' = "abort"
        BY <1>4 DEF Return, freed
    <2>2. IsSeq(frames')
        BY <2>1, EmptySeq DEF IsSeq
    <2> QED
        BY <1>1, <1>2, <1>3, <1>4, <2>1, <2>2 DEF LeakInv, NothingLeaks, Top
<1>5. CASE Top # 1
    <2>1. \E next : frames' = [SubSeq(frames, 1, Top - 1) EXCEPT ![Top - 1] = next]
        BY <1>5 DEF Return
    <2>2. status' \in {status, "abort"} /\ blocks' = blocks - 2 - 1
        BY <1>5 DEF Return, freed
    <2>3. Top > 1
        <3>1. Top \in Nat /\ Top >= 1
            BY <1>1 DEF Top
        <3> QED
            BY <1>5, <3>1
    <2>4. IsSeq(frames') /\ Len(frames') = Len(frames) - 1 /\ Len(frames') >= 1
        <3>1. PICK under, next : /\ IsStart(under, frames, Top - 1)
                                 /\ IsUpdate(frames', under, Top - 1, next)
            BY <2>1, <2>3, ReturnFrames DEF LeakInv
        <3> QED
            BY <1>1, <2>3, <3>1 DEF IsStart, IsUpdate, Top
    <2>5. status' = "running" => blocks' = 3 * Len(frames') - 1 + heap_free'
        <3>1. blocks = 3 * Len(frames) - 1 + heap_free
            BY <1>1 DEF LeakInv, NothingLeaks
        <3> QED
            BY <1>1, <1>2, <1>3, <2>2, <2>4, <3>1
    <2>6. status' # "done"
        BY <1>1, <2>2
    <2> QED
        BY <1>1, <2>4, <2>5, <2>6 DEF LeakInv, NothingLeaks
<1> QED
    BY <1>4, <1>5

LEMMA NextLeak == LeakInv /\ [Next]_vars => LeakInv'
<1> SUFFICES ASSUME LeakInv, [Next]_vars PROVE LeakInv'
    OBVIOUS
<1>1. CASE Constant
    BY <1>1, ContinueLeak DEF Constant, At, Then
<1>2. CASE Arithmetic
    BY <1>2, ContinueLeak DEF Arithmetic, At, Then
<1>3. CASE Load
    BY <1>3, ContinueLeak DEF Load, At, Then
<1>4. CASE Store
    BY <1>4, ContinueLeak DEF Store, At
<1>5. CASE Iinc
    BY <1>5, ContinueLeak DEF Iinc, At
<1>6. CASE Branch
    BY <1>6, ContinueLeak DEF Branch, At, Then
<1>7. CASE Other
    BY <1>7, ContinueLeak DEF Other, At, Then
<1>8. CASE Newarray
    BY <1>8, NewarrayLeak
<1>9. CASE ArrayAccess
    <2>1. DOMAIN heap' = DOMAIN heap
        BY <1>9 DEF ArrayAccess
    <2>2. \E pushed : Then(pushed, 1)
        BY <1>9 DEF ArrayAccess, At
    <2> QED
        BY <1>9, <2>1, <2>2, ContinueLeak DEF ArrayAccess, At, Then
<1>10. CASE Invokestatic
    <2>1. IsSeq(frames') /\ Len(frames') = Len(frames) + 1
        BY <1>10, InvokeFrames DEF Invokestatic, At, LeakInv, Top, IsUpdate, IsLonger
    <2>2. heap_free' = heap_free /\ blocks' = blocks + 3 /\ status' = status /\ status = "running"
        BY <1>10 DEF Invokestatic, At, heap_free
    <2>3. Len(frames) \in Nat /\ heap_free \in Int
        BY SeqFacts, HeapSize DEF LeakInv, heap_free
    <2>4. heap' = heap /\ Len(frames) >= 1
        BY <1>10, <2>2 DEF Invokestatic, LeakInv
    <2> QED
        BY <2>1, <2>2, <2>3, <2>4 DEF LeakInv, NothingLeaks
<1>11. CASE Return
    BY <1>11, ReturnLeak
<1>12. CASE Unhandled \/ Fail
    <2>1. UNCHANGED <<frames, heap, blocks>> /\ status' \in {"exit", "undefined", "abort"}
        BY <1>12 DEF Unhandled, Fail
    <2> QED
        BY <2>1 DEF LeakInv, NothingLeaks
<1>13. CASE UNCHANGED vars
    BY <1>13 DEF vars, LeakInv, NothingLeaks, heap_free
<1> QED
    BY <1>1, <1>2, <1>3, <1>4, <1>5, <1>6, <1>7, <1>8, <1>9, <1>10, <1>11, <1>12, <1>13 DEF Next

(* Whatever the class file, however deep its calls and whichever way each   *)
(* of them ends: main frees everything that execute() and heap.c took.      *)
THEOREM EverythingIsFreed == Spec => []NothingLeaks
<1>1. LeakInv => NothingLeaks
    BY DEF LeakInv
<1> QED
    BY <1>1, InitLeak, NextLeak, PTL DEF Spec

------------------------------------------------------------------------------
(* Words.  Powers of two are a recursive function: that there is one is     *)
(* proved from its beginnings.                                              *)

LEMMA LeastNat ==
    ASSUME NEW S \in SUBSET Nat, S # {}
    PROVE  \E a \in S : \A b \in S : a <= b
<1>1. IsWellFoundedOn(OpToRel(<, Nat), Nat)
    BY NatLessThanWellFounded
<1>2. PICK a \in S : \A b \in S : ~ (<<b, a>> \in OpToRel(<, Nat))
    BY <1>1, WFMin
<1>3. \A b \in S : ~ (b < a)
    BY <1>2 DEF OpToRel
<1> QED
    BY <1>3

Powers(g, n) == g = [i \in 0 .. n |-> IF i = 0 THEN 1 ELSE 2 * g[i - 1]]

LEMMA PowersExist == \A n \in Nat : \E g : Powers(g, n)
<1> DEFINE S == {n \in Nat : ~ \E g : Powers(g, n)}
<1>1. SUFFICES ASSUME S # {} PROVE FALSE
    OBVIOUS
<1>2. PICK a \in S : \A b \in S : a <= b
    BY <1>1, LeastNat
<1>3. CASE a = 0
    <2>1. PICK g : g = [i \in 0 .. 0 |-> 1]
        OBVIOUS
    <2>2. g = [i \in 0 .. 0 |-> IF i = 0 THEN 1 ELSE 2 * g[i - 1]]
        BY <2>1
    <2> QED
        BY <1>3, <2>2 DEF Powers
<1>4. CASE a # 0
    <2>1. a - 1 \in Nat /\ a - 1 \notin S
        BY <1>2, <1>4
    <2>2. PICK g : Powers(g, a - 1)
        BY <2>1
    <2>3. g = [i \in 0 .. a - 1 |-> IF i = 0 THEN 1 ELSE 2 * g[i - 1]]
        BY <2>2 DEF Powers
    <2>4. PICK h : h = [i \in 0 .. a |-> IF i = a THEN 2 * g[a - 1] ELSE g[i]]
        OBVIOUS
    <2>5. \A i \in 0 .. a : h[i] = IF i = 0 THEN 1 ELSE 2 * h[i - 1]
        <3>1. TAKE i \in 0 .. a
        <3>2. CASE i = a
            BY <1>4, <2>1, <2>4, <3>2
        <3>3. CASE i # a /\ i # 0
            <4>1. i \in 0 .. a - 1 /\ i - 1 \in 0 .. a /\ i - 1 # a
                BY <2>1, <3>1, <3>3
            <4>2. g[i] = 2 * g[i - 1]
                BY <2>3, <3>3, <4>1
            <4> QED
                BY <2>4, <3>3, <4>1, <4>2
        <3>4. CASE i # a /\ i = 0
            <4>1. g[0] = 1
                BY <2>1, <2>3
            <4> QED
                BY <2>4, <3>4, <4>1
        <3> QED
            BY <3>2, <3>3, <3>4
    <2>6. h = [i \in 0 .. a |-> IF i = 0 THEN 1 ELSE 2 * h[i - 1]]
        <3>1. h = [i \in 0 .. a |-> h[i]]
            BY <2>4
        <3> QED
            BY <2>5, <3>1
    <2> QED
        BY <1>2, <2>6 DEF Powers
<1> QED
    BY <1>3, <1>4

LEMMA PowersAgree ==
    ASSUME NEW m \in Nat, NEW n \in Nat, NEW g, NEW h, Powers(g, m), Powers(h, n)
    PROVE  \A i \in Nat : i <= m /\ i <= n => g[i] = h[i]
<1> DEFINE S == {i \in Nat : i <= m /\ i <= n /\ g[i] # h[i]}
<1>1. SUFFICES ASSUME S # {} PROVE FALSE
    OBVIOUS
<1>2. PICK a \in S : \A b \in S : a <= b
    BY <1>1, LeastNat
<1>3. /\ \A i \in 0 .. m : g[i] = IF i = 0 THEN 1 ELSE 2 * g[i - 1]
      /\ \A i \in 0 .. n : h[i] = IF i = 0 THEN 1 ELSE 2 * h[i - 1]
    <2>1. g = [i \in 0 .. m |-> IF i = 0 THEN 1 ELSE 2 * g[i - 1]]
        BY DEF Powers
    <2>2. h = [i \in 0 .. n |-> IF i = 0 THEN 1 ELSE 2 * h[i - 1]]
        BY DEF Powers
    <2>3. \A i \in 0 .. m : g[i] = IF i = 0 THEN 1 ELSE 2 * g[i - 1]
        BY <2>1
    <2>4. \A i \in 0 .. n : h[i] = IF i = 0 THEN 1 ELSE 2 * h[i - 1]
        BY <2>2
    <2> QED
        BY <2>3, <2>4
<1>4. a \in 0 .. m /\ a \in 0 .. n
    BY <1>2
<1>5. a # 0
    BY <1>2, <1>3, <1>4
<1>6. a - 1 \in Nat /\ a - 1 <= m /\ a - 1 <= n /\ a - 1 \notin S
    BY <1>2, <1>5
<1>7. g[a - 1] = h[a - 1]
    BY <1>6
<1> QED
    BY <1>2, <1>3, <1>4, <1>5, <1>7

LEMMA Pow2Is == \A n \in Nat : Pow2[n] = IF n = 0 THEN 1 ELSE 2 * Pow2[n - 1]
<1> DEFINE G(n) == CHOOSE g : Powers(g, n)
<1>1. \A n \in Nat : Powers(G(n), n)
    BY PowersExist
<1>2. \A n \in Nat : G(n)[n] = IF n = 0 THEN 1 ELSE 2 * G(n)[n - 1]
    <2>1. TAKE n \in Nat
    <2>2. PICK g : g = G(n)
        OBVIOUS
    <2>3. g = [i \in 0 .. n |-> IF i = 0 THEN 1 ELSE 2 * g[i - 1]]
        <3>1. Powers(g, n)
            BY <1>1, <2>2
        <3> QED
            BY <3>1 DEF Powers
    <2>4. g[n] = IF n = 0 THEN 1 ELSE 2 * g[n - 1]
        <3>1. n \in 0 .. n
            OBVIOUS
        <3> QED
            BY <2>3, <3>1
    <2> QED
        BY <2>2, <2>4
<1>3. \A n \in Nat : n # 0 => G(n)[n - 1] = G(n - 1)[n - 1]
    <2>1. TAKE n \in Nat
    <2>2. HAVE n # 0
    <2>3. n - 1 \in Nat /\ n - 1 <= n
        BY <2>2
    <2>4. Powers(G(n), n) /\ Powers(G(n - 1), n - 1)
        BY <1>1, <2>3
    <2> HIDE DEF G
    <2> QED
        BY <2>3, <2>4, PowersAgree
<1> HIDE DEF G
<1>4. PICK f : f = [n \in Nat |-> G(n)[n]]
    OBVIOUS
<1>5. \A n \in Nat : f[n] = IF n = 0 THEN 1 ELSE 2 * f[n - 1]
    BY <1>2, <1>3, <1>4
<1>6. f = [n \in Nat |-> IF n = 0 THEN 1 ELSE 2 * f[n - 1]]
    <2>1. f = [n \in Nat |-> f[n]]
        BY <1>4
    <2> QED
        BY <1>5, <2>1
<1>7. Pow2 = CHOOSE p : p = [n \in Nat |-> IF n = 0 THEN 1 ELSE 2 * p[n - 1]]
    BY DEF Pow2
<1>8. Pow2 = [n \in Nat |-> IF n = 0 THEN 1 ELSE 2 * Pow2[n - 1]]
    BY <1>6, <1>7
<1> QED
    BY <1>8

LEMMA PowIs ==
    /\ Pow(0) = 1
    /\ \A n \in Nat : Pow(n + 1) = 2 * Pow(n)
    /\ \A n \in Nat : Pow(n) \in Nat /\ Pow(n) >= 1
<1>1. Pow(0) = 1
    BY Pow2Is DEF Pow
<1>2. \A n \in Nat : Pow(n + 1) = 2 * Pow(n)
    <2>1. TAKE n \in Nat
    <2>2. n + 1 \in Nat /\ n + 1 # 0 /\ n + 1 - 1 = n
        OBVIOUS
    <2> QED
        BY <2>2, Pow2Is DEF Pow
<1>3. \A n \in Nat : Pow(n) \in Nat /\ Pow(n) >= 1
    <2> DEFINE S == {n \in Nat : ~ (Pow(n) \in Nat /\ Pow(n) >= 1)}
    <2>1. SUFFICES ASSUME S # {} PROVE FALSE
        OBVIOUS
    <2>2. PICK a \in S : \A b \in S : a <= b
        BY <2>1, LeastNat
    <2>3. a # 0
        BY <1>1, <2>2
    <2>4. a - 1 \in Nat /\ a - 1 \notin S /\ a - 1 + 1 = a
        BY <2>2, <2>3
    <2>5. Pow(a - 1) \in Nat /\ Pow(a - 1) >= 1
        BY <2>4
    <2>6. Pow(a) = 2 * Pow(a - 1)
        BY <1>2, <2>4
    <2> QED
        BY <2>2, <2>5, <2>6
<1> QED
    BY <1>1, <1>2, <1>3

LEMMA PowMonotonic ==
    ASSUME NEW m \in Nat
    PROVE  \A k \in Nat : Pow(m) <= Pow(m + k) /\ Pow(m + k) = Pow(m) * Pow(k)
<1> DEFINE S == {k \in Nat : ~ (Pow(m) <= Pow(m + k) /\ Pow(m + k) = Pow(m) * Pow(k))}
<1>1. SUFFICES ASSUME S # {} PROVE FALSE
    OBVIOUS
<1>2. PICK a \in S : \A b \in S : a <= b
    BY <1>1, LeastNat
<1>3. Pow(m) \in Nat
    BY PowIs
<1>4. a # 0
    <2>1. Pow(m + 0) = Pow(m) /\ Pow(m) * Pow(0) = Pow(m)
        BY <1>3, PowIs
    <2> QED
        BY <1>2, <1>3, <2>1
<1>5. PICK b \in Nat : a = b + 1
    <2>1. a - 1 \in Nat /\ a = (a - 1) + 1
        BY <1>2, <1>4
    <2> QED
        BY <2>1
<1>6. b \notin S
    BY <1>2, <1>5
<1>7. Pow(m) <= Pow(m + b) /\ Pow(m + b) = Pow(m) * Pow(b)
    BY <1>6
<1>8. Pow(m + a) = 2 * Pow(m + b) /\ Pow(a) = 2 * Pow(b)
    <2>1. m + b \in Nat /\ m + a = (m + b) + 1
        BY <1>5
    <2> QED
        BY <1>5, <2>1, PowIs
<1>9. Pow(m + b) \in Nat /\ Pow(b) \in Nat
    BY PowIs
<1>10. Pow(m) <= Pow(m + a)
    BY <1>3, <1>7, <1>8, <1>9
<1>11. Pow(m + a) = Pow(m) * Pow(a)
    <2>1. PICK p \in Nat, q \in Nat : p = Pow(m) /\ q = Pow(b)
        BY <1>3, <1>9
    <2>2. 2 * (p * q) = p * (2 * q)
        OBVIOUS
    <2> QED
        BY <1>7, <1>8, <2>1, <2>2
<1> QED
    BY <1>2, <1>10, <1>11

\* Half of the words are negative.
LEMMA WordSize ==
    /\ IntBits \in Nat /\ IntBits >= 2
    /\ Pow(IntBits) = 2 * Pow(IntBits - 1)
    /\ Pow(IntBits - 1) \in Nat /\ Pow(IntBits - 1) >= 2
    /\ Ints = - Pow(IntBits - 1) .. Pow(IntBits - 1) - 1
    /\ Ints \subseteq Int
<1>1. IntBits \in Nat /\ IntBits >= 2
    BY JvmAssumption
<1>2. IntBits - 1 \in Nat /\ IntBits - 1 + 1 = IntBits /\ IntBits - 2 \in Nat
      /\ IntBits - 2 + 1 = IntBits - 1
    BY <1>1
<1>3. Pow(IntBits) = 2 * Pow(IntBits - 1) /\ Pow(IntBits - 1) = 2 * Pow(IntBits - 2)
    BY <1>2, PowIs
<1>4. Pow(IntBits - 1) \in Nat /\ Pow(IntBits - 2) \in Nat /\ Pow(IntBits - 2) >= 1
    BY <1>2, PowIs
<1>5. Ints = - Pow(IntBits - 1) .. Pow(IntBits - 1) - 1
    BY DEF Ints, MinInt, MaxInt
<1>6. Pow(IntBits - 1) >= 2
    BY <1>3, <1>4
<1> QED
    BY <1>1, <1>3, <1>4, <1>5, <1>6

LEMMA WrapIsInt == \A x \in Int : Wrap(x) \in Ints
<1>1. TAKE x \in Int
<1>2. PICK h \in Nat : h = Pow(IntBits - 1) /\ h >= 1
    BY WordSize
<1>3. Pow(IntBits) = 2 * h /\ Ints = - h .. h - 1
    BY <1>2, WordSize
<1>4. Wrap(x) = ((x + h) % (2 * h)) - h
    BY <1>2, <1>3 DEF Wrap
<1>5. (x + h) % (2 * h) \in 0 .. 2 * h - 1
    <2>1. PICK d \in Nat : d = 2 * h /\ d > 0
        BY <1>2
    <2>2. (x + h) % d \in 0 .. d - 1
        BY <1>2, <2>1
    <2> QED
        BY <2>1, <2>2
<1> QED
    <2>1. PICK r \in 0 .. 2 * h - 1 : r = (x + h) % (2 * h)
        BY <1>5
    <2>2. Wrap(x) = r - h
        BY <1>4, <2>1
    <2>3. r - h \in - h .. h - 1
        BY <1>2
    <2> QED
        BY <1>3, <2>2, <2>3

\* b bytes make a constant of a byte or two an int.
LEMMA BytesAreInts ==
    /\ \A b \in 0 .. Pow(ByteBits) - 1 : int8(b) \in Ints
    /\ \A b, l \in 0 .. Pow(ByteBits) - 1 : int16(b * Pow(ByteBits) + l) \in Ints
<1>1. PICK n \in Nat : ByteBits = n + 1
    <2>1. ByteBits \in Nat /\ ByteBits - 1 \in Nat /\ ByteBits = (ByteBits - 1) + 1
        BY JvmAssumption
    <2> QED
        BY <2>1
<1>2. PICK p \in Nat : p = Pow(ByteBits - 1) /\ p >= 1 /\ Pow(ByteBits) = 2 * p
    <2>1. ByteBits - 1 = n
        BY <1>1
    <2> QED
        BY <1>1, <2>1, PowIs
<1>3. PICK q \in Nat : q = Pow(2 * ByteBits - 1) /\ q = 2 * p * p /\ Pow(2 * ByteBits) = 2 * q
    <2>1. 2 * ByteBits - 1 = n + ByteBits /\ 2 * ByteBits - 1 \in Nat /\ ByteBits \in Nat
          /\ 2 * ByteBits = (2 * ByteBits - 1) + 1 /\ ByteBits - 1 = n
        BY <1>1
    <2>2. Pow(2 * ByteBits - 1) = p * (2 * p)
        BY <1>2, <2>1, PowMonotonic
    <2>3. p * (2 * p) = 2 * p * p /\ p * (2 * p) \in Nat
        BY <1>2
    <2>4. Pow(2 * ByteBits) = 2 * Pow(2 * ByteBits - 1)
        BY <2>1, PowIs
    <2> QED
        BY <2>2, <2>3, <2>4
<1>4. q <= Pow(IntBits - 1) /\ p <= q
    <2>1. PICK k \in Nat : IntBits - 1 = (2 * ByteBits - 1) + k
        <3>1. IntBits - 2 * ByteBits \in Nat /\ IntBits - 1 = (2 * ByteBits - 1) + (IntBits - 2 * ByteBits)
            BY JvmAssumption
        <3> QED
            BY <3>1
    <2>2. 2 * ByteBits - 1 \in Nat
        BY JvmAssumption
    <2>3. q <= Pow(IntBits - 1)
        BY <1>3, <2>1, <2>2, PowMonotonic
    <2>4. p <= 2 * p * p
        <3>1. p * p >= p
            BY <1>2
        <3> QED
            BY <1>2, <3>1
    <2> QED
        BY <1>3, <2>3, <2>4
<1>5. \A b \in 0 .. Pow(ByteBits) - 1 : int8(b) \in Ints
    <2>1. PICK h \in Nat : h = Pow(IntBits - 1) /\ Ints = - h .. h - 1
        BY WordSize
    <2>2. ASSUME NEW b \in 0 .. 2 * p - 1
          PROVE  int8(b) \in Ints
        <3>1. int8(b) = IF b < p THEN b ELSE b - 2 * p
            BY <1>2 DEF int8
        <3>2. p <= h
            BY <1>4, <2>1
        <3> QED
            BY <1>2, <2>1, <3>1, <3>2
    <2> QED
        BY <1>2, <2>2
<1>6. \A b, l \in 0 .. Pow(ByteBits) - 1 : int16(b * Pow(ByteBits) + l) \in Ints
    <2>1. PICK h \in Nat : h = Pow(IntBits - 1) /\ Ints = - h .. h - 1
        BY WordSize
    <2>2. ASSUME NEW b \in 0 .. 2 * p - 1, NEW l \in 0 .. 2 * p - 1
          PROVE  int16(b * (2 * p) + l) \in Ints
        <3>1. b * (2 * p) \in Nat /\ b * (2 * p) <= (2 * p - 1) * (2 * p)
            BY <1>2
        <3>2. (2 * p - 1) * (2 * p) = 2 * q - 2 * p
            BY <1>2, <1>3
        <3>3. PICK w \in Nat : w = b * (2 * p) + l /\ w <= 2 * q - 1
            BY <1>2, <1>3, <3>1, <3>2
        <3>4. int16(w) = IF w < q THEN w ELSE w - 2 * q
            BY <1>3 DEF int16
        <3>5. q <= h
            BY <1>4, <2>1
        <3> QED
            BY <1>3, <2>1, <3>3, <3>4, <3>5
    <2> QED
        BY <1>2, <2>2
<1> QED
    BY <1>5, <1>6

LEMMA QuotientBounds ==
    ASSUME NEW a \in Nat, NEW b \in Nat, b > 0
    PROVE  /\ a \div b \in Nat /\ a \div b <= a
           /\ a - b * (a \div b) \in 0 .. b - 1
           /\ b > 1 /\ a > 0 => a \div b < a
<1>1. PICK q \in Int : q = a \div b
    OBVIOUS
<1>2. PICK r \in Int : r = a % b /\ 0 <= r /\ r < b
    OBVIOUS
<1>3. a = b * q + r
    BY <1>1, <1>2
<1>4. q >= 0
    <2>1. SUFFICES ASSUME q <= -1 PROVE FALSE
        OBVIOUS
    <2>2. b * q <= b * (-1)
        BY <2>1
    <2> QED
        BY <1>2, <1>3, <2>2
<1>5. q <= a
    <2>1. b * q >= q
        BY <1>4
    <2> QED
        BY <1>2, <1>3, <2>1
<1>6. b > 1 /\ a > 0 => q < a
    <2>1. HAVE b > 1 /\ a > 0
    <2>2. b * q >= 2 * q
        BY <1>4, <2>1
    <2> QED
        BY <1>2, <1>3, <1>4, <2>1, <2>2
<1> QED
    BY <1>1, <1>2, <1>3, <1>4, <1>5, <1>6

LEMMA DivisionIsInt ==
    ASSUME NEW a \in Ints, NEW b \in Ints, ~ DivisionTraps(a, b)
    PROVE  Quotient(a, b) \in Ints /\ a - b * Quotient(a, b) \in Ints
<1>1. PICK h \in Nat : h >= 2 /\ MinInt = - h /\ Ints = - h .. h - 1
    BY WordSize DEF MinInt
<1>2. a \in Int /\ - h <= a /\ a < h /\ b \in Int /\ - h <= b /\ b < h
    BY <1>1
<1>3. b # 0 /\ ~ (a = - h /\ b = -1)
    BY <1>1 DEF DivisionTraps
<1>4. PICK x \in Nat : x = Abs(a) /\ x <= h /\ (x = h => a = - h)
    BY <1>2 DEF Abs
<1>5. PICK y \in Nat : y = Abs(b) /\ y > 0 /\ y <= h
    BY <1>2, <1>3 DEF Abs
<1>6. PICK q \in Nat : /\ q = x \div y /\ q <= x /\ x - y * q \in 0 .. y - 1
                       /\ y > 1 /\ x > 0 => q < x
    BY <1>5, QuotientBounds
<1>7. PICK r \in Nat : r = x - y * q /\ r < y
    BY <1>6
<1>8. Quotient(a, b) = Sign(a) * Sign(b) * q
    BY <1>4, <1>5, <1>6 DEF Quotient
<1>9. Quotient(a, b) = IF (a < 0) = (b < 0) THEN q ELSE - q
    BY <1>2, <1>8 DEF Sign
<1>10. q <= h /\ (q = h => (a < 0) # (b < 0))
    <2>1. q <= h
        BY <1>4, <1>6
    <2>2. ASSUME q = h PROVE (a < 0) # (b < 0)
        <3>1. x = h
            BY <1>4, <1>6, <2>2
        <3>2. y = 1
            <4>1. x > 0 /\ ~ (q < x)
                BY <1>1, <2>2, <3>1
            <4>2. ~ (y > 1)
                BY <1>6, <4>1
            <4> QED
                BY <1>5, <4>2
        <3>3. a = - h /\ b = 1
            <4>1. b = 1 \/ b = -1
                BY <1>2, <1>5, <3>2 DEF Abs
            <4> QED
                BY <1>3, <1>4, <3>1, <4>1
        <3> QED
            BY <1>1, <3>3
    <2> QED
        BY <2>1, <2>2
<1>11. Quotient(a, b) \in Ints
    BY <1>1, <1>9, <1>10
<1>12. a - b * Quotient(a, b) = IF a < 0 THEN - r ELSE r
    <2>1. CASE a < 0 /\ b < 0
        <3>1. Quotient(a, b) = q /\ a = - x /\ b = - y
            BY <1>2, <1>4, <1>5, <1>9, <2>1 DEF Abs
        <3>2. - x - (- y) * q = - (x - y * q)
            OBVIOUS
        <3> QED
            BY <1>7, <2>1, <3>1, <3>2
    <2>2. CASE a < 0 /\ ~ (b < 0)
        <3>1. Quotient(a, b) = - q /\ a = - x /\ b = y
            BY <1>2, <1>4, <1>5, <1>9, <2>2 DEF Abs
        <3>2. - x - y * (- q) = - (x - y * q)
            OBVIOUS
        <3> QED
            BY <1>7, <2>2, <3>1, <3>2
    <2>3. CASE ~ (a < 0) /\ b < 0
        <3>1. Quotient(a, b) = - q /\ a = x /\ b = - y
            BY <1>2, <1>4, <1>5, <1>9, <2>3 DEF Abs
        <3>2. x - (- y) * (- q) = x - y * q
            OBVIOUS
        <3> QED
            BY <1>7, <2>3, <3>1, <3>2
    <2>4. CASE ~ (a < 0) /\ ~ (b < 0)
        <3>1. Quotient(a, b) = q /\ a = x /\ b = y
            BY <1>2, <1>4, <1>5, <1>9, <2>4 DEF Abs
        <3> QED
            BY <1>7, <2>4, <3>1
    <2> QED
        BY <2>1, <2>2, <2>3, <2>4
<1>13. r < h
    BY <1>5, <1>7
<1> QED
    BY <1>1, <1>11, <1>12, <1>13

\* A shift to the right divides, and rounds towards minus infinity.
LEMMA ShiftIsInt ==
    ASSUME NEW a \in Ints, NEW d \in Nat, d >= 1
    PROVE  a \div d \in Ints
<1>1. PICK h \in Nat : h >= 2 /\ Ints = - h .. h - 1
    BY WordSize
<1>2. a \in Int /\ - h <= a /\ a <= h - 1
    BY <1>1
<1>3. PICK q \in Int : q = a \div d
    BY <1>2
<1>4. PICK r \in Int : r = a % d /\ 0 <= r /\ r < d
    BY <1>2
<1>5. a = d * q + r
    BY <1>2, <1>3, <1>4
<1>6. q <= h - 1
    <2>1. CASE q <= 0
        BY <1>1, <2>1
    <2>2. CASE q > 0
        <3>1. d * q >= q
            BY <2>2
        <3> QED
            BY <1>2, <1>4, <1>5, <3>1
    <2> QED
        BY <2>1, <2>2
<1>7. - h <= q
    <2>1. SUFFICES ASSUME q + 1 <= - h PROVE FALSE
        BY <1>1
    <2>2. d * (q + 1) <= q + 1
        <3>1. q + 1 <= 0
            BY <1>1, <2>1
        <3> QED
            BY <3>1
    <2>3. d * (q + 1) = d * q + d
        OBVIOUS
    <2> QED
        BY <1>1, <1>2, <1>4, <1>5, <2>1, <2>2, <2>3
<1> QED
    BY <1>1, <1>3, <1>6, <1>7

\* A sum of integers is an integer.
LEMMA SumExists ==
    ASSUME NEW N \in Nat, NEW e, \A i \in 0 .. N - 1 : e[i] \in Int
    PROVE  \E f : f = [i \in 0 .. N |-> IF i = 0 THEN 0 ELSE f[i - 1] + e[i - 1]]
<1> DEFINE Sum(f, n) == f = [i \in 0 .. n |-> IF i = 0 THEN 0 ELSE f[i - 1] + e[i - 1]]
           S == {n \in Nat : ~ \E f : Sum(f, n)}
<1>1. SUFFICES ASSUME S # {} PROVE FALSE
    OBVIOUS
<1>2. PICK a \in S : \A b \in S : a <= b
    BY <1>1, LeastNat
<1>3. CASE a = 0
    <2>1. PICK g : g = [i \in 0 .. 0 |-> 0]
        OBVIOUS
    <2>2. g = [i \in 0 .. 0 |-> IF i = 0 THEN 0 ELSE g[i - 1] + e[i - 1]]
        BY <2>1
    <2> QED
        BY <1>3, <2>2
<1>4. CASE a # 0
    <2>1. a - 1 \in Nat /\ a - 1 \notin S
        BY <1>2, <1>4
    <2>2. PICK g : Sum(g, a - 1)
        BY <2>1
    <2>3. g = [i \in 0 .. a - 1 |-> IF i = 0 THEN 0 ELSE g[i - 1] + e[i - 1]]
        BY <2>2
    <2>4. PICK h : h = [i \in 0 .. a |-> IF i = a THEN g[a - 1] + e[a - 1] ELSE g[i]]
        OBVIOUS
    <2>5. \A i \in 0 .. a : h[i] = IF i = 0 THEN 0 ELSE h[i - 1] + e[i - 1]
        <3>1. TAKE i \in 0 .. a
        <3>2. CASE i = a
            BY <1>4, <2>1, <2>4, <3>2
        <3>3. CASE i # a /\ i # 0
            <4>1. i \in 0 .. a - 1 /\ i - 1 \in 0 .. a /\ i - 1 # a
                BY <2>1, <3>1, <3>3
            <4>2. g[i] = g[i - 1] + e[i - 1]
                BY <2>3, <3>3, <4>1
            <4> QED
                BY <2>4, <3>3, <4>1, <4>2
        <3>4. CASE i # a /\ i = 0
            <4>1. g[0] = 0
                BY <2>1, <2>3
            <4> QED
                BY <2>4, <3>4, <4>1
        <3> QED
            BY <3>2, <3>3, <3>4
    <2>6. h = [i \in 0 .. a |-> IF i = 0 THEN 0 ELSE h[i - 1] + e[i - 1]]
        <3>1. h = [i \in 0 .. a |-> h[i]]
            BY <2>4
        <3> QED
            BY <2>5, <3>1
    <2> QED
        BY <1>2, <2>6
<1> QED
    BY <1>3, <1>4

LEMMA SumIsInt ==
    ASSUME NEW N \in Nat, NEW e, \A i \in 0 .. N - 1 : e[i] \in Int,
           NEW f, f = [i \in 0 .. N |-> IF i = 0 THEN 0 ELSE f[i - 1] + e[i - 1]]
    PROVE  f[N] \in Int
<1> DEFINE S == {n \in Nat : n <= N /\ f[n] \notin Int}
<1>1. SUFFICES ASSUME S # {} PROVE FALSE
    <2>1. N \notin S => f[N] \in Int
        OBVIOUS
    <2> HIDE DEF S
    <2> QED
        BY <2>1
<1>2. PICK a \in S : \A b \in S : a <= b
    BY <1>1, LeastNat
<1>3. a \in 0 .. N
    BY <1>2
<1>4. f[a] = IF a = 0 THEN 0 ELSE f[a - 1] + e[a - 1]
    BY <1>3
<1>5. a # 0
    BY <1>2, <1>4
<1>6. a - 1 \in Nat /\ a - 1 <= N /\ a - 1 \notin S /\ a - 1 \in 0 .. N - 1
    <2>1. a - 1 \in 0 .. N - 1
        BY <1>3, <1>5
    <2>2. ~ (a <= a - 1)
        BY <1>3
    <2>3. a - 1 \notin S
        <3> HIDE DEF S
        <3> QED
            BY <1>2, <2>2
    <2> QED
        BY <2>1, <2>3
<1>7. f[a - 1] \in Int /\ e[a - 1] \in Int
    BY <1>6
<1> QED
    BY <1>2, <1>4, <1>5, <1>7

LEMMA BitIs == \A a \in Int, i \in Nat : Bit(a, i) \in 0 .. 1
<1>1. TAKE a \in Int, i \in Nat
<1>2. PICK d \in Nat : d = Pow(i) /\ d >= 1
    BY PowIs
<1>3. PICK q \in Int : q = a \div d
    BY <1>2
<1>4. q % 2 \in 0 .. 1
    OBVIOUS
<1> QED
    BY <1>2, <1>3, <1>4 DEF Bit

LEMMA BitwiseIsInt ==
    ASSUME NEW op \in {"iand", "ior", "ixor"}, NEW a \in Int, NEW b \in Int
    PROVE  Bitwise(op, a, b) \in Ints
<1>1. IntBits \in Nat
    BY WordSize
<1>2. \A i \in 0 .. IntBits - 1 : BitOf(op, Bit(a, i), Bit(b, i)) * Pow(i) \in Int
    <2>1. TAKE i \in 0 .. IntBits - 1
    <2>2. PICK x \in 0 .. 1, y \in 0 .. 1, p \in Nat : x = Bit(a, i) /\ y = Bit(b, i) /\ p = Pow(i)
        <3>1. i \in Nat
            BY <1>1
        <3>2. Bit(a, i) \in 0 .. 1 /\ Bit(b, i) \in 0 .. 1 /\ Pow(i) \in Nat
            BY <3>1, BitIs, PowIs
        <3> QED
            BY <3>2
    <2>3. BitOf(op, x, y) \in Int
        <3>1. x * y \in Int /\ x + y - x * y \in Int /\ (x + y) % 2 \in Int
            OBVIOUS
        <3> QED
            BY <3>1 DEF BitOf
    <2>4. PICK z \in Int : z = BitOf(op, x, y)
        BY <2>3
    <2> QED
        BY <2>2, <2>4
<1>3. PICK e : e = [i \in 0 .. IntBits - 1 |-> BitOf(op, Bit(a, i), Bit(b, i)) * Pow(i)]
    OBVIOUS
<1>4. \A i \in 0 .. IntBits - 1 : e[i] \in Int
    BY <1>2, <1>3
<1> DEFINE Sum(f) == f = [i \in 0 .. IntBits |->
                             IF i = 0 THEN 0
                             ELSE f[i - 1] + BitOf(op, Bit(a, i - 1), Bit(b, i - 1)) * Pow(i - 1)]
<1>5. ASSUME NEW f
      PROVE  Sum(f) <=> f = [i \in 0 .. IntBits |-> IF i = 0 THEN 0 ELSE f[i - 1] + e[i - 1]]
    <2>1. \A i \in 0 .. IntBits : i # 0 =>
             e[i - 1] = BitOf(op, Bit(a, i - 1), Bit(b, i - 1)) * Pow(i - 1)
        <3>1. TAKE i \in 0 .. IntBits
        <3>2. HAVE i # 0
        <3>3. i - 1 \in 0 .. IntBits - 1
            BY <1>1, <3>2
        <3> QED
            BY <1>3, <3>3
    <2> QED
        BY <2>1
<1>6. \E f : Sum(f)
    <2> HIDE DEF Sum
    <2> QED
        BY <1>1, <1>4, <1>5, SumExists
<1>7. PICK f : f = (CHOOSE g : Sum(g)) /\ Sum(f)
    <2> HIDE DEF Sum
    <2> QED
        BY <1>6
<1>8. f[IntBits] \in Int
    <2>1. f = [i \in 0 .. IntBits |-> IF i = 0 THEN 0 ELSE f[i - 1] + e[i - 1]]
        <3> HIDE DEF Sum
        <3> QED
            BY <1>5, <1>7
    <2> QED
        BY <1>1, <1>4, <2>1, SumIsInt
<1>9. Bitwise(op, a, b) = Wrap(f[IntBits])
    BY <1>7 DEF Bitwise
<1> QED
    BY <1>8, <1>9, WrapIsInt

LEMMA ApplyIsInt ==
    ASSUME NEW op \in Binary, NEW a \in Ints, NEW b \in Ints,
           op \in {"idiv", "irem"} => ~ DivisionTraps(a, b)
    PROVE  Apply(op, a, b) \in Ints
<1>1. a \in Int /\ b \in Int
    BY WordSize
<1>2. ASSUME op \in {"iadd", "isub", "imul"}
      PROVE  Apply(op, a, b) \in Ints
    <2>1. a + b \in Int /\ a - b \in Int /\ a * b \in Int
        BY <1>1
    <2>2. Apply(op, a, b) \in {Wrap(a + b), Wrap(a - b), Wrap(a * b)}
        BY <1>2 DEF Apply
    <2> QED
        BY <2>1, <2>2, WrapIsInt
<1>3. ASSUME op \in {"idiv", "irem"}
      PROVE  Apply(op, a, b) \in Ints
    <2>1. Apply(op, a, b) \in {Quotient(a, b), a - b * Quotient(a, b)}
        BY <1>3 DEF Apply
    <2> QED
        BY <1>3, <2>1, DivisionIsInt
<1>4. ASSUME op \in {"ishl", "ishr", "iushr"}
      PROVE  Apply(op, a, b) \in Ints
    <2>1. b % IntBits \in Nat
        <3>1. PICK n \in Nat : n = IntBits /\ n > 0
            BY WordSize
        <3>2. b % n \in 0 .. n - 1
            BY <1>1, <3>1
        <3> QED
            BY <3>1, <3>2
    <2>2. PICK d \in Nat : d = Pow(b % IntBits) /\ d >= 1
        BY <2>1, PowIs
    <2>3. PICK w \in Nat : w = Pow(IntBits) /\ w >= 1
        BY WordSize, PowIs
    <2>4. a * d \in Int
        BY <1>1
    <2>5. (a % w) \div d \in Int
        <3>1. PICK r \in Int : r = a % w
            BY <1>1, <2>3
        <3>2. r \div d \in Int
            BY <2>2
        <3> QED
            BY <3>1, <3>2
    <2>6. a \div d \in Ints
        BY <2>2, ShiftIsInt
    <2>7. Apply(op, a, b) \in {Wrap(a * d), a \div d, Wrap((a % w) \div d)}
        BY <1>4, <2>2, <2>3 DEF Apply
    <2> QED
        BY <2>4, <2>5, <2>6, <2>7, WrapIsInt
<1>5. ASSUME op \in {"iand", "ior", "ixor"}
      PROVE  Apply(op, a, b) \in Ints
    <2>1. Apply(op, a, b) = Bitwise(op, a, b)
        BY <1>5 DEF Apply
    <2> QED
        BY <1>1, <1>5, <2>1, BitwiseIsInt
<1> QED
    BY <1>2, <1>3, <1>4, <1>5 DEF Binary

------------------------------------------------------------------------------
(* What a type state says of a frame.  D is the set of references.          *)

TypeStates(m) ==
    [pc : 0 .. Len(m.code) - 1, stack : Seq({"I", "R"}),
     locals : [0 .. m.max_locals - 1 -> {"I", "R", "-"}]]

Typed(D, v, t) == (t = "I" => v \in Ints) /\ (t = "R" => v \in D)

ValuesFit(D, values, types) ==
    /\ IsSeq(values) /\ Len(values) = Len(types)
    /\ \A n \in 1 .. Len(types) : Typed(D, values[n], types[n])

LocalsFit(D, values, types, k) ==
    /\ DOMAIN values = 0 .. k - 1
    /\ \A n \in 0 .. k - 1 : Typed(D, values[n], types[n])

MethodOf(c, f) == c.methods[f.method]

IsFrame(f) == f = [method |-> f.method, pc |-> f.pc, stack |-> f.stack, locals |-> f.locals]

FrameFits(c, D, f, s, stack) ==
    /\ IsFrame(f)
    /\ f.method \in DOMAIN c.methods
    /\ s \in TypeStates(MethodOf(c, f)) /\ s \in Typing(c, MethodOf(c, f))
    /\ f.pc = s.pc
    /\ ValuesFit(D, f.stack, stack)
    /\ LocalsFit(D, f.locals, s.locals, MethodOf(c, f).max_locals)

Running(c, D, f) == \E s : FrameFits(c, D, f, s, s.stack)

\* f waits for the method of g to return.
Waiting(c, D, f, g) ==
    \E s : /\ FrameFits(c, D, f, s, Rest(c, MethodOf(c, f), s))
           /\ Opcode(MethodOf(c, f), s) = "invokestatic"
           /\ g.method \in Named(c, MethodOf(c, f), s)

SafeFrames(c, D, fs) ==
    /\ IsSeq(fs) /\ Len(fs) >= 1
    /\ MethodOf(c, fs[1]).result = "V"
    /\ Running(c, D, fs[Len(fs)])
    /\ \A i \in 1 .. Len(fs) - 1 : Waiting(c, D, fs[i], fs[i + 1])

Arrays(h) == \A r \in DOMAIN h : \E k \in Ints : k >= 0 /\ h[r] \in [0 .. k - 1 -> Ints]

\* The innermost frame is in a type state of its method, and each of the others in that
\* of its call, without the arguments, which the frame above it has; arrays hold ints.
SafeInv ==
    /\ class \in Classes
    /\ status # "abort"
    /\ \E n \in Nat : DOMAIN heap = 0 .. n - 1
    /\ Arrays(heap)
    /\ status = "running" => SafeFrames(class, DOMAIN heap, frames)

\* References stay references.
LEMMA FitsGrows ==
    ASSUME NEW D, NEW E, D \subseteq E
    PROVE  /\ \A c, f, s, stack : FrameFits(c, D, f, s, stack) => FrameFits(c, E, f, s, stack)
           /\ \A c, f, g : Waiting(c, D, f, g) => Waiting(c, E, f, g)
<1>1. \A v, t : Typed(D, v, t) => Typed(E, v, t)
    BY DEF Typed
<1>2. \A v, t : ValuesFit(D, v, t) => ValuesFit(E, v, t)
    BY <1>1 DEF ValuesFit
<1>3. \A v, t, k : LocalsFit(D, v, t, k) => LocalsFit(E, v, t, k)
    BY <1>1 DEF LocalsFit
<1>4. \A c, f, s, stack : FrameFits(c, D, f, s, stack) => FrameFits(c, E, f, s, stack)
    BY <1>2, <1>3 DEF FrameFits
<1> QED
    BY <1>4 DEF Waiting

\* The running frame goes on.
LEMMA TopGoesOn ==
    ASSUME NEW c, NEW D, NEW E, D \subseteq E, NEW fs, SafeFrames(c, D, fs), NEW gs, NEW g,
           IsUpdate(gs, fs, Len(fs), g), g.method = fs[Len(fs)].method, Running(c, E, g)
    PROVE  SafeFrames(c, E, gs)
<1>1. Len(fs) \in Nat /\ Len(fs) >= 1
    BY SeqFacts DEF SafeFrames
<1>2. /\ IsSeq(gs) /\ Len(gs) = Len(fs) /\ gs[Len(fs)] = g
      /\ \A i \in 1 .. Len(fs) : i # Len(fs) => gs[i] = fs[i]
    BY DEF IsUpdate
<1>3. \A i \in 1 .. Len(fs) : gs[i].method = fs[i].method
    BY <1>2
<1>4. MethodOf(c, gs[1]).result = "V"
    <2>1. 1 \in 1 .. Len(fs)
        BY <1>1
    <2>2. gs[1].method = fs[1].method
        BY <1>3, <2>1
    <2> QED
        BY <2>2 DEF MethodOf, SafeFrames
<1>5. ASSUME NEW i \in 1 .. Len(fs) - 1
      PROVE  Waiting(c, E, gs[i], gs[i + 1])
    <2>1. i \in 1 .. Len(fs) /\ i # Len(fs) /\ i + 1 \in 1 .. Len(fs)
        BY <1>1
    <2>2. gs[i] = fs[i] /\ gs[i + 1].method = fs[i + 1].method
        BY <1>2, <1>3, <2>1
    <2>3. Waiting(c, D, fs[i], fs[i + 1])
        BY DEF SafeFrames
    <2>4. Waiting(c, E, fs[i], fs[i + 1])
        BY <2>3, FitsGrows
    <2> QED
        BY <2>2, <2>4 DEF Waiting
<1> QED
    BY <1>1, <1>2, <1>4, <1>5 DEF SafeFrames

------------------------------------------------------------------------------
(* What an instruction takes and leaves *)

LEMMA NamedIsOne ==
    ASSUME NEW c, WellFormed(c), NEW m, NEW s, Named(c, m, s) # {}
    PROVE  \E i \in DOMAIN c.methods : Named(c, m, s) = {i} /\ CalledBy(c, m, s) = c.methods[i]
<1>1. PICK i : i \in Named(c, m, s) /\ i = CHOOSE n \in Named(c, m, s) : TRUE
    OBVIOUS
<1>2. ASSUME NEW j \in Named(c, m, s) PROVE i = j
    <2>1. /\ i \in DOMAIN c.methods /\ j \in DOMAIN c.methods
          /\ c.methods[j].name = c.methods[i].name
          /\ c.methods[j].descriptor = c.methods[i].descriptor
        BY <1>1 DEF Named
    <2> QED
        BY <2>1 DEF WellFormed
<1>3. i \in DOMAIN c.methods
    BY <1>1 DEF Named
<1>4. CalledBy(c, m, s) = c.methods[i]
    BY <1>1 DEF CalledBy
<1>5. Named(c, m, s) = {i}
    BY <1>1, <1>2
<1> QED
    BY <1>3, <1>4, <1>5

LEMMA MethodFacts ==
    ASSUME NEW c, WellFormed(c), NEW i \in DOMAIN c.methods
    PROVE  /\ CodeFormed(c.methods[i])
           /\ c.methods[i].max_stack \in Nat /\ c.methods[i].max_locals \in Nat
           /\ c.methods[i].params \in Seq({"I", "R"})
           /\ Len(c.methods[i].params) <= c.methods[i].max_locals
           /\ c.methods[i].result \in {"I", "R", "V"}
    BY DEF WellFormed

Types == {"I", "R"}

LEMMA TypeSeqs ==
    /\ <<>> \in Seq(Types) /\ <<"I">> \in Seq(Types) /\ <<"R">> \in Seq(Types)
    /\ <<"I", "I">> \in Seq(Types) /\ <<"R", "I">> \in Seq(Types)
    /\ <<"R", "I", "I">> \in Seq(Types)
    /\ \A t \in Types : <<t>> \in Seq(Types) /\ <<t, t>> \in Seq(Types)
    BY DEF Types

LEMMA StackFacts ==
    ASSUME NEW m, NEW s \in TypeStates(m)
    PROVE  /\ s.stack \in Seq(Types) /\ IsSeq(s.stack) /\ Len(s.stack) \in Nat
           /\ \A i \in 1 .. Len(s.stack) : s.stack[i] \in Types
           /\ s.pc \in 0 .. Len(m.code) - 1
           /\ s.locals \in [0 .. m.max_locals - 1 -> {"I", "R", "-"}]
<1>1. s.stack \in Seq(Types)
    BY DEF TypeStates, Types
<1>2. Len(s.stack) \in Nat /\ \A i \in 1 .. Len(s.stack) : s.stack[i] \in Types
    BY <1>1
<1>3. s.pc \in 0 .. Len(m.code) - 1 /\ s.locals \in [0 .. m.max_locals - 1 -> {"I", "R", "-"}]
    BY DEF TypeStates
<1> QED
    BY <1>1, <1>2, <1>3 DEF IsSeq

LEMMA TakesIs ==
    ASSUME NEW c, WellFormed(c), NEW m, NEW s \in TypeStates(m), Permitted(c, m, s)
    PROVE  Takes(c, m, s) \in Seq(Types) /\ Leaves(c, m, s) \in Seq(Types)
<1> DEFINE op == Opcode(m, s)
<1>1. CASE op = "dup"
    <2>1. s.stack # <<>> /\ s.stack \in Seq(Types)
        BY <1>1, StackFacts DEF Permitted
    <2>2. Len(s.stack) \in 1 .. Len(s.stack) /\ s.stack[Len(s.stack)] \in Types
        BY <2>1, EmptySeq
    <2>3. PICK t \in Types : t = s.stack[Len(s.stack)]
        BY <2>2
    <2>4. Takes(c, m, s) = SubSeq(s.stack, Len(s.stack), Len(s.stack))
        BY <1>1 DEF Takes, Binary, Cmp, If
    <2>5. SubSeq(s.stack, Len(s.stack), Len(s.stack)) \in Seq(Types)
        BY <2>1, <2>2, SubSeqProperties
    <2>6. Leaves(c, m, s) = <<t, t>>
        BY <1>1, <2>3 DEF Leaves, Binary
    <2> QED
        BY <2>4, <2>5, <2>6, TypeSeqs
<1>2. CASE op = "invokestatic"
    <2>1. Named(c, m, s) # {}
        BY <1>2 DEF Permitted
    <2>2. PICK i \in DOMAIN c.methods : CalledBy(c, m, s) = c.methods[i]
        BY <2>1, NamedIsOne
    <2>3. c.methods[i].params \in Seq(Types) /\ c.methods[i].result \in {"I", "R", "V"}
        BY MethodFacts DEF Types
    <2>4. Takes(c, m, s) = c.methods[i].params
        BY <1>2, <2>2 DEF Takes, Binary, Cmp, If
    <2>5. Leaves(c, m, s) = IF c.methods[i].result # "V" THEN <<c.methods[i].result>> ELSE <<>>
        BY <1>2, <2>2 DEF Leaves, Binary
    <2> QED
        BY <2>3, <2>4, <2>5, TypeSeqs DEF Types
<1>3. CASE op # "dup" /\ op # "invokestatic"
    <2>1. Takes(c, m, s) \in {<<>>, <<"I">>, <<"R">>, <<"I", "I">>, <<"R", "I">>, <<"R", "I", "I">>}
        BY <1>3 DEF Takes
    <2>2. Leaves(c, m, s) \in {<<>>, <<"I">>, <<"R">>}
        BY <1>3 DEF Leaves
    <2> QED
        BY <2>1, <2>2, TypeSeqs
<1> QED
    BY <1>1, <1>2, <1>3

LEMMA RestIs ==
    ASSUME NEW c, WellFormed(c), NEW m, NEW s \in TypeStates(m), Permitted(c, m, s)
    PROVE  /\ Len(Takes(c, m, s)) \in 0 .. Len(s.stack)
           /\ IsStart(Rest(c, m, s), s.stack, Len(s.stack) - Len(Takes(c, m, s)))
           /\ \A n \in 1 .. Len(Takes(c, m, s)) :
                 s.stack[Len(s.stack) - Len(Takes(c, m, s)) + n] = Takes(c, m, s)[n]
           /\ Rest(c, m, s) \o Leaves(c, m, s) \in Seq(Types)
           /\ IsConcat(Rest(c, m, s) \o Leaves(c, m, s), Rest(c, m, s), Leaves(c, m, s))
<1> DEFINE T == Takes(c, m, s)
           L == Leaves(c, m, s)
           R == Rest(c, m, s)
<1>1. T \in Seq(Types) /\ L \in Seq(Types) /\ IsSeq(T) /\ IsSeq(L) /\ Len(T) \in Nat
    BY TakesIs DEF IsSeq
<1>2. /\ s.stack \in Seq(Types) /\ IsSeq(s.stack) /\ Len(s.stack) \in Nat
      /\ \A i \in 1 .. Len(s.stack) : s.stack[i] \in Types
    BY StackFacts
<1>3. Len(s.stack) >= Len(T) /\ R \o T = s.stack
    BY DEF Permitted
<1>4. Len(T) \in 0 .. Len(s.stack) /\ Len(s.stack) - Len(T) \in 0 .. Len(s.stack)
    BY <1>1, <1>2, <1>3
<1>5. IsStart(R, s.stack, Len(s.stack) - Len(T))
    BY <1>2, <1>4, SeqPrefix DEF Rest
<1>6. IsSeq(R) /\ Len(R) = Len(s.stack) - Len(T) /\ \A i \in 1 .. Len(R) : R[i] = s.stack[i]
    BY <1>5 DEF IsStart
<1>7. R \in Seq(Types)
    <2>1. Len(R) \in Nat /\ R = [i \in 1 .. Len(R) |-> R[i]]
        BY <1>6, SeqFacts
    <2>2. \A i \in 1 .. Len(R) : R[i] \in Types
        BY <1>1, <1>2, <1>6
    <2> QED
        BY <2>1, <2>2, IsASeq
<1>8. IsConcat(R \o T, R, T)
    BY <1>1, <1>6, SeqConcat
<1>9. \A n \in 1 .. Len(T) : s.stack[Len(s.stack) - Len(T) + n] = T[n]
    BY <1>3, <1>6, <1>8 DEF IsConcat
<1>10. IsConcat(R \o L, R, L)
    BY <1>1, <1>6, SeqConcat
<1>11. R \o L \in Seq(Types)
    BY <1>1, <1>7, ConcatProperties
<1> QED
    BY <1>4, <1>5, <1>9, <1>10, <1>11

\* A frame gives up what its instruction takes.
LEMMA TakenFits ==
    ASSUME NEW c, WellFormed(c), NEW D,
           NEW f, NEW s, FrameFits(c, D, f, s, s.stack),
           NEW m, m = MethodOf(c, f), Permitted(c, m, s),
           NEW g, IsFrame(g), g.method = f.method, g.pc = f.pc, g.locals = f.locals,
           g.stack = SubSeq(f.stack, 1, Len(f.stack) - Len(Takes(c, m, s)))
    PROVE  FrameFits(c, D, g, s, Rest(c, m, s))
<1> DEFINE T == Takes(c, m, s)
           R == Rest(c, m, s)
<1>1. /\ f.method \in DOMAIN c.methods
      /\ s \in TypeStates(m) /\ s \in Typing(c, m) /\ f.pc = s.pc
      /\ ValuesFit(D, f.stack, s.stack)
      /\ LocalsFit(D, f.locals, s.locals, m.max_locals)
    BY DEF FrameFits
<1>2. /\ IsSeq(f.stack) /\ Len(f.stack) = Len(s.stack) /\ Len(s.stack) \in Nat
      /\ \A n \in 1 .. Len(s.stack) : Typed(D, f.stack[n], s.stack[n])
    BY <1>1, StackFacts DEF ValuesFit
<1>3. Len(T) \in 0 .. Len(s.stack) /\ IsStart(R, s.stack, Len(s.stack) - Len(T))
    BY <1>1, RestIs
<1>4. IsStart(g.stack, f.stack, Len(f.stack) - Len(T))
    <2>1. Len(f.stack) - Len(T) \in 0 .. Len(f.stack)
        BY <1>2, <1>3
    <2> QED
        BY <1>2, <2>1, SeqPrefix
<1>5. /\ IsSeq(g.stack) /\ Len(g.stack) = Len(s.stack) - Len(T)
      /\ \A n \in 1 .. Len(g.stack) : g.stack[n] = f.stack[n]
    BY <1>2, <1>4 DEF IsStart
<1>6. Len(R) = Len(s.stack) - Len(T) /\ \A n \in 1 .. Len(R) : R[n] = s.stack[n]
    BY <1>3 DEF IsStart
<1>7. Len(R) \in Nat /\ Len(R) <= Len(s.stack)
    BY <1>2, <1>3, <1>6
<1>8. \A n \in 1 .. Len(R) : Typed(D, g.stack[n], R[n])
    <2>1. TAKE n \in 1 .. Len(R)
    <2>2. n \in 1 .. Len(s.stack) /\ n \in 1 .. Len(g.stack)
        BY <1>2, <1>5, <1>6, <1>7
    <2> QED
        BY <1>2, <1>5, <1>6, <2>2
<1>9. ValuesFit(D, g.stack, R)
    BY <1>5, <1>6, <1>8 DEF ValuesFit
<1>10. MethodOf(c, g) = m
    BY DEF MethodOf
<1> HIDE DEF R
<1> QED
    BY <1>1, <1>9, <1>10 DEF FrameFits, R

\* It gets what the instruction leaves, and goes on at one of its targets: from a type
\* state of its method to another.
LEMMA ResumeRuns ==
    ASSUME NEW c, WellFormed(c), NEW D, NEW E, D \subseteq E,
           NEW f, NEW s, NEW m, m = MethodOf(c, f), FrameFits(c, D, f, s, Rest(c, m, s)),
           Permitted(c, m, s), Successors(c, m, s) \subseteq Typing(c, m),
           NEW pushed, ValuesFit(E, pushed, Leaves(c, m, s)),
           NEW pc \in Targets(m, s),
           NEW locals, LocalsFit(E, locals, LocalsAfter(m, s), m.max_locals),
           NEW g, IsFrame(g), g.method = f.method, g.pc = pc, g.locals = locals,
           g.stack = f.stack \o pushed
    PROVE  Running(c, E, g)
<1> DEFINE L == Leaves(c, m, s)
           R == Rest(c, m, s)
           t == [pc |-> pc, stack |-> R \o L, locals |-> LocalsAfter(m, s)]
<1>1. /\ IsFrame(f)
      /\ f.method \in DOMAIN c.methods
      /\ s \in TypeStates(m) /\ f.pc = s.pc /\ ValuesFit(D, f.stack, R)
    BY DEF FrameFits
<1>2. t \in Typing(c, m)
    BY DEF Successors
<1>3. t \in TypeStates(m)
    <2>1. R \o L \in Seq({"I", "R"})
        BY <1>1, RestIs DEF Types
    <2>2. pc \in 0 .. Len(m.code) - 1
        BY DEF Permitted
    <2>3. LocalsAfter(m, s) \in [0 .. m.max_locals - 1 -> {"I", "R", "-"}]
        BY <1>1, StackFacts DEF LocalsAfter
    <2> QED
        BY <2>1, <2>2, <2>3 DEF TypeStates
<1>4. IsConcat(R \o L, R, L)
    BY <1>1, RestIs
<1>5. PICK low : low = f.stack /\ g.stack = low \o pushed
    OBVIOUS
<1>6. IsSeq(low) /\ Len(low) = Len(R) /\ Len(R) \in Nat
      /\ \A n \in 1 .. Len(R) : Typed(D, low[n], R[n])
    <2>1. IsSeq(low) /\ Len(low) = Len(R) /\ \A n \in 1 .. Len(R) : Typed(D, low[n], R[n])
        BY <1>1, <1>5 DEF ValuesFit
    <2>2. Len(low) \in Nat
        BY <2>1, SeqFacts
    <2> QED
        BY <2>1, <2>2
<1>7. IsSeq(pushed) /\ Len(pushed) = Len(L) /\ Len(L) \in Nat
       /\ \A n \in 1 .. Len(L) : Typed(E, pushed[n], L[n])
    <2>1. Len(L) \in Nat
        BY <1>1, TakesIs
    <2> QED
        BY <2>1 DEF ValuesFit
<1>8. ValuesFit(E, g.stack, R \o L)
    <2>1. IsConcat(g.stack, low, pushed)
        BY <1>5, <1>6, <1>7, SeqConcat
    <2>2. IsSeq(g.stack) /\ Len(g.stack) = Len(R) + Len(L) /\ Len(R \o L) = Len(R) + Len(L)
        BY <1>4, <1>6, <1>7, <2>1 DEF IsConcat
    <2>3. ASSUME NEW n \in 1 .. Len(R) + Len(L)
          PROVE  Typed(E, g.stack[n], (R \o L)[n])
        <3>1. CASE n <= Len(R)
            <4>1. n \in 1 .. Len(R)
                BY <1>6, <1>7, <3>1
            <4>2. g.stack[n] = low[n] /\ (R \o L)[n] = R[n]
                BY <1>4, <1>6, <2>1, <4>1 DEF IsConcat
            <4>3. Typed(D, low[n], R[n])
                BY <1>6, <4>1
            <4> QED
                BY <4>2, <4>3 DEF Typed
        <3>2. CASE ~ (n <= Len(R))
            <4>1. PICK k \in 1 .. Len(L) : n = Len(R) + k
                <5>1. n - Len(R) \in 1 .. Len(L) /\ n = Len(R) + (n - Len(R))
                    BY <1>6, <1>7, <3>2
                <5> QED
                    BY <5>1
            <4>2. g.stack[n] = pushed[k] /\ (R \o L)[n] = L[k]
                BY <1>4, <1>6, <1>7, <2>1, <4>1 DEF IsConcat
            <4> QED
                BY <1>7, <4>2
        <3> QED
            BY <3>1, <3>2
    <2> QED
        BY <2>2, <2>3 DEF ValuesFit
<1>9. FrameFits(c, E, g, t, t.stack)
    <2>1. MethodOf(c, g) = m
        BY DEF MethodOf
    <2>2. t.pc = pc /\ t.stack = R \o L /\ t.locals = LocalsAfter(m, s)
        OBVIOUS
    <2> HIDE DEF t, R, L
    <2> QED
        BY <1>1, <1>2, <1>3, <1>8, <2>1, <2>2 DEF FrameFits
<1> QED
    BY <1>9 DEF Running

\* Both: an instruction that stays in its frame.
LEMMA ContinueRuns ==
    ASSUME NEW c, WellFormed(c), NEW D, NEW E, D \subseteq E,
           NEW f, NEW s, FrameFits(c, D, f, s, s.stack),
           NEW m, m = MethodOf(c, f), Permitted(c, m, s), Successors(c, m, s) \subseteq Typing(c, m),
           NEW pushed, ValuesFit(E, pushed, Leaves(c, m, s)),
           NEW pc \in Targets(m, s),
           NEW locals, LocalsFit(E, locals, LocalsAfter(m, s), m.max_locals),
           NEW g, IsFrame(g), g.method = f.method, g.pc = pc, g.locals = locals,
           g.stack = SubSeq(f.stack, 1, Len(f.stack) - Len(Takes(c, m, s))) \o pushed
    PROVE  Running(c, E, g)
<1>1. PICK stack : stack = SubSeq(f.stack, 1, Len(f.stack) - Len(Takes(c, m, s)))
    OBVIOUS
<1>2. PICK h : h = [method |-> f.method, pc |-> f.pc, stack |-> stack, locals |-> f.locals]
    OBVIOUS
<1>3. /\ IsFrame(h) /\ h.method = f.method /\ h.pc = f.pc /\ h.locals = f.locals
      /\ h.stack = stack
    BY <1>2 DEF IsFrame
<1>4. FrameFits(c, D, h, s, Rest(c, m, s))
    BY <1>1, <1>3, TakenFits
<1>5. m = MethodOf(c, h) /\ g.method = h.method /\ g.stack = h.stack \o pushed
    BY <1>1, <1>3 DEF MethodOf
<1> QED
    BY <1>4, <1>5, ResumeRuns

------------------------------------------------------------------------------
(* The running frame, in type state s *)

InState(s) ==
    /\ status = "running"
    /\ WellFormed(class)
    /\ SafeFrames(class, DOMAIN heap, frames)
    /\ FrameFits(class, DOMAIN heap, Frame, s, s.stack)
    /\ Opcode(Method, s) \in Known =>
          Permitted(class, Method, s) /\ Successors(class, Method, s) \subseteq Typing(class, Method)

LEMMA SomeState ==
    ASSUME SafeInv, status = "running"
    PROVE  \E s : InState(s)
<1>1. class \in Classes /\ SafeFrames(class, DOMAIN heap, frames)
    BY DEF SafeInv
<1>2. WellFormed(class) /\ Verified(class)
    BY <1>1, JvmTypesAssumption
<1>3. PICK s : FrameFits(class, DOMAIN heap, Frame, s, s.stack)
    BY <1>1 DEF SafeFrames, Running, Frame, Top
<1>4. Frame.method \in DOMAIN class.methods /\ s \in Typing(class, Method)
    BY <1>3 DEF FrameFits, Method, MethodOf
<1>5. Opcode(Method, s) \in Known =>
          Permitted(class, Method, s) /\ Successors(class, Method, s) \subseteq Typing(class, Method)
    BY <1>2, <1>4 DEF Verified, Method
<1> QED
    BY <1>1, <1>2, <1>3, <1>5 DEF InState

LEMMA StateFacts ==
    ASSUME NEW s, InState(s)
    PROVE  /\ Frame.method \in DOMAIN class.methods
           /\ s \in TypeStates(Method) /\ Frame.pc = s.pc
           /\ CodeFormed(Method)
           /\ InCode /\ Op = Opcode(Method, s)
           /\ Top \in Nat /\ Top >= 1
<1>1. /\ Frame.method \in DOMAIN class.methods
      /\ s \in TypeStates(Method) /\ Frame.pc = s.pc
    BY DEF InState, FrameFits, MethodOf, Method
<1>2. CodeFormed(Method)
    BY <1>1, MethodFacts DEF InState, Method
<1>3. s.pc \in 0 .. Len(Method.code) - 1 /\ Len(Method.code) \in Nat
    BY <1>1, <1>2, StackFacts DEF CodeFormed
<1>4. InCode
    BY <1>1, <1>3 DEF InCode
<1>5. Op = Opcode(Method, s)
    BY <1>1, <1>3 DEF Op, Byte, Opcode
<1>6. Top \in Nat /\ Top >= 1
    BY SeqFacts DEF InState, SafeFrames, Top
<1> QED
    BY <1>1, <1>2, <1>4, <1>5, <1>6

LEMMA OperandsAre ==
    ASSUME NEW s, InState(s), Permitted(class, Method, s), NEW i \in 1 .. Length(Op) - 1
    PROVE  Arg(i) = Operand(Method, s, i) /\ Arg(i) \in 0 .. Pow(ByteBits) - 1
<1>1. /\ s.pc \in Nat /\ Frame.pc = s.pc /\ Op = Opcode(Method, s) /\ CodeFormed(Method)
      /\ s.pc + 1 \in 1 .. Len(Method.code)
    BY StateFacts, StackFacts DEF CodeFormed
<1>2. s.pc + Length(Op) <= Len(Method.code) /\ Op \in Known
    BY <1>1 DEF Permitted
<1>3. Length(Op) \in {1, 2, 3}
    BY DEF Length
<1>4. Len(Method.code) \in Nat /\ DOMAIN Method.code = 1 .. Len(Method.code)
    BY <1>1 DEF CodeFormed
<1>5. s.pc + i < Len(Method.code) /\ s.pc + 1 + i \in DOMAIN Method.code
      /\ s.pc + 1 \in DOMAIN Method.code
      /\ s.pc + 1 + i \in (s.pc + 1) + 1 .. (s.pc + 1) + Length(Op) - 1
    BY <1>1, <1>2, <1>3, <1>4
<1>6. Byte(i) = Method.code[s.pc + 1 + i]
    <2>1. Frame.pc + i + 1 = s.pc + 1 + i
        BY <1>1, <1>3
    <2> QED
        BY <1>1, <1>5, <2>1 DEF Byte
<1>7. Method.code[s.pc + 1 + i][1] = "byte"
    BY <1>1, <1>2, <1>5 DEF CodeFormed, Opcode
<1>8. Method.code[s.pc + 1 + i][2] \in 0 .. Pow(ByteBits) - 1
    BY <1>1, <1>5, <1>7 DEF CodeFormed
<1> QED
    BY <1>6, <1>8 DEF Arg, Operand

LEMMA CarriedIs ==
    ASSUME NEW s, InState(s)
    PROVE  /\ Arg(0) = Operand(Method, s, 0)
           /\ Op = "iconst" => Arg(0) \in Ints
           /\ Op \in {"iload_n", "aload_n", "istore_n", "astore_n"} => Arg(0) \in Nat
<1>1. /\ s.pc \in Nat /\ Frame.pc = s.pc /\ Op = Opcode(Method, s) /\ CodeFormed(Method)
      /\ s.pc + 1 \in DOMAIN Method.code /\ s.pc < Len(Method.code)
    BY StateFacts, StackFacts DEF CodeFormed
<1>2. Byte(0) = Method.code[s.pc + 1]
    BY <1>1 DEF Byte
<1>3. Arg(0) = Method.code[s.pc + 1][2] /\ Arg(0) = Operand(Method, s, 0)
    BY <1>1, <1>2 DEF Arg, Operand
<1> QED
    BY <1>1, <1>3 DEF CodeFormed, Opcode

LEMMA CalleeIs ==
    ASSUME NEW s, InState(s), Permitted(class, Method, s), Op = "invokestatic"
    PROVE  /\ PoolIndex \in DOMAIN class.pool
           /\ Callee \in DOMAIN class.methods /\ Callee # 0
           /\ Named(class, Method, s) = {Callee}
           /\ CalledBy(class, Method, s) = class.methods[Callee]
           /\ Parameters = Len(class.methods[Callee].params)
<1>1. Op = Opcode(Method, s) /\ WellFormed(class)
    BY StateFacts DEF InState
<1>2. Length(Op) = 3
    BY DEF Length, If, Cmp
<1>3. PoolIndex = Wide(Method, s)
    <2>1. Arg(1) = Operand(Method, s, 1) /\ Arg(2) = Operand(Method, s, 2)
        BY <1>2, OperandsAre
    <2> QED
        BY <2>1 DEF PoolIndex, Wide
<1>4. Named(class, Method, s) # {}
    BY <1>1 DEF Permitted
<1>5. PICK i \in DOMAIN class.methods : /\ Named(class, Method, s) = {i}
                                        /\ CalledBy(class, Method, s) = class.methods[i]
    BY <1>1, <1>4, NamedIsOne
<1>6. Wide(Method, s) \in DOMAIN class.pool
    BY <1>4 DEF Named
<1> DEFINE k == Wide(Method, s)
           found == {m \in DOMAIN class.methods : /\ class.methods[m].name = class.pool[k].name
                                                  /\ class.methods[m].descriptor = class.pool[k].descriptor}
<1>7. class.pool[k].tag = "Methodref" /\ found = {i}
    <2>1. i \in Named(class, Method, s)
        BY <1>5
    <2>2. class.pool[k].tag = "Methodref"
        BY <2>1 DEF Named
    <2>3. Named(class, Method, s) = found
        BY <1>6, <2>2 DEF Named
    <2> QED
        BY <1>5, <2>2, <2>3
<1>8. i \in Nat /\ i # 0
    BY <1>1 DEF WellFormed
<1>9. Callee = i
    <2>1. Callee = find_method(class.pool[k].name, class.pool[k].descriptor)
        BY <1>3 DEF Callee
    <2>2. Callee = IF found = {} THEN 0 ELSE CHOOSE m \in found : \A n \in found : m <= n
        BY <2>1 DEF find_method
    <2>3. Callee = CHOOSE m \in {i} : \A n \in {i} : m <= n
        <3> HIDE DEF found
        <3> QED
            BY <1>7, <2>2
    <2>4. i \in {i} /\ \A n \in {i} : i <= n
        BY <1>8
    <2> QED
        BY <2>3, <2>4
<1>10. i \in found
    <2> HIDE DEF found
    <2> QED
        BY <1>7
<1>11. get_number_of_parameters(class.methods[i].descriptor) = Len(class.methods[i].params)
    BY <1>1, <1>6, <1>7, <1>10 DEF WellFormed
<1> QED
    BY <1>3, <1>5, <1>6, <1>8, <1>9, <1>11 DEF Parameters

LEMMA VariableIs ==
    ASSUME NEW s, InState(s), Permitted(class, Method, s), Op \in Loads \cup Stores \cup {"iinc"}
    PROVE  Local = Variable(Method, s) /\ Local \in 0 .. Method.max_locals - 1
<1>1. Op = Opcode(Method, s) /\ WellFormed(class) /\ Frame.method \in DOMAIN class.methods
    BY StateFacts DEF InState
<1>2. Local = Variable(Method, s) /\ Local \in Nat
    <2>1. CASE Op \in {"iload", "istore", "aload", "astore", "iinc"}
        <3>1. 1 \in 1 .. Length(Op) - 1
            BY <2>1 DEF Length, If, Cmp
        <3>2. Arg(1) = Operand(Method, s, 1) /\ Arg(1) \in Nat
            <4>1. Pow(ByteBits) \in Nat
                BY PowIs, JvmAssumption
            <4> QED
                BY <3>1, <4>1, OperandsAre
        <3> QED
            BY <1>1, <2>1, <3>2 DEF Local, Variable
    <2>2. CASE Op \notin {"iload", "istore", "aload", "astore", "iinc"}
        <3>1. Op \in {"iload_n", "aload_n", "istore_n", "astore_n"}
            BY <2>2 DEF Loads, Stores
        <3> QED
            BY <1>1, <2>2, <3>1, CarriedIs DEF Local, Variable
    <2> QED
        BY <2>1, <2>2
<1>3. Local < Method.max_locals
    BY <1>1, <1>2 DEF Permitted
<1>4. Method.max_locals \in Nat
    BY <1>1, MethodFacts DEF Method
<1> QED
    BY <1>2, <1>3, <1>4

LEMMA FromTop ==
    ASSUME NEW len \in Nat, NEW size \in 0 .. len, NEW n \in 1 .. size
    PROVE  /\ size - n + 1 \in 1 .. size
           /\ len - size + (size - n + 1) = len - n + 1
           /\ len - n + 1 \in 1 .. len
<1>1. n \in Int /\ size \in Int /\ n >= 1 /\ n <= size /\ size <= len
    OBVIOUS
<1>2. size - n + 1 \in Int /\ size - n + 1 >= 1 /\ size - n + 1 <= size
    BY <1>1
<1>3. len - n + 1 \in Int /\ len - n + 1 >= 1 /\ len - n + 1 <= len
    BY <1>1
<1>4. len - size + (size - n + 1) = len - n + 1
    BY <1>1
<1>5. size - n + 1 \in 1 .. size
    BY <1>1, <1>2
<1>6. len - n + 1 \in 1 .. len
    BY <1>1, <1>3
<1> QED
    BY <1>4, <1>5, <1>6

LEMMA ItemTypes ==
    ASSUME NEW s, InState(s), Permitted(class, Method, s)
    PROVE  /\ \A n \in 1 .. Len(Takes(class, Method, s)) :
                 Typed(DOMAIN heap, Item(n),
                       Takes(class, Method, s)[Len(Takes(class, Method, s)) - n + 1])
           /\ IsSeq(Stack) /\ Len(Stack) = Len(s.stack) /\ Len(Stack) \in Nat
           /\ Len(Takes(class, Method, s)) \in 0 .. Len(Stack)
<1>1. s \in TypeStates(Method) /\ WellFormed(class)
    BY StateFacts DEF InState
<1>2. /\ IsSeq(Stack) /\ Len(Stack) = Len(s.stack) /\ Len(s.stack) \in Nat
      /\ \A n \in 1 .. Len(s.stack) : Typed(DOMAIN heap, Stack[n], s.stack[n])
    BY <1>1, StackFacts DEF InState, FrameFits, ValuesFit, Stack
<1>3. PICK T : T = Takes(class, Method, s)
    OBVIOUS
<1>4. /\ Len(T) \in 0 .. Len(s.stack)
      /\ \A n \in 1 .. Len(T) : s.stack[Len(s.stack) - Len(T) + n] = T[n]
    BY <1>1, <1>3, RestIs
<1>5. ASSUME NEW n \in 1 .. Len(T)
      PROVE  Typed(DOMAIN heap, Item(n), T[Len(T) - n + 1])
    <2>1. PICK k : k = Len(T) - n + 1
        OBVIOUS
    <2>2. /\ k \in 1 .. Len(T) /\ Len(s.stack) - Len(T) + k = Len(s.stack) - n + 1
          /\ Len(s.stack) - n + 1 \in 1 .. Len(s.stack)
        BY <1>2, <1>4, <2>1, FromTop
    <2>3. s.stack[Len(s.stack) - n + 1] = T[k]
        BY <1>4, <2>2
    <2>4. Typed(DOMAIN heap, Stack[Len(s.stack) - n + 1], T[k])
        BY <1>2, <2>2, <2>3
    <2> QED
        BY <1>2, <2>1, <2>4 DEF Item
<1> QED
    BY <1>2, <1>3, <1>4, <1>5

\* What the interpreter pops and pushes is what the types say.
LEMMA PopsIs ==
    ASSUME NEW s, InState(s), Permitted(class, Method, s)
    PROVE  Pops = Len(Takes(class, Method, s)) /\ Pushes <= Len(Leaves(class, Method, s))
<1> DEFINE T == Takes(class, Method, s)
           L == Leaves(class, Method, s)
<1>1. Op = Opcode(Method, s)
    BY StateFacts
<1>2. Pops = Len(T)
    <2>1. CASE Op \in Binary \cup Cmp \cup {"iaload"}
        <3>1. Pops = 2
            BY <2>1 DEF Pops, Binary, Cmp, If, Stores
        <3>2. T = <<"I", "I">> \/ T = <<"R", "I">>
            BY <1>1, <2>1 DEF Takes, Binary, Cmp, If
        <3> QED
            BY <3>1, <3>2
    <2>2. CASE Op \in If \cup Stores \cup {"ineg", "invokevirtual", "newarray", "arraylength",
                                           "ireturn", "areturn"}
        <3>1. Pops = 1
            BY <2>2 DEF Pops, Binary, Cmp, If, Stores
        <3>2. T = <<"I">> \/ T = <<"R">>
            BY <1>1, <2>2 DEF Takes, Binary, Cmp, If, Stores
        <3> QED
            BY <3>1, <3>2
    <2>3. CASE Op = "dup"
        <3>1. Pops = 1
            BY <2>3 DEF Pops, Binary, Cmp, If, Stores
        <3>2. T = SubSeq(s.stack, Len(s.stack), Len(s.stack))
            BY <1>1, <2>3 DEF Takes, Binary, Cmp, If
        <3>3. s.stack # <<>> /\ s.stack \in Seq(Types) /\ Len(s.stack) \in Nat
            BY <1>1, <2>3, StateFacts, StackFacts DEF Permitted
        <3>4. Len(s.stack) \in 1 .. Len(s.stack) + 1 /\ Len(s.stack) \in Len(s.stack) - 1 .. Len(s.stack)
            BY <3>3, EmptySeq
        <3>5. Len(T) = Len(s.stack) - Len(s.stack) + 1
            BY <3>2, <3>3, <3>4, SubSeqProperties
        <3> QED
            BY <3>1, <3>3, <3>5
    <2>4. CASE Op = "iastore"
        <3>1. Pops = 3
            BY <2>4 DEF Pops, Binary, Cmp, If, Stores
        <3>2. T = <<"R", "I", "I">>
            BY <1>1, <2>4 DEF Takes, Binary, Cmp, If
        <3> QED
            BY <3>1, <3>2
    <2>5. CASE Op = "invokestatic"
        <3>1. Pops = Parameters
            BY <2>5 DEF Pops, Binary, Cmp, If, Stores
        <3>2. T = CalledBy(class, Method, s).params
            BY <1>1, <2>5 DEF Takes, Binary, Cmp, If
        <3> QED
            BY <2>5, <3>1, <3>2, CalleeIs
    <2>6. CASE Op \notin Binary \cup Cmp \cup If \cup Stores \cup
                         {"iaload", "ineg", "invokevirtual", "newarray", "arraylength", "ireturn",
                          "areturn", "dup", "iastore", "invokestatic"}
        <3>1. Pops = 0
            BY <2>6 DEF Pops
        <3>2. T = <<>>
            BY <1>1, <2>6 DEF Takes, Stores
        <3> QED
            BY <3>1, <3>2
    <2> QED
        BY <2>1, <2>2, <2>3, <2>4, <2>5, <2>6
<1>3. Pushes <= Len(L)
    <2>1. CASE Op \in Binary \cup Loads \cup {"iconst", "bipush", "sipush", "ldc", "ineg",
                                              "newarray", "arraylength", "iaload"}
        <3>1. Pushes = 1
            BY <2>1 DEF Pushes, Binary, Loads
        <3>2. L = <<"I">> \/ L = <<"R">>
            BY <1>1, <2>1 DEF Leaves, Binary, Loads
        <3> QED
            BY <3>1, <3>2
    <2>2. CASE Op = "dup"
        <3>1. Pushes = 2
            BY <2>2 DEF Pushes, Binary, Loads
        <3>2. PICK t : t = s.stack[Len(s.stack)]
            OBVIOUS
        <3>3. L = <<t, t>>
            BY <1>1, <2>2, <3>2 DEF Leaves, Binary
        <3> QED
            BY <3>1, <3>3
    <2>3. CASE Op \notin Binary \cup Loads \cup {"iconst", "bipush", "sipush", "ldc", "ineg",
                                                 "newarray", "arraylength", "iaload", "dup"}
        <3>1. Pushes = 0
            BY <2>3 DEF Pushes
        <3>2. Len(L) \in Nat
            BY TakesIs, StateFacts DEF InState
        <3> QED
            BY <3>1, <3>2
    <2> QED
        BY <2>1, <2>2, <2>3
<1> QED
    BY <1>2, <1>3

LEMMA SoundIs ==
    ASSUME NEW s, InState(s), Permitted(class, Method, s)
    PROVE  Sound
<1> DEFINE T == Takes(class, Method, s)
           L == Leaves(class, Method, s)
           R == Rest(class, Method, s)
<1>1. Op = Opcode(Method, s) /\ s \in TypeStates(Method) /\ WellFormed(class)
    BY StateFacts DEF InState
<1>2. Op # "byte"
    BY <1>1 DEF Permitted
<1>3. Op = "invokestatic" => PoolIndex \in DOMAIN class.pool /\ Callee # 0
    BY CalleeIs
<1>4. Op = "ldc" => Arg(1) \in DOMAIN class.pool
    <2> SUFFICES ASSUME Op = "ldc" PROVE Arg(1) \in DOMAIN class.pool
        OBVIOUS
    <2>1. Length(Op) = 2
        BY DEF Length
    <2>2. Arg(1) = Operand(Method, s, 1)
        BY <2>1, OperandsAre
    <2> QED
        BY <1>1, <2>2 DEF Permitted
<1>5. Op \in Loads \cup Stores \cup {"iinc"} => Local < Method.max_locals
    BY <1>1, VariableIs DEF Permitted
<1>6. Pops = Len(T) /\ Pushes <= Len(L)
    BY PopsIs
<1>7. /\ \A n \in 1 .. Len(T) : Typed(DOMAIN heap, Item(n), T[Len(T) - n + 1])
      /\ Len(Stack) = Len(s.stack) /\ Len(Stack) \in Nat /\ Len(T) \in 0 .. Len(Stack)
    BY ItemTypes
<1>8. Len(Stack) >= Pops
    BY <1>6, <1>7
<1>9. Len(Stack) - Pops + Pushes <= Method.max_stack
    <2>1. Len(R \o L) = Len(R) + Len(L) /\ Len(R) = Len(s.stack) - Len(T)
        BY <1>1, RestIs DEF IsConcat, IsStart
    <2>2. Len(R \o L) <= Method.max_stack
        BY <1>1 DEF Permitted
    <2>3. Len(L) \in Nat /\ Method.max_stack \in Nat
        BY <1>1, TakesIs, MethodFacts, StateFacts DEF Method
    <2>4. Pushes \in Nat
        BY DEF Pushes
    <2> QED
        BY <1>6, <1>7, <2>1, <2>2, <2>3, <2>4
<1>10. Op = "arraylength" => Item(1) \in DOMAIN heap
    <2> SUFFICES ASSUME Op = "arraylength" PROVE Item(1) \in DOMAIN heap
        OBVIOUS
    <2>1. T = <<"R">>
        BY <1>1 DEF Takes, Binary, Cmp, If
    <2>2. Len(T) = 1 /\ T[1] = "R"
        BY <2>1
    <2>3. Typed(DOMAIN heap, Item(1), T[Len(T) - 1 + 1])
        BY <1>7, <2>2
    <2> QED
        BY <2>2, <2>3 DEF Typed
<1>11. Op = "iaload" => Item(2) \in DOMAIN heap
    <2> SUFFICES ASSUME Op = "iaload" PROVE Item(2) \in DOMAIN heap
        OBVIOUS
    <2>1. T = <<"R", "I">>
        BY <1>1 DEF Takes, Binary, Cmp, If
    <2>2. Len(T) = 2 /\ T[1] = "R"
        BY <2>1
    <2>3. Typed(DOMAIN heap, Item(2), T[Len(T) - 2 + 1])
        BY <1>7, <2>2
    <2> QED
        BY <2>2, <2>3 DEF Typed
<1>12. Op = "iastore" => Item(3) \in DOMAIN heap
    <2> SUFFICES ASSUME Op = "iastore" PROVE Item(3) \in DOMAIN heap
        OBVIOUS
    <2>1. T = <<"R", "I", "I">>
        BY <1>1 DEF Takes, Binary, Cmp, If
    <2>2. Len(T) = 3 /\ T[1] = "R"
        BY <2>1
    <2>3. Typed(DOMAIN heap, Item(3), T[Len(T) - 3 + 1])
        BY <1>7, <2>2
    <2> QED
        BY <2>2, <2>3 DEF Typed
<1> QED
    BY <1>2, <1>3, <1>4, <1>5, <1>8, <1>9, <1>10, <1>11, <1>12 DEF Sound

\* s is the state of a running frame whose instruction the discipline permits.
Goes(s) == InState(s) /\ Permitted(class, Method, s)

LEMMA StateOf ==
    ASSUME SafeInv, status = "running", Op \in Known
    PROVE  \E s : Goes(s)
<1>1. PICK s : InState(s)
    BY SomeState
<1>2. Op = Opcode(Method, s)
    BY <1>1, StateFacts
<1> QED
    BY <1>1, <1>2 DEF InState, Goes

LEMMA GoesFacts ==
    ASSUME NEW s, Goes(s)
    PROVE  /\ Op = Opcode(Method, s) /\ Frame.pc = s.pc
           /\ s \in TypeStates(Method) /\ CodeFormed(Method)
           /\ WellFormed(class) /\ Frame.method \in DOMAIN class.methods
           /\ IsFrame(Frame)
           /\ LocalsFit(DOMAIN heap, Locals, s.locals, Method.max_locals)
           /\ Method.max_locals \in Nat /\ Method.max_stack \in Nat
           /\ Successors(class, Method, s) \subseteq Typing(class, Method)
           /\ IsSeq(frames) /\ Top \in Nat /\ Top >= 1
<1>1. Op = Opcode(Method, s) /\ Frame.pc = s.pc /\ s \in TypeStates(Method) /\ CodeFormed(Method)
      /\ Frame.method \in DOMAIN class.methods /\ Top \in Nat /\ Top >= 1
    BY StateFacts DEF Goes
<1>2. WellFormed(class) /\ IsFrame(Frame)
      /\ LocalsFit(DOMAIN heap, Locals, s.locals, Method.max_locals)
    BY DEF Goes, InState, FrameFits, MethodOf, Method, Locals
<1>3. Method.max_locals \in Nat /\ Method.max_stack \in Nat
    BY <1>1, <1>2, MethodFacts DEF Method
<1>4. Successors(class, Method, s) \subseteq Typing(class, Method)
    BY <1>1 DEF Goes, InState, Permitted
<1>5. IsSeq(frames)
    BY DEF Goes, InState, SafeFrames
<1> QED
    BY <1>1, <1>2, <1>3, <1>4, <1>5

LEMMA ContinueSafe ==
    ASSUME NEW s, Goes(s), NEW E, DOMAIN heap \subseteq E,
           NEW pushed, ValuesFit(E, pushed, Leaves(class, Method, s)),
           NEW pc \in Targets(Method, s),
           NEW locals, LocalsFit(E, locals, LocalsAfter(Method, s), Method.max_locals),
           Continue(pushed, pc, locals)
    PROVE  SafeFrames(class, E, frames')
<1>1. PICK g : g = [Frame EXCEPT !.stack = SubSeq(Stack, 1, Len(Stack) - Pops) \o pushed,
                                 !.pc = pc, !.locals = locals]
    OBVIOUS
<1>2. IsUpdate(frames', frames, Top, g)
    BY <1>1, GoesFacts, ContinueFrames
<1>3. /\ g.method = Frame.method /\ g.pc = pc /\ g.locals = locals /\ IsFrame(g)
      /\ g.stack = SubSeq(Stack, 1, Len(Stack) - Pops) \o pushed
    <2>1. PICK f, stack : /\ f = Frame /\ IsFrame(f)
                          /\ stack = SubSeq(Stack, 1, Len(Stack) - Pops) \o pushed
        BY GoesFacts
    <2>2. g = [f EXCEPT !.stack = stack, !.pc = pc, !.locals = locals]
        BY <1>1, <2>1
    <2>3. g = [method |-> f.method, pc |-> pc, stack |-> stack, locals |-> locals]
        BY <2>1, <2>2 DEF IsFrame
    <2> QED
        BY <2>1, <2>3 DEF IsFrame
<1>4. Pops = Len(Takes(class, Method, s))
    BY PopsIs DEF Goes
<1>5. g.stack = SubSeq(Frame.stack, 1, Len(Frame.stack) - Len(Takes(class, Method, s))) \o pushed
    BY <1>3, <1>4 DEF Stack
<1>6. FrameFits(class, DOMAIN heap, Frame, s, s.stack) /\ SafeFrames(class, DOMAIN heap, frames)
    BY DEF Goes, InState
<1>7. Method = MethodOf(class, Frame) /\ Frame = frames[Top] /\ Top = Len(frames)
    BY DEF Method, MethodOf, Frame, Top
<1>8. /\ WellFormed(class) /\ Permitted(class, Method, s)
      /\ Successors(class, Method, s) \subseteq Typing(class, Method)
    BY GoesFacts DEF Goes
<1>9. Running(class, E, g)
    BY <1>3, <1>5, <1>6, <1>7, <1>8, ContinueRuns
<1> QED
    BY <1>2, <1>3, <1>6, <1>7, <1>9, TopGoesOn

\* The instructions that leave the local variables alone.
LEMMA ThenSafe ==
    ASSUME NEW s, Goes(s), NEW E, DOMAIN heap \subseteq E,
           NEW pushed, ValuesFit(E, pushed, Leaves(class, Method, s)),
           NEW length, s.pc + length \in Targets(Method, s),
           Op \notin {"istore", "istore_n", "astore", "astore_n"},
           Then(pushed, length)
    PROVE  SafeFrames(class, E, frames')
<1>1. Op = Opcode(Method, s) /\ Frame.pc = s.pc
    BY GoesFacts
<1>2. LocalsAfter(Method, s) = s.locals
    BY <1>1 DEF LocalsAfter
<1>3. LocalsFit(E, Locals, LocalsAfter(Method, s), Method.max_locals)
    BY <1>2, GoesFacts DEF LocalsFit, Typed
<1>4. Continue(pushed, s.pc + length, Locals)
    BY <1>1 DEF Then
<1> QED
    BY <1>3, <1>4, ContinueSafe

\* One value, or none, of the type that an instruction leaves.
LEMMA OneFits ==
    ASSUME NEW D, NEW v, NEW t, Typed(D, v, t)
    PROVE  ValuesFit(D, <<v>>, <<t>>)
<1>1. <<v>> \in Seq({v}) /\ Len(<<v>>) = 1 /\ Len(<<t>>) = 1
    OBVIOUS
<1>2. \A n \in 1 .. 1 : <<v>>[n] = v /\ <<t>>[n] = t
    OBVIOUS
<1>3. IsSeq(<<v>>)
    BY <1>1 DEF IsSeq
<1>4. \A n \in 1 .. Len(<<t>>) : Typed(D, <<v>>[n], <<t>>[n])
    BY <1>1, <1>2
<1> QED
    BY <1>1, <1>3, <1>4 DEF ValuesFit

LEMMA NoneFits == \A D : ValuesFit(D, <<>>, <<>>)
<1>1. <<>> \in Seq({}) /\ Len(<<>>) = 0
    OBVIOUS
<1> QED
    BY <1>1 DEF ValuesFit, IsSeq

LEMMA ItemIs ==
    ASSUME NEW s, Goes(s), NEW T, T = Takes(class, Method, s), NEW n \in 1 .. Len(T)
    PROVE  Typed(DOMAIN heap, Item(n), T[Len(T) - n + 1])
    BY ItemTypes DEF Goes

LEMMA Ints1 ==
    ASSUME NEW s, Goes(s), Takes(class, Method, s) = <<"I">>
    PROVE  Item(1) \in Ints
<1>1. Typed(DOMAIN heap, Item(1), "I")
    <2>1. PICK T : T = Takes(class, Method, s) /\ T = <<"I">>
        OBVIOUS
    <2>2. Len(T) = 1 /\ T[1] = "I"
        BY <2>1
    <2>3. Typed(DOMAIN heap, Item(1), T[Len(T) - 1 + 1])
        BY <2>1, <2>2, ItemIs
    <2> QED
        BY <2>2, <2>3
<1> QED
    BY <1>1 DEF Typed

LEMMA Ints2 ==
    ASSUME NEW s, Goes(s), Takes(class, Method, s) \in {<<"I", "I">>, <<"R", "I">>, <<"R", "I", "I">>}
    PROVE  /\ Item(1) \in Ints
           /\ Takes(class, Method, s) # <<"R", "I">> => Item(2) \in Ints
<1>1. PICK T : T = Takes(class, Method, s) /\ T \in {<<"I", "I">>, <<"R", "I">>, <<"R", "I", "I">>}
    OBVIOUS
<1>2. Len(T) \in {2, 3} /\ T[Len(T)] = "I"
    BY <1>1
<1>3. Typed(DOMAIN heap, Item(1), T[Len(T) - 1 + 1])
    BY <1>1, <1>2, ItemIs
<1>4. Item(1) \in Ints
    BY <1>2, <1>3 DEF Typed
<1>5. ASSUME T # <<"R", "I">>
      PROVE  Item(2) \in Ints
    <2>1. T[Len(T) - 2 + 1] = "I"
        BY <1>1, <1>5
    <2>2. Typed(DOMAIN heap, Item(2), T[Len(T) - 2 + 1])
        BY <1>1, <1>2, ItemIs
    <2> QED
        BY <2>1, <2>2 DEF Typed
<1> QED
    BY <1>1, <1>4, <1>5

\* What the instructions that leave one value, and those that leave none, leave.
LEMMA LeavesIs ==
    ASSUME NEW s, Goes(s)
    PROVE  /\ Op \in Binary \cup {"iconst", "bipush", "sipush", "ldc", "ineg", "iload", "iload_n",
                                  "arraylength", "iaload"}
              => Leaves(class, Method, s) = <<"I">>
           /\ Op \in {"aload", "aload_n", "newarray"} => Leaves(class, Method, s) = <<"R">>
           /\ Op \in If \cup Cmp \cup Stores \cup
                     {"iinc", "goto", "nop", "getstatic", "invokevirtual", "iastore"}
              => Leaves(class, Method, s) = <<>>
<1>1. Op = Opcode(Method, s)
    BY GoesFacts
<1>2. Op \in Binary \cup {"iconst", "bipush", "sipush", "ldc", "ineg", "iload", "iload_n",
                          "arraylength", "iaload"}
      => Leaves(class, Method, s) = <<"I">>
    BY <1>1 DEF Leaves, Binary
<1>3. Op \in {"aload", "aload_n", "newarray"} => Leaves(class, Method, s) = <<"R">>
    BY <1>1 DEF Leaves, Binary
<1>4. Op \in If \cup Cmp \cup Stores \cup
             {"iinc", "goto", "nop", "getstatic", "invokevirtual", "iastore"}
      => Leaves(class, Method, s) = <<>>
    BY <1>1 DEF Leaves, Binary, If, Cmp, Stores
<1> QED
    BY <1>2, <1>3, <1>4

LEMMA NextIsTarget ==
    ASSUME NEW s, Goes(s), Op \notin {"goto", "ireturn", "areturn", "return"}
    PROVE  s.pc + Length(Op) \in Targets(Method, s)
<1>1. Op = Opcode(Method, s)
    BY GoesFacts
<1> QED
    BY <1>1 DEF Targets

\* The steps that change nothing but the running frame.
LEMMA OnlyFrames ==
    ASSUME SafeInv, status = "running", UNCHANGED <<class, heap, status>>,
           SafeFrames(class, DOMAIN heap, frames')
    PROVE  SafeInv'
    BY DEF SafeInv

LEMMA ConstantSafe ==
    ASSUME SafeInv, Constant
    PROVE  SafeInv'
<1>1. /\ status = "running" /\ Op \in {"iconst", "bipush", "sipush", "ldc"} /\ Op \in Known
      /\ UNCHANGED <<class, heap, status>>
    BY DEF Constant, At, Known
<1>2. PICK s : Goes(s)
    BY <1>1, StateOf
<1>3. Op = Opcode(Method, s) /\ Permitted(class, Method, s) /\ InState(s) /\ WellFormed(class)
    BY <1>2, GoesFacts DEF Goes
<1>4. PICK v \in Ints : Then(<<v>>, Length(Op))
    <2>1. CASE Op = "iconst"
        <3>1. Arg(0) \in Ints
            BY <1>3, <2>1, CarriedIs
        <3>2. Then(<<Arg(0)>>, 1) /\ Length(Op) = 1
            BY <2>1 DEF Constant, Length, If, Cmp
        <3> QED
            BY <3>1, <3>2
    <2>2. CASE Op = "bipush"
        <3>1. Then(<<int8(Arg(1))>>, 2) /\ Length(Op) = 2
            BY <2>2 DEF Constant, Length
        <3>2. Arg(1) \in 0 .. Pow(ByteBits) - 1
            BY <1>3, <3>1, OperandsAre
        <3> QED
            BY <3>1, <3>2, BytesAreInts
    <2>3. CASE Op = "sipush"
        <3>1. Then(<<int16(Arg(1) * Pow(ByteBits) + Arg(2))>>, 3) /\ Length(Op) = 3
            BY <2>3 DEF Constant, Length, If, Cmp
        <3>2. Arg(1) \in 0 .. Pow(ByteBits) - 1 /\ Arg(2) \in 0 .. Pow(ByteBits) - 1
            BY <1>3, <3>1, OperandsAre
        <3> QED
            BY <3>1, <3>2, BytesAreInts
    <2>4. CASE Op = "ldc"
        <3>1. Then(<<class.pool[Arg(1)].value>>, 2) /\ Length(Op) = 2
            BY <2>4 DEF Constant, Length
        <3>2. Arg(1) = Operand(Method, s, 1)
            BY <1>3, <3>1, OperandsAre
        <3>3. Arg(1) \in DOMAIN class.pool /\ class.pool[Arg(1)].tag = "Integer"
            BY <1>3, <2>4, <3>2 DEF Permitted
        <3>4. class.pool[Arg(1)].value \in Ints
            BY <1>3, <3>3 DEF WellFormed
        <3> QED
            BY <3>1, <3>4
    <2> QED
        BY <1>1, <2>1, <2>2, <2>3, <2>4
<1>5. ValuesFit(DOMAIN heap, <<v>>, Leaves(class, Method, s))
    <2>1. Leaves(class, Method, s) = <<"I">>
        BY <1>1, <1>2, LeavesIs
    <2>2. Typed(DOMAIN heap, v, "I")
        BY DEF Typed
    <2> QED
        BY <2>1, <2>2, OneFits
<1>6. s.pc + Length(Op) \in Targets(Method, s)
    BY <1>1, <1>2, NextIsTarget
<1>7. SafeFrames(class, DOMAIN heap, frames')
    BY <1>1, <1>2, <1>4, <1>5, <1>6, ThenSafe
<1> QED
    BY <1>1, <1>7, OnlyFrames

LEMMA ArithmeticSafe ==
    ASSUME SafeInv, Arithmetic
    PROVE  SafeInv'
<1>1. /\ status = "running" /\ Op \in Binary \cup {"ineg"} /\ Op \in Known /\ ~ Throws
      /\ UNCHANGED <<class, heap, status>>
    BY DEF Arithmetic, At, Known
<1>2. PICK s : Goes(s)
    BY <1>1, StateOf
<1>3. Op = Opcode(Method, s)
    BY <1>2, GoesFacts
<1>4. PICK v \in Ints : Then(<<v>>, 1)
    <2>1. CASE Op = "ineg"
        <3>1. Then(<<Wrap(- Item(1))>>, 1)
            BY <2>1 DEF Arithmetic
        <3>2. Takes(class, Method, s) = <<"I">>
            BY <1>3, <2>1 DEF Takes, Binary, Cmp, If
        <3>3. Item(1) \in Int
            BY <1>2, <3>2, Ints1, WordSize
        <3>4. Wrap(- Item(1)) \in Ints
            BY <3>3, WrapIsInt
        <3> QED
            BY <3>1, <3>4
    <2>2. CASE Op \in Binary
        <3>1. Then(<<Apply(Op, Item(2), Item(1))>>, 1)
            BY <2>2 DEF Arithmetic, Binary
        <3>2. Takes(class, Method, s) = <<"I", "I">>
            BY <1>3, <2>2 DEF Takes, Binary, Cmp, If
        <3>3. Item(1) \in Ints /\ Item(2) \in Ints
            <4>1. Takes(class, Method, s) # <<"R", "I">>
                BY <3>2
            <4> QED
                BY <1>2, <3>2, <4>1, Ints2
        <3>4. Op \in {"idiv", "irem"} => ~ DivisionTraps(Item(2), Item(1))
            BY <1>1 DEF Throws
        <3>5. Apply(Op, Item(2), Item(1)) \in Ints
            BY <2>2, <3>3, <3>4, ApplyIsInt
        <3> QED
            BY <3>1, <3>5
    <2> QED
        BY <1>1, <2>1, <2>2
<1>5. ValuesFit(DOMAIN heap, <<v>>, Leaves(class, Method, s))
    <2>1. Leaves(class, Method, s) = <<"I">>
        BY <1>1, <1>2, LeavesIs
    <2>2. Typed(DOMAIN heap, v, "I")
        BY DEF Typed
    <2> QED
        BY <2>1, <2>2, OneFits
<1>6. Length(Op) = 1 /\ Op \notin {"goto", "ireturn", "areturn", "return"}
      /\ Op \notin {"istore", "istore_n", "astore", "astore_n"}
    BY <1>1 DEF Length, Binary, If, Cmp
<1>7. s.pc + 1 \in Targets(Method, s)
    BY <1>2, <1>6, NextIsTarget
<1>8. SafeFrames(class, DOMAIN heap, frames')
    BY <1>2, <1>4, <1>5, <1>6, <1>7, ThenSafe
<1> QED
    BY <1>1, <1>8, OnlyFrames

LEMMA LoadSafe ==
    ASSUME SafeInv, Load
    PROVE  SafeInv'
<1>1. /\ status = "running" /\ Op \in Loads /\ Op \in Known /\ UNCHANGED <<class, heap, status>>
    BY DEF Load, At, Known
<1>2. PICK s : Goes(s)
    BY <1>1, StateOf
<1>3. Op = Opcode(Method, s) /\ Permitted(class, Method, s)
    BY <1>2, GoesFacts DEF Goes
<1>4. Local = Variable(Method, s) /\ Local \in 0 .. Method.max_locals - 1
    BY <1>1, <1>2, VariableIs DEF Goes
<1>5. Typed(DOMAIN heap, Locals[Local], s.locals[Local])
    BY <1>2, <1>4, GoesFacts DEF LocalsFit
<1>6. Leaves(class, Method, s) = <<s.locals[Local]>>
    <2>1. CASE Op \in {"iload", "iload_n"}
        BY <1>2, <1>3, <1>4, <2>1, LeavesIs DEF Permitted
    <2>2. CASE Op \in {"aload", "aload_n"}
        BY <1>2, <1>3, <1>4, <2>2, LeavesIs DEF Permitted
    <2> QED
        BY <1>1, <2>1, <2>2 DEF Loads
<1>7. ValuesFit(DOMAIN heap, <<Locals[Local]>>, Leaves(class, Method, s))
    BY <1>5, <1>6, OneFits
<1>8. Then(<<Locals[Local]>>, Length(Op))
    BY <1>1 DEF Load, Loads, Length, If, Cmp
<1>9. /\ Op \notin {"goto", "ireturn", "areturn", "return"}
      /\ Op \notin {"istore", "istore_n", "astore", "astore_n"}
    BY <1>1 DEF Loads
<1>10. s.pc + Length(Op) \in Targets(Method, s)
    BY <1>2, <1>9, NextIsTarget
<1>11. SafeFrames(class, DOMAIN heap, frames')
    BY <1>2, <1>7, <1>8, <1>9, <1>10, ThenSafe
<1> QED
    BY <1>1, <1>11, OnlyFrames

LEMMA StoreFits ==
    ASSUME NEW D, NEW values, NEW types, NEW k, LocalsFit(D, values, types, k),
           DOMAIN types = 0 .. k - 1, NEW i, NEW v, NEW t, Typed(D, v, t)
    PROVE  LocalsFit(D, [values EXCEPT ![i] = v], [types EXCEPT ![i] = t], k)
<1>1. PICK vs, ts : vs = [values EXCEPT ![i] = v] /\ ts = [types EXCEPT ![i] = t]
    OBVIOUS
<1>2. DOMAIN vs = 0 .. k - 1
    BY <1>1 DEF LocalsFit
<1>3. \A n \in 0 .. k - 1 : vs[n] = IF n = i THEN v ELSE values[n]
    BY <1>1 DEF LocalsFit
<1>4. \A n \in 0 .. k - 1 : ts[n] = IF n = i THEN t ELSE types[n]
    BY <1>1
<1>5. \A n \in 0 .. k - 1 : Typed(D, vs[n], ts[n])
    BY <1>3, <1>4 DEF LocalsFit
<1>6. LocalsFit(D, vs, ts, k)
    BY <1>2, <1>5 DEF LocalsFit
<1> QED
    BY <1>1, <1>6

LEMMA StoreSafe ==
    ASSUME SafeInv, Store
    PROVE  SafeInv'
<1>1. /\ status = "running" /\ Op \in Stores /\ Op \in Known /\ UNCHANGED <<class, heap, status>>
    BY DEF Store, At, Known
<1>2. PICK s : Goes(s)
    BY <1>1, StateOf
<1>3. /\ Op = Opcode(Method, s) /\ Frame.pc = s.pc
      /\ LocalsFit(DOMAIN heap, Locals, s.locals, Method.max_locals)
      /\ DOMAIN s.locals = 0 .. Method.max_locals - 1
    BY <1>2, GoesFacts, StackFacts
<1>4. Local = Variable(Method, s)
    BY <1>1, <1>2, VariableIs DEF Goes
<1>5. PICK t \in Types : /\ Takes(class, Method, s) = <<t>>
                         /\ LocalsAfter(Method, s) = [s.locals EXCEPT ![Local] = t]
    <2>1. CASE Op \in {"istore", "istore_n"}
        <3>1. Takes(class, Method, s) = <<"I">>
            BY <1>3, <2>1 DEF Takes, Binary, Cmp, If
        <3>2. LocalsAfter(Method, s) = [s.locals EXCEPT ![Local] = "I"]
            BY <1>3, <1>4, <2>1 DEF LocalsAfter
        <3> QED
            BY <3>1, <3>2 DEF Types
    <2>2. CASE Op \in {"astore", "astore_n"}
        <3>1. Takes(class, Method, s) = <<"R">>
            BY <1>3, <2>2 DEF Takes, Binary, Cmp, If
        <3>2. LocalsAfter(Method, s) = [s.locals EXCEPT ![Local] = "R"]
            BY <1>3, <1>4, <2>2 DEF LocalsAfter
        <3> QED
            BY <3>1, <3>2 DEF Types
    <2> QED
        BY <1>1, <2>1, <2>2 DEF Stores
<1>6. Typed(DOMAIN heap, Item(1), t)
    <2>1. PICK T : T = Takes(class, Method, s) /\ T = <<t>>
        BY <1>5
    <2>2. Len(T) = 1 /\ T[1] = t
        BY <2>1
    <2>3. Typed(DOMAIN heap, Item(1), T[Len(T) - 1 + 1])
        <3>1. 1 \in 1 .. Len(T)
            BY <2>2
        <3> QED
            BY <1>2, <2>1, <3>1, ItemIs
    <2> QED
        BY <2>2, <2>3
<1>7. PICK locals : locals = [Locals EXCEPT ![Local] = Item(1)]
    OBVIOUS
<1>8. LocalsFit(DOMAIN heap, locals, LocalsAfter(Method, s), Method.max_locals)
    <2>1. LocalsFit(DOMAIN heap, [Locals EXCEPT ![Local] = Item(1)],
                    [s.locals EXCEPT ![Local] = t], Method.max_locals)
        BY <1>3, <1>6, StoreFits
    <2> QED
        BY <1>5, <1>7, <2>1
<1>9. Continue(<<>>, s.pc + Length(Op), locals)
    BY <1>1, <1>3, <1>7 DEF Store, Stores, Length, If, Cmp
<1>10. ValuesFit(DOMAIN heap, <<>>, Leaves(class, Method, s))
    BY <1>1, <1>2, LeavesIs, NoneFits
<1>11. s.pc + Length(Op) \in Targets(Method, s)
    BY <1>1, <1>2, NextIsTarget DEF Stores
<1>12. SafeFrames(class, DOMAIN heap, frames')
    BY <1>2, <1>8, <1>9, <1>10, <1>11, ContinueSafe
<1> QED
    BY <1>1, <1>12, OnlyFrames

LEMMA IincSafe ==
    ASSUME SafeInv, Iinc
    PROVE  SafeInv'
<1>1. /\ status = "running" /\ Op = "iinc" /\ Op \in Known /\ UNCHANGED <<class, heap, status>>
    BY DEF Iinc, At, Known
<1>2. PICK s : Goes(s)
    BY <1>1, StateOf
<1>3. /\ Op = Opcode(Method, s) /\ Frame.pc = s.pc
      /\ LocalsFit(DOMAIN heap, Locals, s.locals, Method.max_locals)
      /\ DOMAIN s.locals = 0 .. Method.max_locals - 1
    BY <1>2, GoesFacts, StackFacts
<1>4. Local = Variable(Method, s) /\ Local \in 0 .. Method.max_locals - 1
    BY <1>1, <1>2, VariableIs DEF Goes
<1>5. s.locals[Local] = "I"
    BY <1>1, <1>2, <1>3, <1>4 DEF Goes, Permitted
<1>6. Locals[Local] \in Ints /\ DOMAIN Locals = 0 .. Method.max_locals - 1
    BY <1>3, <1>4, <1>5 DEF LocalsFit, Typed
<1>7. Length(Op) = 3
    BY <1>1 DEF Length
<1>8. int8(Arg(2)) \in Ints
    <2>1. Arg(2) \in 0 .. Pow(ByteBits) - 1
        BY <1>2, <1>7, OperandsAre DEF Goes
    <2> QED
        BY <2>1, BytesAreInts
<1>9. PICK v : v = Wrap(Locals[Local] + int8(Arg(2))) /\ v \in Ints
    <2>1. Locals[Local] + int8(Arg(2)) \in Int
        BY <1>6, <1>8, WordSize
    <2> QED
        BY <2>1, WrapIsInt
<1>10. Continue(<<>>, s.pc + 3, [Locals EXCEPT ![Local] = v])
    BY <1>3, <1>6, <1>4, <1>9 DEF Iinc
<1>11. LocalsAfter(Method, s) = [s.locals EXCEPT ![Local] = "I"]
    <2>1. LocalsAfter(Method, s) = s.locals
        BY <1>1, <1>3 DEF LocalsAfter
    <2>2. s.locals = [s.locals EXCEPT ![Local] = "I"]
        BY <1>2, <1>5, GoesFacts, StackFacts
    <2> QED
        BY <2>1, <2>2
<1>12. PICK locals : locals = [Locals EXCEPT ![Local] = v]
    OBVIOUS
<1>13. LocalsFit(DOMAIN heap, locals, LocalsAfter(Method, s), Method.max_locals)
    <2>1. Typed(DOMAIN heap, v, "I")
        BY <1>9 DEF Typed
    <2> QED
        <3>1. LocalsFit(DOMAIN heap, [Locals EXCEPT ![Local] = v],
                        [s.locals EXCEPT ![Local] = "I"], Method.max_locals)
            BY <1>3, <2>1, StoreFits
        <3> QED
            BY <1>11, <1>12, <3>1
<1>14. ValuesFit(DOMAIN heap, <<>>, Leaves(class, Method, s))
    BY <1>1, <1>2, LeavesIs, NoneFits
<1>15. s.pc + 3 \in Targets(Method, s)
    BY <1>1, <1>2, <1>7, NextIsTarget
<1>16. SafeFrames(class, DOMAIN heap, frames')
    BY <1>2, <1>10, <1>12, <1>13, <1>14, <1>15, ContinueSafe
<1> QED
    BY <1>1, <1>16, OnlyFrames

\* Where the low byte is less than 128, or the high byte 255, the distance jvm.c reads is
\* the one that was written.
LEMMA DistanceIs ==
    ASSUME NEW b1 \in 0 .. Pow(ByteBits) - 1, NEW b2 \in 0 .. Pow(ByteBits) - 1,
           b2 < Pow(ByteBits - 1) \/ b1 = Pow(ByteBits) - 1
    PROVE  int16(b1 * Pow(ByteBits) + b2)
           = IF int8(b2) < 0 THEN int8(b2) ELSE int8(b1) * Pow(ByteBits) + int8(b2)
<1>1. PICK n \in Nat : ByteBits = n + 1
    <2>1. ByteBits - 1 \in Nat /\ ByteBits = (ByteBits - 1) + 1
        BY JvmAssumption
    <2> QED
        BY <2>1
<1>2. PICK h \in Nat : h = Pow(ByteBits - 1) /\ h >= 1 /\ Pow(ByteBits) = 2 * h
    <2>1. ByteBits - 1 = n
        BY <1>1
    <2>2. Pow(n) \in Nat /\ Pow(n) >= 1 /\ Pow(n + 1) = 2 * Pow(n)
        BY PowIs
    <2> QED
        BY <1>1, <2>1, <2>2
<1>3. PICK p \in Nat : p = Pow(ByteBits) /\ p = 2 * h
    BY <1>2
<1>4. PICK w \in Nat : /\ w = Pow(2 * ByteBits - 1) /\ w = p * h
                       /\ Pow(2 * ByteBits) = p * p
    <2>1. 2 * ByteBits - 1 = ByteBits + n /\ 2 * ByteBits = ByteBits + ByteBits
          /\ ByteBits \in Nat /\ ByteBits - 1 = n
        BY <1>1
    <2>2. Pow(ByteBits + n) = Pow(ByteBits) * Pow(n)
        BY <2>1, PowMonotonic
    <2>3. Pow(ByteBits + ByteBits) = Pow(ByteBits) * Pow(ByteBits)
        BY <2>1, PowMonotonic
    <2> QED
        BY <1>2, <1>3, <2>1, <2>2, <2>3
<1>5. PICK x \in Int : x = b1 * p + b2
    BY <1>3
<1>6. int16(x) = IF x < w THEN x ELSE x - p * p
    BY <1>4 DEF int16
<1>7. int8(b1) = (IF b1 < h THEN b1 ELSE b1 - p) /\ int8(b2) = (IF b2 < h THEN b2 ELSE b2 - p)
    BY <1>2, <1>3 DEF int8
<1>8. b1 \in Int /\ 0 <= b1 /\ b1 <= p - 1 /\ b2 \in Int /\ 0 <= b2 /\ b2 <= p - 1
    BY <1>3
<1>9. b1 < h => x < w
    <2> SUFFICES ASSUME b1 <= h - 1 PROVE x < w
        BY <1>2, <1>8
    <2>1. b1 * p <= (h - 1) * p
        BY <1>2, <1>3, <1>8
    <2>2. (h - 1) * p = p * h - p
        BY <1>2, <1>3
    <2>3. b1 * p \in Int /\ p * h \in Int
        BY <1>2, <1>3, <1>8
    <2> QED
        BY <1>4, <1>5, <1>8, <2>1, <2>2, <2>3
<1>10. b1 >= h => ~ (x < w)
    <2> SUFFICES ASSUME b1 >= h PROVE ~ (x < w)
        OBVIOUS
    <2>1. b1 * p >= h * p
        BY <1>2, <1>3, <1>8
    <2>2. b1 * p \in Int /\ p * h \in Int /\ h * p = p * h
        BY <1>2, <1>3, <1>8
    <2> QED
        BY <1>4, <1>5, <1>8, <2>1, <2>2
<1>11. CASE b2 < h
    <2>1. int8(b2) = b2 /\ ~ (b2 < 0)
        BY <1>7, <1>8, <1>11
    <2>2. CASE b1 < h
        <3>1. int16(x) = b1 * p + b2 /\ int8(b1) = b1
            BY <1>5, <1>6, <1>7, <1>9, <2>2
        <3> QED
            BY <1>3, <1>5, <2>1, <3>1
    <2>3. CASE b1 >= h
        <3>1. int16(x) = b1 * p + b2 - p * p /\ int8(b1) = b1 - p
            BY <1>2, <1>5, <1>6, <1>7, <1>8, <1>10, <2>3
        <3>2. (b1 - p) * p + b2 = b1 * p + b2 - p * p
            BY <1>3, <1>8
        <3> QED
            BY <1>3, <1>5, <2>1, <3>1, <3>2
    <2> QED
        BY <1>2, <1>8, <2>2, <2>3
<1>12. CASE ~ (b2 < h)
    <2>1. int8(b2) = b2 - p /\ b2 - p < 0
        BY <1>3, <1>7, <1>8, <1>12
    <2>2. b1 = p - 1 /\ b1 >= h
        BY <1>2, <1>3, <1>12
    <2>3. int16(x) = b1 * p + b2 - p * p
        BY <1>5, <1>6, <1>10, <2>2
    <2>4. b1 * p + b2 - p * p = b2 - p
        <3>1. (p - 1) * p = p * p - p /\ p * p \in Int
            BY <1>3
        <3> QED
            BY <1>3, <1>8, <2>2, <3>1
    <2> QED
        BY <1>3, <1>5, <2>1, <2>3, <2>4
<1> QED
    BY <1>11, <1>12

LEMMA OffsetIs ==
    ASSUME NEW s, Goes(s), BranchesDecode(class), Op \in If \cup Cmp \cup {"goto"}
    PROVE  Offset = int16(Wide(Method, s))
<1>1. Length(Op) = 3
    BY DEF Length, If, Cmp
<1>2. /\ Op = Opcode(Method, s) /\ s \in TypeStates(Method) /\ CodeFormed(Method)
      /\ Frame.method \in DOMAIN class.methods
    BY GoesFacts
<1>3. PICK b1, b2 \in 0 .. Pow(ByteBits) - 1 :
          /\ b1 = Arg(1) /\ b1 = Operand(Method, s, 1)
          /\ b2 = Arg(2) /\ b2 = Operand(Method, s, 2)
    BY <1>1, OperandsAre DEF Goes
<1>4. s.pc \in Nat /\ s.pc + 1 \in DOMAIN Method.code
    BY <1>2, StackFacts DEF CodeFormed
<1>5. Method.code[s.pc + 1][1] \in If \cup Cmp \cup {"goto"}
    BY <1>2 DEF Opcode
<1>6. Method.code[(s.pc + 1) + 2][2] < Pow(ByteBits - 1)
      \/ Method.code[(s.pc + 1) + 1][2] = Pow(ByteBits) - 1
    BY <1>2, <1>4, <1>5 DEF BranchesDecode, Method
<1>7. (s.pc + 1) + 2 = s.pc + 1 + 2 /\ (s.pc + 1) + 1 = s.pc + 1 + 1
    BY <1>4
<1>8. b2 < Pow(ByteBits - 1) \/ b1 = Pow(ByteBits) - 1
    BY <1>3, <1>6, <1>7 DEF Operand
<1>9. Offset = IF int8(b2) < 0 THEN int8(b2) ELSE int8(b1) * Pow(ByteBits) + int8(b2)
    BY <1>3 DEF Offset
<1>10. Wide(Method, s) = b1 * Pow(ByteBits) + b2
    BY <1>3 DEF Wide
<1> QED
    BY <1>8, <1>9, <1>10, DistanceIs

LEMMA BranchSafe ==
    ASSUME SafeInv, BranchesDecode(class), Branch
    PROVE  SafeInv'
<1>1. /\ status = "running" /\ Op \in If \cup Cmp \cup {"goto"} /\ Op \in Known
      /\ UNCHANGED <<class, heap, status>>
    BY DEF Branch, At, Known
<1>2. PICK s : Goes(s)
    BY <1>1, StateOf
<1>3. Op = Opcode(Method, s) /\ Length(Op) = 3
    BY <1>1, <1>2, GoesFacts DEF Length, If, Cmp
<1>4. PICK length : /\ Then(<<>>, length)
                    /\ length = Offset \/ (length = 3 /\ Op # "goto")
    BY <1>1 DEF Branch, If, Cmp
<1>5. s.pc + length \in Targets(Method, s)
    <2>1. CASE length = Offset
        <3>1. length = int16(Wide(Method, s))
            BY <1>1, <1>2, <2>1, OffsetIs
        <3> QED
            BY <1>1, <1>3, <3>1 DEF Targets
    <2>2. CASE length = 3 /\ Op # "goto"
        <3>1. Op \notin {"goto", "ireturn", "areturn", "return"}
            BY <1>1, <2>2 DEF If, Cmp
        <3> QED
            BY <1>2, <1>3, <2>2, <3>1, NextIsTarget
    <2> QED
        BY <1>4, <2>1, <2>2
<1>6. ValuesFit(DOMAIN heap, <<>>, Leaves(class, Method, s))
    BY <1>1, <1>2, LeavesIs, NoneFits
<1>7. Op \notin {"istore", "istore_n", "astore", "astore_n"}
    BY <1>1 DEF If, Cmp
<1>8. SafeFrames(class, DOMAIN heap, frames')
    BY <1>2, <1>4, <1>5, <1>6, <1>7, ThenSafe
<1> QED
    BY <1>1, <1>8, OnlyFrames

LEMMA DupFits ==
    ASSUME NEW s, Goes(s), Op = "dup"
    PROVE  ValuesFit(DOMAIN heap, <<Item(1), Item(1)>>, Leaves(class, Method, s))
<1>1. Op = Opcode(Method, s) /\ s \in TypeStates(Method)
    BY GoesFacts
<1>2. PICK t : t = s.stack[Len(s.stack)]
    OBVIOUS
<1>3. Leaves(class, Method, s) = <<t, t>>
    BY <1>1, <1>2 DEF Leaves, Binary
<1>4. /\ Len(Stack) = Len(s.stack) /\ Len(s.stack) \in Nat
      /\ \A n \in 1 .. Len(s.stack) : Typed(DOMAIN heap, Stack[n], s.stack[n])
    BY <1>1, StackFacts DEF Goes, InState, FrameFits, ValuesFit, Stack
<1>5. Len(s.stack) \in 1 .. Len(s.stack)
    <2>1. s.stack # <<>> /\ s.stack \in Seq(Types)
        BY <1>1, StackFacts DEF Goes, Permitted
    <2> QED
        BY <1>4, <2>1, EmptySeq
<1>6. Item(1) = Stack[Len(s.stack)]
    <2>1. Len(s.stack) - 1 + 1 = Len(s.stack)
        BY <1>4
    <2> QED
        BY <1>4, <2>1 DEF Item
<1>7. Typed(DOMAIN heap, Item(1), t)
    BY <1>2, <1>4, <1>5, <1>6
<1>8. PICK v : v = Item(1)
    OBVIOUS
<1>9. <<v, v>> \in Seq({v}) /\ Len(<<v, v>>) = 2 /\ Len(<<t, t>>) = 2
    OBVIOUS
<1>10. \A n \in 1 .. 2 : <<v, v>>[n] = v /\ <<t, t>>[n] = t
    OBVIOUS
<1>11. IsSeq(<<v, v>>)
    BY <1>9 DEF IsSeq
<1>12. \A n \in 1 .. Len(<<t, t>>) : Typed(DOMAIN heap, <<v, v>>[n], <<t, t>>[n])
    BY <1>7, <1>8, <1>9, <1>10
<1>13. ValuesFit(DOMAIN heap, <<v, v>>, <<t, t>>)
    BY <1>9, <1>11, <1>12 DEF ValuesFit
<1> QED
    BY <1>3, <1>8, <1>13

LEMMA OtherSafe ==
    ASSUME SafeInv, Other
    PROVE  SafeInv'
<1>1. /\ status = "running" /\ Op \in {"nop", "dup", "getstatic", "invokevirtual"} /\ Op \in Known
      /\ UNCHANGED <<class, heap, status>>
    BY DEF Other, At, Known
<1>2. PICK s : Goes(s)
    BY <1>1, StateOf
<1>3. PICK pushed : /\ Then(pushed, Length(Op))
                    /\ ValuesFit(DOMAIN heap, pushed, Leaves(class, Method, s))
    <2>1. Length(Op) = IF Op \in {"nop", "dup"} THEN 1 ELSE 3
        BY <1>1 DEF Length, If, Cmp
    <2>2. CASE Op = "dup"
        BY <1>2, <2>1, <2>2, DupFits DEF Other
    <2>3. CASE Op # "dup"
        <3>1. Then(<<>>, Length(Op))
            BY <2>1, <2>3 DEF Other
        <3>2. Leaves(class, Method, s) = <<>>
            <4>1. Op = Opcode(Method, s)
                BY <1>2, GoesFacts
            <4> QED
                BY <1>1, <2>3, <4>1 DEF Leaves, Binary
        <3> QED
            BY <3>1, <3>2, NoneFits
    <2> QED
        BY <2>2, <2>3
<1>4. s.pc + Length(Op) \in Targets(Method, s)
    BY <1>1, <1>2, NextIsTarget
<1>5. SafeFrames(class, DOMAIN heap, frames')
    BY <1>1, <1>2, <1>3, <1>4, ThenSafe
<1> QED
    BY <1>1, <1>5, OnlyFrames

LEMMA ZeroIsInt == 0 \in Ints
    BY WordSize

LEMMA NewarraySafe ==
    ASSUME SafeInv, Newarray
    PROVE  SafeInv'
<1>1. /\ status = "running" /\ Op = "newarray" /\ Op \in Known /\ ~ Throws
      /\ UNCHANGED <<class, status>>
    BY DEF Newarray, At, Known
<1>2. PICK s : Goes(s)
    BY <1>1, StateOf
<1>3. Op = Opcode(Method, s)
    BY <1>2, GoesFacts
<1>4. PICK k \in Ints : k = Item(1) /\ k >= 0
    <2>1. Takes(class, Method, s) = <<"I">>
        BY <1>1, <1>3 DEF Takes, Binary, Cmp, If
    <2>2. Item(1) \in Ints /\ Ints \subseteq Int
        BY <1>2, <2>1, Ints1, WordSize
    <2>3. ~ (Item(1) < 0)
        BY <1>1 DEF Throws
    <2>4. PICK k : k = Item(1) /\ k \in Ints /\ ~ (k < 0)
        BY <2>2, <2>3
    <2>5. k \in Int /\ k >= 0
        BY <2>2, <2>4
    <2> QED
        BY <2>4, <2>5
<1>5. PICK n \in Nat : DOMAIN heap = 0 .. n - 1 /\ Cardinality(DOMAIN heap) = n
    BY HeapSize DEF SafeInv
<1>6. PICK array : array = [i \in 0 .. k - 1 |-> 0]
    OBVIOUS
<1>7. heap' = [r \in DOMAIN heap \cup {n} |-> IF r = n THEN array ELSE heap[r]]
    BY <1>4, <1>5, <1>6 DEF Newarray
<1>8. DOMAIN heap' = 0 .. (n + 1) - 1 /\ n \in DOMAIN heap' /\ DOMAIN heap \subseteq DOMAIN heap'
    BY <1>5, <1>7
<1>9. Arrays(heap')
    <2>1. array \in [0 .. k - 1 -> Ints]
        BY <1>6, ZeroIsInt
    <2>2. \A r \in DOMAIN heap' : heap'[r] = IF r = n THEN array ELSE heap[r]
        BY <1>7
    <2>3. ASSUME NEW r \in DOMAIN heap'
          PROVE  \E l \in Ints : l >= 0 /\ heap'[r] \in [0 .. l - 1 -> Ints]
        <3>1. CASE r = n
            BY <1>4, <2>1, <2>2, <3>1
        <3>2. CASE r # n
            <4>1. r \in DOMAIN heap /\ heap'[r] = heap[r]
                BY <1>7, <2>2, <3>2
            <4> QED
                BY <4>1 DEF SafeInv, Arrays
        <3> QED
            BY <3>1, <3>2
    <2> QED
        BY <2>3 DEF Arrays
<1>10. Then(<<n>>, 2)
    BY <1>5 DEF Newarray
<1>11. ValuesFit(DOMAIN heap', <<n>>, Leaves(class, Method, s))
    <2>1. Leaves(class, Method, s) = <<"R">>
        BY <1>1, <1>2, LeavesIs
    <2>2. Typed(DOMAIN heap', n, "R")
        BY <1>8 DEF Typed
    <2> QED
        BY <2>1, <2>2, OneFits
<1>12. s.pc + 2 \in Targets(Method, s)
    <2>1. Length(Op) = 2
        BY <1>1 DEF Length
    <2> QED
        BY <1>1, <1>2, <2>1, NextIsTarget
<1>13. SafeFrames(class, DOMAIN heap', frames')
    BY <1>1, <1>2, <1>8, <1>10, <1>11, <1>12, ThenSafe
<1>14. n + 1 \in Nat
    OBVIOUS
<1> QED
    BY <1>1, <1>8, <1>9, <1>13, <1>14 DEF SafeInv

LEMMA ArrayAccessSafe ==
    ASSUME SafeInv, ArrayAccess
    PROVE  SafeInv'
<1>1. /\ status = "running" /\ Op \in {"arraylength", "iaload", "iastore"} /\ Op \in Known
      /\ Sound /\ ~ Throws /\ UNCHANGED <<class, status>>
    BY DEF ArrayAccess, At, Known
<1>2. PICK s : Goes(s)
    BY <1>1, StateOf
<1>3. Op = Opcode(Method, s)
    BY <1>2, GoesFacts
<1>4. \A r \in DOMAIN heap : \E k \in Ints : k >= 0 /\ heap[r] \in [0 .. k - 1 -> Ints]
    BY DEF SafeInv, Arrays
<1>5. /\ Op \notin {"goto", "ireturn", "areturn", "return"}
      /\ Op \notin {"istore", "istore_n", "astore", "astore_n"}
      /\ Length(Op) = 1
    BY <1>1 DEF Length, If, Cmp
<1>6. s.pc + 1 \in Targets(Method, s)
    BY <1>2, <1>5, NextIsTarget
<1>7. ASSUME Op # "iastore"
      PROVE  heap' = heap /\ SafeFrames(class, DOMAIN heap, frames')
    <2>1. PICK v \in Ints : Then(<<v>>, 1)
        <3>1. CASE Op = "arraylength"
            <4>1. Then(<<Cardinality(DOMAIN heap[Item(1)])>>, 1)
                BY <3>1 DEF ArrayAccess
            <4>2. Item(1) \in DOMAIN heap
                BY <1>1, <3>1 DEF Sound
            <4>3. PICK k \in Ints : k >= 0 /\ DOMAIN heap[Item(1)] = 0 .. k - 1
                BY <1>4, <4>2
            <4>4. k \in Nat
                BY <4>3, WordSize
            <4>5. Cardinality(0 .. k - 1) = k
                BY <4>4, FS_Interval
            <4> QED
                BY <4>1, <4>3, <4>5
        <3>2. CASE Op = "iaload"
            <4>1. Then(<<heap[Item(2)][Item(1)]>>, 1)
                BY <3>2 DEF ArrayAccess
            <4>2. Item(2) \in DOMAIN heap /\ Item(1) \in DOMAIN heap[Item(2)]
                BY <1>1, <3>2 DEF Sound, Throws
            <4>3. heap[Item(2)][Item(1)] \in Ints
                BY <1>4, <4>2
            <4> QED
                BY <4>1, <4>3
        <3> QED
            BY <1>1, <1>7, <3>1, <3>2
    <2>2. ValuesFit(DOMAIN heap, <<v>>, Leaves(class, Method, s))
        <3>1. Leaves(class, Method, s) = <<"I">>
            BY <1>1, <1>2, <1>7, LeavesIs
        <3>2. Typed(DOMAIN heap, v, "I")
            BY DEF Typed
        <3> QED
            BY <3>1, <3>2, OneFits
    <2>3. SafeFrames(class, DOMAIN heap, frames')
        BY <1>2, <1>5, <1>6, <2>1, <2>2, ThenSafe
    <2> QED
        BY <1>7, <2>3 DEF ArrayAccess
<1>8. ASSUME Op = "iastore"
      PROVE  DOMAIN heap' = DOMAIN heap /\ Arrays(heap') /\ SafeFrames(class, DOMAIN heap, frames')
    <2>1. Then(<<>>, 1)
        BY <1>8 DEF ArrayAccess
    <2>2. ValuesFit(DOMAIN heap, <<>>, Leaves(class, Method, s))
        BY <1>2, <1>8, LeavesIs, NoneFits
    <2>3. SafeFrames(class, DOMAIN heap, frames')
        BY <1>2, <1>5, <1>6, <2>1, <2>2, ThenSafe
    <2>4. PICK a, i, v : a = Item(3) /\ i = Item(2) /\ v = Item(1)
        OBVIOUS
    <2>5. v \in Ints
        <3>1. Takes(class, Method, s) = <<"R", "I", "I">>
            BY <1>3, <1>8 DEF Takes, Binary, Cmp, If
        <3> QED
            BY <1>2, <2>4, <3>1, Ints2
    <2>6. a \in DOMAIN heap
        BY <1>1, <1>8, <2>4 DEF Sound
    <2>7. PICK array : array = [heap[a] EXCEPT ![i] = v]
        OBVIOUS
    <2>8. heap' = [heap EXCEPT ![a] = array]
        BY <1>8, <2>4, <2>7 DEF ArrayAccess
    <2>9. ASSUME NEW r \in DOMAIN heap
          PROVE  \E k \in Ints : k >= 0 /\ heap'[r] \in [0 .. k - 1 -> Ints]
        <3>1. PICK k \in Ints : k >= 0 /\ heap[r] \in [0 .. k - 1 -> Ints]
            BY <1>4
        <3>2. heap'[r] = IF r = a THEN array ELSE heap[r]
            BY <2>8
        <3>3. r = a => array \in [0 .. k - 1 -> Ints]
            BY <2>5, <2>7, <3>1
        <3> QED
            BY <3>1, <3>2, <3>3
    <2> QED
        BY <2>3, <2>8, <2>9 DEF Arrays
<1>9. DOMAIN heap' = DOMAIN heap /\ Arrays(heap') /\ SafeFrames(class, DOMAIN heap, frames')
    BY <1>7, <1>8 DEF SafeInv
<1> QED
    BY <1>1, <1>9 DEF SafeInv

------------------------------------------------------------------------------
(* Calls and returns *)

\* A method starts in its first type state.
LEMMA EntryRuns ==
    ASSUME NEW c, WellFormed(c), Verified(c), NEW D, NEW i \in DOMAIN c.methods,
           NEW locals, LocalsFit(D, locals, Entry(c.methods[i]).locals, c.methods[i].max_locals),
           NEW g, g = [method |-> i, pc |-> 0, stack |-> <<>>, locals |-> locals]
    PROVE  Running(c, D, g)
<1>1. PICK m : m = c.methods[i]
    OBVIOUS
<1>2. PICK e : e = Entry(m)
    OBVIOUS
<1>3. /\ CodeFormed(m) /\ m.max_locals \in Nat /\ m.params \in Seq({"I", "R"})
      /\ Len(m.params) <= m.max_locals
    BY <1>1, MethodFacts
<1>4. e \in Typing(c, m)
    BY <1>1, <1>2 DEF Verified
<1>5. /\ e.pc = 0 /\ e.stack = <<>>
      /\ e.locals = [n \in 0 .. m.max_locals - 1 |-> IF n < Len(m.params) THEN m.params[n + 1] ELSE "-"]
      /\ e = [pc |-> e.pc, stack |-> e.stack, locals |-> e.locals]
    BY <1>2 DEF Entry
<1>6. e \in TypeStates(m)
    <2>1. 0 \in 0 .. Len(m.code) - 1
        BY <1>3 DEF CodeFormed
    <2>2. \A n \in 0 .. m.max_locals - 1 : n < Len(m.params) => m.params[n + 1] \in {"I", "R"}
        <3>1. TAKE n \in 0 .. m.max_locals - 1
        <3>2. n < Len(m.params) => n + 1 \in 1 .. Len(m.params)
            BY <1>3
        <3> QED
            BY <1>3, <3>2
    <2>3. e.locals \in [0 .. m.max_locals - 1 -> {"I", "R", "-"}]
        BY <1>5, <2>2
    <2> QED
        <3>1. e.pc \in 0 .. Len(m.code) - 1
            BY <1>5, <2>1
        <3>2. e.stack \in Seq({"I", "R"})
            BY <1>5
        <3>3. PICK pc, stack, l : pc = e.pc /\ stack = e.stack /\ l = e.locals
            OBVIOUS
        <3>4. e = [pc |-> pc, stack |-> stack, locals |-> l]
            BY <1>5, <3>3
        <3> QED
            BY <2>3, <3>1, <3>2, <3>3, <3>4 DEF TypeStates
<1>7. g.method = i /\ g.pc = 0 /\ g.stack = <<>> /\ g.locals = locals /\ IsFrame(g)
    BY DEF IsFrame
<1>8. MethodOf(c, g) = m
    BY <1>1, <1>7 DEF MethodOf
<1>9. ValuesFit(D, g.stack, e.stack)
    BY <1>5, <1>7, NoneFits
<1>10. LocalsFit(D, g.locals, e.locals, m.max_locals)
    BY <1>1, <1>2, <1>7
<1>11. FrameFits(c, D, g, e, e.stack)
    BY <1>4, <1>5, <1>6, <1>7, <1>8, <1>9, <1>10 DEF FrameFits
<1> QED
    BY <1>11 DEF Running

LEMMA CallGoes ==
    ASSUME NEW c, NEW D, NEW fs, SafeFrames(c, D, fs), NEW called, NEW gs, NEW g, NEW h,
           IsUpdate(called, fs, Len(fs), g), g.method = fs[Len(fs)].method,
           IsLonger(gs, called, h), Waiting(c, D, g, h), Running(c, D, h)
    PROVE  SafeFrames(c, D, gs)
<1>1. PICK n \in Nat : n = Len(fs) /\ n >= 1
    BY SeqFacts DEF SafeFrames
<1>2. /\ Len(called) = n /\ called[n] = g
      /\ \A i \in 1 .. n : i # n => called[i] = fs[i]
    BY <1>1 DEF IsUpdate
<1>3. /\ IsSeq(gs) /\ Len(gs) = n + 1 /\ gs[n + 1] = h
      /\ \A i \in 1 .. n : gs[i] = called[i]
    BY <1>2 DEF IsLonger
<1>4. gs[n] = g /\ \A i \in 1 .. n : i # n => gs[i] = fs[i]
    BY <1>1, <1>2, <1>3
<1>5. \A i \in 1 .. n : gs[i].method = fs[i].method
    BY <1>1, <1>4
<1>6. MethodOf(c, gs[1]).result = "V"
    <2>1. gs[1].method = fs[1].method
        BY <1>1, <1>5
    <2> QED
        BY <2>1 DEF MethodOf, SafeFrames
<1>7. ASSUME NEW i \in 1 .. n
      PROVE  Waiting(c, D, gs[i], gs[i + 1])
    <2>1. CASE i = n
        BY <1>3, <1>4, <2>1
    <2>2. CASE i # n
        <3>1. i \in 1 .. n - 1 /\ i + 1 \in 1 .. n
            BY <1>1, <2>2
        <3>2. Waiting(c, D, fs[i], fs[i + 1])
            BY <1>1, <3>1 DEF SafeFrames
        <3>3. gs[i] = fs[i] /\ gs[i + 1].method = fs[i + 1].method
            BY <1>4, <1>5, <2>2, <3>1
        <3> QED
            BY <3>2, <3>3 DEF Waiting
    <2> QED
        BY <2>1, <2>2
<1>8. Len(gs) >= 1 /\ Len(gs) - 1 = n /\ gs[Len(gs)] = h
    BY <1>1, <1>3
<1> QED
    BY <1>3, <1>6, <1>7, <1>8 DEF SafeFrames

LEMMA ReturnGoes ==
    ASSUME NEW c, NEW D, NEW fs, SafeFrames(c, D, fs), Len(fs) > 1, NEW under, NEW gs, NEW g,
           IsStart(under, fs, Len(fs) - 1), IsUpdate(gs, under, Len(fs) - 1, g),
           g.method = fs[Len(fs) - 1].method, Running(c, D, g)
    PROVE  SafeFrames(c, D, gs)
<1>1. PICK n \in Nat : n = Len(fs) - 1 /\ n >= 1
    <2>1. Len(fs) \in Nat
        BY SeqFacts DEF SafeFrames
    <2> QED
        BY <2>1
<1>2. Len(under) = n /\ \A i \in 1 .. n : under[i] = fs[i]
    BY <1>1 DEF IsStart
<1>3. /\ IsSeq(gs) /\ Len(gs) = n /\ gs[n] = g
      /\ \A i \in 1 .. n : i # n => gs[i] = fs[i]
    BY <1>1, <1>2 DEF IsUpdate
<1>4. \A i \in 1 .. n : gs[i].method = fs[i].method
    BY <1>1, <1>3
<1>5. MethodOf(c, gs[1]).result = "V"
    <2>1. gs[1].method = fs[1].method
        BY <1>1, <1>4
    <2> QED
        BY <2>1 DEF MethodOf, SafeFrames
<1>6. ASSUME NEW i \in 1 .. n - 1
      PROVE  Waiting(c, D, gs[i], gs[i + 1])
    <2>1. i \in 1 .. n /\ i # n /\ i + 1 \in 1 .. n /\ i \in 1 .. Len(fs) - 1
        BY <1>1
    <2>2. Waiting(c, D, fs[i], fs[i + 1])
        BY <2>1 DEF SafeFrames
    <2>3. gs[i] = fs[i] /\ gs[i + 1].method = fs[i + 1].method
        BY <1>3, <1>4, <2>1
    <2> QED
        BY <2>2, <2>3 DEF Waiting
<1> QED
    BY <1>1, <1>3, <1>5, <1>6 DEF SafeFrames

\* What is passed is what the callee takes.
LEMMA ArgumentsFit ==
    ASSUME NEW s, Goes(s), Op = "invokestatic", NEW locals,
           locals = NewFrame(Callee, [i \in 1 .. Parameters |-> Item(Parameters - i + 1)]).locals
    PROVE  LocalsFit(DOMAIN heap, locals, Entry(class.methods[Callee]).locals,
                     class.methods[Callee].max_locals)
<1>1. PICK m : m = class.methods[Callee]
    OBVIOUS
<1>2. Callee \in DOMAIN class.methods /\ CalledBy(class, Method, s) = m /\ Parameters = Len(m.params)
    BY <1>1, CalleeIs DEF Goes
<1>3. m.max_locals \in Nat /\ Len(m.params) \in Nat
    BY <1>1, <1>2, GoesFacts, MethodFacts
<1>4. PICK T : T = Takes(class, Method, s) /\ T = m.params
    <2>1. Op = Opcode(Method, s)
        BY GoesFacts
    <2>2. Takes(class, Method, s) = m.params
        BY <1>2, <2>1 DEF Takes, Binary, Cmp, If
    <2> QED
        BY <2>2
<1>5. PICK args : args = [i \in 1 .. Parameters |-> Item(Parameters - i + 1)]
    OBVIOUS
<1>6. Len(args) = Len(m.params)
    <2>1. args = [i \in 1 .. Len(m.params) |-> args[i]]
        BY <1>2, <1>5
    <2> QED
        BY <1>3, <2>1, SeqFromFunction
<1>7. locals = [i \in 0 .. m.max_locals - 1 |-> IF i < Len(args) THEN args[i + 1] ELSE Junk]
    <2>1. PICK g : g = NewFrame(Callee, args)
        OBVIOUS
    <2>2. PICK l : l = [i \in 0 .. m.max_locals - 1 |-> IF i < Len(args) THEN args[i + 1] ELSE Junk]
        OBVIOUS
    <2>3. g = [method |-> Callee, pc |-> 0, stack |-> <<>>, locals |-> l]
        BY <1>1, <2>1, <2>2 DEF NewFrame
    <2>4. g.locals = l
        BY <2>3
    <2> QED
        BY <1>5, <2>1, <2>2, <2>4
<1>8. PICK types : types = Entry(m).locals
    OBVIOUS
<1>9. types = [i \in 0 .. m.max_locals - 1 |-> IF i < Len(m.params) THEN m.params[i + 1] ELSE "-"]
    BY <1>8 DEF Entry
<1>10. ASSUME NEW i \in 0 .. m.max_locals - 1
       PROVE  Typed(DOMAIN heap, locals[i], types[i])
    <2>1. CASE i < Len(m.params)
        <3>1. PICK n : /\ n \in 1 .. Len(m.params) /\ Len(m.params) - n + 1 = i + 1
                       /\ i + 1 \in 1 .. Len(m.params) /\ Len(m.params) - (i + 1) + 1 = n
            <4>1. PICK k \in Nat : k = Len(m.params) /\ i < k /\ i \in Int /\ 0 <= i
                BY <1>3, <2>1
            <4>2. /\ k - i \in 1 .. k /\ k - (k - i) + 1 = i + 1
                  /\ i + 1 \in 1 .. k /\ k - (i + 1) + 1 = k - i
                BY <4>1
            <4> QED
                BY <4>1, <4>2
        <3>2. args[i + 1] = Item(n)
            BY <1>2, <1>5, <3>1
        <3>3. Typed(DOMAIN heap, Item(n), T[Len(T) - n + 1])
            BY <1>4, <3>1, ItemIs
        <3>4. locals[i] = Item(n) /\ types[i] = m.params[i + 1]
            BY <1>6, <1>7, <1>9, <2>1, <3>2
        <3>5. T[Len(T) - n + 1] = m.params[i + 1]
            BY <1>4, <3>1
        <3> QED
            BY <3>3, <3>4, <3>5
    <2>2. CASE ~ (i < Len(m.params))
        <3>1. types[i] = "-"
            BY <1>9, <2>2
        <3> QED
            BY <3>1 DEF Typed
    <2> QED
        BY <2>1, <2>2
<1>11. LocalsFit(DOMAIN heap, locals, types, m.max_locals)
    BY <1>7, <1>10 DEF LocalsFit
<1> QED
    BY <1>1, <1>8, <1>11

LEMMA InvokestaticSafe ==
    ASSUME SafeInv, Invokestatic
    PROVE  SafeInv'
<1>1. /\ status = "running" /\ Op = "invokestatic" /\ Op \in Known
      /\ UNCHANGED <<class, heap, status>>
    BY DEF Invokestatic, At, Known
<1>2. PICK s : Goes(s)
    BY <1>1, StateOf
<1>3. /\ Op = Opcode(Method, s) /\ IsFrame(Frame) /\ IsSeq(frames) /\ Top >= 1
      /\ WellFormed(class)
    BY <1>2, GoesFacts
<1>4. Verified(class)
    BY JvmTypesAssumption DEF SafeInv
<1>5. /\ Named(class, Method, s) = {Callee} /\ Callee \in DOMAIN class.methods
      /\ Parameters = Len(Takes(class, Method, s))
    <2>1. Takes(class, Method, s) = CalledBy(class, Method, s).params
        BY <1>1, <1>3 DEF Takes, Binary, Cmp, If
    <2> QED
        BY <1>1, <1>2, <2>1, CalleeIs DEF Goes
<1>6. PICK h : h = NewFrame(Callee, [i \in 1 .. Parameters |-> Item(Parameters - i + 1)])
    OBVIOUS
<1>7. PICK g : g = [Frame EXCEPT !.stack = SubSeq(Stack, 1, Len(Stack) - Parameters)]
    OBVIOUS
<1>8. PICK called : IsUpdate(called, frames, Top, g) /\ IsLonger(frames', called, h)
    BY <1>3, <1>6, <1>7, InvokeFrames
<1>9. /\ g.method = Frame.method /\ g.pc = Frame.pc /\ g.locals = Frame.locals /\ IsFrame(g)
      /\ g.stack = SubSeq(Frame.stack, 1, Len(Frame.stack) - Len(Takes(class, Method, s)))
    <2>1. PICK f, stack : /\ f = Frame /\ IsFrame(f)
                          /\ stack = SubSeq(Stack, 1, Len(Stack) - Parameters)
        BY <1>3
    <2>2. g = [f EXCEPT !.stack = stack]
        BY <1>7, <2>1
    <2>3. g = [method |-> f.method, pc |-> f.pc, stack |-> stack, locals |-> f.locals]
        BY <2>1, <2>2 DEF IsFrame
    <2> QED
        BY <1>5, <2>1, <2>3 DEF IsFrame, Stack
<1>10. FrameFits(class, DOMAIN heap, g, s, Rest(class, Method, s))
    <2>1. FrameFits(class, DOMAIN heap, Frame, s, s.stack) /\ Permitted(class, Method, s)
        BY <1>2 DEF Goes, InState
    <2>2. Method = MethodOf(class, Frame)
        BY DEF Method, MethodOf
    <2> QED
        BY <1>3, <1>9, <2>1, <2>2, TakenFits
<1>11. h.method = Callee /\ h = [method |-> Callee, pc |-> 0, stack |-> <<>>, locals |-> h.locals]
    BY <1>6 DEF NewFrame
<1>12. Waiting(class, DOMAIN heap, g, h)
    <2>1. MethodOf(class, g) = Method
        BY <1>9 DEF MethodOf, Method
    <2> QED
        BY <1>1, <1>3, <1>5, <1>10, <1>11, <2>1 DEF Waiting
<1>13. Running(class, DOMAIN heap, h)
    <2>1. LocalsFit(DOMAIN heap, h.locals, Entry(class.methods[Callee]).locals,
                    class.methods[Callee].max_locals)
        BY <1>1, <1>2, <1>6, ArgumentsFit
    <2> QED
        BY <1>3, <1>4, <1>5, <1>11, <2>1, EntryRuns
<1>14. SafeFrames(class, DOMAIN heap, frames) /\ Top = Len(frames) /\ Frame = frames[Top]
    BY <1>1 DEF SafeInv, Top, Frame
<1>15. SafeFrames(class, DOMAIN heap, frames')
    BY <1>8, <1>9, <1>12, <1>13, <1>14, CallGoes
<1> QED
    BY <1>1, <1>15, OnlyFrames

\* The types of what a method returns.
Returned(m) == IF m.result # "V" THEN <<m.result>> ELSE <<>>

LEMMA ReturnFits ==
    ASSUME NEW s, Goes(s), Op \in {"ireturn", "areturn", "return"},
           NEW value, value = IF Op \in {"ireturn", "areturn"} THEN <<Item(1)>> ELSE <<>>
    PROVE  ValuesFit(DOMAIN heap, value, Returned(Method)) /\ (Method.result = "V" => Op = "return")
<1>1. Op = Opcode(Method, s) /\ Permitted(class, Method, s)
    BY GoesFacts DEF Goes
<1>2. CASE Op = "return"
    <2>1. Method.result = "V" /\ value = <<>>
        BY <1>1, <1>2 DEF Permitted
    <2> QED
        BY <1>2, <2>1, NoneFits DEF Returned
<1>3. CASE Op # "return"
    <2>1. PICK t \in Types : Takes(class, Method, s) = <<t>> /\ Method.result = t
        <3>1. CASE Op = "ireturn"
            <4>1. Takes(class, Method, s) = <<"I">>
                BY <1>1, <3>1 DEF Takes, Binary, Cmp, If
            <4> QED
                BY <1>1, <3>1, <4>1 DEF Permitted, Types
        <3>2. CASE Op = "areturn"
            <4>1. Takes(class, Method, s) = <<"R">>
                BY <1>1, <3>2 DEF Takes, Binary, Cmp, If
            <4> QED
                BY <1>1, <3>2, <4>1 DEF Permitted, Types
        <3> QED
            BY <1>3, <3>1, <3>2
    <2>2. PICK T : T = Takes(class, Method, s) /\ T = <<t>>
        BY <2>1
    <2>3. Len(T) = 1 /\ T[Len(T) - 1 + 1] = t /\ 1 \in 1 .. Len(T)
        BY <2>2
    <2>4. Typed(DOMAIN heap, Item(1), T[Len(T) - 1 + 1])
        BY <2>2, <2>3, ItemIs
    <2>5. Typed(DOMAIN heap, Item(1), t)
        BY <2>3, <2>4
    <2>6. value = <<Item(1)>> /\ Returned(Method) = <<t>> /\ Method.result # "V"
        BY <1>3, <2>1 DEF Returned, Types
    <2> QED
        BY <2>5, <2>6, OneFits
<1> QED
    BY <1>2, <1>3

\* The caller, with the value.
Resumes(c, D, f, value, next) ==
    /\ next.method = f.method /\ Running(c, D, next)
    /\ Len(f.stack \o value) <= MethodOf(c, f).max_stack

LEMMA ResumeAfterCall ==
    ASSUME NEW c, WellFormed(c), Verified(c), NEW D, NEW f, NEW g, Waiting(c, D, f, g),
           NEW value, ValuesFit(D, value, Returned(MethodOf(c, g))),
           NEW next, IsFrame(next), next.method = f.method, next.pc = f.pc + 3,
           next.locals = f.locals, next.stack = f.stack \o value
    PROVE  Resumes(c, D, f, value, next)
<1>1. PICK m : m = MethodOf(c, f)
    OBVIOUS
<1>2. PICK s : /\ FrameFits(c, D, f, s, Rest(c, m, s)) /\ Opcode(m, s) = "invokestatic"
               /\ g.method \in Named(c, m, s)
    BY <1>1 DEF Waiting
<1>3. /\ IsFrame(f) /\ f.method \in DOMAIN c.methods /\ f.pc = s.pc
      /\ s \in TypeStates(m) /\ s \in Typing(c, m)
      /\ ValuesFit(D, f.stack, Rest(c, m, s)) /\ LocalsFit(D, f.locals, s.locals, m.max_locals)
    BY <1>1, <1>2 DEF FrameFits
<1>4. Permitted(c, m, s) /\ Successors(c, m, s) \subseteq Typing(c, m)
    <2>1. Opcode(m, s) \in Known
        BY <1>2 DEF Known
    <2> QED
        BY <1>1, <1>3, <2>1 DEF Verified, MethodOf
<1>5. CalledBy(c, m, s) = MethodOf(c, g)
    <2>1. Named(c, m, s) # {}
        BY <1>2
    <2>2. PICK i : Named(c, m, s) = {i} /\ CalledBy(c, m, s) = c.methods[i]
        BY <2>1, NamedIsOne
    <2> QED
        BY <1>2, <2>2 DEF MethodOf
<1>6. Leaves(c, m, s) = Returned(MethodOf(c, g))
    BY <1>2, <1>5 DEF Leaves, Binary, Returned
<1>7. s.pc + 3 \in Targets(m, s) /\ LocalsAfter(m, s) = s.locals
    BY <1>2 DEF Targets, Length, If, Cmp, LocalsAfter
<1>8. PICK pc : pc = s.pc + 3 /\ pc = f.pc + 3
    BY <1>3
<1>11. Running(c, D, next)
    <2>1. LocalsFit(D, f.locals, LocalsAfter(m, s), m.max_locals)
        BY <1>3, <1>7
    <2>2. ValuesFit(D, value, Leaves(c, m, s))
        BY <1>6
    <2>3. pc \in Targets(m, s) /\ next.pc = pc
        BY <1>7, <1>8
    <2> QED
        BY <1>1, <1>2, <1>4, <2>1, <2>2, <2>3, ResumeRuns
<1>12. Len(f.stack \o value) <= m.max_stack
    <2>1. IsConcat(Rest(c, m, s) \o Leaves(c, m, s), Rest(c, m, s), Leaves(c, m, s))
        BY <1>3, <1>4, RestIs
    <2>2. Len(Rest(c, m, s) \o Leaves(c, m, s)) = Len(Rest(c, m, s)) + Len(Leaves(c, m, s))
        BY <2>1 DEF IsConcat
    <2>3. Len(Rest(c, m, s) \o Leaves(c, m, s)) <= m.max_stack
        BY <1>4 DEF Permitted
    <2>4. /\ IsSeq(f.stack) /\ Len(f.stack) = Len(Rest(c, m, s))
          /\ IsSeq(value) /\ Len(value) = Len(Leaves(c, m, s))
        BY <1>3, <1>6 DEF ValuesFit
    <2>5. IsConcat(f.stack \o value, f.stack, value)
        BY <2>4, SeqConcat
    <2>6. Len(f.stack \o value) = Len(f.stack) + Len(value)
        BY <2>5 DEF IsConcat
    <2> QED
        BY <2>2, <2>3, <2>4, <2>6
<1> QED
    BY <1>1, <1>11, <1>12 DEF Resumes

LEMMA ReturnSafe ==
    ASSUME SafeInv, Return
    PROVE  SafeInv'
<1>1. status = "running" /\ UNCHANGED <<class, heap>>
    BY DEF Return
<1>2. /\ class \in Classes /\ SafeFrames(class, DOMAIN heap, frames)
      /\ IsSeq(frames) /\ Top \in Nat /\ Top >= 1
    BY <1>1, SeqFacts DEF SafeInv, SafeFrames, Top
<1>3. WellFormed(class) /\ Verified(class)
    BY <1>2, JvmTypesAssumption
<1>4. InCode
    BY <1>1, SomeState, StateFacts
<1>5. Op \in {"ireturn", "areturn", "return"} /\ Op \in Known
    BY <1>4 DEF Return, At, Known
<1>6. PICK s : Goes(s)
    BY <1>1, <1>5, StateOf
<1>7. PICK value : value = IF Op \in {"ireturn", "areturn"} THEN <<Item(1)>> ELSE <<>>
    OBVIOUS
<1>8. ValuesFit(DOMAIN heap, value, Returned(Method)) /\ (Method.result = "V" => Op = "return")
    BY <1>5, <1>6, <1>7, ReturnFits
<1>9. CASE Top = 1
    <2>1. Method.result = "V"
        BY <1>2, <1>9 DEF SafeFrames, Method, MethodOf, Frame, Top
    <2>2. value = <<>>
        BY <1>7, <1>8, <2>1
    <2>3. status' = "done"
        BY <1>4, <1>7, <1>9, <2>2 DEF Return
    <2> QED
        BY <1>1, <2>3 DEF SafeInv
<1>10. CASE Top # 1
    <2>1. PICK caller : caller = frames[Top - 1]
        OBVIOUS
    <2>2. PICK next : next = [caller EXCEPT !.stack = caller.stack \o value, !.pc = caller.pc + 3]
        OBVIOUS
    <2>3. /\ status' = IF Len(caller.stack \o value) <= class.methods[caller.method].max_stack
                       THEN status ELSE "abort"
          /\ frames' = [SubSeq(frames, 1, Top - 1) EXCEPT ![Top - 1] = next]
        BY <1>4, <1>7, <1>10, <2>1, <2>2 DEF Return
    <2>4. Top > 1 /\ Top - 1 \in 1 .. Len(frames) - 1 /\ Top - 1 + 1 = Top
        BY <1>2, <1>10 DEF Top
    <2>5. Waiting(class, DOMAIN heap, caller, Frame)
        BY <1>2, <2>1, <2>4 DEF SafeFrames, Frame
    <2>6. MethodOf(class, Frame) = Method
        BY DEF MethodOf, Method
    <2>7. /\ next.method = caller.method /\ Running(class, DOMAIN heap, next)
          /\ Len(caller.stack \o value) <= MethodOf(class, caller).max_stack
        <3>1. ValuesFit(DOMAIN heap, value, Returned(MethodOf(class, Frame)))
            BY <1>8, <2>6
        <3>2. IsFrame(caller)
            BY <2>5 DEF Waiting, FrameFits
        <3>3. /\ next.method = caller.method /\ next.pc = caller.pc + 3 /\ IsFrame(next)
              /\ next.stack = caller.stack \o value /\ next.locals = caller.locals
            <4>1. PICK stack, pc : stack = caller.stack \o value /\ pc = caller.pc + 3
                OBVIOUS
            <4>2. next = [caller EXCEPT !.stack = stack, !.pc = pc]
                BY <2>2, <4>1
            <4>3. /\ next.method = caller.method /\ next.pc = pc /\ next.stack = stack
                  /\ next.locals = caller.locals /\ IsFrame(next)
                <5>1. next = [method |-> caller.method, pc |-> pc, stack |-> stack,
                              locals |-> caller.locals]
                    BY <3>2, <4>2 DEF IsFrame
                <5> QED
                    BY <5>1 DEF IsFrame
            <4> QED
                BY <4>1, <4>3
        <3>4. Resumes(class, DOMAIN heap, caller, value, next)
            BY <1>3, <2>5, <3>1, <3>3, ResumeAfterCall
        <3> QED
            BY <3>4 DEF Resumes
    <2>8. status' = status
        BY <2>3, <2>7 DEF MethodOf
    <2>9. PICK under : IsStart(under, frames, Top - 1) /\ IsUpdate(frames', under, Top - 1, next)
        BY <1>2, <2>3, <2>4, ReturnFrames
    <2>10. SafeFrames(class, DOMAIN heap, frames')
        <3>1. Len(frames) > 1 /\ Top = Len(frames) /\ next.method = frames[Len(frames) - 1].method
            BY <2>1, <2>4, <2>7 DEF Top
        <3> QED
            BY <1>2, <2>7, <2>9, <3>1, ReturnGoes
    <2> QED
        BY <1>1, <2>8, <2>10, OnlyFrames
<1> QED
    BY <1>9, <1>10

LEMMA FailSafe ==
    ASSUME SafeInv, Fail
    PROVE  SafeInv'
<1>1. status = "running" /\ Op \in Known /\ UNCHANGED <<class, frames, heap>>
    BY DEF Fail
<1>2. PICK s : Goes(s)
    BY <1>1, StateOf
<1>3. Sound
    BY <1>2, SoundIs DEF Goes
<1>4. status' = "undefined"
    BY <1>3 DEF Fail
<1> QED
    BY <1>1, <1>4 DEF SafeInv

------------------------------------------------------------------------------
(* Verified code is safe *)

LEMMA MainIs ==
    ASSUME WellFormed(class)
    PROVE  \E i \in DOMAIN class.methods :
              /\ find_method("main", MAIN_DESCRIPTOR) = i
              /\ class.methods[i].params = <<>> /\ class.methods[i].result = "V"
<1>1. PICK i \in DOMAIN class.methods :
         /\ class.methods[i].name = "main" /\ class.methods[i].descriptor = MAIN_DESCRIPTOR
         /\ class.methods[i].params = <<>> /\ class.methods[i].result = "V"
    BY DEF WellFormed
<1> DEFINE found == {m \in DOMAIN class.methods : /\ class.methods[m].name = "main"
                                                  /\ class.methods[m].descriptor = MAIN_DESCRIPTOR}
<1>2. \A j \in found : j = i
    <2>1. TAKE j \in found
    <2>2. class.methods[i].name = class.methods[j].name
          /\ class.methods[i].descriptor = class.methods[j].descriptor
        BY <1>1
    <2> QED
        BY <2>2 DEF WellFormed
<1>3. found = {i}
    BY <1>1, <1>2
<1>4. i \in Nat
    BY DEF WellFormed
<1>5. find_method("main", MAIN_DESCRIPTOR) = i
    <2>1. find_method("main", MAIN_DESCRIPTOR)
          = IF found = {} THEN 0 ELSE CHOOSE m \in found : \A n \in found : m <= n
        BY DEF find_method
    <2>2. find_method("main", MAIN_DESCRIPTOR) = CHOOSE m \in {i} : \A n \in {i} : m <= n
        <3> HIDE DEF found
        <3> QED
            BY <1>3, <2>1
    <2>3. i \in {i} /\ \A n \in {i} : i <= n
        BY <1>4
    <2> QED
        BY <2>2, <2>3
<1> QED
    BY <1>1, <1>5

LEMMA InitSafe ==
    ASSUME Init
    PROVE  SafeInv
<1>1. class \in Classes /\ status = "running"
    BY DEF Init
<1>2. WellFormed(class) /\ Verified(class)
    BY <1>1, JvmTypesAssumption
<1>3. PICK i \in DOMAIN class.methods :
         /\ find_method("main", MAIN_DESCRIPTOR) = i
         /\ class.methods[i].params = <<>> /\ class.methods[i].result = "V"
    BY <1>2, MainIs
<1>4. PICK m : m = class.methods[i]
    OBVIOUS
<1>5. PICK locals : locals = [n \in 0 .. m.max_locals - 1 |-> 0]
    OBVIOUS
<1>6. PICK g : g = [method |-> i, pc |-> 0, stack |-> <<>>, locals |-> locals]
    OBVIOUS
<1>7. frames = <<g>>
    BY <1>3, <1>4, <1>5, <1>6 DEF Init
<1>8. LocalsFit(DOMAIN heap, locals, Entry(m).locals, m.max_locals)
    <2>1. PICK types : types = Entry(m).locals
        OBVIOUS
    <2>2. m.params = <<>> /\ Len(m.params) = 0
        BY <1>3, <1>4
    <2>3. types = [n \in 0 .. m.max_locals - 1 |-> IF n < 0 THEN m.params[n + 1] ELSE "-"]
        BY <2>1, <2>2 DEF Entry
    <2>4. m.max_locals \in Nat
        BY <1>2, <1>4, MethodFacts
    <2>5. \A n \in 0 .. m.max_locals - 1 : types[n] = "-"
        BY <2>3, <2>4
    <2>6. LocalsFit(DOMAIN heap, locals, types, m.max_locals)
        BY <1>5, <2>5 DEF LocalsFit, Typed
    <2> QED
        BY <2>1, <2>6
<1>9. Running(class, DOMAIN heap, g)
    BY <1>2, <1>4, <1>6, <1>8, EntryRuns
<1>10. SafeFrames(class, DOMAIN heap, frames)
    <2>1. IsSeq(frames) /\ Len(frames) = 1 /\ frames[1] = g
        <3>1. frames \in Seq({g}) /\ Len(frames) = 1 /\ frames[1] = g
            BY <1>7
        <3> QED
            BY <3>1 DEF IsSeq
    <2>2. MethodOf(class, frames[1]).result = "V"
        BY <1>3, <1>6, <2>1 DEF MethodOf
    <2> QED
        BY <1>9, <2>1, <2>2 DEF SafeFrames
<1>11. DOMAIN heap = 0 .. 0 - 1 /\ Arrays(heap)
    BY DEF Init, Arrays
<1> QED
    BY <1>1, <1>10, <1>11 DEF SafeInv

LEMMA NextSafe ==
    ASSUME SafeInv, [Next]_vars, \A c \in Classes : BranchesDecode(c)
    PROVE  SafeInv'
<1>1. CASE Constant
    BY <1>1, ConstantSafe
<1>2. CASE Arithmetic
    BY <1>2, ArithmeticSafe
<1>3. CASE Load
    BY <1>3, LoadSafe
<1>4. CASE Store
    BY <1>4, StoreSafe
<1>5. CASE Iinc
    BY <1>5, IincSafe
<1>6. CASE Branch
    <2>1. BranchesDecode(class)
        BY DEF SafeInv
    <2> QED
        BY <1>6, <2>1, BranchSafe
<1>7. CASE Other
    BY <1>7, OtherSafe
<1>8. CASE Newarray
    BY <1>8, NewarraySafe
<1>9. CASE ArrayAccess
    BY <1>9, ArrayAccessSafe
<1>10. CASE Invokestatic
    BY <1>10, InvokestaticSafe
<1>11. CASE Return
    BY <1>11, ReturnSafe
<1>12. CASE Unhandled
    BY <1>12 DEF Unhandled, SafeInv
<1>13. CASE Fail
    BY <1>13, FailSafe
<1>14. CASE UNCHANGED vars
    BY <1>14 DEF vars, SafeInv
<1> QED
    BY <1>1, <1>2, <1>3, <1>4, <1>5, <1>6, <1>7, <1>8, <1>9, <1>10, <1>11, <1>12, <1>13, <1>14
       DEF Next

LEMMA SafeConforms ==
    ASSUME SafeInv, status = "running", NEW i \in DOMAIN frames
    PROVE  \E s \in Typing(class, class.methods[frames[i].method]) : Conforms(i, s)
<1>1. SafeFrames(class, DOMAIN heap, frames)
    BY DEF SafeInv
<1>2. IsSeq(frames) /\ Len(frames) \in Nat /\ i \in 1 .. Len(frames)
    BY <1>1, SeqFacts DEF SafeFrames
<1>3. PICK f, m : f = frames[i] /\ m = class.methods[f.method] /\ m = MethodOf(class, f)
    BY DEF MethodOf
<1>4. PICK s, stack : /\ FrameFits(class, DOMAIN heap, f, s, stack) /\ IsSeq(stack)
                      /\ stack = IF i = Top THEN s.stack ELSE Rest(class, m, s)
    <2>1. CASE i = Len(frames)
        <3>1. Running(class, DOMAIN heap, f)
            BY <1>1, <1>3, <2>1 DEF SafeFrames
        <3>2. PICK s : FrameFits(class, DOMAIN heap, f, s, s.stack)
            BY <3>1 DEF Running
        <3>3. IsSeq(s.stack)
            BY <3>2, StackFacts DEF FrameFits
        <3> QED
            BY <2>1, <3>2, <3>3 DEF Top
    <2>2. CASE i # Len(frames)
        <3>1. i \in 1 .. Len(frames) - 1
            BY <1>2, <2>2
        <3>2. Waiting(class, DOMAIN heap, f, frames[i + 1])
            BY <1>1, <1>3, <3>1 DEF SafeFrames
        <3>3. PICK s : FrameFits(class, DOMAIN heap, f, s, Rest(class, m, s))
                       /\ Opcode(m, s) = "invokestatic"
            BY <1>3, <3>2 DEF Waiting
        <3>4. WellFormed(class) /\ Verified(class)
            BY JvmTypesAssumption DEF SafeInv
        <3>5. f.method \in DOMAIN class.methods /\ s \in Typing(class, m) /\ s \in TypeStates(m)
            BY <1>3, <3>3 DEF FrameFits
        <3>6. Permitted(class, m, s)
            BY <1>3, <3>3, <3>4, <3>5 DEF Verified, Known
        <3>7. IsSeq(Rest(class, m, s))
            BY <3>4, <3>5, <3>6, RestIs DEF IsStart
        <3> QED
            BY <2>2, <3>3, <3>7 DEF Top
    <2> QED
        BY <2>1, <2>2
<1>5. /\ s \in Typing(class, m) /\ s \in TypeStates(m) /\ f.pc = s.pc
      /\ ValuesFit(DOMAIN heap, f.stack, stack)
      /\ LocalsFit(DOMAIN heap, f.locals, s.locals, m.max_locals)
    BY <1>3, <1>4 DEF FrameFits
<1>6. \A v, t : Typed(DOMAIN heap, v, t) => HasType(v, t)
    BY DEF Typed, HasType
<1>7. Len(f.stack) = Len(stack) /\ \A n \in DOMAIN stack : HasType(f.stack[n], stack[n])
    <2>1. DOMAIN stack = 1 .. Len(stack)
        BY <1>4, SeqFacts
    <2> QED
        BY <1>5, <1>6, <2>1 DEF ValuesFit
<1>8. \A n \in DOMAIN s.locals : HasType(f.locals[n], s.locals[n])
    <2>1. DOMAIN s.locals = 0 .. m.max_locals - 1
        BY <1>5, StackFacts
    <2> QED
        BY <1>5, <1>6, <2>1 DEF LocalsFit
<1>9. Conforms(i, s)
    BY <1>3, <1>4, <1>5, <1>7, <1>8 DEF Conforms
<1> QED
    BY <1>3, <1>5, <1>9

\* Whatever class files javac compiled, with branches whose distance jvm.c reads as it
\* was written: no stack overflows or runs empty, every branch, call and return finds
\* its place, and ints and references are never taken for each other.
THEOREM VerifiedCodeRunsAsTyped ==
    ASSUME \A c \in Classes : BranchesDecode(c)
    PROVE  Spec => []VerifiedCodeIsSafe
<1>1. Init => SafeInv
    BY InitSafe
<1>2. SafeInv /\ [Next]_vars => SafeInv'
    BY NextSafe
<1>3. SafeInv => VerifiedCodeIsSafe
    <2> SUFFICES ASSUME SafeInv PROVE VerifiedCodeIsSafe
        OBVIOUS
    <2>1. status # "abort"
        BY DEF SafeInv
    <2>2. status = "running" =>
             \A i \in DOMAIN frames :
                \E s \in Typing(class, class.methods[frames[i].method]) : Conforms(i, s)
        BY SafeConforms
    <2>3. \A r \in DOMAIN heap : \A n \in DOMAIN heap[r] : HasType(heap[r][n], "I")
        BY DEF SafeInv, Arrays, HasType
    <2> QED
        BY <2>1, <2>2, <2>3 DEF VerifiedCodeIsSafe
<1> QED
    BY <1>1, <1>2, <1>3, PTL DEF Spec
==============================================================================
