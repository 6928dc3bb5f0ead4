-------------------------------- MODULE JvmTypes --------------------------------
(****************************************************************************)
(* The interpreter trusts its input: javac made the class file, whose code  *)
(* follows a type discipline.  This module states that discipline, which is *)
(* not in the repository, independently of the interpreter, and what the    *)
(* interpreter owes to code that keeps it.                                  *)
(*                                                                          *)
(* Each method also says what its descriptor was made from: params and      *)
(* result, "I" for an int, "R" for an array, "V" for none.                  *)
(****************************************************************************)
EXTENDS Jvm

\* A type state: where, the types on the stack, and those of the locals, "-" for none.
Entry(m) ==
    [pc |-> 0, stack |-> <<>>,
     locals |-> [i \in 0 .. m.max_locals - 1 |->
                    IF i < Len(m.params) THEN m.params[i + 1] ELSE "-"]]

Opcode(m, s)  == m.code[s.pc + 1][1]
Operand(m, s, i) == m.code[s.pc + 1 + i][2]
Wide(m, s)    == Operand(m, s, 1) * Pow(ByteBits) + Operand(m, s, 2)

Length(op) ==
    IF op \in {"bipush", "ldc", "iload", "istore", "aload", "astore", "newarray"} THEN 2
    ELSE IF op \in If \cup Cmp \cup {"goto", "sipush", "iinc", "getstatic", "invokevirtual",
                                     "invokestatic"} THEN 3
    ELSE 1

Variable(m, s) ==
    Operand(m, s, IF Opcode(m, s) \in {"iload", "istore", "aload", "astore", "iinc"} THEN 1 ELSE 0)

\* The methods that a call may mean.
Named(c, m, s) ==
    IF Wide(m, s) \notin DOMAIN c.pool THEN {}
    ELSE {n \in DOMAIN c.methods :
             /\ c.pool[Wide(m, s)].tag = "Methodref"
             /\ c.methods[n].name = c.pool[Wide(m, s)].name
             /\ c.methods[n].descriptor = c.pool[Wide(m, s)].descriptor}
CalledBy(c, m, s) == c.methods[CHOOSE n \in Named(c, m, s) : TRUE]

\* Types an instruction takes from the stack, and those it leaves there.
Takes(c, m, s) ==
    LET op == Opcode(m, s)
    IN CASE op \in Binary \cup Cmp -> <<"I", "I">>
         [] op \in If \cup {"ineg", "istore", "istore_n", "invokevirtual", "newarray", "ireturn"} -> <<"I">>
         [] op \in {"astore", "astore_n", "arraylength", "areturn"} -> <<"R">>
         [] op = "dup" -> SubSeq(s.stack, Len(s.stack), Len(s.stack))
         [] op = "iaload" -> <<"R", "I">>
         [] op = "iastore" -> <<"R", "I", "I">>
         [] op = "invokestatic" -> CalledBy(c, m, s).params
         [] OTHER -> <<>>
Leaves(c, m, s) ==
    LET op == Opcode(m, s)
    IN CASE op \in Binary \cup {"iconst", "bipush", "sipush", "ldc", "ineg", "iload", "iload_n",
                                "arraylength", "iaload"} -> <<"I">>
         [] op \in {"aload", "aload_n", "newarray"} -> <<"R">>
         [] op = "dup" -> LET t == s.stack[Len(s.stack)] IN <<t, t>>
         [] op = "invokestatic" /\ CalledBy(c, m, s).result # "V" -> <<CalledBy(c, m, s).result>>
         [] OTHER -> <<>>

Targets(m, s) ==
    LET op == Opcode(m, s)
    IN (IF op \in {"goto", "ireturn", "areturn", "return"} THEN {} ELSE {s.pc + Length(op)})
       \cup (IF op \in If \cup Cmp \cup {"goto"} THEN {s.pc + int16(Wide(m, s))} ELSE {})

Rest(c, m, s) == SubSeq(s.stack, 1, Len(s.stack) - Len(Takes(c, m, s)))

\* The instruction at s may be executed in s.
Permitted(c, m, s) ==
    LET op == Opcode(m, s)
    IN /\ op \in Known \ {"byte"}
       /\ s.pc + Length(op) <= Len(m.code)
       /\ op = "invokestatic" => Named(c, m, s) # {}
       /\ op = "ldc" => /\ Operand(m, s, 1) \in DOMAIN c.pool
                        /\ c.pool[Operand(m, s, 1)].tag = "Integer"
       /\ op = "dup" => s.stack # <<>>
       /\ Len(s.stack) >= Len(Takes(c, m, s))
       /\ Rest(c, m, s) \o Takes(c, m, s) = s.stack
       /\ Len(Rest(c, m, s) \o Leaves(c, m, s)) <= m.max_stack
       /\ op \in Loads \cup Stores \cup {"iinc"} => Variable(m, s) < m.max_locals
       /\ op \in {"iload", "iload_n", "iinc"} => s.locals[Variable(m, s)] = "I"
       /\ op \in {"aload", "aload_n"} => s.locals[Variable(m, s)] = "R"
       /\ op = "ireturn" => m.result = "I"
       /\ op = "areturn" => m.result = "R"
       /\ op = "return" => m.result = "V"
       /\ \A pc \in Targets(m, s) : pc \in 0 .. Len(m.code) - 1 /\ m.code[pc + 1][1] # "byte"

LocalsAfter(m, s) ==
    LET op == Opcode(m, s)
    IN IF op \in {"istore", "istore_n"} THEN [s.locals EXCEPT ![Variable(m, s)] = "I"]
       ELSE IF op \in {"astore", "astore_n"} THEN [s.locals EXCEPT ![Variable(m, s)] = "R"]
       ELSE s.locals

Successors(c, m, s) ==
    {[pc |-> pc, stack |-> Rest(c, m, s) \o Leaves(c, m, s), locals |-> LocalsAfter(m, s)] :
        pc \in Targets(m, s)}

\* The type states of a method, found in rounds: all so far, and those that are new,
\* as many as there are instructions.
Typing(c, m) ==
    LET last       == Cardinality({i \in DOMAIN m.code : m.code[i][1] # "byte"})
        after(new) == UNION {Successors(c, m, s) : s \in {t \in new : Permitted(c, m, t)}}
        rounds[n \in 0 .. last] ==
            IF n = 0 THEN [all |-> {Entry(m)}, new |-> {Entry(m)}]
            ELSE LET r     == rounds[n - 1]
                     found == after(r.new) \ r.all
                 IN [all |-> r.all \cup found, new |-> found]
    IN rounds[last].all

\* The rounds were enough, and every instruction is permitted in every type state
\* that reaches it, with one stack.  An instruction that TeenyJVM does not know ends
\* the discipline.
Verified(c) ==
    \A i \in DOMAIN c.methods :
       LET m == c.methods[i]
           S == Typing(c, m)
       IN /\ Entry(m) \in S
          /\ \A s \in S : Opcode(m, s) \in Known =>
                /\ Permitted(c, m, s)
                /\ Successors(c, m, s) \subseteq S
          /\ \A s, t \in S : s.pc = t.pc => s.stack = t.stack

\* The operands of known opcodes are bytes; a constant or a local variable that the
\* opcode carries is one.
CodeFormed(m) ==
    /\ Len(m.code) \in Nat \ {0} /\ DOMAIN m.code = 1 .. Len(m.code)
    /\ \A i \in DOMAIN m.code :
          LET op == m.code[i][1]
          IN /\ op = "byte" => m.code[i][2] \in 0 .. Pow(ByteBits) - 1
             /\ op \in Known => \A k \in i + 1 .. i + Length(op) - 1 :
                                   k \in DOMAIN m.code => m.code[k][1] = "byte"
             /\ op = "iconst" => m.code[i][2] \in Ints
             /\ op \in {"iload_n", "aload_n", "istore_n", "astore_n"} => m.code[i][2] \in Nat

\* What else javac sees to: a method's parameters are among its local variables, no
\* two methods have the same name and descriptor, a descriptor lists the parameters,
\* and main has none that TeenyJVM's code could use.
WellFormed(c) ==
    /\ DOMAIN c.methods \subseteq Nat \ {0}
    /\ \A i \in DOMAIN c.methods :
          LET m == c.methods[i]
          IN /\ CodeFormed(m)
             /\ m.max_stack \in Nat /\ m.max_locals \in Nat
             /\ m.params \in Seq({"I", "R"}) /\ Len(m.params) <= m.max_locals
             /\ m.result \in {"I", "R", "V"}
             /\ \A j \in DOMAIN c.methods :
                   c.methods[j].name = m.name /\ c.methods[j].descriptor = m.descriptor => i = j
    /\ \A k \in DOMAIN c.pool :
          /\ c.pool[k].tag = "Integer" => c.pool[k].value \in Ints
          /\ c.pool[k].tag = "Methodref" =>
                \A i \in DOMAIN c.methods :
                   c.methods[i].name = c.pool[k].name /\ c.methods[i].descriptor = c.pool[k].descriptor
                   => get_number_of_parameters(c.methods[i].descriptor) = Len(c.methods[i].params)
    /\ \E i \in DOMAIN c.methods :
          LET m == c.methods[i]
          IN m.name = "main" /\ m.descriptor = MAIN_DESCRIPTOR /\ m.params = <<>> /\ m.result = "V"

ASSUME JvmTypesAssumption == \A c \in Classes : WellFormed(c) /\ Verified(c)

\* A branch of which jvm.c reads the distance that was written: its low byte is less
\* than 128, or its high byte is 255.
BranchesDecode(c) ==
    \A i \in DOMAIN c.methods : \A k \in DOMAIN c.methods[i].code :
       LET code == c.methods[i].code
       IN code[k][1] \in If \cup Cmp \cup {"goto"} =>
             code[k + 2][2] < Pow(ByteBits - 1) \/ code[k + 1][2] = Pow(ByteBits) - 1

HasType(v, t) == /\ t = "I" => v \in Ints
                 /\ t = "R" => v \in DOMAIN heap

\* The frame is in type state s; the callers of others have passed their arguments.
Conforms(i, s) ==
    LET f     == frames[i]
        m     == class.methods[f.method]
        stack == IF i = Top THEN s.stack ELSE Rest(class, m, s)
    IN /\ f.pc = s.pc
       /\ Len(f.stack) = Len(stack)
       /\ \A n \in DOMAIN stack : HasType(f.stack[n], stack[n])
       /\ \A n \in DOMAIN s.locals : HasType(f.locals[n], s.locals[n])

\* What javac compiled, so that Verified holds of each of Classes, runs as it is
\* typed: no stack overflows or runs empty (the assertions at jvm.c:28 and 34),
\* every branch, call and return finds its place, ints and references are never
\* taken for each other, and nothing uninitialized is read, whatever the calls,
\* arrays and loops.
VerifiedCodeIsSafe ==
    /\ status # "abort"
    /\ status = "running" =>
          \A i \in DOMAIN frames :
             \E s \in Typing(class, class.methods[frames[i].method]) : Conforms(i, s)
    /\ \A r \in DOMAIN heap : \A n \in DOMAIN heap[r] : HasType(heap[r][n], "I")

\* Each activation, on any of the ways out of execute(), frees what it took, and
\* main() the rest (it is built with a leak checker, Makefile:1).
NothingLeaks ==
    /\ status = "done" => blocks = 0
    /\ status = "running" => blocks = 3 * Len(frames) - 1 + heap_free
================================================================================
