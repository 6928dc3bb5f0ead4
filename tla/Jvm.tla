---------------------------------- MODULE Jvm ----------------------------------
(****************************************************************************)
(* TeenyJVM: execute() of jvm.c, heap.c, and what read_class.c does for     *)
(* calls.  execute() calls itself for invokestatic; frames is the stack of  *)
(* its activations.  A method's code is a sequence of bytes: an opcode, or  *)
(* an operand, <<"byte", n>>.  The opcodes that come in rows, such as       *)
(* iconst_m1 ... iconst_5, carry their place in the row: <<"iconst", -1>>.  *)
(*                                                                          *)
(* Bytes have ByteBits bits (8 in the code) and ints IntBits (32).          *)
(****************************************************************************)
EXTENDS Words, Sequences, FiniteSets

CONSTANTS ByteBits,
          Classes,     \* the class files it may be given
          MaxFrames,   \* bound on the depth of calls
          MaxArrays    \* bound on the arrays of a run

ASSUME JvmAssumption == ByteBits \in Nat \ {0} /\ IntBits \in Nat /\ IntBits >= 2 * ByteBits

VARIABLES class,    \* pool: constants; methods: [name, descriptor, max_stack, max_locals, code]
          frames,   \* [method, pc, stack, locals], the innermost last
          heap,     \* the arrays, by reference
          blocks,   \* blocks malloc gave out and nobody freed, without the class's
          status    \* "running", "done", "exit", "abort" (an assertion), "undefined"

vars == <<class, frames, heap, blocks, status>>

int8(b)   == IF b < Pow(ByteBits - 1) THEN b ELSE b - Pow(ByteBits)
int16(w)  == IF w < Pow(2 * ByteBits - 1) THEN w ELSE w - Pow(2 * ByteBits)
Junk      == Pow(IntBits)    \* what malloc left in a local variable

----------------------------------------------------------------------------
(* Arithmetic.  Signed overflow wraps and shift distances are taken modulo  *)
(* the width: what the build does where C leaves it undefined.              *)

Bit(a, i)   == (a \div Pow(i)) % 2
BitOf(op, x, y) ==
    CASE op = "iand" -> x * y
      [] op = "ior"  -> x + y - x * y
      [] op = "ixor" -> (x + y) % 2
Bitwise(op, a, b) ==
    LET sum[i \in 0 .. IntBits] ==
            IF i = 0 THEN 0
            ELSE sum[i - 1] + BitOf(op, Bit(a, i - 1), Bit(b, i - 1)) * Pow(i - 1)
    IN Wrap(sum[IntBits])

Binary == {"iadd", "isub", "imul", "idiv", "irem", "ishl", "ishr", "iushr", "iand", "ior", "ixor"}

Apply(op, a, b) ==
    CASE op = "iadd"  -> Wrap(a + b)
      [] op = "isub"  -> Wrap(a - b)
      [] op = "imul"  -> Wrap(a * b)
      [] op = "idiv"  -> Quotient(a, b)
      [] op = "irem"  -> a - b * Quotient(a, b)
      [] op = "ishl"  -> Wrap(a * Pow(b % IntBits))
      [] op = "ishr"  -> a \div Pow(b % IntBits)
      [] op = "iushr" -> Wrap((a % Pow(IntBits)) \div Pow(b % IntBits))
      [] OTHER        -> Bitwise(op, a, b)

If  == {"ifeq", "ifne", "iflt", "ifge", "ifgt", "ifle"}
Cmp == {"if_icmpeq", "if_icmpne", "if_icmplt", "if_icmpge", "if_icmpgt", "if_icmple"}

Holds(op, a, b) ==
    \/ op \in {"ifeq", "if_icmpeq"} /\ a = b
    \/ op \in {"ifne", "if_icmpne"} /\ a # b
    \/ op \in {"iflt", "if_icmplt"} /\ a < b
    \/ op \in {"ifge", "if_icmpge"} /\ a >= b
    \/ op \in {"ifgt", "if_icmpgt"} /\ a > b
    \/ op \in {"ifle", "if_icmple"} /\ a <= b

----------------------------------------------------------------------------
(* The frame that runs, its next instruction, and read_class.c for calls    *)

Top     == Len(frames)
Frame   == frames[Top]
Method  == class.methods[Frame.method]
Stack   == Frame.stack
Locals  == Frame.locals
InCode  == Frame.pc \in 0 .. Len(Method.code) - 1

\* code[pc + i]
Byte(i) == IF Frame.pc + i < Len(Method.code) THEN Method.code[Frame.pc + i + 1] ELSE <<"byte", 0>>
Op      == Byte(0)[1]
Arg(i)  == Byte(i)[2]

\* The n-th item from the top of the stack.
Item(n) == Stack[Len(Stack) - n + 1]

\* get_number_of_parameters: a '[' and the type that follows are one parameter.
get_number_of_parameters(descriptor) ==
    LET end   == CHOOSE i \in DOMAIN descriptor : descriptor[i] = ")"
        count[i \in 2 .. end + 1] ==
            IF i >= end THEN 0
            ELSE 1 + count[IF descriptor[i] = "[" THEN i + 2 ELSE i + 1]
    IN count[2]

\* find_method, by name and descriptor; 0 for NULL.
find_method(name, descriptor) ==
    LET found == {m \in DOMAIN class.methods :
                     class.methods[m].name = name /\ class.methods[m].descriptor = descriptor}
    IN IF found = {} THEN 0 ELSE CHOOSE m \in found : \A n \in found : m <= n

MAIN_DESCRIPTOR == <<"(", "[", "Ljava/lang/String;", ")", "V">>

PoolIndex == Arg(1) * Pow(ByteBits) + Arg(2)
Callee    == LET c == class.pool[PoolIndex] IN find_method(c.name, c.descriptor)
Parameters == get_number_of_parameters(class.methods[Callee].descriptor)

\* (b1 << 8) | b2, with both bytes signed.
Offset == LET b1 == int8(Arg(1))
              b2 == int8(Arg(2))
          IN IF b2 < 0 THEN b2 ELSE b1 * Pow(ByteBits) + b2

\* The local variable of a load or store; the *_n forms carry it.
Loads  == {"iload", "iload_n", "aload", "aload_n"}
Stores == {"istore", "istore_n", "astore", "astore_n"}
Local  == IF Op \in {"iload", "aload", "istore", "astore", "iinc"} THEN Arg(1) ELSE Arg(0)

\* Items an instruction pops, and those it then pushes.
Pops == CASE Op \in Binary \cup Cmp \cup {"iaload"} -> 2
          [] Op \in If \cup Stores \cup {"ineg", "invokevirtual", "dup", "newarray", "arraylength",
                                         "ireturn", "areturn"} -> 1
          [] Op = "iastore" -> 3
          [] Op = "invokestatic" -> Parameters
          [] OTHER -> 0
Pushes == CASE Op \in Binary \cup Loads \cup {"iconst", "bipush", "sipush", "ldc", "ineg",
                                              "newarray", "arraylength", "iaload"} -> 1
            [] Op = "dup" -> 2
            [] OTHER -> 0

\* What the code takes for granted: constants, methods and local variables exist,
\* and references are those heap_add gave out.  Where one is not, anything may
\* happen, which "abort" stands for too.
Sound ==
    /\ Op # "byte"
    /\ Op = "invokestatic" => PoolIndex \in DOMAIN class.pool /\ Callee # 0
    /\ Op = "ldc" => Arg(1) \in DOMAIN class.pool
    /\ Op \in Loads \cup Stores \cup {"iinc"} => Local < Method.max_locals
    \* the assertions of stack_pop and stack_push
    /\ Len(Stack) >= Pops
    /\ Len(Stack) - Pops + Pushes <= Method.max_stack
    /\ Op = "arraylength" => Item(1) \in DOMAIN heap
    /\ Op = "iaload" => Item(2) \in DOMAIN heap
    /\ Op = "iastore" => Item(3) \in DOMAIN heap

\* Where Java throws an exception, or divides MinInt by -1, the code is undefined.
\* (Only for index -1 it is not: that is the array's length.  It is counted here too.)
Throws ==
    \/ Op \in {"idiv", "irem"} /\ DivisionTraps(Item(2), Item(1))
    \/ Op = "newarray" /\ Item(1) < 0
    \/ Op = "iaload" /\ Item(1) \notin DOMAIN heap[Item(2)]
    \/ Op = "iastore" /\ Item(2) \notin DOMAIN heap[Item(3)]

At(ops) == status = "running" /\ InCode /\ Op \in ops /\ Sound /\ ~ Throws

----------------------------------------------------------------------------
(* execute() *)

\* Replace what was popped by the items of pushed, and go to pc.
Continue(pushed, pc, locals) ==
    frames' = [frames EXCEPT ![Top] =
                  [Frame EXCEPT !.stack = SubSeq(Stack, 1, Len(Stack) - Pops) \o pushed,
                                !.pc = pc, !.locals = locals]]

Then(pushed, length) == Continue(pushed, Frame.pc + length, Locals)

Constant ==
    /\ At({"iconst", "bipush", "sipush", "ldc"})
    /\ CASE Op = "iconst" -> Then(<<Arg(0)>>, 1)
         [] Op = "bipush" -> Then(<<int8(Arg(1))>>, 2)
         [] Op = "sipush" -> Then(<<int16(Arg(1) * Pow(ByteBits) + Arg(2))>>, 3)
         [] Op = "ldc"    -> Then(<<class.pool[Arg(1)].value>>, 2)
    /\ UNCHANGED <<class, heap, blocks, status>>

Arithmetic ==
    /\ At(Binary \cup {"ineg"})
    /\ Then(<<IF Op = "ineg" THEN Wrap(- Item(1)) ELSE Apply(Op, Item(2), Item(1))>>, 1)
    /\ UNCHANGED <<class, heap, blocks, status>>

Load ==
    /\ At(Loads)
    /\ Then(<<Locals[Local]>>, IF Op \in {"iload", "aload"} THEN 2 ELSE 1)
    /\ UNCHANGED <<class, heap, blocks, status>>

Store ==
    /\ At(Stores)
    /\ Continue(<<>>, Frame.pc + (IF Op \in {"istore", "astore"} THEN 2 ELSE 1),
                [Locals EXCEPT ![Local] = Item(1)])
    /\ UNCHANGED <<class, heap, blocks, status>>

Iinc ==
    /\ At({"iinc"})
    /\ Continue(<<>>, Frame.pc + 3, [Locals EXCEPT ![Local] = Wrap(@ + int8(Arg(2)))])
    /\ UNCHANGED <<class, heap, blocks, status>>

Branch ==
    /\ At(If \cup Cmp \cup {"goto"})
    /\ LET taken == \/ Op = "goto"
                    \/ Op \in If /\ Holds(Op, Item(1), 0)
                    \/ Op \in Cmp /\ Holds(Op, Item(2), Item(1))
       IN Then(<<>>, IF taken THEN Offset ELSE 3)
    /\ UNCHANGED <<class, heap, blocks, status>>

\* getstatic and invokevirtual are System.out and println, whose output is left out.
Other ==
    /\ At({"nop", "dup", "getstatic", "invokevirtual"})
    /\ Then(IF Op = "dup" THEN <<Item(1), Item(1)>> ELSE <<>>,
            IF Op \in {"nop", "dup"} THEN 1 ELSE 3)
    /\ UNCHANGED <<class, heap, blocks, status>>

Newarray ==
    /\ At({"newarray"})
    /\ Cardinality(DOMAIN heap) < MaxArrays
    /\ LET ref == Cardinality(DOMAIN heap)
       IN /\ heap' = [r \in DOMAIN heap \cup {ref} |->
                         IF r = ref THEN [i \in 0 .. Item(1) - 1 |-> 0] ELSE heap[r]]
          /\ Then(<<ref>>, 2)
    /\ blocks' = blocks + (IF DOMAIN heap = {} THEN 2 ELSE 1)   \* realloc's, and the array
    /\ UNCHANGED <<class, status>>

ArrayAccess ==
    /\ At({"arraylength", "iaload", "iastore"})
    /\ CASE Op = "arraylength" -> Then(<<Cardinality(DOMAIN heap[Item(1)])>>, 1)
         [] Op = "iaload" -> Then(<<heap[Item(2)][Item(1)]>>, 1)
         [] Op = "iastore" -> Then(<<>>, 1)
    /\ heap' = IF Op = "iastore" THEN [heap EXCEPT ![Item(3)][Item(2)] = Item(1)] ELSE heap
    /\ UNCHANGED <<class, blocks, status>>

\* A new activation: its parameters, the last of them popped first, and a stack.
NewFrame(m, args) ==
    [method |-> m, pc |-> 0, stack |-> <<>>,
     locals |-> [i \in 0 .. class.methods[m].max_locals - 1 |->
                    IF i < Len(args) THEN args[i + 1] ELSE Junk]]

\* A mutant: the parameters in the order they are popped.
InvokestaticReversed ==
    /\ At({"invokestatic"})
    /\ Top < MaxFrames
    /\ frames' = Append([frames EXCEPT ![Top].stack = SubSeq(Stack, 1, Len(Stack) - Parameters)],
                        NewFrame(Callee, [i \in 1 .. Parameters |-> Item(i)]))
    /\ blocks' = blocks + 3
    /\ UNCHANGED <<class, heap, status>>

Invokestatic ==
    /\ At({"invokestatic"})
    /\ Top < MaxFrames
    /\ LET args == [i \in 1 .. Parameters |-> Item(Parameters - i + 1)]
       IN frames' = Append([frames EXCEPT
                               ![Top].stack = SubSeq(Stack, 1, Len(Stack) - Parameters)],
                           NewFrame(Callee, args))
    /\ blocks' = blocks + 3   \* locals2, the stack and its items
    /\ UNCHANGED <<class, heap, status>>

\* A mutant: areturn keeps stack->items.
freed_items_kept(way) == IF way = "areturn" THEN 1 ELSE 2

\* Blocks each of the ways out of execute() frees: the stack and its items.
freed(way) == 2

\* heap_free: the arrays, the array of pointers to them and the heap itself.
heap_free == Cardinality(DOMAIN heap) + (IF DOMAIN heap = {} THEN 1 ELSE 2)

\* The return instructions, and the end of the code; then the caller's half of
\* invokestatic, or main's assertion, and the end.
Return ==
    /\ status = "running"
    /\ ~ InCode \/ At({"ireturn", "areturn", "return"})
    /\ LET way    == IF InCode THEN Op ELSE "end"
           value  == IF way \in {"ireturn", "areturn"} THEN <<Item(1)>> ELSE <<>>
           caller == frames[Top - 1]
           stack  == caller.stack \o value
       IN IF Top = 1
          THEN /\ status' = IF value = <<>> THEN "done" ELSE "abort"
               /\ frames' = <<>>
               /\ blocks' = blocks - freed(way) - (IF value = <<>> THEN heap_free ELSE 0)
          ELSE /\ status' = IF Len(stack) <= class.methods[caller.method].max_stack
                            THEN status ELSE "abort"
               /\ frames' = [SubSeq(frames, 1, Top - 1) EXCEPT
                                ![Top - 1] = [caller EXCEPT !.stack = stack, !.pc = @ + 3]]
               /\ blocks' = blocks - freed(way) - 1   \* and locals2
    /\ UNCHANGED <<class, heap>>

Known == Binary \cup If \cup Cmp \cup Loads \cup Stores \cup
         {"iconst", "bipush", "sipush", "ldc", "ineg", "iinc", "goto", "nop", "dup", "getstatic",
          "invokevirtual", "newarray", "arraylength", "iaload", "iastore", "invokestatic",
          "ireturn", "areturn", "return", "byte"}

\* An instruction it does not know: exit(EXIT_NUMBER).
Unhandled ==
    /\ status = "running" /\ InCode /\ Op \notin Known
    /\ status' = "exit"
    /\ UNCHANGED <<class, frames, heap, blocks>>

Fail ==
    /\ status = "running" /\ InCode /\ Op \in Known
    /\ ~ Sound \/ Throws
    /\ status' = IF Sound THEN "undefined" ELSE "abort"
    /\ UNCHANGED <<class, frames, heap, blocks>>

\* main(): the heap, and the frame of the method main, whose locals are 0.
Init ==
    /\ class \in Classes
    /\ LET m == find_method("main", MAIN_DESCRIPTOR)
       IN frames = <<[method |-> m, pc |-> 0, stack |-> <<>>,
                      locals |-> [i \in 0 .. class.methods[m].max_locals - 1 |-> 0]]>>
    /\ heap = [r \in {} |-> 0]
    /\ blocks = 3
    /\ status = "running"

Next == \/ Constant \/ Arithmetic \/ Load \/ Store \/ Iinc \/ Branch \/ Other \/ Newarray
        \/ ArrayAccess \/ Invokestatic \/ Return \/ Unhandled \/ Fail

Spec == Init /\ [][Next]_vars
================================================================================
