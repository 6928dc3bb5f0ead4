--------------------------------- MODULE MCJvm ---------------------------------
(* Small class files, for TLC: bytes of two bits, ints of four. *)
EXTENDS JvmTypes, SequencesExt

byte(n) == <<"byte", n>>
I1(op)        == << <<op, 0>> >>
In(op, n)     == << <<op, n>> >>
I2(op, n)     == << <<op, 0>>, byte(n) >>
I3(op, n, k)  == << <<op, 0>>, byte(n), byte(k) >>
Jump(op, off) == LET w == off % Pow(2 * ByteBits)
                 IN I3(op, w \div Pow(ByteBits), w % Pow(ByteBits))
Call(index)   == I3("invokestatic", index \div Pow(ByteBits), index % Pow(ByteBits))

\* javac's descriptors.
Type(t) == CASE t = "I" -> <<"I">> [] t = "R" -> <<"[", "I">> [] t = "V" -> <<"V">>
Descriptor(params, result) ==
    <<"(">> \o FlattenSeq([i \in DOMAIN params |-> Type(params[i])]) \o <<")">> \o Type(result)
Meth(name, params, result, stack, locals, code) ==
    [name |-> name, descriptor |-> Descriptor(params, result), params |-> params,
     result |-> result, max_stack |-> stack, max_locals |-> locals, code |-> FlattenSeq(code)]
Main(stack, locals, code) ==
    [name |-> "main", descriptor |-> MAIN_DESCRIPTOR, params |-> <<>>, result |-> "V",
     max_stack |-> stack, max_locals |-> locals, code |-> FlattenSeq(code)]
Ref(m) == [tag |-> "Methodref", name |-> m.name, descriptor |-> m.descriptor]

\* int f(int, int[]), and an overload of it that makes an array.
Get  == Meth("f", <<"I", "R">>, "I", 2, 3,
             <<I1("nop"), In("aload_n", 1), In("iload_n", 0), I1("iaload"), I1("ireturn")>>)
Make == Meth("f", <<"I">>, "R", 1, 1, <<In("iload_n", 0), I2("newarray", 2), I1("areturn")>>)
Pool == <<[tag |-> "Integer", value |-> -8], Ref(Get), Ref(Make)>>
File(main) == [pool |-> Pool, methods |-> <<Get, main, Make>>]

\* Code that javac might put between the two ends, with what it takes from the stack
\* and leaves there, so that only sequences that may fit need to be verified.
Step(code, takes, leaves) == [code |-> code, takes |-> takes, leaves |-> leaves]
Steps ==
    {Step(In("iconst", -1), <<>>, <<"I">>), Step(I2("ldc", 1), <<>>, <<"I">>),
     Step(I2("iload", 0), <<>>, <<"I">>), Step(In("aload_n", 1), <<>>, <<"R">>),
     Step(In("istore_n", 0), <<"I">>, <<>>), Step(I2("astore", 1), <<"R">>, <<>>),
     Step(I1("dup"), <<"I">>, <<"I", "I">>), Step(I1("dup"), <<"R">>, <<"R", "R">>),
     Step(I1("isub"), <<"I", "I">>, <<"I">>), Step(I1("idiv"), <<"I", "I">>, <<"I">>),
     Step(I1("ineg"), <<"I">>, <<"I">>), Step(I3("iinc", 0, 3), <<>>, <<>>),
     Step(Jump("ifeq", 4), <<"I">>, <<>>), Step(Jump("ifne", -3), <<"I">>, <<>>),
     Step(Jump("ifge", -4), <<"I">>, <<>>), Step(Jump("if_icmplt", 4), <<"I", "I">>, <<>>),
     Step(Jump("goto", -3), <<>>, <<>>), Step(Call(2), <<"I", "R">>, <<"I">>),
     Step(Call(3), <<"I">>, <<"R">>), Step(I2("newarray", 2), <<"I">>, <<"R">>),
     Step(I1("arraylength"), <<"R">>, <<"I">>), Step(I1("iaload"), <<"R", "I">>, <<"I">>),
     Step(I1("iastore"), <<"R", "I", "I">>, <<>>), Step(I3("invokevirtual", 0, 0), <<"I">>, <<>>)}

Start  == Step(<<In("iconst", 1), In("istore_n", 0), In("iconst", 2), I2("newarray", 2),
                 In("astore_n", 1)>>, <<>>, <<>>)
Start2 == Step(Start.code \o <<In("aload_n", 1), In("iconst", 0), In("iload_n", 0)>>,
               <<>>, <<"R", "I", "I">>)

\* The starts that some step may follow, and what follows it.
Longer(S) ==
    {Step(Append(p[1].code, p[2].code), <<>>,
          SubSeq(p[1].leaves, 1, Len(p[1].leaves) - Len(p[2].takes)) \o p[2].leaves) :
        p \in {q \in S \X Steps : IsSuffix(q[2].takes, q[1].leaves)}}
Mains == {Main(3, 2, s.code \o <<I1("return")>>) : s \in Longer(Longer(Longer({Start, Start2})))}

\* Programs written out: a loop over an array, a recursion, and an instruction unknown here.
Sum == Meth("sum", <<"R", "I">>, "I", 3, 2,
           <<In("iload_n", 1), Jump("ifne", 5), In("iconst", 0), I1("ireturn"),
             In("aload_n", 0), I3("iinc", 1, 3), In("iload_n", 1), I1("iaload"),
             In("aload_n", 0), In("iload_n", 1), Call(1), I1("iadd"), I1("ireturn")>>)
Fill == Main(3, 2,
           <<In("iconst", 2), In("istore_n", 0), In("iconst", 3), I2("newarray", 2), In("astore_n", 1),
             In("aload_n", 1), In("iload_n", 0), I1("dup"), I1("iastore"),
             I3("iinc", 0, 3), In("iload_n", 0), Jump("ifge", -8),
             I3("getstatic", 0, 0), In("aload_n", 1), I3("sipush", 0, 3), Call(1),
             I3("invokevirtual", 0, 0), I1("return")>>)
Written == {[pool |-> <<Ref(Sum)>>, methods |-> <<Sum, Fill>>]}
Unsupported == {File(Main(1, 1, <<I1("lconst")>>))}

\* A branch over 43 instructions of three bytes, for bytes of eight bits.
Far == Main(1, 1, <<In("iconst", 1), Jump("ifne", 132),
                    FlattenSeq([i \in 1 .. 43 |-> I3("getstatic", 0, 0)]), I1("return")>>)
FarClasses == {c \in {[pool |-> <<>>, methods |-> <<Far>>]} : Verified(c)}

TestClasses == {c \in {File(m) : m \in Mains} \cup Written \cup Unsupported : Verified(c)}

\* What the theorem on verified code takes for granted of branches, TestClasses keep
\* and FarClasses do not.
ASSUME BranchesAssumption == (\A c \in Classes : BranchesDecode(c)) <=> Classes # FarClasses
================================================================================
