-------------------------------- MODULE Compiler --------------------------------
(****************************************************************************)
(* TeenyBASIC's compiler (compile.c, and the header and footer of           *)
(* compiler.c), and the x86-64 that runs what it prints.                    *)
(*                                                                          *)
(* An instruction is <<operation, argument>>; idiv stands for the four      *)
(* instructions of a division.  Words have IntBits bits, 64 in the code,    *)
(* and there are Letters variables, 26.                                     *)
(****************************************************************************)
EXTENDS Parser, Words, FiniteSets, SequencesExt

CONSTANTS Letters,
          Programs,    \* [source, tree]: source files, and what they are meant to be
          Garbage,     \* what the stack may hold before the program runs
          MaxOutput    \* bound on what a program prints

ASSUME CompilerAssumption == IntBits \in Nat \ {0, 1} /\ Letters \in Nat

----------------------------------------------------------------------------
(* compile.c *)

Calculate(op, a, b) ==
    CASE op = "+" -> Wrap(a + b)
      [] op = "-" -> Wrap(a - b)
      [] op = "*" -> Wrap(a * b)
      [] op = "/" -> Quotient(a, b)

Constant(val) == [is_constant |-> TRUE, val |-> val]
NotConstant   == [is_constant |-> FALSE, val |-> 0]

\* Whether and to what value an expression folds.  A division that traps kills the
\* compiler; Programs have none.
RECURSIVE fold(_)
fold(node) ==
    CASE node.type = "NUM" -> Constant(node.value)
      [] node.type = "BINARY_OP" ->
             LET left  == fold(node.left)
                 right == fold(node.right)
             IN IF left.is_constant /\ right.is_constant /\ node.op \in {"+", "-", "*", "/"}
                THEN Constant(Calculate(node.op, left.val, right.val))
                ELSE NotConstant
      [] OTHER -> NotConstant

\* A mutant: the last bit counts.
power_of_last_bit(num) ==
    IF num > 0 THEN CHOOSE i \in 0 .. IntBits : num < Pow(i + 1) /\ num >= Pow(i) ELSE 0

\* The power of two that num is; 0 where it is none, and for 1.
is_power_of_two(num) ==
    LET powers == {i \in 1 .. IntBits : num = Pow(i)}
    IN IF powers = {} THEN 0 ELSE CHOOSE i \in powers : TRUE

\* Code made with the labels below if_id and while_id.
Emit(code, ids) == [code |-> code, if_id |-> ids.if_id, while_id |-> ids.while_id]

Operation(node) ==
    CASE node.op = "+" -> << <<"addq", 0>> >>
      [] node.op = "-" -> << <<"subq", 0>> >>
      [] node.op = "*" ->
             LET power == IF node.right.type = "NUM" THEN is_power_of_two(node.right.value) ELSE 0
             IN IF power # 0 THEN << <<"shl", power>> >> ELSE << <<"imulq", 0>> >>
      [] node.op = "/" -> << <<"idiv", 0>> >>
      [] OTHER -> << <<"cmp", 0>> >>

\* The jump that leaves for the branch of an IF, and the one that leaves a WHILE.
JumpIf(op, label) ==
    IF op = "=" THEN << <<"je", label>> >> ELSE IF op = "<" THEN << <<"jl", label>> >>
    ELSE IF op = ">" THEN << <<"jg", label>> >> ELSE <<>>
JumpUnless(op, label) ==
    IF op = "=" THEN << <<"jne", label>> >> ELSE IF op = "<" THEN << <<"jge", label>> >>
    ELSE IF op = ">" THEN << <<"jle", label>> >> ELSE <<>>

RECURSIVE compile_ast(_, _)

compile_binary(node, ids) ==
    compile_ast(node.right, ids).code \o << <<"push", 0>> >>
    \o compile_ast(node.left, ids).code \o << <<"pop", 0>> >> \o Operation(node)

compile_if(node, ids) ==
    LET id  == ids.if_id
        no  == IF node.else_branch = NULL THEN Emit(<<>>, [ids EXCEPT !.if_id = id + 1])
               ELSE compile_ast(node.else_branch, [ids EXCEPT !.if_id = id + 1])
        yes == compile_ast(node.if_branch, no)
    IN Emit(compile_binary(node.condition, ids) \o JumpIf(node.condition.op, <<"IF", id>>)
            \o no.code \o << <<"jmp", <<"ENDIF", id>> >>, <<"label", <<"IF", id>> >> >>
            \o yes.code \o << <<"jmp", <<"ENDIF", id>> >>, <<"label", <<"ENDIF", id>> >> >>, yes)

\* A mutant: the loop goes back to its jump, not to its condition.
compile_while_once(node, ids) ==
    LET id   == ids.while_id
        body == compile_ast(node.body, [ids EXCEPT !.while_id = id + 1])
    IN Emit(compile_binary(node.condition, ids) \o << <<"label", <<"WHILE", id>> >> >>
            \o JumpUnless(node.condition.op, <<"ENDWHILE", id>>) \o body.code
            \o << <<"jmp", <<"WHILE", id>> >>, <<"label", <<"ENDWHILE", id>> >> >>, body)

compile_while(node, ids) ==
    LET id   == ids.while_id
        body == compile_ast(node.body, [ids EXCEPT !.while_id = id + 1])
    IN Emit(<< <<"label", <<"WHILE", id>> >> >> \o compile_binary(node.condition, ids)
            \o JumpUnless(node.condition.op, <<"ENDWHILE", id>>) \o body.code
            \o << <<"jmp", <<"WHILE", id>> >>, <<"label", <<"ENDWHILE", id>> >> >>, body)

RECURSIVE compile_all(_, _)
compile_all(nodes, ids) ==
    IF nodes = <<>> THEN Emit(<<>>, ids)
    ELSE LET first == compile_ast(Head(nodes), ids)
             rest  == compile_all(Tail(nodes), first)
         IN Emit(first.code \o rest.code, rest)

compile_ast(node, ids) ==
    IF fold(node).is_constant THEN Emit(<< <<"movq", fold(node).val>> >>, ids)
    ELSE CASE node.type = "PRINT" -> Emit(compile_ast(node.expr, ids).code \o << <<"call", 0>> >>, ids)
           [] node.type = "SEQUENCE" -> compile_all(node.statements, ids)
           [] node.type = "BINARY_OP" -> Emit(compile_binary(node, ids), ids)
           [] node.type = "VAR" -> Emit(<< <<"load", node.name>> >>, ids)
           [] node.type = "LET" -> Emit(compile_ast(node.value, ids).code \o << <<"store", node.var>> >>, ids)
           [] node.type = "IF" -> compile_if(node, ids)
           [] node.type = "WHILE" -> compile_while(node, ids)

\* A mutant: room for one variable less.
header_small == << <<"enter", Letters - 1>> >>

header == << <<"enter", Letters>> >>
footer == << <<"leave", Letters>> >>

\* main(): the assembly of a source file; a parse error leaves none to run.
Translation(ast) ==
    IF ast = NULL THEN <<>> ELSE header \o compile_ast(ast, [if_id |-> 0, while_id |-> 0]).code \o footer
Assembly(source) == Translation(parse(source))

----------------------------------------------------------------------------
(* The machine.  Memory above the stack pointer is the sequence stack, the  *)
(* return address of basic_main() first; rbp is the place of the caller's.  *)

VARIABLES program,   \* [tree, code]
          garbage,   \* what the variables hold before anything is stored in them
          pc, rdi, r10, flags, rbp, stack, output, status

vars == <<program, garbage, pc, rdi, r10, flags, rbp, stack, output, status>>

Canary == 0    \* the return address, the caller's rbp, and what print_int leaves in registers

Compiled == {[tree |-> s.tree, code |-> Assembly(s.source)] : s \in Programs}

Init ==
    /\ program \in Compiled
    /\ garbage \in [1 .. Letters -> Garbage]
    /\ pc = 1 /\ rdi = Canary /\ r10 = Canary /\ flags = <<0, 0>> /\ rbp = 0
    /\ stack = <<Canary>>
    /\ output = <<>>
    /\ status = IF program.code = <<>> THEN "refused" ELSE "running"

At(ops) == status = "running" /\ program.code[pc][1] \in ops
Arg     == program.code[pc][2]

\* The place of a label.
Place(label) == CHOOSE i \in DOMAIN program.code : program.code[i] = <<"label", label>>

Arithmetic ==
    /\ At({"movq", "addq", "subq", "imulq", "shl", "idiv"})
    /\ LET op    == program.code[pc][1]
           traps == op = "idiv" /\ DivisionTraps(rdi, r10)
       IN /\ status' = IF traps THEN "trap" ELSE status
          /\ rdi' = CASE op = "movq"  -> Arg
                      [] op = "addq"  -> Calculate("+", rdi, r10)
                      [] op = "subq"  -> Calculate("-", rdi, r10)
                      [] op = "imulq" -> Calculate("*", rdi, r10)
                      [] op = "shl"   -> Wrap(rdi * Pow(Arg))
                      [] op = "idiv"  -> IF traps THEN rdi ELSE Calculate("/", rdi, r10)
    /\ pc' = pc + 1
    /\ UNCHANGED <<program, garbage, r10, flags, rbp, stack, output>>

Stack ==
    /\ At({"push", "pop"})
    /\ IF program.code[pc][1] = "push"
       THEN stack' = Append(stack, rdi) /\ UNCHANGED r10
       ELSE stack' = Front(stack) /\ r10' = Last(stack)
    /\ pc' = pc + 1
    /\ UNCHANGED <<program, garbage, rdi, flags, rbp, output, status>>

Variable ==
    /\ At({"load", "store"})
    /\ IF program.code[pc][1] = "load"
       THEN rdi' = stack[rbp + Arg] /\ UNCHANGED stack
       ELSE stack' = [stack EXCEPT ![rbp + Arg] = rdi] /\ UNCHANGED rdi
    /\ pc' = pc + 1
    /\ UNCHANGED <<program, garbage, r10, flags, rbp, output, status>>

Jump ==
    /\ At({"cmp", "label", "jmp", "je", "jl", "jg", "jne", "jge", "jle"})
    /\ LET op == program.code[pc][1]
           taken == \/ op = "jmp"
                    \/ op = "je"  /\ flags[1] = flags[2]
                    \/ op = "jl"  /\ flags[1] < flags[2]
                    \/ op = "jg"  /\ flags[1] > flags[2]
                    \/ op = "jne" /\ flags[1] # flags[2]
                    \/ op = "jge" /\ flags[1] >= flags[2]
                    \/ op = "jle" /\ flags[1] <= flags[2]
       IN /\ flags' = IF op = "cmp" THEN <<rdi, r10>> ELSE flags
          /\ pc' = IF taken THEN Place(Arg) ELSE pc + 1
    /\ UNCHANGED <<program, garbage, rdi, r10, rbp, stack, output, status>>

\* call print_int (print_int.s): it prints rdi and leaves nothing in the registers.
Call ==
    /\ At({"call"})
    /\ Len(output) < MaxOutput
    /\ output' = Append(output, rdi)
    /\ rdi' = Canary /\ r10' = Canary /\ flags' = <<Canary, Canary>>
    /\ pc' = pc + 1
    /\ UNCHANGED <<program, garbage, rbp, stack, status>>

\* push %rbp; movq %rsp, %rbp; subq: room for the variables.
Enter ==
    /\ At({"enter"})
    /\ stack' = Append(stack, rbp) \o [k \in 1 .. Arg |-> garbage[k]]
    /\ rbp' = Len(stack) + 1
    /\ pc' = pc + 1
    /\ UNCHANGED <<program, garbage, rdi, r10, flags, output, status>>

\* addq; pop %rbp; ret.
Leave ==
    /\ At({"leave"})
    /\ LET rest == SubSeq(stack, 1, Len(stack) - Arg)
       IN /\ rbp' = Last(rest)
          /\ stack' = Front(rest)
    /\ status' = "done"
    /\ UNCHANGED <<program, garbage, pc, rdi, r10, flags, output>>

Next == Arithmetic \/ Stack \/ Variable \/ Jump \/ Call \/ Enter \/ Leave

\* The processor runs on.
Spec == Init /\ [][Next]_vars /\ WF_vars(Next)
=================================================================================
