------------------------------- MODULE TeenyBasic -------------------------------
(****************************************************************************)
(* What a TeenyBASIC program means, given directly on its syntax tree, how  *)
(* it is written, and what the compiled program owes to both.               *)
(****************************************************************************)
EXTENDS Compiler

\* The tokens of an expression, with parentheses only where rank, that of the
\* operator around it, asks for them.
RECURSIVE Written(_, _)
Written(e, rank) ==
    CASE e.type = "NUM" -> << <<"num", e.value>> >>
      [] e.type = "VAR" -> << <<"var", e.name>> >>
      [] e.type = "BINARY_OP" ->
             LET own  == IF e.op \in {"*", "/"} THEN 2 ELSE IF e.op \in {"+", "-"} THEN 1 ELSE 0
                 text == Written(e.left, own) \o << <<e.op, 0>> >> \o Written(e.right, own + 1)
             IN IF own < rank THEN << <<"(", 0>> >> \o text \o << <<")", 0>> >> ELSE text

Word(kind) == << <<kind, 0>> >>

RECURSIVE Source(_)
Source(s) ==
    CASE s.type = "PRINT" -> Word("PRINT") \o Written(s.expr, 1)
      [] s.type = "LET" -> Word("LET") \o << <<"var", s.var>>, <<"=", 0>> >> \o Written(s.value, 1)
      [] s.type = "IF" -> Word("IF") \o Written(s.condition, 0) \o Source(s.if_branch)
             \o (IF s.else_branch = NULL THEN <<>> ELSE Word("ELSE") \o Source(s.else_branch))
             \o Word("END") \o Word("IF")
      [] s.type = "WHILE" -> Word("WHILE") \o Written(s.condition, 0) \o Source(s.body)
             \o Word("END") \o Word("WHILE")
      [] s.type = "SEQUENCE" -> FlattenSeq([i \in DOMAIN s.statements |-> Source(s.statements[i])])

----------------------------------------------------------------------------
\* The value of an expression; traps where a division has none.
RECURSIVE Value(_, _)
Value(e, variables) ==
    CASE e.type = "NUM" -> [traps |-> FALSE, val |-> e.value]
      [] e.type = "VAR" -> [traps |-> FALSE, val |-> variables[e.name]]
      [] e.type = "BINARY_OP" ->
             LET l == Value(e.left, variables)
                 r == Value(e.right, variables)
             IN IF l.traps \/ r.traps \/ (e.op = "/" /\ DivisionTraps(l.val, r.val))
                THEN [traps |-> TRUE, val |-> 0]
                ELSE [traps |-> FALSE, val |-> Calculate(e.op, l.val, r.val)]

True(c, variables) ==
    LET l == Value(c.left, variables).val
        r == Value(c.right, variables).val
    IN CASE c.op = "=" -> l = r [] c.op = "<" -> l < r [] c.op = ">" -> l > r

\* Running a statement: the variables, the output, and how it ended, after at most
\* fuel turns of its loops.
RECURSIVE Run(_, _)
Run(s, st) ==
    IF st.end # "done" THEN st
    ELSE CASE s.type = "NULL" -> [st EXCEPT !.end = "refused"]
           [] s.type = "PRINT" ->
                  LET v == Value(s.expr, st.variables)
                  IN IF v.traps THEN [st EXCEPT !.end = "trap"] ELSE [st EXCEPT !.output = Append(@, v.val)]
           [] s.type = "LET" ->
                  LET v == Value(s.value, st.variables)
                  IN IF v.traps THEN [st EXCEPT !.end = "trap"]
                     ELSE [st EXCEPT !.variables[s.var] = v.val]
           [] s.type = "SEQUENCE" -> FoldLeft(LAMBDA t, x : Run(x, t), st, s.statements)
           [] Value(s.condition.left, st.variables).traps \/ Value(s.condition.right, st.variables).traps ->
                  [st EXCEPT !.end = "trap"]
           [] s.type = "IF" ->
                  IF True(s.condition, st.variables) THEN Run(s.if_branch, st)
                  ELSE IF s.else_branch = NULL THEN st ELSE Run(s.else_branch, st)
           [] s.type = "WHILE" ->
                  IF ~ True(s.condition, st.variables) THEN st
                  ELSE IF st.fuel = 0 THEN [st EXCEPT !.end = "fuel"]
                  ELSE Run(s, Run(s.body, [st EXCEPT !.fuel = @ - 1]))

Fuel == Pow(IntBits)
Meaning(tree, variables) ==
    Run(tree, [variables |-> variables, output |-> <<>>, end |-> "done", fuel |-> Fuel])

----------------------------------------------------------------------------
\* A compiled program prints what its source means and ends as that does, whatever
\* was on the stack: precedence and association (parser.c:160-202), constant folding,
\* the order of operands, shifts for products, nested branches and loops, and the
\* words that close them (parser.c:273-313).
RunsAsWritten ==
    status # "running" =>
       LET m == Meaning(program.tree, garbage)
       IN status = m.end /\ output = m.output

\* The code keeps the calling convention, as call_check.s verifies: the stack pointer
\* is aligned at every call, and at the end the stack and rbp are the caller's.  In
\* between, what is pushed for one expression never outlives it.
CallingConvention ==
    /\ At({"call", "store", "label"}) => Len(stack) = 2 + Letters /\ Len(stack) % 2 = 0
    /\ status = "done" => stack = <<Canary>> /\ rbp = 0

Ends == LET m == Meaning(program.tree, garbage) IN m.end # "fuel" /\ Len(m.output) <= MaxOutput

\* A program whose loops end ends (unless it prints more than MaxOutput): every jump
\* that leaves a loop or a branch (compile.c:159-201) is there and is the right one.
EndsAsWritten == Ends ~> status # "running"
=================================================================================
