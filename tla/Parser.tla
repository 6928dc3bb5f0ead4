--------------------------------- MODULE Parser ---------------------------------
(****************************************************************************)
(* TeenyBASIC's syntax trees (ast.c) and its parser (parser.c), which goes  *)
(* down the grammar over a file.  Here the file is a sequence of tokens,    *)
(* <<kind, value>>: <<"num", 3>>, <<"var", 1>> for A, or a keyword or an    *)
(* operator with 0.  Comments are left out.  Where a factor belongs and a   *)
(* keyword stands, factor finds nothing here; the parser, which reads       *)
(* letters, takes the keyword's first for a variable (parser.c:170-172).    *)
(* None of the sources in MCBasic has a keyword there.                      *)
(*                                                                          *)
(* Each function returns the node it made, NULL where it found none, and    *)
(* the position it has reached.                                             *)
(****************************************************************************)
EXTENDS Naturals, Sequences

NULL == [type |-> "NULL"]

Num(n)                 == [type |-> "NUM", value |-> n]
Var(k)                 == [type |-> "VAR", name |-> k]
SequenceNode(nodes)    == [type |-> "SEQUENCE", statements |-> nodes]

\* The init_*_node functions: what is made from NULL is NULL.
init_binary_node(op, left, right) ==
    IF NULL \in {left, right} THEN NULL
    ELSE [type |-> "BINARY_OP", op |-> op, left |-> left, right |-> right]
init_print_node(expr) == IF expr = NULL THEN NULL ELSE [type |-> "PRINT", expr |-> expr]
init_let_node(var, value) == IF value = NULL THEN NULL ELSE [type |-> "LET", var |-> var, value |-> value]
init_if_node(condition, if_branch, else_branch) ==
    IF NULL \in {condition, if_branch} THEN NULL
    ELSE [type |-> "IF", condition |-> condition, if_branch |-> if_branch, else_branch |-> else_branch]
init_while_node(condition, body) ==
    IF NULL \in {condition, body} THEN NULL
    ELSE [type |-> "WHILE", condition |-> condition, body |-> body]

----------------------------------------------------------------------------
Kind(t, p)      == IF p <= Len(t) THEN t[p][1] ELSE "EOF"
Found(node, p)  == [node |-> node, pos |-> p]

RECURSIVE expression(_, _)

\* A parenthesis that does not close drops what is in it.
Close(t, e) == IF Kind(t, e.pos) = ")" THEN Found(e.node, e.pos + 1) ELSE Found(NULL, e.pos)

factor(t, p) ==
    CASE Kind(t, p) = "("   -> Close(t, expression(t, p + 1))
      [] Kind(t, p) = "var" -> Found(Var(t[p][2]), p + 1)
      [] Kind(t, p) = "num" -> Found(Num(t[p][2]), p + 1)
      [] OTHER -> Found(NULL, p + 1)

\* The node of two operands that were found one after the other.
Both(op, left, right) == Found(init_binary_node(op, left.node, right.node), right.pos)

\* The rest of a term or expression, after what r holds.
RECURSIVE TermRest(_, _)
TermRest(t, r) ==
    IF Kind(t, r.pos) \in {"*", "/"}
    THEN TermRest(t, Both(Kind(t, r.pos), r, factor(t, r.pos + 1))) ELSE r
term(t, p) == TermRest(t, factor(t, p))

RECURSIVE ExpressionRest(_, _)
ExpressionRest(t, r) ==
    IF Kind(t, r.pos) \in {"+", "-"}
    THEN ExpressionRest(t, Both(Kind(t, r.pos), r, term(t, r.pos + 1))) ELSE r
expression(t, p) == ExpressionRest(t, term(t, p))

\* Without a comparison between the two, its operator is '\0'.
Compared(t, left) ==
    IF Kind(t, left.pos) \in {"<", "=", ">"}
    THEN Both(Kind(t, left.pos), left, expression(t, left.pos + 1))
    ELSE Both("\\0", left, expression(t, left.pos))
comparison(t, p) == Compared(t, expression(t, p))

----------------------------------------------------------------------------
(* Statements.  end: nothing that begins a statement was found.             *)

Statement(r)  == [node |-> r.node, pos |-> r.pos, end |-> FALSE]
NoStatement(p) == [node |-> NULL, pos |-> p, end |-> TRUE]

\* END and the word what follow r, and node is what was read; otherwise it is dropped.
Ended(t, r, what, node) ==
    IF Kind(t, r.pos) # "END" THEN Found(NULL, r.pos + 1)
    ELSE Found(IF Kind(t, r.pos + 1) = what THEN node ELSE NULL, r.pos + 2)

RECURSIVE sequence(_, _)

IfBranches(t, condition, yes, no) == Ended(t, no, "IF", init_if_node(condition.node, yes.node, no.node))
IfBranch(t, condition, yes) ==
    IfBranches(t, condition, yes,
               IF Kind(t, yes.pos) = "ELSE" THEN sequence(t, yes.pos + 1) ELSE Found(NULL, yes.pos))
IfCondition(t, condition) == IfBranch(t, condition, sequence(t, condition.pos))
if_statement(t, p)        == IfCondition(t, comparison(t, p))

WhileBody(t, condition, body) == Ended(t, body, "WHILE", init_while_node(condition.node, body.node))
WhileCondition(t, condition)  == WhileBody(t, condition, sequence(t, condition.pos))
while_statement(t, p)         == WhileCondition(t, comparison(t, p))

LetNode(var, e) == Found(init_let_node(var, e.node), e.pos)
let_statement(t, p) ==
    IF Kind(t, p) # "var" THEN Found(NULL, p + 1)
    ELSE IF Kind(t, p + 1) # "=" THEN Found(NULL, p + 2)
    ELSE LetNode(t[p][2], expression(t, p + 2))

PrintNode(e) == Found(init_print_node(e.node), e.pos)

statement(t, p) ==
    CASE Kind(t, p) \in {"EOF", "ELSE"} -> NoStatement(p)
      [] Kind(t, p) = "END" ->
             IF Kind(t, p + 1) \in {"IF", "WHILE"} THEN NoStatement(p) ELSE Statement(Found(NULL, p + 2))
      [] Kind(t, p) = "PRINT" -> Statement(PrintNode(expression(t, p + 1)))
      [] Kind(t, p) = "LET"   -> Statement(let_statement(t, p + 1))
      [] Kind(t, p) = "IF"    -> Statement(if_statement(t, p + 1))
      [] Kind(t, p) = "WHILE" -> Statement(while_statement(t, p + 1))
      [] OTHER -> Statement(Found(NULL, p + 1))

\* The statements from s on, after those in nodes; one alone needs no sequence.
RECURSIVE Statements(_, _, _)
Statements(t, s, nodes) ==
    IF s.end THEN Found(IF Len(nodes) = 1 THEN nodes[1] ELSE SequenceNode(nodes), s.pos)
    ELSE IF s.node = NULL THEN Found(NULL, s.pos)
    ELSE Statements(t, statement(t, s.pos), Append(nodes, s.node))
sequence(t, p) == Statements(t, statement(t, p), <<>>)

Whole(t, r) == IF r.pos > Len(t) THEN r.node ELSE NULL
parse(t)    == Whole(t, sequence(t, 1))
=================================================================================
