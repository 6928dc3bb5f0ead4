--------------------------------- MODULE MCBasic --------------------------------
(* Small programs of two variables, for TLC. *)
EXTENDS TeenyBasic

Op(op, l, r) == init_binary_node(op, l, r)
A == Var(1)
B == Var(2)

Leaves  == {Num(-1), Num(3), Num(4), A, B}
Simple  == {Op(op, l, r) : op \in {"+", "-", "*", "/"}, l \in Leaves, r \in Leaves}
\* A division of constants that traps is not compiled.
RECURSIVE Folds(_)
Folds(e) == e.type = "BINARY_OP" =>
                /\ Folds(e.left) /\ Folds(e.right)
                /\ e.op = "/" /\ fold(e.left).is_constant /\ fold(e.right).is_constant =>
                       ~ DivisionTraps(fold(e.left).val, fold(e.right).val)
Expressions ==
    {e \in Simple \cup {Op(op, s, l) : op \in {"-", "*"}, s \in Simple, l \in {A, Num(4)}}
                  \cup {Op(op, l, s) : op \in {"-", "/"}, s \in Simple, l \in {B, Num(3)}} : Folds(e)}

Let(k, e)  == init_let_node(k, e)
Show(e)   == init_print_node(e)
Seq2(a, b) == SequenceNode(<<a, b>>)
Conditions == {Op("<", A, Num(3)), Op("=", B, A), Op(">", Op("*", A, B), Num(-1))}
Basics     == {Show(A), Let(1, Op("+", A, Num(1))), Let(2, Op("-", A, B))}
Branches   == {init_if_node(c, s, e) : c \in Conditions, s \in Basics, e \in Basics \cup {NULL}}
Loops      == {init_while_node(c, Seq2(s, t)) : c \in Conditions, s \in Basics, t \in Basics}
Nested     == {init_if_node(c, s, e) : c \in Conditions, s \in Branches \cup {SequenceNode(<<>>)},
                               e \in {NULL, Show(B)}}
              \cup {init_while_node(c, Seq2(s, Let(1, Op("+", A, Num(1))))) :
                     c \in Conditions, s \in Branches}
              \cup {init_while_node(Op("<", A, Num(3)),
                        SequenceNode(<<l, Let(1, Op("+", A, Num(1)))>>)) : l \in Loops}
Trees == {Show(e) : e \in Expressions}
         \cup {SequenceNode(<<s, Show(A), Show(B)>>) : s \in Branches \cup Loops \cup Nested}

\* Sources that miss a word of what closes them, or their first or second token.
Without(t, i) == SubSeq(t, 1, i - 1) \o SubSeq(t, i + 1, Len(t))
Malformed == UNION {LET t == Source(s) IN {Without(t, i) : i \in {1, 2, Len(t) - 1, Len(t)}}
                    : s \in Branches \cup Loops}
             \cup {Word("PRINT") \o Word("(") \o Written(e, 1) : e \in Simple}

GarbageValues == {-8, 3}
TestPrograms  == {[tree |-> t, source |-> Source(t)] : t \in Trees}
                 \cup {[tree |-> NULL, source |-> t] : t \in Malformed}
=================================================================================
