------------------------------- MODULE MCRecover -------------------------------
(* Images of a root directory and two clusters, for TLC. *)
EXTENDS Recover

E(first, name, attribute, cluster, size) ==
    [first |-> first, name |-> name, attribute |-> attribute, cluster |-> cluster, size |-> size]

File(n, c)      == E("char", n, "archive", c, 1)
Directory(n, c) == E("char", n, "directory", c, 0)
Dot             == E("dot", 0, "directory", 2, 0)
Zero            == E("nul", 0, "none", 2, 0)       \* a slot never written
Freed           == E("nul", 0, "archive", 2, 0)    \* the end of a directory that shrank
\* What a file holds is read as an entry where follow() strays into it.
Data            == E("char", 1, "hidden", 2, 1)
Empty           == E("char", 1, "archive", 2, 0)

\* Three entries, two of them files, of the root; one file, or two, of its directory.
Roots    == {<<Directory(n, 2), File(m, 3), e>> : n, m \in 1 .. 3,
                                                  e \in {File(2, 3), Empty, Zero, Freed}}
            \cup {<<File(l, 3), File(m, 3), Directory(n, 2)>> : l, m, n \in 1 .. 3}
Clusters == {<<Dot, File(n, 3), e>> : n \in 1 .. 2, e \in {Zero, Freed, File(1, 3)}}
\* The name 0 is that of the zeroes.  The image may end with the first cluster.
TestImages ==
    {r \o <<z>> \o c \o <<z>> \o d :
        r \in Roots, c \in Clusters, z \in {Zero, Freed}, d \in {<<>>, <<Data, Data, Zero, Zero>>}}
=================================================================================
