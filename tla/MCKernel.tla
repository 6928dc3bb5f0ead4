------------------------------- MODULE MCKernel --------------------------------
(* Three processes on a small machine, for TLC; and two that make any calls. *)
EXTENDS KernelCalls

\* Low memory (1), the kernel (2), the console (3), and the rest.
SmallPages       == 0 .. 26
SmallAllocatable == {1} \cup 4 .. 26
SmallReserved    == {0, 3}

\* A program of one page, one of a segment of two, one of two segments.
SmallImage == << << <<4, 1>> >>, << <<4, 2>> >>, << <<4, 1>>, <<5, 1>> >> >>

CallPages       == 0 .. 16
CallAllocatable == {1} \cup 4 .. 16
CallImage       == << << <<4, 1>> >>, << <<4, 2>> >> >>
================================================================================
