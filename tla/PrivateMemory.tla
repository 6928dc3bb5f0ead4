---------------------------- MODULE PrivateMemory ------------------------------
(****************************************************************************)
(* What the kernel's page tables are for: every process has a memory of its *)
(* own, which nobody else changes.  A page comes into it zeroed, holds what *)
(* its process last stored there, and never goes away.                      *)
(****************************************************************************)
CONSTANTS Processes, Values,
          Zero,      \* the content of a new page
          Loaded     \* the memories when the kernel has started

VARIABLES space,     \* <<p, va, c>>: the page of process p at va holds c
          running    \* the process that runs

vars == <<space, running>>

Init == space = Loaded /\ running \in Processes

Switch == running' \in Processes /\ UNCHANGED space

Allocate ==
    \E t \in space' \ space :
       /\ t[1] = running /\ t[3] = Zero
       /\ \A u \in space : u[1] = running => u[2] # t[2]
       /\ space' = space \cup {t}
       /\ UNCHANGED running

Store ==
    \E t \in space, v \in Values :
       /\ t[1] = running
       /\ space' = (space \ {t}) \cup {<<running, t[2], v>>}
       /\ UNCHANGED running

Next == Switch \/ Allocate \/ Store

Spec == Init /\ [][Next]_vars
================================================================================
