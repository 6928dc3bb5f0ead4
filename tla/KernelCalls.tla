------------------------------ MODULE KernelCalls ------------------------------
(****************************************************************************)
(* WeensyOS under any programs: a process makes whatever call it likes when *)
(* it likes, with any address that u-lib.hh:97 allows sys_page_alloc, one   *)
(* where it has a page already included, stores to any page it may write,   *)
(* and faults.  The kernel is Kernel's; at and heap_top, where the programs *)
(* of p-allocator.cc keep their place, stay as they are.                    *)
(*                                                                          *)
(* Arguments that u-lib.hh:97 does not allow are left out: the handout's    *)
(* syscall_page_alloc does not refuse them (kernel.c:332-335 says that it   *)
(* falls short of u-lib.hh), so that nothing is promised of such calls.     *)
(****************************************************************************)
EXTENDS Kernel

program == <<at, heap_top>>

\* SYSCALL_GETPID, at any time.
CallGetpid ==
    /\ Trap
    /\ phys' = Shown.k
    /\ mode' = IF viewer' = NoPage THEN "panic" ELSE mode
    /\ UNCHANGED <<ptable, current>>

\* SYSCALL_YIELD, at any time.
CallYield ==
    /\ Trap
    /\ phys' = Shown.k
    /\ Schedule(phys', ptable)
    /\ UNCHANGED ptable

\* SYSCALL_PAGE_ALLOC at addr.
CallPageAlloc(addr) ==
    /\ Trap
    /\ \E r \in {syscall_page_alloc(Shown.k, addr)} :
          /\ phys' = r.k
          /\ mode' = IF r.result > 0 \/ viewer' = NoPage THEN "panic" ELSE mode
    /\ UNCHANGED <<ptable, current>>

\* The process stores its pid in a page it may write.
StoreAt(addr) ==
    /\ mode = "user"
    /\ MayWrite(current, addr)
    /\ phys' = [phys EXCEPT !.mem[Pa(phys, Vmiter(phys, Root(current), addr))] =
                   Data("stored", current, 0)]
    /\ UNCHANGED <<ptable, current, mode, viewer>>

\* Timer interrupts, faults and panics are Kernel's.
CallNext ==
    \/ TimerInterrupt \/ PageFault \/ Panic
    \/ /\ UNCHANGED program
       /\ \/ CallGetpid
          \/ CallYield
          \/ \E addr \in ProcStart .. StackPage : CallPageAlloc(addr) \/ StoreAt(addr)

CallSpec == Init /\ [][CallNext]_vars

----------------------------------------------------------------------------
(* Properties *)

\* A step of the process that runs changes its own memory only, and at one address,
\* which then holds zeros or what it stored: page replaced by syscall_page_alloc
\* (kernel.c:338-351) or not, nothing of it shows again, to it or to anybody else.
OnlyOwnMemory ==
    [][LET changed == (Space \ Space') \cup (Space' \ Space)
       IN \A t, u \in changed :
             /\ t[1] = current /\ t[2] = u[2]
             /\ t \in Space' => t[3] \in {Zero, Data("stored", current, 0)}]_vars
================================================================================
