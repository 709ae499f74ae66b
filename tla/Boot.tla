-------------------------------- MODULE Boot --------------------------------
(***************************************************************************)
(* initKernel and the start of kernel_main (kernel/kernel.c): the PS/2     *)
(* controller and the keyboard, then paging, then freeze until a key is    *)
(* hit; only then are processes, and their directories, created.           *)
(***************************************************************************)
EXTENDS Ps2, Paging

VARIABLE
    awake           \* has freeze returned?

vars == <<ps2Vars, pagingVars, awake>>

Init == Ps2Init /\ PagingInit /\ awake = FALSE

Devices == Ps2Next /\ UNCHANGED <<pagingVars, awake>>

StartPaging ==
    /\ step = "done" /\ InitPaging
    /\ UNCHANGED <<ps2Vars, awake>>
FinishDirectory ==
    /\ \E d \in Dirs : AllocStack(d)
    /\ UNCHANGED <<ps2Vars, awake>>

\* freeze: isr33 puts a character into the buffer, if there are interrupts of the
\* keyboard and it sends a key, or one is still on its way.
Unfreeze ==
    /\ created # {} /\ todo[BootDir] = {} /\ ~awake
    /\ irqOn
    /\ (scanning /\ open) \/ \E k \in DOMAIN (out \o coming) : (out \o coming)[k] = Key
    /\ awake' = TRUE
    /\ UNCHANGED <<ps2Vars, pagingVars>>

CreateProcess ==
    /\ awake
    /\ \E d \in Dirs : NewPageDirectory(d)
    /\ UNCHANGED <<ps2Vars, awake>>
ProcessFaults ==
    /\ awake
    /\ \E d \in Dirs, v \in Virtual : PageFault(d, v)
    /\ UNCHANGED <<ps2Vars, awake>>

Next == \/ Devices \/ StartPaging \/ FinishDirectory \/ Unfreeze
        \/ CreateProcess \/ ProcessFaults

\* The kernel's own code goes on.
Spec == Init /\ [][Next]_vars /\ WF_vars(Ps2Driver /\ UNCHANGED <<pagingVars, awake>>)
=============================================================================
