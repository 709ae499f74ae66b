-------------------------- MODULE PreemptRefinement --------------------------
(***************************************************************************)
(* Why Kernel may take a call as one step.  When no timer interrupt falls  *)
(* inside a call, the statements of KernelPreempt implement the actions of *)
(* Kernel: what programs see of the scheduler between two calls is what    *)
(* Kernel says.  rest is a history variable, the state at the last moment  *)
(* the process on the CPU was in its program; Kernel shows that state      *)
(* while a call is being executed.                                         *)
(***************************************************************************)
EXTENDS KernelPreempt

VARIABLE rest

\* The call a process is suspended in, as Kernel records it.
Suspended(p) ==
    [op |-> IF code[p] = <<>> THEN "none" ELSE local[p].op,
     on |-> IF code[p] = <<>> THEN NoChannel ELSE local[p].ch]

Now == [next |-> next, prev |-> prev, state |-> state, id |-> id,
        processesList |-> processesList, maxId |-> maxId,
        currentProcess |-> currentProcess, preventTaskSwitch |-> preventTaskSwitch,
        channels |-> channels, received |-> received,
        call |-> [p \in Procs |-> Suspended(p)]]

RestInit == Init /\ rest = Now
RestNext == Next /\ rest' = IF InProgram(onCpu)' THEN Now' ELSE rest
RestSpec == RestInit /\ [][RestNext]_<<vars, rest>>

K == INSTANCE Kernel WITH
        MaxTimeSlices <- 1, BootTicks <- 0, LastMayBlock <- FALSE,
        slicesLeft <- [p \in Procs |-> 1],
        next <- rest.next, prev <- rest.prev, state <- rest.state, id <- rest.id,
        processesList <- rest.processesList, maxId <- rest.maxId,
        currentProcess <- rest.currentProcess,
        preventTaskSwitch <- rest.preventTaskSwitch,
        channels <- rest.channels, received <- rest.received, call <- rest.call

\* The statements of send, receive, newProcess, exit and switchToNextTask,
\* executed without interruption, implement the actions of Kernel.
KernelSpec == K!Spec
=============================================================================
