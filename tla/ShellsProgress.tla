--------------------------- MODULE ShellsProgress ---------------------------
(***************************************************************************)
(* What must eventually happen in Shells.  A quantum is five periods of    *)
(* the timer, thousands of times what a step of Shells takes: a process    *)
(* that gets the CPU takes at least one step of its program before the     *)
(* timer takes the CPU away again.  moved says that it has.                *)
(***************************************************************************)
EXTENDS Shells

VARIABLE moved

PrVars == <<shVars, moved>>
PrInit == ShInit /\ moved = FALSE

PrStep == Program /\ moved' = (currentProcess' = currentProcess)
PrTick == moved /\ Tick /\ moved' = FALSE
PrNext == PrStep \/ PrTick

\* Fairness: the CPU executes, and the timer never stops.
PrSpec == PrInit /\ [][PrNext]_PrVars /\ WF_PrVars(PrStep) /\ WF_PrVars(PrTick)

-----------------------------------------------------------------------------
\* A switch of consoles is finished: kernel_main, waiting for the console on
\* the screen to stop, comes back to the keyboard, whatever its shell and its
\* commands are doing.
SwitchCompletes == (pc[Main] = "stopped") ~> (pc[Main] = "keys")

\* The command that the shell p is waiting for has a function that returns.
AwaitsReport(p) ==
    /\ pc[p] = "wait"
    /\ asked[CommandOf(p)].fn = Echo

\* The prompt comes back: a shell that waits for such a command stops waiting,
\* even though send refuses (and the command loses) a report whenever another
\* command's report is waiting on the channel.
PromptReturns == \A p \in Procs : AwaitsReport(p) ~> (pc[p] = "pollDone")
=============================================================================
