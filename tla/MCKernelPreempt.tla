--------------------------- MODULE MCKernelPreempt ---------------------------
\* Instances of KernelPreempt for TLC.
EXTENDS KernelPreempt, TLC

CONSTANTS a, b     \* processes besides Main

\* Processes other than Main are interchangeable: newProcess may return any.
Symmetry == Permutations(Procs \ {Main})
=============================================================================
