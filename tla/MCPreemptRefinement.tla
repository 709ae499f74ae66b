------------------------- MODULE MCPreemptRefinement -------------------------
\* Instances of PreemptRefinement for TLC.
EXTENDS PreemptRefinement, TLC

CONSTANTS a, b     \* processes besides Main

\* Processes other than Main are interchangeable: newProcess may return any.
Symmetry == Permutations(Procs \ {Main})
=============================================================================
