-------------------------- MODULE MCShellsProgress --------------------------
\* Instances of ShellsProgress for TLC: process blocks are named by numbers.
EXTENDS ShellsProgress
=============================================================================
