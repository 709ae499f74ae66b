------------------------------- MODULE MCBoot -------------------------------
(***************************************************************************)
(* Instances of Boot for TLC: the tables of the stack, and one more that a *)
(* program may use, with their first and some other page.                  *)
(***************************************************************************)
EXTENDS Boot

MCStackTop  == <<1020, 0>>
MCStackPage == <<1019, 1023>>
MCVirtual   == {1020, 1019, 127} \X {0, 1023}
=============================================================================
