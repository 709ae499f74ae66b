----------------------------- MODULE MCConsole ------------------------------
(***************************************************************************)
(* Instances of Console for TLC.                                           *)
(*                                                                         *)
(* No operator of Terminal looks at a cell, and the properties look at the *)
(* cells from the last prompt to the cursor, when the line is not torn.    *)
(* All of them are written with the prompt or after it.  TLC may take two  *)
(* states for one that differ in other cells, in the screen of another     *)
(* console, or in what was saved before the console came back.             *)
(***************************************************************************)
EXTENDS Console

Window(t) ==
    [i \in 1 .. Len(command) + PromptLen + 1 |->
        LET cell == Before(t.cursor, i)
        IN  IF cell = Size - 2 THEN Mark ELSE t.cell[cell]]
Shown(t) == IF torn \/ at \in {"wait", "prompt"} THEN <<t.cursor>> ELSE <<t.cursor, Window(t)>>
View == <<IF at \in {"off", "lost"} THEN Shown(saved) ELSE Shown(screen), shell, others, torn>>
=============================================================================
