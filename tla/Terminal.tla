------------------------------ MODULE Terminal ------------------------------
(***************************************************************************)
(* The text screen, kernel/terminal.c, as operators on its cells and its   *)
(* cursor.  Cells are numbered row by row; terminal_row and                *)
(* terminal_column are the quotient and the remainder of the cursor by     *)
(* Width.  Colours are left out.                                           *)
(***************************************************************************)
EXTENDS Integers, SequencesExt

CONSTANTS
    Width, Height,  \* VGA_WIDTH, VGA_HEIGHT (80 and 25)
    Blank           \* the space

ASSUME TerminalAssumption == Width \in Nat \ {0, 1} /\ Height \in Nat \ {0, 1}

Size      == Width * Height
Cells     == 0 .. Size - 1
column(t) == t.cursor % Width
row(t)    == t.cursor \div Width

terminal_initialize == [cell |-> [i \in Cells |-> Blank], cursor |-> 0]

\* The cell n cells after i, and the one n cells before it, for n up to Size: after
\* the last cell comes the first.
After(i, n)  == IF i + n < Size THEN i + n ELSE i + n - Size
Before(i, n) == IF n <= i THEN i - n ELSE i - n + Size

\* terminal_putentryat at the cursor, which stays
PutEntry(t, c) == [t EXCEPT !.cell[t.cursor] = c]

terminal_putchar(t, c) == [PutEntry(t, c) EXCEPT !.cursor = After(@, 1)]

\* A delchar that does not go back to the row above.
terminal_delchar_InRow(t) ==
    PutEntry(IF column(t) > 0 THEN [t EXCEPT !.cursor = @ - 1] ELSE t, Blank)
\* Before the first cell comes nothing.
terminal_delchar(t) ==
    PutEntry(IF t.cursor > 0 THEN [t EXCEPT !.cursor = @ - 1] ELSE t, Blank)

terminal_newline(t) == [t EXCEPT !.cursor = ((row(t) + 1) % Height) * Width]

\* terminal_write of a text without control characters, not longer than the screen:
\* the character that comes k places after the cursor is text[k + 1].
terminal_write(t, text) ==
    [cell   |-> [i \in Cells |->
                    LET k == IF i < t.cursor THEN i - t.cursor + Size ELSE i - t.cursor
                    IN  IF k < Len(text) THEN text[k + 1] ELSE t.cell[i]],
     cursor |-> After(t.cursor, Len(text))]

\* Back to the start of the row.
terminal_delline(t) ==
    [cell   |-> [i \in Cells |-> IF row(t) * Width <= i /\ i < t.cursor THEN Blank
                                 ELSE t.cell[i]],
     cursor |-> row(t) * Width]
=============================================================================
