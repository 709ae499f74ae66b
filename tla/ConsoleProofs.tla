---------------------------- MODULE ConsoleProofs ----------------------------
(***************************************************************************)
(* The line being typed, and the prompt before it, are on the screen, for  *)
(* any size of the screen, any prompt, characters and commands, as long as *)
(* prompt and line fit on the screen.                                      *)
(***************************************************************************)
EXTENDS Console, SequenceTheorems, TLAPS

\* What a cell may show.
Contents == Chars \cup {Blank, Block, Output, Mark, Message} \cup (1 .. PromptLen)
Screens  == [cell : [Cells -> Contents], cursor : Cells]

Typed ==
    /\ screen \in Screens /\ saved \in Screens
    /\ at \in {"off", "lost", "blink", "key", "poll", "pollStop", "wait", "prompt"}
    /\ blink \in BOOLEAN /\ keptIsLive \in BOOLEAN /\ stop \in BOOLEAN /\ torn \in BOOLEAN
    /\ command \in Seq(Chars) /\ Len(command) <= MaxLine
    /\ cmd \in [Commands -> {"none", "start", "ran", "sends", "print", "printed", "done"}]
    /\ report = NoReport \/ report \in [from : Commands, last : BOOLEAN]
    /\ promptStart \in 0 .. Width - 1

\* Where the prompt began is the cell PromptLen and the line and perhaps the space
\* before the cursor: that it began a row is what the test of the column relies on.
PromptOn(t, line) ==
    \E shift \in {0, 1} :
        /\ PromptAt(t, line, shift)
        /\ Before(t.cursor, PromptLen + Len(line) + shift) % Width = 0

\* What the screen of this console shows, while it is on the screen and while it is not.
Kept(t) == LineOn(t, command) /\ (promptStart = 0 => PromptOn(t, command))

ConsoleInv ==
    /\ Typed
    /\ Editing /\ ~torn => Kept(screen)
    /\ at = "off" /\ ~torn => Kept(saved)

-----------------------------------------------------------------------------
\* Arithmetic of rows and columns, in which Width is a number like any other.
LEMMA Remainder ==
    ASSUME NEW c \in Nat, NEW w \in Nat \ {0}
    PROVE  /\ c % w \in 0 .. w - 1
           /\ c % w <= c
           /\ (c \div w) * w \in 0 .. c
OBVIOUS

\* What comes less than a row after the start of a row is in that row.
LEMMA RemainderInRow ==
    ASSUME NEW s \in Nat, NEW w \in Nat \ {0}, NEW n \in Nat, s % w = 0, n < w
    PROVE  (s + n) % w = n
OBVIOUS

\* The screen has more than three cells, and its rows begin in it.
LEMMA ScreenSize ==
    /\ Size \in Nat /\ Size > 3
    /\ Width \in Nat \ {0} /\ PromptLen \in Nat \ {0} /\ MaxLine \in Nat
    /\ PromptLen + MaxLine + 1 <= Size
<1>1. ASSUME NEW w \in Nat \ {0, 1}, NEW h \in Nat \ {0, 1}  PROVE w * h \in Nat /\ w * h > 3
  OBVIOUS
<1> QED
  BY <1>1, TerminalAssumption, ConsoleAssumption DEF Size

\* A row begins at a cell.
LEMMA RowStart ==
    ASSUME NEW r \in Nat
    PROVE  (r % Height) * Width \in Cells
<1>1. ASSUME NEW w \in Nat \ {0}, NEW h \in Nat \ {0}, NEW n \in 0 .. h - 1
      PROVE  n * w \in 0 .. w * h - 1
  OBVIOUS
<1>2. r % Height \in 0 .. Height - 1
  BY Remainder, TerminalAssumption
<1> QED
  BY <1>1, <1>2, TerminalAssumption DEF Cells, Size

\* The cursor is behind the prompt when it is in a column behind it: the test Erase
\* makes protects a prompt that begins a row.
LEMMA ColumnOfPrompt ==
    ASSUME NEW c \in Cells, Before(c, PromptLen) % Width = 0
    PROVE  c % Width <= PromptLen
<1>0. c \in Nat /\ Width \in Nat \ {0}
  BY ScreenSize DEF Cells
<1>1. c % Width \in 0 .. Width - 1 /\ c % Width <= c
  BY <1>0, Remainder
<1> USE <1>0, ScreenSize DEF Before
<1>2. CASE PromptLen > c \/ PromptLen >= Width
  BY <1>1, <1>2
<1>3. CASE PromptLen <= c /\ PromptLen < Width
  <2>1. (c - PromptLen) % Width = 0 /\ c - PromptLen \in Nat
    BY <1>3
  <2>2. ((c - PromptLen) + PromptLen) % Width = PromptLen
    BY <2>1, <1>3, RemainderInRow
  <2> QED
    BY <2>2, <1>1
<1> QED
  BY <1>1, <1>2, <1>3

-----------------------------------------------------------------------------
\* The terminal's operations: where the cursor goes, and which cells they change.

\* terminal_putchar
LEMMA Putchar ==
    ASSUME NEW t \in Screens, NEW c \in Contents, NEW u, u = terminal_putchar(t, c)
    PROVE  /\ u \in Screens
           /\ u.cursor = After(t.cursor, 1)
           /\ u.cell = [t.cell EXCEPT ![t.cursor] = c]
<1>1. t.cursor \in Cells /\ t.cell \in [Cells -> Contents]
  BY DEF Screens
<1>2. After(t.cursor, 1) \in Cells
  BY <1>1, ScreenSize DEF After, Cells
<1>3. /\ u.cursor = After(t.cursor, 1) /\ u.cell = [t.cell EXCEPT ![t.cursor] = c]
      /\ u = [cell |-> u.cell, cursor |-> u.cursor]
  BY <1>1 DEF terminal_putchar, PutEntry, Screens
<1> QED
  BY <1>1, <1>2, <1>3 DEF Screens

\* terminal_delchar
LEMMA Delchar ==
    ASSUME NEW t \in Screens, NEW u, u = terminal_delchar(t)
    PROVE  /\ u \in Screens
           /\ u.cursor = IF t.cursor > 0 THEN t.cursor - 1 ELSE t.cursor
           /\ u.cell = [t.cell EXCEPT ![u.cursor] = Blank]
<1> DEFINE back == IF t.cursor > 0 THEN t.cursor - 1 ELSE t.cursor
<1>1. t.cursor \in Cells /\ t.cell \in [Cells -> Contents] /\ Blank \in Contents
  BY DEF Screens, Contents
<1>2. back \in Cells
  BY <1>1, ScreenSize DEF Cells
<1>3. /\ u.cursor = back /\ u.cell = [t.cell EXCEPT ![back] = Blank]
      /\ u = [cell |-> u.cell, cursor |-> u.cursor]
  BY <1>1 DEF terminal_delchar, PutEntry, Screens
<1> QED
  BY <1>1, <1>2, <1>3 DEF Screens

\* terminal_newline
LEMMA Newline ==
    ASSUME NEW t \in Screens
    PROVE  terminal_newline(t) \in Screens
<1>1. t.cursor \in Nat
  BY ScreenSize DEF Screens, Cells
<1>2. row(t) \in Nat
  <2>1. ASSUME NEW c \in Nat, NEW w \in Nat \ {0}  PROVE c \div w \in Nat
    OBVIOUS
  <2> QED
    BY <1>1, <2>1, ScreenSize DEF row
<1>3. ((row(t) + 1) % Height) * Width \in Cells
  BY <1>2, RowStart
<1> QED
  BY <1>3 DEF terminal_newline, Screens

\* terminal_delline
LEMMA Delline ==
    ASSUME NEW t \in Screens
    PROVE  terminal_delline(t) \in Screens
<1>1. t.cursor \in Cells /\ t.cell \in [Cells -> Contents] /\ Blank \in Contents
  BY DEF Screens, Contents
<1> DEFINE start == row(t) * Width
           line  == [i \in Cells |-> IF start <= i /\ i < t.cursor THEN Blank ELSE t.cell[i]]
<1>2. start \in 0 .. t.cursor
  <2>1. t.cursor \in Nat /\ Width \in Nat \ {0}
    BY <1>1, ScreenSize DEF Cells
  <2>2. (t.cursor \div Width) * Width \in 0 .. t.cursor
    BY <2>1, Remainder
  <2> QED
    BY <2>2 DEF row
<1>3. start \in Cells
  BY <1>1, <1>2, ScreenSize DEF Cells
<1>4. line \in [Cells -> Contents]
  BY <1>1
<1>5. terminal_delline(t) = [cell |-> line, cursor |-> start]
  BY DEF terminal_delline
<1> HIDE DEF start, line
<1> QED
  BY <1>3, <1>4, <1>5 DEF Screens

\* terminal_write: the text is on the screen from the cursor on.
LEMMA Write ==
    ASSUME NEW t \in Screens, NEW text \in Seq(Contents), Len(text) <= Size,
           NEW u, u = terminal_write(t, text)
    PROVE  /\ u \in Screens
           /\ u.cursor = After(t.cursor, Len(text))
           /\ \A k \in 1 .. Len(text) : u.cell[After(t.cursor, k - 1)] = text[k]
<1> DEFINE place(i) == IF i < t.cursor THEN i - t.cursor + Size ELSE i - t.cursor
<1>1. t.cursor \in Cells /\ t.cell \in [Cells -> Contents] /\ Len(text) \in Nat
  BY DEF Screens
<1>2. After(t.cursor, Len(text)) \in Cells
  BY <1>1, ScreenSize DEF After, Cells
<1>3. ASSUME NEW i \in Cells  PROVE place(i) \in Nat
  BY <1>1, ScreenSize DEF Cells
<1>4. ASSUME NEW i \in Cells
      PROVE  (IF place(i) < Len(text) THEN text[place(i) + 1] ELSE t.cell[i]) \in Contents
  <2> HIDE DEF place
  <2>1. CASE place(i) < Len(text)
    <3>1. place(i) + 1 \in 1 .. Len(text)
      BY <2>1, <1>1, <1>3
    <3> QED
      BY <2>1, <3>1
  <2>2. CASE ~(place(i) < Len(text))
    BY <2>2, <1>1
  <2> QED
    BY <2>1, <2>2
<1>5. /\ u.cursor = After(t.cursor, Len(text))
      /\ u.cell = [i \in Cells |-> IF place(i) < Len(text) THEN text[place(i) + 1] ELSE t.cell[i]]
      /\ u = [cell |-> u.cell, cursor |-> u.cursor]
  BY DEF terminal_write
<1>6. u \in Screens
  <2> HIDE DEF place
  <2> QED
    BY <1>2, <1>4, <1>5 DEF Screens
<1>7. ASSUME NEW k \in 1 .. Len(text)  PROVE u.cell[After(t.cursor, k - 1)] = text[k]
  <2>1. After(t.cursor, k - 1) \in Cells /\ place(After(t.cursor, k - 1)) = k - 1
    BY <1>1, ScreenSize DEF After, Cells
  <2> HIDE DEF place
  <2> QED
    BY <2>1, <1>1, <1>5
<1> QED
  BY <1>5, <1>6, <1>7

-----------------------------------------------------------------------------
\* What the statements of exec_shell do to a line and a prompt that are on the
\* screen.  Each looks at the cells by their distance from the cursor; that no two of
\* them are one is where prompt, line and cursor must fit on the screen.

\* A cell to the left of the cursor, seen from the cursor after it has moved.
LEMMA Distances ==
    ASSUME NEW c \in Cells, NEW d \in 1 .. Size
    PROVE  /\ Before(c, d) \in Cells
           /\ d # Size => Before(c, d) # c
           /\ d # Size => Before(After(c, 1), d + 1) = Before(c, d)
           /\ c > 0 /\ d > 1 => Before(c, d) # c - 1 /\ Before(c - 1, d - 1) = Before(c, d)
BY ScreenSize DEF Cells, Before, After

\* Going back from where a text ends.
LEMMA BackInText ==
    ASSUME NEW c \in Cells, NEW n \in 0 .. Size, NEW m \in 0 .. n
    PROVE  Before(After(c, n), n - m) = After(c, m)
BY ScreenSize DEF Cells, Before, After

\* The cursor blinks.
LEMMA BlinkKeeps ==
    ASSUME NEW t \in Screens, NEW line \in Seq(Chars), Len(line) <= MaxLine,
           t.cursor # 0, NEW c \in Contents,
           NEW u, u = terminal_putchar(terminal_delchar(t), c)
    PROVE  /\ LineOn(t, line) => LineOn(u, line)
           /\ PromptOn(t, line) => PromptOn(u, line)
<1> DEFINE back == t.cursor - 1
<1>1. t.cursor \in Cells /\ back \in Cells /\ t.cursor > 0 /\ After(back, 1) = t.cursor
  BY ScreenSize DEF Screens, Cells, After
<1>2. /\ u \in Screens /\ u.cursor = t.cursor
      /\ \A i \in Cells : i # back => u.cell[i] = t.cell[i]
  <2>1. PICK v : v = terminal_delchar(t)
    OBVIOUS
  <2>2. v \in Screens /\ v.cursor = back /\ v.cell = [t.cell EXCEPT ![back] = Blank]
    BY <2>1, <1>1, Delchar
  <2>3. u \in Screens /\ u.cursor = After(back, 1) /\ u.cell = [v.cell EXCEPT ![back] = c]
    BY <2>1, <2>2, Putchar
  <2> QED
    BY <1>1, <2>2, <2>3 DEF Screens
<1>3. ASSUME NEW d \in 2 .. Size, NEW x, Shows(t, Before(t.cursor, d), x)
      PROVE  Shows(u, Before(u.cursor, d), x)
  <2>1. Before(t.cursor, d) \in Cells /\ Before(t.cursor, d) # back
    BY <1>1, Distances
  <2> QED
    BY <1>2, <1>3, <2>1 DEF Shows
<1>4. Len(line) \in Nat
  OBVIOUS
<1>5. ASSUME LineOn(t, line)  PROVE LineOn(u, line)
  <2> SUFFICES ASSUME NEW i \in 1 .. Len(line)
               PROVE  Shows(u, Before(u.cursor, Len(line) + 2 - i), line[i])
    BY DEF LineOn
  <2>1. Len(line) + 2 - i \in 2 .. Size
    BY <1>4, ScreenSize
  <2> QED
    BY <1>3, <1>5, <2>1 DEF LineOn
<1>6. ASSUME PromptOn(t, line)  PROVE PromptOn(u, line)
  <2>1. PICK shift \in {0, 1} : /\ PromptAt(t, line, shift)
                                /\ Before(t.cursor, PromptLen + Len(line) + shift) % Width = 0
    BY <1>6 DEF PromptOn
  <2>2. ASSUME NEW i \in 1 .. PromptLen - 1
        PROVE  Shows(u, Before(u.cursor, Len(line) + shift + PromptLen + 1 - i), PromptText[i])
    <3>1. Len(line) + shift + PromptLen + 1 - i \in 2 .. Size
      BY <1>4, ScreenSize
    <3> QED
      BY <1>3, <2>1, <3>1 DEF PromptAt
  <2> QED
    BY <1>2, <2>1, <2>2 DEF PromptOn, PromptAt
<1> QED
  BY <1>5, <1>6

\* A character is typed: it goes where the cursor was shown.
LEMMA TypeKeeps ==
    ASSUME NEW t \in Screens, NEW line \in Seq(Chars), Len(line) < MaxLine,
           t.cursor # 0, NEW c \in Chars, NEW longer, longer = Append(line, c),
           NEW u, u = terminal_putchar(terminal_putchar(terminal_delchar(t), c), Block)
    PROVE  /\ LineOn(t, line) => LineOn(u, longer)
           /\ PromptOn(t, line) => PromptOn(u, longer)
<1> DEFINE back == t.cursor - 1
<1>1. t.cursor \in Cells /\ back \in Cells /\ t.cursor > 0 /\ After(back, 1) = t.cursor
  BY ScreenSize DEF Screens, Cells, After
<1>2. /\ u \in Screens /\ u.cursor = After(t.cursor, 1)
      /\ u.cell[back] = c
      /\ \A i \in Cells : i # back /\ i # t.cursor => u.cell[i] = t.cell[i]
  <2>0. c \in Contents /\ Block \in Contents
    BY DEF Contents
  <2>1. PICK v : v = terminal_delchar(t)
    OBVIOUS
  <2>2. v \in Screens /\ v.cursor = back /\ v.cell = [t.cell EXCEPT ![back] = Blank]
    BY <2>1, <1>1, Delchar
  <2>3. PICK w : w = terminal_putchar(v, c)
    OBVIOUS
  <2>4. w \in Screens /\ w.cursor = t.cursor /\ w.cell = [v.cell EXCEPT ![back] = c]
    BY <2>0, <2>2, <2>3, <1>1, Putchar
  <2>5. /\ u \in Screens /\ u.cursor = After(t.cursor, 1)
        /\ u.cell = [w.cell EXCEPT ![t.cursor] = Block]
    BY <2>0, <2>1, <2>3, <2>4, Putchar
  <2>6. back # t.cursor
    BY <1>1 DEF Cells
  <2> QED
    BY <1>1, <2>2, <2>4, <2>5, <2>6 DEF Screens
<1>3. ASSUME NEW d \in 2 .. Size - 1, NEW x, Shows(t, Before(t.cursor, d), x)
      PROVE  Shows(u, Before(u.cursor, d + 1), x)
  <2>0. d \in 1 .. Size /\ d # Size /\ d > 1
    BY ScreenSize
  <2>1. /\ Before(t.cursor, d) \in Cells /\ Before(t.cursor, d) # back
        /\ Before(t.cursor, d) # t.cursor /\ Before(u.cursor, d + 1) = Before(t.cursor, d)
    BY <1>1, <1>2, <2>0, Distances
  <2> QED
    BY <1>2, <1>3, <2>1 DEF Shows
<1>4. /\ Len(line) \in Nat /\ Len(longer) = Len(line) + 1 /\ longer[Len(longer)] = c
      /\ \A i \in 1 .. Len(line) : longer[i] = line[i]
  OBVIOUS
<1>5. ASSUME LineOn(t, line)  PROVE LineOn(u, longer)
  <2> SUFFICES ASSUME NEW i \in 1 .. Len(longer)
               PROVE  Shows(u, Before(u.cursor, Len(longer) + 2 - i), longer[i])
    BY DEF LineOn
  <2>1. CASE i = Len(longer)
    <3>1. Before(u.cursor, Len(longer) + 2 - i) = back
      <4>1. Len(longer) + 2 - i = 2
        BY <1>4, <2>1
      <4>2. Before(After(t.cursor, 1), 2) = Before(t.cursor, 1) /\ Before(t.cursor, 1) = back
        <5>1. 1 \in 1 .. Size /\ 1 # Size /\ 1 + 1 = 2
          BY ScreenSize
        <5>2. Before(After(t.cursor, 1), 2) = Before(t.cursor, 1)
          BY <1>1, <5>1, Distances
        <5>3. Before(t.cursor, 1) = back
          BY <1>1 DEF Before, Cells
        <5> QED
          BY <5>2, <5>3
      <4> QED
        BY <1>2, <4>1, <4>2
    <3> QED
      BY <1>2, <1>4, <2>1, <3>1 DEF Shows
  <2>2. CASE i # Len(longer)
    <3>1. i \in 1 .. Len(line) /\ Len(line) + 2 - i \in 2 .. Size - 1
      BY <1>4, <2>2, ScreenSize
    <3>2. Shows(u, Before(u.cursor, (Len(line) + 2 - i) + 1), line[i])
      BY <1>3, <1>5, <3>1 DEF LineOn
    <3>3. (Len(line) + 2 - i) + 1 = Len(longer) + 2 - i
      BY <1>4
    <3> QED
      BY <1>4, <3>1, <3>2, <3>3
  <2> QED
    BY <2>1, <2>2
<1>6. ASSUME PromptOn(t, line)  PROVE PromptOn(u, longer)
  <2>1. PICK shift \in {0, 1} : /\ PromptAt(t, line, shift)
                                /\ Before(t.cursor, PromptLen + Len(line) + shift) % Width = 0
    BY <1>6 DEF PromptOn
  <2>2. ASSUME NEW i \in 1 .. PromptLen - 1
        PROVE  Shows(u, Before(u.cursor, Len(longer) + shift + PromptLen + 1 - i), PromptText[i])
    <3>1. Len(line) + shift + PromptLen + 1 - i \in 2 .. Size - 1
      BY <1>4, ScreenSize
    <3>2. Shows(u, Before(u.cursor, (Len(line) + shift + PromptLen + 1 - i) + 1), PromptText[i])
      BY <1>3, <2>1, <3>1 DEF PromptAt
    <3>3. (Len(line) + shift + PromptLen + 1 - i) + 1 = Len(longer) + shift + PromptLen + 1 - i
      BY <1>4, ScreenSize
    <3> QED
      BY <3>2, <3>3
  <2>3. Before(u.cursor, PromptLen + Len(longer) + shift)
          = Before(t.cursor, PromptLen + Len(line) + shift)
    <3>1. /\ PromptLen + Len(line) + shift \in 1 .. Size /\ PromptLen + Len(line) + shift # Size
          /\ PromptLen + Len(longer) + shift = (PromptLen + Len(line) + shift) + 1
      BY <1>4, ScreenSize
    <3> QED
      BY <1>1, <1>2, <3>1, Distances
  <2> QED
    BY <2>1, <2>2, <2>3 DEF PromptOn, PromptAt
<1> QED
  BY <1>5, <1>6

\* What erasing does to the screen.
LEMMA Erased ==
    ASSUME NEW t \in Screens, t.cursor # 0, NEW u, u = terminal_delchar(t)
    PROVE  /\ u.cursor = t.cursor - 1
           /\ \A d \in 2 .. Size : \A x :
                Shows(t, Before(t.cursor, d), x) => Shows(u, Before(u.cursor, d - 1), x)
<1>1. t.cursor \in Cells /\ t.cursor > 0
  BY ScreenSize DEF Screens, Cells
<1>2. u \in Screens /\ u.cursor = t.cursor - 1 /\ u.cell = [t.cell EXCEPT ![u.cursor] = Blank]
  BY <1>1, Delchar
<1>3. ASSUME NEW d \in 2 .. Size, NEW x, Shows(t, Before(t.cursor, d), x)
      PROVE  Shows(u, Before(u.cursor, d - 1), x)
  <2>1. /\ Before(t.cursor, d) \in Cells /\ Before(t.cursor, d) # u.cursor
        /\ Before(u.cursor, d - 1) = Before(t.cursor, d)
    BY <1>1, <1>2, ScreenSize, Distances
  <2> QED
    BY <1>2, <1>3, <2>1 DEF Shows, Screens
<1> QED
  BY <1>2, <1>3

\* pop of the list of the characters.
LEMMA Shorter ==
    ASSUME NEW S, NEW line \in Seq(S), line # <<>>, NEW shorter, shorter = Front(line)
    PROVE  /\ Len(line) \in Nat \ {0}
           /\ shorter \in Seq(S) /\ Len(shorter) = Len(line) - 1
           /\ \A i \in 1 .. Len(shorter) : shorter[i] = line[i]
<1>1. Len(line) \in Nat \ {0}
  OBVIOUS
<1>2. 1 \in 1 .. Len(line) + 1 /\ Len(line) - 1 \in 0 .. Len(line)
  BY <1>1
<1>3. /\ shorter \in Seq(S)
      /\ Len(shorter) = IF 1 <= Len(line) - 1 THEN (Len(line) - 1) - 1 + 1 ELSE 0
      /\ \A i \in 1 .. (Len(line) - 1) - 1 + 1 : shorter[i] = line[1 + i - 1]
  BY <1>2, SubSeqProperties DEF Front
<1>4. Len(shorter) = Len(line) - 1
  <2>1. \A n \in Nat \ {0} : n - 1 = IF 1 <= n - 1 THEN (n - 1) - 1 + 1 ELSE 0
    OBVIOUS
  <2> QED
    BY <1>1, <1>3, <2>1, Zenon
<1>5. ASSUME NEW i \in 1 .. Len(line) - 1  PROVE shorter[i] = line[i]
  <2>1. i \in 1 .. (Len(line) - 1) - 1 + 1 /\ 1 + i - 1 = i
    BY <1>1
  <2> QED
    BY <1>3, <2>1
<1> QED
  BY <1>1, <1>3, <1>4, <1>5

\* The last character of a line is erased.
LEMMA EraseKeeps ==
    ASSUME NEW t \in Screens, NEW line \in Seq(Chars), Len(line) <= MaxLine, line # <<>>,
           t.cursor # 0, NEW shorter, shorter = Front(line),
           NEW u, u = terminal_delchar(t)
    PROVE  /\ LineOn(t, line) => LineOn(u, shorter)
           /\ PromptOn(t, line) => PromptOn(u, shorter)
<1>1. /\ u.cursor = t.cursor - 1
      /\ \A d \in 2 .. Size : \A x :
           Shows(t, Before(t.cursor, d), x) => Shows(u, Before(u.cursor, d - 1), x)
  BY Erased
<1>2. t.cursor \in Cells /\ t.cursor > 0
  BY ScreenSize DEF Screens, Cells
<1>3. /\ Len(line) \in Nat \ {0} /\ Len(shorter) = Len(line) - 1
      /\ \A i \in 1 .. Len(shorter) : shorter[i] = line[i]
  BY Shorter
<1>4. ASSUME LineOn(t, line)  PROVE LineOn(u, shorter)
  <2> SUFFICES ASSUME NEW i \in 1 .. Len(shorter)
               PROVE  Shows(u, Before(u.cursor, Len(shorter) + 2 - i), shorter[i])
    BY DEF LineOn
  <2>1. i \in 1 .. Len(line) /\ Len(line) + 2 - i \in 2 .. Size
    BY <1>3, ScreenSize
  <2>2. Shows(u, Before(u.cursor, (Len(line) + 2 - i) - 1), line[i])
    BY <1>1, <1>4, <2>1 DEF LineOn
  <2>3. (Len(line) + 2 - i) - 1 = Len(shorter) + 2 - i
    BY <1>3
  <2> QED
    BY <1>3, <2>2, <2>3
<1>5. ASSUME PromptOn(t, line)  PROVE PromptOn(u, shorter)
  <2>1. PICK shift \in {0, 1} : /\ PromptAt(t, line, shift)
                                /\ Before(t.cursor, PromptLen + Len(line) + shift) % Width = 0
    BY <1>5 DEF PromptOn
  <2>2. ASSUME NEW i \in 1 .. PromptLen - 1
        PROVE  Shows(u, Before(u.cursor, Len(shorter) + shift + PromptLen + 1 - i), PromptText[i])
    <3>1. Len(line) + shift + PromptLen + 1 - i \in 2 .. Size
      BY <1>3, ScreenSize
    <3>2. Shows(u, Before(u.cursor, (Len(line) + shift + PromptLen + 1 - i) - 1), PromptText[i])
      BY <1>1, <2>1, <3>1 DEF PromptAt
    <3>3. (Len(line) + shift + PromptLen + 1 - i) - 1 = Len(shorter) + shift + PromptLen + 1 - i
      BY <1>3, ScreenSize
    <3> QED
      BY <3>2, <3>3
  <2>3. Before(u.cursor, PromptLen + Len(shorter) + shift)
          = Before(t.cursor, PromptLen + Len(line) + shift)
    <3>1. /\ PromptLen + Len(line) + shift \in 2 .. Size
          /\ PromptLen + Len(shorter) + shift = (PromptLen + Len(line) + shift) - 1
      BY <1>3, ScreenSize
    <3> QED
      BY <1>1, <1>2, <3>1, ScreenSize, Distances
  <2> QED
    BY <2>1, <2>2, <2>3 DEF PromptOn, PromptAt
<1> QED
  BY <1>4, <1>5

\* There is nothing left of the line, and the cursor is behind the column where it
\* began: what is erased is the cell that blinks, and the space behind the prompt is not.
LEMMA ErasePromptKeeps ==
    ASSUME NEW t \in Screens, t.cursor # 0, column(t) > PromptLen,
           PromptOn(t, <<>>), NEW u, u = terminal_delchar(t)
    PROVE  PromptOn(u, <<>>)
<1>1. /\ u.cursor = t.cursor - 1
      /\ \A d \in 2 .. Size : \A x :
           Shows(t, Before(t.cursor, d), x) => Shows(u, Before(u.cursor, d - 1), x)
  BY Erased
<1>2. t.cursor \in Cells /\ t.cursor > 0
  BY ScreenSize DEF Screens, Cells
<1>3. Len(<<>>) = 0
  OBVIOUS
<1>4. PICK shift \in {0, 1} : /\ PromptAt(t, <<>>, shift)
                              /\ Before(t.cursor, PromptLen + 0 + shift) % Width = 0
  BY <1>3 DEF PromptOn
<1>5. shift = 1
  <2>1. CASE shift = 0
    <3>1. PromptLen + 0 + shift = PromptLen
      BY <2>1, ScreenSize
    <3>2. t.cursor % Width <= PromptLen
      BY <1>2, <1>4, <3>1, ColumnOfPrompt
    <3>3. t.cursor % Width \in Int
      <4>1. t.cursor \in Nat /\ Width \in Nat \ {0}
        BY <1>2, ScreenSize DEF Cells
      <4> QED
        BY <4>1, Remainder
    <3> QED
      BY <3>2, <3>3, ScreenSize DEF column
  <2> QED
    BY <2>1
<1>6. PromptAt(u, <<>>, 0)
  <2> SUFFICES ASSUME NEW i \in 1 .. PromptLen - 1
               PROVE  Shows(u, Before(u.cursor, 0 + 0 + PromptLen + 1 - i), PromptText[i])
    BY <1>3 DEF PromptAt
  <2>1. 0 + shift + PromptLen + 1 - i \in 2 .. Size
    BY <1>5, ScreenSize
  <2>2. Shows(t, Before(t.cursor, 0 + shift + PromptLen + 1 - i), PromptText[i])
    BY <1>3, <1>4 DEF PromptAt
  <2>3. Shows(u, Before(u.cursor, (0 + shift + PromptLen + 1 - i) - 1), PromptText[i])
    BY <1>1, <2>1, <2>2
  <2>4. (0 + shift + PromptLen + 1 - i) - 1 = 0 + 0 + PromptLen + 1 - i
    BY <1>5, ScreenSize
  <2> QED
    BY <2>3, <2>4
<1>7. Before(u.cursor, PromptLen + 0 + 0) = Before(t.cursor, PromptLen + 0 + shift)
  <2>1. PromptLen + 0 + shift \in 2 .. Size /\ PromptLen + 0 + 0 = (PromptLen + 0 + shift) - 1
    BY <1>5, ScreenSize
  <2> QED
    BY <1>1, <1>2, <2>1, ScreenSize, Distances
<1> QED
  BY <1>3, <1>4, <1>6, <1>7 DEF PromptOn

\* The prompt is shown, alone or with the line and the cursor.
LEMMA ShownLine ==
    ASSUME NEW t \in Screens, NEW line \in Seq(Chars), Len(line) <= MaxLine,
           NEW shift \in {0, 1}, shift = 0 => line = <<>>,
           NEW text \in Seq(Contents), Len(text) = PromptLen + Len(line) + shift,
           \A i \in 1 .. PromptLen : text[i] = PromptText[i],
           \A i \in 1 .. Len(line) : text[PromptLen + i] = line[i],
           NEW u, u = terminal_write(t, text)
    PROVE  /\ u \in Screens
           /\ LineOn(u, line)
           /\ column(t) = 0 => PromptOn(u, line)
<1> USE ScreenSize
<1>1. t.cursor \in Cells /\ Len(line) \in Nat /\ Len(text) \in 1 .. Size
  BY DEF Screens
<1>2. /\ u \in Screens /\ u.cursor = After(t.cursor, Len(text))
      /\ \A k \in 1 .. Len(text) : u.cell[After(t.cursor, k - 1)] = text[k]
  <2>1. Len(text) <= Size
    BY <1>1
  <2> QED
    BY <2>1, Write
<1>3. ASSUME NEW k \in 1 .. Len(text)
      PROVE  Before(u.cursor, Len(text) + 1 - k) = After(t.cursor, k - 1)
  <2>1. /\ Len(text) \in 0 .. Size /\ k - 1 \in 0 .. Len(text)
        /\ Len(text) - (k - 1) = Len(text) + 1 - k
    BY <1>1
  <2>2. Before(After(t.cursor, Len(text)), Len(text) - (k - 1)) = After(t.cursor, k - 1)
    BY <1>1, <2>1, BackInText
  <2> QED
    BY <1>2, <2>1, <2>2
<1>4. LineOn(u, line)
  <2> SUFFICES ASSUME NEW i \in 1 .. Len(line)
               PROVE  Shows(u, Before(u.cursor, Len(line) + 2 - i), line[i])
    BY DEF LineOn
  <2>1. shift = 1
    OBVIOUS
  <2>2. PromptLen + i \in 1 .. Len(text) /\ Len(text) + 1 - (PromptLen + i) = Len(line) + 2 - i
    BY <1>1, <2>1
  <2>3. u.cell[Before(u.cursor, Len(line) + 2 - i)] = line[i]
    BY <1>2, <1>3, <2>2
  <2> QED
    BY <2>3 DEF Shows
<1>5. ASSUME column(t) = 0  PROVE PromptOn(u, line)
  <2>1. PromptAt(u, line, shift)
    <3> SUFFICES ASSUME NEW i \in 1 .. PromptLen - 1
                 PROVE  Shows(u, Before(u.cursor, Len(line) + shift + PromptLen + 1 - i),
                              PromptText[i])
      BY DEF PromptAt
    <3>1. i \in 1 .. Len(text) /\ Len(text) + 1 - i = Len(line) + shift + PromptLen + 1 - i
      BY <1>1
    <3>2. u.cell[Before(u.cursor, Len(line) + shift + PromptLen + 1 - i)] = PromptText[i]
      BY <1>2, <1>3, <3>1
    <3> QED
      BY <3>2 DEF Shows
  <2>2. Before(u.cursor, PromptLen + Len(line) + shift) = t.cursor
    BY <1>1, <1>2 DEF Before, After, Cells
  <2> QED
    BY <1>5, <2>1, <2>2 DEF PromptOn, column
<1> QED
  BY <1>2, <1>4, <1>5

\* switchTaskWrapper's digit is in a cell no property looks at.
LEMMA SwitchKeeps ==
    ASSUME NEW t \in Screens, NEW line \in Seq(Chars), Len(line) <= MaxLine,
           NEW u, u = [t EXCEPT !.cell[Size - 2] = Mark]
    PROVE  /\ u \in Screens
           /\ LineOn(t, line) => LineOn(u, line)
           /\ PromptOn(t, line) => PromptOn(u, line)
<1>1. /\ u \in Screens /\ u.cursor = t.cursor
      /\ \A i \in Cells : i # Size - 2 => u.cell[i] = t.cell[i]
  BY DEF Screens, Contents
<1>2. ASSUME NEW d \in 1 .. Size, NEW x, Shows(t, Before(t.cursor, d), x)
      PROVE  Shows(u, Before(u.cursor, d), x)
  <2>1. Before(t.cursor, d) \in Cells
    BY Distances DEF Screens
  <2> QED
    BY <1>1, <1>2, <2>1 DEF Shows
<1>3. Len(line) \in Nat
  OBVIOUS
<1>4. ASSUME LineOn(t, line)  PROVE LineOn(u, line)
  <2>1. \A i \in 1 .. Len(line) : Len(line) + 2 - i \in 1 .. Size
    BY <1>3, ScreenSize
  <2> QED
    BY <1>2, <1>4, <2>1 DEF LineOn
<1>5. ASSUME PromptOn(t, line)  PROVE PromptOn(u, line)
  <2>1. PICK shift \in {0, 1} : /\ PromptAt(t, line, shift)
                                /\ Before(t.cursor, PromptLen + Len(line) + shift) % Width = 0
    BY <1>5 DEF PromptOn
  <2>2. \A i \in 1 .. PromptLen - 1 : Len(line) + shift + PromptLen + 1 - i \in 1 .. Size
    BY <1>3, ScreenSize
  <2>3. PromptAt(u, line, shift)
    BY <1>2, <2>1, <2>2 DEF PromptAt
  <2> QED
    BY <1>1, <2>1, <2>3 DEF PromptOn
<1> QED
  BY <1>1, <1>4, <1>5

-----------------------------------------------------------------------------
\* The texts the shell writes.
LEMMA Texts ==
    /\ PromptText \in Seq(Contents) /\ Len(PromptText) = PromptLen
    /\ \A c \in {Message, Output} : <<c>> \in Seq(Contents) /\ Len(<<c>>) <= Size
<1>1. PromptText \in [1 .. PromptLen -> Contents]
  BY ScreenSize DEF PromptText, Contents
<1>2. \A c \in {Message, Output} : <<c>> \in Seq(Contents) /\ Len(<<c>>) = 1
  BY DEF Contents
<1> QED
  BY <1>1, <1>2, ScreenSize

\* printf of Ctrl-C, of a line that is refused, and of what a command prints.
LEMMA WriteOne ==
    ASSUME NEW t \in Screens, NEW c \in {Message, Output}
    PROVE  terminal_write(t, <<c>>) \in Screens
BY Texts, Write

\* printf of the prompt and then of the line and the cursor.
LEMMA Redrawn ==
    ASSUME NEW t \in Screens, NEW line \in Seq(Chars), Len(line) <= MaxLine,
           NEW u, u = terminal_write(t, PromptText \o line \o <<Block>>)
    PROVE  /\ u \in Screens
           /\ LineOn(u, line)
           /\ column(t) = 0 => PromptOn(u, line)
<1> DEFINE text == PromptText \o line \o <<Block>>
<1>1. line \in Seq(Contents) /\ <<Block>> \in Seq(Contents) /\ Len(<<Block>>) = 1
  BY DEF Contents
<1>2. PromptText \in Seq(Contents) /\ Len(PromptText) = PromptLen
  BY Texts
<1>3. text \in Seq(Contents) /\ Len(text) = PromptLen + Len(line) + 1
  BY <1>1, <1>2
<1>4. /\ \A i \in 1 .. PromptLen : text[i] = PromptText[i]
      /\ \A i \in 1 .. Len(line) : text[PromptLen + i] = line[i]
  BY <1>1, <1>2, ScreenSize
<1> HIDE DEF text
<1>5. u = terminal_write(t, text)
  BY DEF text
<1> QED
  BY <1>3, <1>4, <1>5, ShownLine

\* printf of the prompt alone.
LEMMA Prompted ==
    ASSUME NEW t \in Screens, NEW u, u = terminal_write(t, PromptText)
    PROVE  /\ u \in Screens
           /\ LineOn(u, <<>>)
           /\ column(t) = 0 => PromptOn(u, <<>>)
<1>1. PromptText \in Seq(Contents) /\ Len(PromptText) = PromptLen + Len(<<>>) + 0
  BY Texts, ScreenSize
<1>2. <<>> \in Seq(Chars) /\ Len(<<>>) = 0
  OBVIOUS
<1>3. Len(<<>>) <= MaxLine
  BY <1>2, ScreenSize
<1>4. \A i \in 1 .. Len(<<>>) : PromptText[PromptLen + i] = <<>>[i]
  BY <1>2
<1> QED
  BY <1>1, <1>2, <1>3, <1>4, ShownLine

-----------------------------------------------------------------------------
\* Init; then one lemma for each kind of step.
LEMMA InitInv == Init => ConsoleInv
<1> SUFFICES ASSUME Init PROVE ConsoleInv
  OBVIOUS
<1>1. terminal_initialize \in Screens
  BY ScreenSize DEF terminal_initialize, Screens, Cells, Contents
<1>2. PICK u : u = terminal_write(terminal_initialize, PromptText)
  OBVIOUS
<1>3. screen = u /\ saved = u
  BY <1>2 DEF Init
<1>4. u \in Screens /\ LineOn(u, <<>>)
      /\ (column(terminal_initialize) = 0 => PromptOn(u, <<>>))
  BY <1>1, <1>2, Prompted
<1>5. column(terminal_initialize) = 0
  <2>1. ASSUME NEW w \in Nat \ {0}  PROVE 0 % w = 0
    OBVIOUS
  <2> QED
    BY <2>1, ScreenSize DEF column, terminal_initialize
<1>6. Typed
  <2>1. command \in Seq(Chars) /\ Len(command) <= MaxLine
    <3>1. <<>> \in Seq(Chars) /\ Len(<<>>) = 0
      OBVIOUS
    <3> QED
      BY <3>1, ScreenSize DEF Init
  <2>2. cmd \in [Commands -> {"none", "start", "ran", "sends", "print", "printed", "done"}]
    BY DEF Init
  <2>3. promptStart \in 0 .. Width - 1
    BY ScreenSize DEF Init
  <2>4. screen \in Screens /\ saved \in Screens
    BY <1>3, <1>4
  <2> QED
    BY <2>1, <2>2, <2>3, <2>4 DEF Init, Typed
<1>7. Kept(saved)
  BY <1>3, <1>4, <1>5 DEF Kept, Init
<1> QED
  BY <1>6, <1>7 DEF ConsoleInv, Editing, Init

\* Steps that write nothing on the screen and leave the line alone.
LEMMA QuietInv ==
    ASSUME ConsoleInv, Typed', UNCHANGED <<screen, saved, command, promptStart, torn>>,
           Editing' => Editing, at' = "off" => at = "off"
    PROVE  ConsoleInv'
BY DEF ConsoleInv, Kept, LineOn, PromptOn, PromptAt, Shows

\* Steps that write on the screen while no line is shown there, or tear it.
LEMMA TearingInv ==
    ASSUME ConsoleInv, Typed', UNCHANGED <<saved, command, promptStart>>,
           Editing' => torn', at' = "off" => at = "off" /\ (~torn' => ~torn)
    PROVE  ConsoleInv'
BY DEF ConsoleInv, Kept, LineOn, PromptOn, PromptAt, Shows

\* Steps after which the line, changed or not, is on the screen or torn.
LEMMA EditingInv ==
    ASSUME ConsoleInv, Typed', at' # "off", ~torn' => Kept(screen)'
    PROVE  ConsoleInv'
BY DEF ConsoleInv

\* exec_shell, up to the key
LEMMA BlinksInv == ConsoleInv /\ Blinks => ConsoleInv'
<1> SUFFICES ASSUME ConsoleInv, Blinks PROVE ConsoleInv'
  OBVIOUS
<1> USE DEF Blinks
<1>1. Typed /\ screen \in Screens /\ command \in Seq(Chars) /\ Len(command) <= MaxLine
  BY DEF ConsoleInv, Typed
<1>2. CASE UNCHANGED <<blink, screen, torn>>
  <2>1. Typed'
    BY <1>1, <1>2 DEF Typed, others
  <2> QED
    BY <1>2, <2>1, QuietInv DEF Editing
<1>3. CASE /\ blink' = ~blink /\ torn' = Tears
           /\ screen' = terminal_putchar(terminal_delchar(screen), IF blink THEN Blank ELSE Block)
  <2>1. PICK c \in Contents : c = IF blink THEN Blank ELSE Block
    BY DEF Contents
  <2>2. screen' = terminal_putchar(terminal_delchar(screen), c)
    BY <1>3, <2>1
  <2>3. screen' \in Screens
    <3>1. terminal_delchar(screen) \in Screens
      BY <1>1, Delchar
    <3> QED
      BY <2>2, <3>1, Putchar
  <2>4. Typed'
    BY <1>1, <1>3, <2>3 DEF Typed, Tears, others
  <2>5. ASSUME ~torn'  PROVE Kept(screen)'
    <3>1. screen.cursor # 0 /\ ~torn
      BY <1>3, <2>5 DEF Tears
    <3>2. Kept(screen)
      BY <3>1 DEF ConsoleInv, Editing
    <3>3. /\ LineOn(screen, command) => LineOn(screen', command)
          /\ PromptOn(screen, command) => PromptOn(screen', command)
      BY <1>1, <2>2, <3>1, BlinkKeeps
    <3> QED
      BY <3>2, <3>3 DEF Kept
  <2> QED
    BY <2>4, <2>5, EditingInv
<1> QED
  BY <1>2, <1>3

\* A character key
LEMMA TypeInv == ASSUME NEW c \in Chars PROVE ConsoleInv /\ Type(c) => ConsoleInv'
<1> SUFFICES ASSUME ConsoleInv, Type(c) PROVE ConsoleInv'
  OBVIOUS
<1> USE DEF Type
<1>1. Typed /\ screen \in Screens /\ command \in Seq(Chars) /\ Len(command) < MaxLine
  BY DEF ConsoleInv, Typed
<1>2. screen' \in Screens
  <2>0. c \in Contents /\ Block \in Contents
    BY DEF Contents
  <2>1. terminal_delchar(screen) \in Screens
    BY <1>1, Delchar
  <2>2. terminal_putchar(terminal_delchar(screen), c) \in Screens
    BY <2>0, <2>1, Putchar
  <2> QED
    BY <2>0, <2>2, Putchar
<1>3. command' \in Seq(Chars) /\ Len(command') <= MaxLine
  BY <1>1, ScreenSize
<1>4. Typed'
  BY <1>1, <1>2, <1>3 DEF Typed, Tears, others
<1>5. ASSUME ~torn'  PROVE Kept(screen)'
  <2>1. screen.cursor # 0 /\ ~torn
    BY <1>5 DEF Tears
  <2>2. Kept(screen)
    BY <2>1 DEF ConsoleInv, Editing
  <2>3. /\ LineOn(screen, command) => LineOn(screen', command')
        /\ PromptOn(screen, command) => PromptOn(screen', command')
    <3>1. /\ command' = Append(command, c)
          /\ screen' = terminal_putchar(terminal_putchar(terminal_delchar(screen), c), Block)
      OBVIOUS
    <3> HIDE DEF Type
    <3>2. \A longer, u :
             /\ longer = Append(command, c)
             /\ u = terminal_putchar(terminal_putchar(terminal_delchar(screen), c), Block)
             => /\ LineOn(screen, command) => LineOn(u, longer)
                /\ PromptOn(screen, command) => PromptOn(u, longer)
      BY <1>1, <2>1, TypeKeeps
    <3> QED
      BY <3>1, <3>2
  <2> QED
    BY <2>2, <2>3 DEF Kept
<1> QED
  BY <1>4, <1>5, EditingInv

\* Backspace
LEMMA EraseInv == ConsoleInv /\ Erase => ConsoleInv'
<1> SUFFICES ASSUME ConsoleInv, Erase PROVE ConsoleInv'
  OBVIOUS
<1> USE DEF Erase
<1>1. Typed /\ screen \in Screens /\ command \in Seq(Chars) /\ Len(command) <= MaxLine
  BY DEF ConsoleInv, Typed
<1>2. screen' \in Screens
  BY <1>1, Delchar
<1>3. command' \in Seq(Chars) /\ Len(command') <= MaxLine
  <2>1. CASE command = <<>>
    BY <1>1, <2>1
  <2>2. CASE command # <<>>
    <3>1. command' = Front(command)
      BY <2>2
    <3>2. Len(command) \in Nat /\ command' \in Seq(Chars) /\ Len(command') = Len(command) - 1
      BY <1>1, <2>2, <3>1, Shorter
    <3> QED
      BY <1>1, <3>2, ScreenSize
  <2> QED
    BY <2>1, <2>2
<1>4. Typed'
  BY <1>1, <1>2, <1>3 DEF Typed, Tears, others
<1>5. ASSUME ~torn'  PROVE Kept(screen)'
  <2>1. screen.cursor # 0 /\ ~torn
    BY <1>5 DEF Tears
  <2>2. Kept(screen)
    BY <2>1 DEF ConsoleInv, Editing
  <2>3. CASE command # <<>>
    <3>1. command' = Front(command)
      BY <2>3
    <3>2. /\ LineOn(screen, command) => LineOn(screen', command')
          /\ PromptOn(screen, command) => PromptOn(screen', command')
      BY <1>1, <2>1, <2>3, <3>1, EraseKeeps
    <3> QED
      BY <2>2, <3>2 DEF Kept
  <2>4. CASE command = <<>>
    <3>1. command' = <<>>
      BY <2>4
    <3>2. PromptOn(screen, <<>>) => PromptOn(screen', <<>>)
      BY <1>1, <2>1, ErasePromptKeeps
    <3>3. LineOn(screen', <<>>)
      BY DEF LineOn
    <3> QED
      BY <2>2, <2>4, <3>1, <3>2, <3>3 DEF Kept
  <2> QED
    BY <2>3, <2>4
<1> QED
  BY <1>4, <1>5, EditingInv

\* Enter, of a line that names no command
LEMMA EnterUnknownInv == ConsoleInv /\ EnterUnknown => ConsoleInv'
<1> SUFFICES ASSUME ConsoleInv, EnterUnknown PROVE ConsoleInv'
  OBVIOUS
<1> USE DEF EnterUnknown
<1>1. Typed /\ screen \in Screens
  BY DEF ConsoleInv, Typed
<1>2. screen' \in Screens
  <2>1. terminal_newline(terminal_delchar(screen)) \in Screens
    BY <1>1, Delchar, Newline
  <2>2. terminal_write(terminal_newline(terminal_delchar(screen)), <<Message>>) \in Screens
    BY <2>1, WriteOne
  <2> QED
    BY <2>2, Newline
<1>3. Typed'
  BY <1>1, <1>2 DEF Typed, Tears, others
<1> QED
  BY <1>3, TearingInv DEF Editing, others

\* Enter, of a line that starts a command
LEMMA EnterInv == ASSUME NEW c \in Commands PROVE ConsoleInv /\ Enter(c) => ConsoleInv'
<1> SUFFICES ASSUME ConsoleInv, Enter(c) PROVE ConsoleInv'
  OBVIOUS
<1> USE DEF Enter
<1>1. Typed /\ screen \in Screens
  BY DEF ConsoleInv, Typed
<1>2. screen' \in Screens
  <2>1. terminal_delchar(screen) \in Screens
    BY <1>1, Delchar
  <2>2. terminal_newline(terminal_write(terminal_delchar(screen), <<Message>>)) \in Screens
    BY <2>1, WriteOne, Newline
  <2> QED
    BY <2>1, <2>2
<1>3. Typed'
  BY <1>1, <1>2 DEF Typed, Tears
<1> QED
  BY <1>3, TearingInv DEF Editing

\* The loop of parseExecCommand
LEMMA WaitInv == ConsoleInv /\ (WaitTakes \/ WaitCtrlC \/ WaitStops) => ConsoleInv'
<1> SUFFICES ASSUME ConsoleInv, WaitTakes \/ WaitCtrlC \/ WaitStops PROVE ConsoleInv'
  OBVIOUS
<1>1. Typed /\ screen \in Screens
  BY DEF ConsoleInv, Typed
<1>2. CASE WaitTakes
  <2>1. Typed'
    BY <1>1, <1>2 DEF WaitTakes, Take, Typed
  <2> QED
    BY <1>2, <2>1, TearingInv DEF WaitTakes, Editing
<1>3. CASE WaitCtrlC
  <2>1. screen' \in Screens
    BY <1>1, <1>3, WriteOne DEF WaitCtrlC
  <2>2. Typed'
    BY <1>1, <1>3, <2>1 DEF WaitCtrlC, Typed, others
  <2> QED
    BY <1>3, <2>2, TearingInv DEF WaitCtrlC, Editing
<1>4. CASE WaitStops
  <2>1. Typed'
    BY <1>1, <1>4 DEF WaitStops, Typed, others
  <2> QED
    BY <1>4, <2>1, TearingInv DEF WaitStops, Editing
<1> QED
  BY <1>2, <1>3, <1>4

\* The column is the remainder of the cursor.
LEMMA ColumnInRow == ASSUME NEW t \in Screens PROVE column(t) \in 0 .. Width - 1
<1>1. t.cursor \in Nat /\ Width \in Nat \ {0}
  BY ScreenSize DEF Screens, Cells
<1> QED
  BY <1>1, Remainder DEF column

\* The prompt of the next line
LEMMA PromptInv == ConsoleInv /\ Prompt => ConsoleInv'
<1> SUFFICES ASSUME ConsoleInv, Prompt PROVE ConsoleInv'
  OBVIOUS
<1> USE DEF Prompt, ShowPrompt
<1>1. Typed /\ screen \in Screens
  BY DEF ConsoleInv, Typed
<1>2. screen' \in Screens /\ LineOn(screen', <<>>)
      /\ (column(screen) = 0 => PromptOn(screen', <<>>))
  BY <1>1, Prompted
<1>3. command' = <<>> /\ command' \in Seq(Chars) /\ Len(command') <= MaxLine
  <2>1. <<>> \in Seq(Chars) /\ Len(<<>>) = 0
    OBVIOUS
  <2> QED
    BY <2>1, ScreenSize
<1>4. Typed'
  BY <1>1, <1>2, <1>3, ColumnInRow DEF Typed, others
<1>5. Kept(screen)'
  BY <1>2, <1>3 DEF Kept
<1> QED
  BY <1>4, <1>5, EditingInv

\* The report of a command, taken between two keys
LEMMA PollReportInv == ConsoleInv /\ PollReport => ConsoleInv'
<1> SUFFICES ASSUME ConsoleInv, PollReport PROVE ConsoleInv'
  OBVIOUS
<1> USE DEF PollReport, Take
<1>1. /\ Typed /\ screen \in Screens /\ command \in Seq(Chars) /\ Len(command) <= MaxLine
      /\ report \in [from : Commands, last : BOOLEAN]
  BY DEF ConsoleInv, Typed
<1>2. /\ cmd' \in [Commands -> {"none", "start", "ran", "sends", "print", "printed", "done"}]
      /\ report' = NoReport
  BY <1>1 DEF Typed
<1>3. CASE report.last
  <2>1. /\ screen' \in Screens /\ LineOn(screen', command)
        /\ column(screen) = 0 => PromptOn(screen', command)
    BY <1>1, <1>3, Redrawn
  <2>2. promptStart' = column(screen) /\ promptStart' \in 0 .. Width - 1 /\ torn' = FALSE
    BY <1>1, <1>3, ColumnInRow
  <2>3. Typed'
    BY <1>1, <1>2, <2>1, <2>2 DEF Typed
  <2>4. Kept(screen)'
    BY <2>1, <2>2 DEF Kept
  <2> QED
    BY <2>3, <2>4, EditingInv
<1>4. CASE ~report.last
  <2>1. Typed'
    BY <1>1, <1>2, <1>4 DEF Typed
  <2> QED
    BY <1>4, <2>1, QuietInv DEF Editing
<1> QED
  BY <1>3, <1>4

\* The other statements of the loop of exec_shell
LEMMA LoopInv == ConsoleInv /\ (NoKey \/ PollNothing \/ Goes) => ConsoleInv'
<1> SUFFICES ASSUME ConsoleInv, NoKey \/ PollNothing \/ Goes PROVE ConsoleInv'
  OBVIOUS
<1>1. Typed
  BY DEF ConsoleInv
<1>2. Typed'
  BY <1>1 DEF Typed, NoKey, PollNothing, Goes, others
<1> QED
  BY <1>2, QuietInv DEF NoKey, PollNothing, Goes, Editing

\* The console leaves the screen and comes back.
LEMMA SwitchInv == ConsoleInv /\ (Stops \/ Starts) => ConsoleInv'
<1> SUFFICES ASSUME ConsoleInv, Stops \/ Starts PROVE ConsoleInv'
  OBVIOUS
<1>1. Typed
  BY DEF ConsoleInv
<1>2. CASE Stops
  <2>1. Typed'
    BY <1>1, <1>2 DEF Typed, Stops
  <2>2. ASSUME ~torn'  PROVE Kept(saved)'
    <3>1. Kept(screen)
      BY <1>2, <2>2 DEF Stops, ConsoleInv, Editing
    <3> QED
      BY <1>2, <3>1 DEF Stops, Kept
  <2> QED
    BY <1>2, <2>1, <2>2 DEF ConsoleInv, Stops, Editing
<1>3. CASE Starts
  <2>1. Typed'
    BY <1>1, <1>3 DEF Typed, Starts, others
  <2>2. ASSUME ~torn'  PROVE Kept(screen)'
    <3>1. Kept(saved)
      BY <1>3, <2>2 DEF Starts, ConsoleInv
    <3> QED
      BY <1>3, <3>1 DEF Starts, Kept
  <2>3. at' # "off"
    BY <1>3 DEF Starts
  <2> QED
    BY <2>1, <2>2, <2>3, EditingInv
<1> QED
  BY <1>2, <1>3

\* Output of a command tears a line that is being typed.
LEMMA PrintsInv ==
    ASSUME NEW t, ConsoleInv, Typed', t \in Screens, Prints(t)
    PROVE  ConsoleInv'
BY TearingInv DEF Prints, shell, Editing

\* A command
LEMMA CommandInv == ASSUME NEW c \in Commands PROVE ConsoleInv /\ Command(c) => ConsoleInv'
<1> SUFFICES ASSUME ConsoleInv, Command(c) PROVE ConsoleInv'
  OBVIOUS
<1>1. Typed /\ screen \in Screens
  BY DEF ConsoleInv, Typed
<1>2. CASE Begins(c)
  <2>1. terminal_newline(screen) \in Screens
    BY <1>1, Newline
  <2>2. Typed'
    BY <1>1, <1>2, <2>1 DEF Begins, Prints, Typed, Editing, shell
  <2> QED
    BY <1>2, <2>1, <2>2, PrintsInv DEF Begins
<1>3. CASE ShowsOutput(c)
  <2>1. terminal_newline(terminal_write(terminal_delline(screen), <<Output>>)) \in Screens
    BY <1>1, Delline, WriteOne, Newline
  <2>2. Typed'
    BY <1>1, <1>3, <2>1 DEF ShowsOutput, Prints, Typed, Editing, shell
  <2> QED
    BY <1>3, <2>1, <2>2, PrintsInv DEF ShowsOutput
<1>4. ASSUME NEW from, NEW next \in {"print", "done"}, NEW last \in BOOLEAN,
             Reports(c, from, next, last)
      PROVE  ConsoleInv'
  <2>1. Typed'
    BY <1>1, <1>4 DEF Reports, Typed, shell
  <2> QED
    BY <1>4, <2>1, QuietInv DEF Reports, shell, Editing
<1> QED
  BY <1>2, <1>3, <1>4 DEF Command

\* kernel_main asks for another console; switchTaskWrapper shows its digit.
LEMMA KernelInv == ConsoleInv /\ (AsksToStop \/ Switch) => ConsoleInv'
<1> SUFFICES ASSUME ConsoleInv, AsksToStop \/ Switch PROVE ConsoleInv'
  OBVIOUS
<1>1. Typed /\ screen \in Screens /\ command \in Seq(Chars) /\ Len(command) <= MaxLine
  BY DEF ConsoleInv, Typed
<1>2. CASE AsksToStop
  <2>1. Typed'
    BY <1>1, <1>2 DEF Typed, AsksToStop, shell
  <2> QED
    BY <1>2, <2>1, QuietInv DEF AsksToStop, shell, Editing
<1>3. CASE Switch
  <2>1. /\ screen' \in Screens
        /\ LineOn(screen, command) => LineOn(screen', command)
        /\ PromptOn(screen, command) => PromptOn(screen', command)
    BY <1>1, <1>3, SwitchKeeps DEF Switch
  <2>2. Typed'
    BY <1>1, <1>3, <2>1 DEF Typed, Switch, shell, others
  <2>3. Kept(screen) => Kept(screen)'
    BY <1>3, <2>1 DEF Kept, Switch, shell
  <2>4. Kept(saved) => Kept(saved)'
    BY <1>3 DEF Kept, Switch, shell
  <2> QED
    BY <1>3, <2>2, <2>3, <2>4 DEF ConsoleInv, Switch, shell, Editing
<1> QED
  BY <1>2, <1>3

\* Every step keeps the invariant.
LEMMA NextInv == ConsoleInv /\ [Next]_vars => ConsoleInv'
<1> SUFFICES ASSUME ConsoleInv, [Next]_vars PROVE ConsoleInv'
  OBVIOUS
<1>1. CASE Shell
  BY <1>1, BlinksInv, TypeInv, EraseInv, EnterUnknownInv, EnterInv, WaitInv, PromptInv,
     PollReportInv, LoopInv, SwitchInv DEF Shell
<1>2. ASSUME NEW c \in Commands, Command(c)  PROVE ConsoleInv'
  BY <1>2, CommandInv
<1>3. CASE AsksToStop \/ Switch
  BY <1>3, KernelInv
<1>4. CASE UNCHANGED vars
  <2>1. Typed'
    BY <1>4 DEF ConsoleInv, Typed, vars, shell, others
  <2> QED
    BY <1>4, <2>1, QuietInv DEF vars, shell, Editing
<1> QED
  BY <1>1, <1>2, <1>3, <1>4 DEF Next

\* The inductive invariant holds of every state of the console.
LEMMA ConsoleInvariant == Spec => []ConsoleInv
<1> QED
  BY InitInv, NextInv, PTL DEF Spec

\* Whatever the user types and erases, and whatever commands print and report
\* meanwhile, and across switches of consoles: unless output has torn the line since it was
\* last shown, its characters are on the screen where exec_shell goes on editing them.
THEOREM LineStaysOnScreen == Spec => []LineIsOnScreen
<1>1. ConsoleInv => LineIsOnScreen
  BY DEF ConsoleInv, Kept, LineIsOnScreen
<1> QED
  BY <1>1, ConsoleInvariant, PTL

\* exec_shell's test of the column protects a prompt that began a row: backspaces never
\* reach its characters.
THEOREM PromptStays == Spec => []PromptIsKept
<1>1. ConsoleInv => PromptIsKept
  BY DEF ConsoleInv, Kept, PromptIsKept, PromptOn
<1> QED
  BY <1>1, ConsoleInvariant, PTL
=============================================================================
