------------------------------ MODULE Keyboard ------------------------------
(***************************************************************************)
(* The keyboard driver (arch/i386/keyboard.c) and its interrupt handler    *)
(* isr33 (arch/i386/isr.c), with a program that calls getChar, delBuf's    *)
(* key and flushBuf.  The handler runs with interrupts off; a program's    *)
(* getChar does not, and the handler may run between its statements.       *)
(*                                                                         *)
(* The PS/2 controller is external: a key going down, or repeated, sends   *)
(* one byte, a key going up two (F0 and the key).  Every byte raises an    *)
(* interrupt; reading the data port when no new byte has arrived returns   *)
(* the last one again.  Keys follow each other slowly enough for the       *)
(* handler to run in between.                                              *)
(*                                                                         *)
(* The buffer holds the numbers of the characters, in the order they were  *)
(* typed, so that they can be told apart.  What a key types is told apart  *)
(* by its level: alone, with LSHIFT, or with LALT.                         *)
(***************************************************************************)
EXTENDS Integers, Sequences, FiniteSets

CONSTANTS
    Keys,           \* the keys of the keyboard
    CTRL, SHIFT, ALT,       \* LCTRL, LSHIFT, LALT, which type nothing
    DEL,            \* the key that erases
    OneLevel,       \* keys that type one character: SPACE, ENTER
    TwoLevel,       \* keys that type another one with LSHIFT
    ThreeLevel,     \* keys that type a third one with LALT
    Debounce,       \* ticks after a release that a key is not heard (2)
    F0,             \* the byte that announces a release
    MaxTyped,       \* bound: characters typed
    MaxDown,        \* bound: keys held down
    SlowController  \* does the second byte of a release arrive after the reads?

ASSUME KeyboardAssumption ==
    /\ Keys = {CTRL, SHIFT, ALT, DEL} \cup OneLevel \cup TwoLevel \cup ThreeLevel
    /\ OneLevel \cap (TwoLevel \cup ThreeLevel) = {} /\ TwoLevel \cap ThreeLevel = {}
    /\ DEL \notin TwoLevel \cup ThreeLevel      \* a key has one case in write's switch
    /\ F0 \notin Keys /\ MaxDown \in Nat /\ Debounce \in Nat
    /\ MaxTyped \in 1 .. 127    \* buffer[0] is a signed char
    /\ SlowController \in BOOLEAN

VARIABLES
    down,           \* the keys the user holds down
    wire,           \* bytes the controller has not handed out yet
    last,           \* the last byte it handed out
    irq,            \* is an interrupt of the keyboard pending?
    pressedKeys,    \* the keys the driver takes for pressed
    sinceRelease,   \* timer ticks since keyTime[key], up to Debounce + 1
    count, cell,    \* buffer[0] and buffer[1], buffer[2], ...
    typed,          \* the characters typed: key, level, and what was held then
    reads,          \* those that getChar returned, in order
    kept,           \* history: those of them that were in the buffer again by then
    at, n           \* the program: its statement of getChar, its local n

hardware == <<down, wire, last, irq>>
driver   == <<pressedKeys, sinceRelease, count, cell, typed>>
program  == <<reads, kept, at, n>>
vars     == <<hardware, driver, program>>

Init ==
    /\ down = {} /\ wire = <<>> /\ last = F0 /\ irq = FALSE
    /\ pressedKeys = {}
    /\ sinceRelease = [k \in Keys |-> 0]
    /\ count = 0 /\ cell = [i \in 1 .. MaxTyped |-> 0]
    /\ typed = <<>>
    /\ reads = <<>> /\ kept = {} /\ at = "elsewhere" /\ n = 0

-----------------------------------------------------------------------------
\* The user.  Nobody hits a key again within Debounce ticks after letting it go.
Quiet == wire = <<>> /\ ~irq

Press(k) ==
    /\ Quiet
    /\ k \in down \/ (sinceRelease[k] > Debounce /\ Cardinality(down) < MaxDown)
    /\ down' = down \cup {k}
    /\ wire' = <<k>> /\ irq' = TRUE
    /\ UNCHANGED <<last, driver, program>>

Release(k) ==
    /\ Quiet /\ k \in down
    /\ down' = down \ {k}
    /\ wire' = <<F0, k>> /\ irq' = TRUE
    /\ UNCHANGED <<last, driver, program>>

\* incTime; a pending interrupt of the keyboard is served before the next tick.
Tick ==
    /\ ~irq
    /\ sinceRelease' = [k \in Keys |-> IF sinceRelease[k] > Debounce THEN sinceRelease[k]
                                       ELSE sinceRelease[k] + 1]
    /\ UNCHANGED <<hardware, pressedKeys, count, cell, typed, program>>

-----------------------------------------------------------------------------
\* addBuf and delBuf; what the user holds is history.
AddBuf(k, level) ==
    /\ count' = count + 1
    /\ cell' = [cell EXCEPT ![count + 1] = Len(typed) + 1]
    /\ typed' = Append(typed, [key |-> k, level |-> level, held |-> down])

DelBuf ==
    IF count > 0
    THEN /\ count' = count - 1
         /\ UNCHANGED <<cell, typed>>
    ELSE AddBuf(DEL, "alone")

\* write: what a key adds to the buffer.
TwoLevelKey(k) ==
    k \in TwoLevel /\ AddBuf(k, IF SHIFT \in pressedKeys' THEN "shift" ELSE "alone")
\* A key whose shifted character comes before the one of LALT.
ThreeLevelKey_ShiftFirst(k) ==
    k \in ThreeLevel /\ AddBuf(k, IF SHIFT \in pressedKeys' THEN "shift"
                                 ELSE IF ALT \in pressedKeys' THEN "alt" ELSE "alone")
ThreeLevelKey(k) ==
    k \in ThreeLevel /\ AddBuf(k, IF ALT \in pressedKeys' THEN "alt"
                                 ELSE IF SHIFT \in pressedKeys' THEN "shift" ELSE "alone")
OneLevelKey(k) == k \in OneLevel /\ AddBuf(k, "alone")
TypesNothing(k) == k \in {CTRL, SHIFT, ALT} \/ CTRL \in pressedKeys'

Write(k) ==
    \/ ~TypesNothing(k) /\ (TwoLevelKey(k) \/ ThreeLevelKey(k) \/ OneLevelKey(k))
    \/ ~TypesNothing(k) /\ k = DEL /\ DelBuf
    \/ TypesNothing(k) /\ UNCHANGED <<count, cell, typed>>

\* translate without the test of keyTime.
Translate_NoDebounce(r) ==
    \/ \E k \in Keys :
          /\ r = <<k, k, k>>
          /\ pressedKeys' = pressedKeys \cup {k}
          /\ Write(k)
          /\ UNCHANGED sinceRelease
    \/ \E k \in Keys :
          /\ r = <<F0, k, k>>
          /\ pressedKeys' = pressedKeys \ {k}
          /\ sinceRelease' = [sinceRelease EXCEPT ![k] = 0]
          /\ UNCHANGED <<count, cell, typed>>
    \/ r = <<F0, F0, F0>> /\ UNCHANGED driver

\* The codes translate does nothing for: a key released at most Debounce ticks ago,
\* and what it has no case for.
Ignored == {<<k, k, k>> : k \in {j \in Keys : sinceRelease[j] <= Debounce}}
           \cup {<<F0, F0, F0>>} \cup {<<F0, F0, k>> : k \in Keys}

\* translate: three times the code of a key means that it was pressed, unless
\* it was released at most Debounce ticks ago; F0 and twice the code, released.
Translate(r) ==
    \/ \E k \in Keys :
          /\ r = <<k, k, k>>
          /\ sinceRelease[k] > Debounce
          /\ pressedKeys' = pressedKeys \cup {k}
          /\ Write(k)
          /\ UNCHANGED sinceRelease
    \/ \E k \in Keys :
          /\ r = <<F0, k, k>>
          /\ pressedKeys' = pressedKeys \ {k}
          /\ sinceRelease' = [sinceRelease EXCEPT ![k] = 0]
          /\ UNCHANGED <<count, cell, typed>>
    \/ r \in Ignored /\ UNCHANGED driver

\* isr33: three reads of the data port, translate, end of interrupt.  The second
\* byte of a release arrives after the first, the second or the third read; if
\* it was read it may leave its own interrupt pending.
Isr33 ==
    /\ irq
    /\ Len(typed) < MaxTyped
    /\ \E arrives \in IF SlowController THEN 1 .. 3 ELSE {1} :
          LET first   == IF wire = <<>> THEN last ELSE wire[1]
              Read(i) == IF Len(wire) = 2 /\ i > arrives THEN wire[2] ELSE first
              gotAll  == Len(wire) < 2 \/ Read(3) = wire[2]
          IN  /\ Translate(<<first, Read(2), Read(3)>>)
              /\ wire' = IF gotAll THEN <<>> ELSE <<wire[2]>>
              /\ last' = Read(3)
              /\ irq' \in IF Len(wire) < 2 THEN {FALSE}
                          ELSE IF gotAll THEN {TRUE, FALSE} ELSE {TRUE}
    /\ UNCHANGED <<down, program>>

-----------------------------------------------------------------------------
\* getChar: int n = buffer[0]; buffer[0] = 0; if (n) return buffer[n].
ReadCount ==
    /\ at = "elsewhere"
    /\ n' = count /\ at' = "reset"
    /\ UNCHANGED <<hardware, driver, reads, kept>>

\* getChar that does not empty the buffer.
ResetCount_Lost ==
    /\ at = "reset"
    /\ at' = "return"
    /\ UNCHANGED <<hardware, driver, reads, kept, n>>
ResetCount ==
    /\ at = "reset"
    /\ count' = 0 /\ at' = "return"
    /\ UNCHANGED <<hardware, pressedKeys, sinceRelease, cell, typed, reads, kept, n>>

ReturnChar ==
    /\ at = "return"
    /\ reads' = IF n = 0 THEN reads ELSE Append(reads, cell[n])
    /\ kept' = IF n \in 1 .. count THEN kept \cup {cell[n]} ELSE kept
    /\ n' = 0 /\ at' = "elsewhere"
    /\ UNCHANGED <<hardware, driver>>

GetChar == ReadCount \/ ResetCount \/ ReturnChar

\* flushBuf
FlushBuf ==
    /\ at = "elsewhere"
    /\ count' = 0
    /\ UNCHANGED <<hardware, pressedKeys, sinceRelease, cell, typed, program>>

Next ==
    \/ \E k \in Keys : Press(k) \/ Release(k)
    \/ Tick \/ Isr33 \/ GetChar \/ FlushBuf

Spec == Init /\ [][Next]_vars

-----------------------------------------------------------------------------
\* "Si une touche particuliere est pressee ou non est aussi une information
\* accessible de partout": whenever the driver has served the controller, the
\* keys it takes for pressed are the ones the user holds down.  The bytes of a
\* release, read three at a time, must not be taken for a key stroke.
KeysAreWhatTheUserHolds == Quiet => pressedKeys = down

\* "Le driver garde un buffer des touches pressees non lues par un programme":
\* getChar returns no key twice.  The only exception is a key that isr33 puts, between
\* getChar's reset of the count and its return, where getChar looks for its own: that
\* key is returned at once and, as it stays in the buffer, at most once more, by the
\* very next call that returns any.
NothingIsReadTwice ==
    \A i, j \in 1 .. Len(reads) :
        i < j /\ reads[i] = reads[j] => j = i + 1 /\ reads[i] \in kept

\* What is typed is what the user means: with LALT held the third character of a key
\* that has three, else with LSHIFT held the second, and nothing with LCTRL.
TypedAsMeant ==
    \A i \in 1 .. Len(typed) :
        LET c == typed[i]
        IN  /\ CTRL \notin c.held
            /\ c.level = IF ALT \in c.held /\ c.key \in ThreeLevel THEN "alt"
                         ELSE IF SHIFT \in c.held /\ c.key \in TwoLevel \cup ThreeLevel
                         THEN "shift" ELSE "alone"
=============================================================================
