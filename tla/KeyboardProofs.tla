--------------------------- MODULE KeyboardProofs ---------------------------
(***************************************************************************)
(* The three properties of the keyboard driver, for any keyboard, debounce *)
(* and number of characters.  Two need a controller that has the second    *)
(* byte of a release ready for the second read, without which they are     *)
(* false; the third holds whenever isr33 interrupts getChar.               *)
(***************************************************************************)
EXTENDS Keyboard, TLAPS

Character == [key : Keys, level : {"alone", "shift", "alt"}, held : SUBSET Keys]

-----------------------------------------------------------------------------
\* Keys and levels.

KeyType ==
    /\ down \subseteq Keys /\ pressedKeys \subseteq Keys
    /\ sinceRelease \in [Keys -> Nat]
    /\ typed \in Seq(Character)

\* What is on its way from the keyboard to the driver: nothing; a byte read again,
\* which the debounce ignores; the stroke or the release of a key.
Idle       == wire = <<>> /\ ~irq /\ pressedKeys = down
Again      == /\ wire = <<>> /\ irq /\ pressedKeys = down
              /\ last \in Keys /\ sinceRelease[last] <= Debounce
Stroke(k)  == wire = <<k>> /\ irq /\ k \in down /\ pressedKeys \cup {k} = down
Letting(k) == wire = <<F0, k>> /\ irq /\ k \notin down /\ pressedKeys \ {k} = down

OnItsWay == Idle \/ Again \/ \E k \in Keys : Stroke(k) \/ Letting(k)

\* The debounce lets the repetitions of every key that is held through.
HeldIsHeard == \A k \in down : sinceRelease[k] > Debounce

KeyInv == KeyType /\ OnItsWay /\ HeldIsHeard /\ TypedAsMeant

\* The character c is what the user meant.
Meant(c) ==
    /\ CTRL \notin c.held
    /\ c.level = IF ALT \in c.held /\ c.key \in ThreeLevel THEN "alt"
                 ELSE IF SHIFT \in c.held /\ c.key \in TwoLevel \cup ThreeLevel
                 THEN "shift" ELSE "alone"

LEMMA AddBufTypes ==
    ASSUME down \subseteq Keys, typed \in Seq(Character), TypedAsMeant,
           NEW k \in Keys, NEW level \in {"alone", "shift", "alt"},
           Meant([key |-> k, level |-> level, held |-> down]),
           AddBuf(k, level)
    PROVE  typed' \in Seq(Character) /\ TypedAsMeant'
<1> DEFINE c == [key |-> k, level |-> level, held |-> down]
<1>1. c \in Character /\ typed' = Append(typed, c)
  BY DEF Character, AddBuf
<1>2. /\ typed' \in Seq(Character) /\ Len(typed') = Len(typed) + 1
      /\ \A i \in 1 .. Len(typed) : typed'[i] = typed[i]
      /\ typed'[Len(typed) + 1] = c
  <2> HIDE DEF c
  <2> QED BY <1>1
<1>3. ASSUME NEW i \in 1 .. Len(typed') PROVE Meant(typed'[i])
  <2>1. CASE i \in 1 .. Len(typed)
    BY <1>2, <2>1 DEF TypedAsMeant, Meant
  <2>2. CASE i = Len(typed) + 1
    BY <1>2, <2>2
  <2> QED BY <1>2, <2>1, <2>2
<1> QED
  BY <1>2, <1>3 DEF TypedAsMeant, Meant

\* A stroke that reaches write types what the user means: the handler has seen every
\* key that is held.
LEMMA WriteTypes ==
    ASSUME KeyInv, NEW k \in Keys, pressedKeys' = down, Write(k)
    PROVE  typed' \in Seq(Character) /\ TypedAsMeant'
<1> USE DEF KeyInv, KeyType
<1>1. CASE TypesNothing(k) /\ UNCHANGED <<count, cell, typed>>
  BY <1>1 DEF TypedAsMeant
<1>2. CASE ~TypesNothing(k) /\ TwoLevelKey(k)
  BY <1>2, AddBufTypes, KeyboardAssumption DEF TypesNothing, TwoLevelKey, Meant
<1>3. CASE ~TypesNothing(k) /\ ThreeLevelKey(k)
  BY <1>3, AddBufTypes, KeyboardAssumption DEF TypesNothing, ThreeLevelKey, Meant
<1>4. CASE ~TypesNothing(k) /\ OneLevelKey(k)
  BY <1>4, AddBufTypes, KeyboardAssumption DEF TypesNothing, OneLevelKey, Meant
<1>5. CASE ~TypesNothing(k) /\ k = DEL /\ DelBuf
  <2>1. CASE count > 0
    BY <1>5, <2>1 DEF DelBuf, TypedAsMeant
  <2>2. CASE ~(count > 0)
    BY <1>5, <2>2, AddBufTypes, KeyboardAssumption DEF DelBuf, TypesNothing, Meant
  <2> QED BY <2>1, <2>2
<1> QED
  BY <1>1, <1>2, <1>3, <1>4, <1>5 DEF Write

LEMMA PressInv == ASSUME KeyInv, NEW k \in Keys, Press(k) PROVE KeyInv'
<1> USE DEF KeyInv, Press, Quiet, driver, program
<1>1. Idle
  BY DEF OnItsWay, Idle, Again, Stroke, Letting
<1>2. Stroke(k)'
  BY <1>1 DEF Idle, Stroke
<1>3. HeldIsHeard'
  BY DEF HeldIsHeard
<1>4. KeyType'
  BY DEF KeyType
<1> QED
  BY <1>2, <1>3, <1>4 DEF OnItsWay, TypedAsMeant

LEMMA ReleaseInv == ASSUME KeyInv, NEW k \in Keys, Release(k) PROVE KeyInv'
<1> USE DEF KeyInv, Release, Quiet, driver, program
<1>1. Idle
  BY DEF OnItsWay, Idle, Again, Stroke, Letting
<1>2. Letting(k)'
  BY <1>1 DEF Idle, Letting
<1>3. HeldIsHeard'
  BY DEF HeldIsHeard
<1>4. KeyType'
  BY DEF KeyType
<1> QED
  BY <1>2, <1>3, <1>4 DEF OnItsWay, TypedAsMeant

LEMMA TickInv == ASSUME KeyInv, Tick PROVE KeyInv'
<1> USE DEF KeyInv, Tick, hardware, program
<1>1. Idle
  BY DEF OnItsWay, Idle, Again, Stroke, Letting
<1>2. Idle'
  BY <1>1 DEF Idle
<1>3. HeldIsHeard'
  BY KeyboardAssumption DEF HeldIsHeard, KeyType
<1>4. KeyType'
  BY DEF KeyType
<1> QED
  BY <1>2, <1>3, <1>4 DEF OnItsWay, TypedAsMeant

\* The only step that needs ~SlowController: a release is read as F0 and twice its key.
LEMMA IsrInv == ASSUME ~SlowController, KeyInv, Isr33 PROVE KeyInv'
<1> USE DEF KeyInv
<1> DEFINE first   == IF wire = <<>> THEN last ELSE wire[1]
           Read(i) == IF Len(wire) = 2 /\ i > 1 THEN wire[2] ELSE first
           gotAll  == Len(wire) < 2 \/ Read(3) = wire[2]
<1>1. /\ irq /\ Translate(<<first, Read(2), Read(3)>>)
      /\ wire' = IF gotAll THEN <<>> ELSE <<wire[2]>>
      /\ last' = Read(3)
      /\ irq' \in IF Len(wire) < 2 THEN {FALSE} ELSE IF gotAll THEN {TRUE, FALSE} ELSE {TRUE}
      /\ down' = down
  BY DEF Isr33
<1>2. CASE Again
  <2>1. /\ Translate(<<last, last, last>>)
        /\ wire' = <<>> /\ irq' = FALSE
    BY <1>1, <1>2 DEF Again
  <2>2. UNCHANGED driver
    BY <2>1, <1>2, KeyboardAssumption DEF Again, Translate, KeyType
  <2> QED
    BY <1>1, <1>2, <2>1, <2>2
    DEF driver, Again, OnItsWay, Idle, KeyType, HeldIsHeard, TypedAsMeant
<1>3. ASSUME NEW k \in Keys, Stroke(k) PROVE KeyInv'
  <2>1. /\ Translate(<<k, k, k>>)
        /\ wire' = <<>> /\ irq' = FALSE
    BY <1>1, <1>3 DEF Stroke
  <2>2. sinceRelease[k] > Debounce
    BY <1>3 DEF Stroke, HeldIsHeard
  <2>3. pressedKeys' = pressedKeys \cup {k} /\ Write(k) /\ UNCHANGED sinceRelease
    BY <2>1, <2>2, KeyboardAssumption DEF Translate, Ignored, KeyType
  <2>4. typed' \in Seq(Character) /\ TypedAsMeant'
    BY <1>3, <2>3, WriteTypes DEF Stroke
  <2> QED
    BY <1>1, <1>3, <2>1, <2>3, <2>4 DEF Stroke, OnItsWay, Idle, KeyType, HeldIsHeard
<1>4. ASSUME NEW k \in Keys, Letting(k) PROVE KeyInv'
  <2>1. /\ Translate(<<F0, k, k>>)
        /\ wire' = <<>> /\ last' = k
    BY <1>1, <1>4 DEF Letting
  <2>2. /\ pressedKeys' = pressedKeys \ {k}
        /\ sinceRelease' = [sinceRelease EXCEPT ![k] = 0]
        /\ UNCHANGED <<count, cell, typed>>
    BY <2>1, KeyboardAssumption DEF Translate, Ignored
  <2>3. sinceRelease'[k] = 0 /\ 0 <= Debounce
    BY <2>2, KeyboardAssumption DEF KeyType
  <2>4. Idle' \/ Again'
    <3>1. irq' \in BOOLEAN
      BY <1>1
    <3> QED BY <1>1, <1>4, <2>1, <2>2, <2>3, <3>1 DEF Letting, Idle, Again
  <2>5. HeldIsHeard'
    BY <1>1, <1>4, <2>2 DEF HeldIsHeard, Letting, KeyType
  <2> QED
    BY <1>1, <2>2, <2>4, <2>5 DEF OnItsWay, KeyType, TypedAsMeant
<1> QED
  BY <1>1, <1>2, <1>3, <1>4 DEF OnItsWay, Idle

LEMMA KeyInvHolds == ~SlowController => (Spec => []KeyInv)
<1> SUFFICES ASSUME ~SlowController PROVE Spec => []KeyInv
  OBVIOUS
<1>1. Init => KeyInv
  BY DEF Init, KeyInv, KeyType, OnItsWay, Idle, HeldIsHeard, TypedAsMeant
<1>2. KeyInv /\ [Next]_vars => KeyInv'
  <2> SUFFICES ASSUME KeyInv, [Next]_vars PROVE KeyInv'
    OBVIOUS
  <2>1. CASE \E k \in Keys : Press(k) \/ Release(k)
    BY <2>1, PressInv, ReleaseInv
  <2>2. CASE Tick
    BY <2>2, TickInv
  <2>3. CASE Isr33
    BY <2>3, IsrInv
  <2>4. CASE GetChar \/ FlushBuf \/ UNCHANGED vars
    <3>1. UNCHANGED <<hardware, pressedKeys, sinceRelease, typed>>
      BY <2>4 DEF GetChar, ReadCount, ResetCount, ReturnChar, FlushBuf, vars, driver
    <3> QED
      BY <3>1 DEF hardware, KeyInv, KeyType, OnItsWay, Idle, Again, Stroke, Letting,
                  HeldIsHeard, TypedAsMeant
  <2> QED
    BY <2>1, <2>2, <2>3, <2>4 DEF Next
<1> QED
  BY <1>1, <1>2, PTL DEF Spec

\* Whenever the driver has served the controller, the keys it takes for pressed are the
\* ones the user holds, whatever he pressed, released and repeated before.
THEOREM DriverKnowsTheKeys == ~SlowController => (Spec => []KeysAreWhatTheUserHolds)
<1>1. KeyInv => KeysAreWhatTheUserHolds
  BY DEF KeyInv, OnItsWay, Idle, Again, Stroke, Letting, KeysAreWhatTheUserHolds, Quiet
<1> QED
  BY <1>1, KeyInvHolds, PTL

\* Every character typed is of the level of the modifiers the user held.
THEOREM LevelsAreMeant == ~SlowController => (Spec => []TypedAsMeant)
<1>1. KeyInv => TypedAsMeant
  BY DEF KeyInv
<1> QED
  BY <1>1, KeyInvHolds, PTL

-----------------------------------------------------------------------------
\* The buffer.

BufferType ==
    /\ down \subseteq Keys
    /\ typed \in Seq(Character) /\ Len(typed) <= MaxTyped
    /\ count \in 0 .. Len(typed)
    /\ cell \in [1 .. MaxTyped -> Nat]
    /\ reads \in Seq(Nat)
    /\ n \in 0 .. Len(typed)

\* The character c exists, and getChar has not returned it; or it has, with the last it
\* returned, and had put it back by then.
Unread(c) == c <= Len(typed) /\ \A j \in 1 .. Len(reads) : reads[j] # c
ReadOnce(c) ==
    /\ c <= Len(typed) /\ c \in kept
    /\ \A j \in 1 .. Len(reads) : reads[j] = c => j = Len(reads)

\* The places of the buffer that are still to be read: those counted, and the one getChar
\* has in hand.
InUse(i) == i \in 1 .. count \/ (at # "elsewhere" /\ n > 0 /\ i = n)

\* What is counted when getChar is about to return has come in since its reset.
BufferInv ==
    /\ BufferType /\ NothingIsReadTwice
    /\ at = "elsewhere" => n = 0
    /\ \A i \in 1 .. MaxTyped : InUse(i) => Unread(cell[i]) \/ ReadOnce(cell[i])
    /\ \A i, j \in 1 .. MaxTyped : InUse(i) /\ InUse(j) /\ cell[i] = cell[j] => i = j
    /\ at = "return" => \A i \in 1 .. count : Unread(cell[i])
    /\ \A j \in 1 .. Len(reads) : reads[j] <= Len(typed)

\* A new character has a number that nobody has read and no other place holds.
LEMMA AddBufKeepsUnread ==
    ASSUME BufferInv, Len(typed) < MaxTyped, UNCHANGED <<down, program>>,
           NEW k \in Keys, NEW level \in {"alone", "shift", "alt"}, AddBuf(k, level)
    PROVE  BufferInv'
<1> USE DEF BufferInv, program
<1>1. /\ typed' \in Seq(Character) /\ Len(typed') = Len(typed) + 1
      /\ count' = count + 1
      /\ cell' = [cell EXCEPT ![count + 1] = Len(typed) + 1]
  <2>1. [key |-> k, level |-> level, held |-> down] \in Character
    BY DEF BufferType, Character
  <2> QED BY <2>1 DEF AddBuf, BufferType
<1>2. BufferType'
  <2>1. UNCHANGED <<down, reads, kept, at, n>> /\ Len(typed) \in Nat /\ MaxTyped \in Nat
    BY KeyboardAssumption DEF BufferType
  <2>2. cell' \in [1 .. MaxTyped -> Nat]
    BY <1>1, <2>1 DEF BufferType
  <2>3. Len(typed') <= MaxTyped /\ count' \in 0 .. Len(typed') /\ n' \in 0 .. Len(typed')
    BY <1>1, <2>1 DEF BufferType
  <2> QED BY <1>1, <2>1, <2>2, <2>3 DEF BufferType
<1>3. UNCHANGED <<reads, kept, at, n>> /\ Len(typed) \in Nat /\ count \in Nat /\ MaxTyped \in Nat
  <2>1. UNCHANGED <<reads, kept, at, n>>
    OBVIOUS
  <2>2. Len(typed) \in Nat /\ count \in Nat /\ MaxTyped \in Nat
    BY KeyboardAssumption DEF BufferType
  <2> QED BY <2>1, <2>2
<1> PICK m \in Nat : m = count + 1
  BY <1>3
<1>4. cell'[m] = Len(typed) + 1 /\ Unread(cell[m])'
  <2>1. cell'[m] = Len(typed) + 1
    BY <1>1, KeyboardAssumption DEF BufferType
  <2>2. \A j \in 1 .. Len(reads) : reads[j] # Len(typed) + 1
    BY <1>3
  <2> QED BY <1>1, <1>3, <2>1, <2>2 DEF Unread
<1>5. ASSUME NEW i \in 1 .. MaxTyped, InUse(i)', i # m
      PROVE  /\ InUse(i) /\ cell'[i] = cell[i]
             /\ cell[i] \in Nat /\ cell[i] <= Len(typed)
             /\ Unread(cell[i]) => Unread(cell[i])'
             /\ ReadOnce(cell[i]) => ReadOnce(cell[i])'
             /\ i \in 1 .. count' => i \in 1 .. count
  <2>1. InUse(i) /\ (i \in 1 .. count' => i \in 1 .. count)
    BY <1>1, <1>3, <1>5 DEF InUse
  <2>2. cell'[i] = cell[i] /\ cell[i] \in Nat
    BY <1>1, <1>5 DEF BufferType
  <2>3. cell[i] <= Len(typed)
    BY <2>1 DEF Unread, ReadOnce
  <2> QED
    BY <1>1, <1>3, <2>1, <2>2, <2>3 DEF Unread, ReadOnce
<1>6. \A i \in 1 .. MaxTyped : InUse(i)' => Unread(cell[i])' \/ ReadOnce(cell[i])'
  <2> SUFFICES ASSUME NEW i \in 1 .. MaxTyped, InUse(i)'
               PROVE  Unread(cell[i])' \/ ReadOnce(cell[i])'
    OBVIOUS
  <2>1. CASE i = m
    BY <1>3, <1>4, <2>1
  <2>2. CASE i # m
    BY <1>5, <2>2
  <2> QED BY <2>1, <2>2
<1>7. \A i, j \in 1 .. MaxTyped : InUse(i)' /\ InUse(j)' /\ cell'[i] = cell'[j] => i = j
  <2> SUFFICES ASSUME NEW i \in 1 .. MaxTyped, NEW j \in 1 .. MaxTyped,
                      InUse(i)', InUse(j)', cell'[i] = cell'[j]
               PROVE  i = j
    OBVIOUS
  <2>1. CASE i # m /\ j # m
    BY <1>5, <2>1
  <2>2. CASE i = m /\ j # m
    BY <1>3, <1>4, <1>5, <2>2
  <2>3. CASE i # m /\ j = m
    BY <1>3, <1>4, <1>5, <2>3
  <2> QED BY <2>1, <2>2, <2>3
<1>8. at' = "return" => \A i \in 1 .. count' : Unread(cell[i])'
  <2> SUFFICES ASSUME at' = "return", NEW i \in 1 .. count' PROVE Unread(cell[i])'
    OBVIOUS
  <2>1. CASE i = m
    BY <1>3, <1>4, <2>1
  <2>2. CASE i # m
    <3>1. i \in 1 .. count /\ i \in 1 .. MaxTyped
      BY <1>1, <1>3, <2>2 DEF BufferType
    <3>2. InUse(i)' /\ Unread(cell[i])
      BY <1>3, <3>1 DEF InUse
    <3> QED BY <1>5, <2>2, <3>1, <3>2
  <2> QED BY <2>1, <2>2
<1>9. \A j \in 1 .. Len(reads') : reads'[j] <= Len(typed')
  BY <1>1, <1>3 DEF BufferType
<1> QED
  BY <1>2, <1>3, <1>6, <1>7, <1>8, <1>9 DEF NothingIsReadTwice

\* What takes characters out of the buffer leaves fewer places in use.
LEMMA FewerInUse ==
    ASSUME BufferInv, BufferType', UNCHANGED <<cell, typed, reads, kept>>, count' <= count,
           at' = "elsewhere" => n' = 0,
           at' = "return" => count' = 0 \/ at = "return",
           \A i \in 1 .. MaxTyped : InUse(i)' => InUse(i)
    PROVE  BufferInv'
<1> USE DEF BufferInv
<1>1. \A i \in 1 .. MaxTyped : InUse(i)' => Unread(cell[i])' \/ ReadOnce(cell[i])'
  BY DEF Unread, ReadOnce
<1>2. \A i, j \in 1 .. MaxTyped : InUse(i)' /\ InUse(j)' /\ cell'[i] = cell'[j] => i = j
  OBVIOUS
<1>3. at' = "return" => \A i \in 1 .. count' : Unread(cell[i])'
  <2> SUFFICES ASSUME at' = "return", NEW i \in 1 .. count' PROVE Unread(cell[i])'
    OBVIOUS
  <2>1. at = "return" /\ i \in 1 .. count
    BY DEF BufferType
  <2> QED BY <2>1 DEF Unread
<1> QED
  BY <1>1, <1>2, <1>3 DEF NothingIsReadTwice

LEMMA IsrBufferInv == ASSUME BufferInv, Isr33 PROVE BufferInv'
<1>1. /\ Len(typed) < MaxTyped
      /\ UNCHANGED <<down, program>> /\ \E r : Translate(r)
  BY DEF Isr33
<1>2. CASE UNCHANGED <<count, cell, typed>>
  <2>1. BufferType' /\ \A i \in 1 .. MaxTyped : InUse(i)' => InUse(i)
    BY <1>1, <1>2 DEF program, BufferInv, BufferType, InUse
  <2> QED
    BY <1>1, <1>2, <2>1, FewerInUse DEF program, BufferInv, BufferType
<1>3. CASE \E k \in Keys : Write(k)
  <2> PICK k \in Keys : Write(k)
    BY <1>3
  <2>1. CASE \E level \in {"alone", "shift", "alt"} : AddBuf(k, level)
    BY <1>1, <2>1, AddBufKeepsUnread
  <2>2. CASE DelBuf
    <3>1. CASE count > 0
      <4>1. count' = count - 1 /\ UNCHANGED <<cell, typed>>
        BY <2>2, <3>1 DEF DelBuf
      <4>2. BufferType' /\ \A i \in 1 .. MaxTyped : InUse(i)' => InUse(i)
        BY <1>1, <3>1, <4>1 DEF program, BufferInv, BufferType, InUse
      <4> QED
        BY <1>1, <4>1, <4>2, FewerInUse DEF program, BufferInv, BufferType
    <3>2. CASE ~(count > 0)
      <4>1. AddBuf(DEL, "alone") /\ DEL \in Keys
        BY <2>2, <3>2, KeyboardAssumption DEF DelBuf
      <4> QED BY <1>1, <4>1, AddBufKeepsUnread
    <3> QED BY <3>1, <3>2
  <2> QED
    BY <1>2, <2>1, <2>2 DEF Write, TwoLevelKey, ThreeLevelKey, OneLevelKey
<1> QED
  BY <1>1, <1>2, <1>3 DEF Translate, driver

\* The return of getChar: what it has in hand has been read at most once, at last, and
\* is in the buffer again only if it is new.
LEMMA ReturnInv == ASSUME BufferInv, ReturnChar PROVE BufferInv'
<1> USE DEF BufferInv
<1>1. /\ at = "return" /\ n' = 0 /\ at' = "elsewhere"
      /\ reads' = IF n = 0 THEN reads ELSE Append(reads, cell[n])
      /\ kept' = IF n \in 1 .. count THEN kept \cup {cell[n]} ELSE kept
      /\ UNCHANGED <<down, typed, count, cell>>
  BY DEF ReturnChar, hardware, driver
<1>2. /\ Len(typed) \in Nat /\ Len(typed) <= MaxTyped /\ count \in 0 .. Len(typed)
      /\ n \in 0 .. Len(typed) /\ MaxTyped \in Nat /\ Len(reads) \in Nat
  BY KeyboardAssumption DEF BufferType
<1>3. CASE n = 0
  <2>1. UNCHANGED <<reads, kept>>
    BY <1>1, <1>2, <1>3
  <2>2. BufferType' /\ \A i \in 1 .. MaxTyped : InUse(i)' => InUse(i)
    BY <1>1, <1>3, <2>1 DEF BufferType, InUse
  <2> QED
    BY <1>1, <1>2, <2>1, <2>2, FewerInUse
<1>4. CASE n # 0
  <2> DEFINE c == cell[n]
  <2>1. c \in Nat /\ n \in 1 .. MaxTyped /\ InUse(n) /\ (Unread(c) \/ ReadOnce(c))
    BY <1>1, <1>2, <1>4 DEF BufferType, InUse
  <2>2. /\ reads' \in Seq(Nat) /\ Len(reads') = Len(reads) + 1
        /\ \A j \in 1 .. Len(reads) : reads'[j] = reads[j]
        /\ reads'[Len(reads) + 1] = c
    BY <1>1, <1>4, <2>1 DEF BufferType
  <2>3. n \in 1 .. count => Unread(c) /\ c \in kept'
    BY <1>1
  <2>4. kept \subseteq kept'
    BY <1>1
  <2>5. c <= Len(typed)
    BY <2>1 DEF Unread, ReadOnce
  <2>6. BufferType'
    BY <1>1, <1>2, <2>2 DEF BufferType
  <2> HIDE DEF c
  <2>7. NothingIsReadTwice'
    <3> SUFFICES ASSUME NEW i \in 1 .. Len(reads'), NEW j \in 1 .. Len(reads'),
                        i < j, reads'[i] = reads'[j]
                 PROVE  j = i + 1 /\ reads'[i] \in kept'
      BY DEF NothingIsReadTwice
    <3>1. i \in 1 .. Len(reads) /\ reads'[i] = reads[i]
      BY <1>2, <2>2
    <3>2. CASE j \in 1 .. Len(reads)
      BY <2>2, <2>4, <3>1, <3>2 DEF NothingIsReadTwice
    <3>3. CASE j = Len(reads) + 1
      <4>1. ReadOnce(c) /\ reads[i] = c
        BY <2>1, <2>2, <3>1, <3>3 DEF Unread
      <4> QED BY <2>4, <3>1, <3>3, <4>1 DEF ReadOnce
    <3> QED BY <1>2, <2>2, <3>2, <3>3
  <2>8. ASSUME NEW i \in 1 .. MaxTyped, InUse(i)'
        PROVE  Unread(cell[i])' \/ ReadOnce(cell[i])'
    <3>1. i \in 1 .. count /\ InUse(i) /\ Unread(cell[i]) /\ cell'[i] = cell[i]
      BY <1>1, <2>8 DEF InUse
    <3>2. CASE i = n
      <4>1. \A j \in 1 .. Len(reads') : reads'[j] = c => j = Len(reads')
        BY <1>2, <2>2, <3>1, <3>2 DEF Unread, c
      <4> QED BY <1>1, <2>3, <2>5, <3>1, <3>2, <4>1 DEF ReadOnce, c
    <3>3. CASE i # n
      <4>1. cell[i] # c
        BY <2>1, <3>1, <3>3 DEF c
      <4>2. ASSUME NEW j \in 1 .. Len(reads') PROVE reads'[j] # cell[i]
        <5>1. CASE j \in 1 .. Len(reads)
          BY <2>2, <3>1, <5>1 DEF Unread
        <5>2. CASE j = Len(reads) + 1
          BY <2>2, <4>1, <5>2
        <5> QED BY <1>2, <2>2, <5>1, <5>2
      <4>3. cell'[i] = cell[i] /\ typed' = typed /\ cell[i] <= Len(typed)
        BY <1>1, <3>1 DEF Unread
      <4> QED BY <4>2, <4>3 DEF Unread
    <3> QED BY <3>2, <3>3
  <2>9. \A i, j \in 1 .. MaxTyped : InUse(i)' /\ InUse(j)' /\ cell'[i] = cell'[j] => i = j
    BY <1>1 DEF InUse
  <2>10. \A j \in 1 .. Len(reads') : reads'[j] <= Len(typed')
    BY <1>1, <1>2, <2>2, <2>5
  <2> QED
    BY <1>1, <2>6, <2>7, <2>8, <2>9, <2>10
<1> QED BY <1>3, <1>4

LEMMA GetCharInv == ASSUME BufferInv, GetChar PROVE BufferInv'
<1>1. CASE ReadCount
  <2>1. /\ n' = count /\ at' = "reset" /\ at = "elsewhere"
        /\ UNCHANGED <<down, typed, count, cell, reads, kept>>
    BY <1>1 DEF ReadCount, hardware, driver
  <2>2. BufferType' /\ \A i \in 1 .. MaxTyped : InUse(i)' => InUse(i)
    BY <2>1 DEF BufferInv, BufferType, InUse
  <2> QED
    BY <2>1, <2>2, FewerInUse DEF BufferInv, BufferType
<1>2. CASE ResetCount
  <2>1. /\ at = "reset" /\ at' = "return" /\ count' = 0
        /\ UNCHANGED <<down, typed, cell, reads, kept, n>>
    BY <1>2 DEF ResetCount, hardware
  <2>2. BufferType' /\ \A i \in 1 .. MaxTyped : InUse(i)' => InUse(i)
    BY <2>1 DEF BufferInv, BufferType, InUse
  <2> QED
    BY <2>1, <2>2, FewerInUse DEF BufferInv, BufferType
<1>3. CASE ReturnChar
  BY <1>3, ReturnInv
<1> QED
  BY <1>1, <1>2, <1>3 DEF GetChar

LEMMA BufferInvHolds == Spec => []BufferInv
<1>1. Init => BufferInv
  BY KeyboardAssumption
  DEF Init, BufferInv, BufferType, InUse, Unread, NothingIsReadTwice
<1>2. BufferInv /\ [Next]_vars => BufferInv'
  <2> SUFFICES ASSUME BufferInv, [Next]_vars PROVE BufferInv'
    OBVIOUS
  <2>1. CASE Isr33
    BY <2>1, IsrBufferInv
  <2>2. CASE GetChar
    BY <2>2, GetCharInv
  <2>3. CASE FlushBuf
    <3>1. /\ count' = 0 /\ at = "elsewhere"
          /\ UNCHANGED <<down, typed, cell, reads, kept, at, n>>
      BY <2>3 DEF FlushBuf, hardware, program
    <3>2. BufferType' /\ \A i \in 1 .. MaxTyped : InUse(i)' => InUse(i)
      BY <3>1 DEF BufferInv, BufferType, InUse
    <3> QED
      BY <3>1, <3>2, FewerInUse DEF BufferInv, BufferType
  <2>4. CASE (\E k \in Keys : Press(k) \/ Release(k)) \/ Tick \/ UNCHANGED vars
    <3>1. /\ UNCHANGED <<count, cell, typed, program>>
          /\ down \subseteq Keys => down' \subseteq Keys
      BY <2>4 DEF Press, Release, Tick, vars, hardware, driver
    <3>2. BufferType' /\ \A i \in 1 .. MaxTyped : InUse(i)' => InUse(i)
      BY <3>1 DEF BufferInv, BufferType, InUse, program
    <3> QED
      BY <3>1, <3>2, FewerInUse DEF program, BufferInv, BufferType
  <2> QED
    BY <2>1, <2>2, <2>3, <2>4 DEF Next
<1> QED
  BY <1>1, <1>2, PTL DEF Spec

\* Wherever isr33 interrupts getChar and whatever is typed, erased and flushed, getChar
\* returns no character twice, but one that isr33 put where getChar was going to look,
\* and that one twice in a row.
THEOREM ReadsAreNew == Spec => []NothingIsReadTwice
<1>1. BufferInv => NothingIsReadTwice
  BY DEF BufferInv
<1> QED
  BY <1>1, BufferInvHolds, PTL
=============================================================================
