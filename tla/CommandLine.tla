---------------------------- MODULE CommandLine -----------------------------
(***************************************************************************)
(* What the shell makes of a line (modules/shell.c): the prefix tree of    *)
(* the commands' names, the search in it, the loop of parseArgs over the   *)
(* rest of the line, the array of arguments, and what calc does with it.   *)
(*                                                                         *)
(* Indices into the line count from 0, as in the code.  The memory of the  *)
(* words is left out, except where the code reads what it has not written. *)
(***************************************************************************)
EXTENDS Integers, SequencesExt, FiniteSets

CONSTANTS
    Chars,          \* the characters of the keyboard
    Pieces,         \* what the user types at a time, sequences of characters
    MaxPieces,      \* bound: pieces of a line
    Wrap,           \* 2 to the width of an unsigned int
    Unset,          \* an entry of an array that was never written
    NULL

ASSUME CommandLineAssumption ==
    /\ MaxPieces \in Nat /\ Wrap \in Nat \ {0}
    /\ Pieces \subseteq Seq(Chars)
    /\ NULL \notin Chars \cup Seq(Chars)     \* neither a character nor a node

VARIABLES
    command,        \* the list of the characters typed
    pieces,         \* how many pieces they were typed in
    pc,             \* the part of the code, or how it ended
    i,              \* index into the line
    node,           \* currentTree
    id,             \* the command found
    mandatoryArgs,  \* words, as far as they have been parsed
    opts,           \* the word given for each option, or NULL
    nbOpts,         \* options counted
    background,     \* has a & been met?
    args,           \* what the command is called with
    result          \* what calc shows

line   == <<command, pieces>>
parse  == <<mandatoryArgs, opts, nbOpts, background>>
vars   == <<line, pc, i, node, id, parse, args, result>>

-----------------------------------------------------------------------------
\* initCommands: the table, without NONE
commandes == <<
    [text |-> <<"e","c","h","o">>, mandatoryArgs |-> 1, opts |-> <<>>],
    [text |-> <<"c","a","l","c">>, mandatoryArgs |-> 1, opts |-> <<"a","m","d","M">>],
    [text |-> <<"p","a","g","e","f","a","u","l","t">>, mandatoryArgs |-> 0, opts |-> <<>>],
    [text |-> <<"e","x","i","t">>, mandatoryArgs |-> 0, opts |-> <<>>],
    [text |-> <<"s","l","e","e","p">>, mandatoryArgs |-> 1, opts |-> <<>>],
    [text |-> <<"p","r","i","m","e">>, mandatoryArgs |-> 1, opts |-> <<>>],
    [text |-> <<"g","a","m","e">>, mandatoryArgs |-> 1, opts |-> <<>>] >>
NONE == 0
CALC == 2

\* The names of the commands can be typed.
ASSUME NamesAssumption == \A n \in DOMAIN commandes : commandes[n].text \in Seq(Chars)

\* makeTree: a node is the prefix that leads to it.
Nodes == UNION {Prefixes(commandes[n].text) : n \in DOMAIN commandes}
\* Every node of the path is marked.
EndsAt_Path(p) == {n \in DOMAIN commandes : p \in Prefixes(commandes[n].text)}
EndsAt(p)      == {n \in DOMAIN commandes : p = commandes[n].text}
\* A node has the number of the command that ends there, of several that of the last.
makeTree == [p \in Nodes |-> IF EndsAt(p) = {} THEN NONE ELSE Max(EndsAt(p))]

\* With no node, the number of children is read at address 12, where the interrupt
\* vectors of the BIOS are: a negative number.
getChild(p, c) == IF p # NULL /\ Append(p, c) \in Nodes THEN Append(p, c) ELSE NULL

get(k) == IF k < Len(command) THEN command[k + 1] ELSE NULL     \* -1 past the end
parseWord(k) ==
    LET ends == {n \in k .. Len(command) : get(n) \in {" ", NULL}}
    IN  SubSeq(command, k + 1, CHOOSE n \in ends : \A m \in ends : n <= m)

-----------------------------------------------------------------------------
\* parseInt for words of digits, after one minus sign perhaps
Digits == <<"0", "1", "2", "3", "4", "5", "6", "7", "8", "9">>
Digit  == [c \in ToSet(Digits) |-> CHOOSE d \in 0 .. 9 : Digits[d + 1] = c]
IsNumber(w) ==
    /\ w \notin {Unset, NULL} /\ w # <<>>
    /\ \A k \in DOMAIN w : w[k] \in ToSet(Digits) \/ (w[k] = "-" /\ k = 1)
digit(c) == IF c = "-" THEN 0 ELSE Digit[c]     \* the sign is overwritten with 0
\* The sign is forgotten.
parseInt_Unsigned(w) ==
    FoldRight(LAMBDA c, s : [x |-> 10 * s.x, ret |-> s.ret + s.x * digit(c)],
              w, [x |-> 1, ret |-> 0]).ret
\* From the last digit, with weights that grow.
parseInt(w) ==
    FoldRight(LAMBDA c, s : [x |-> 10 * s.x, ret |-> s.ret + s.x * digit(c)],
              w, [x |-> IF w[1] = "-" THEN -1 ELSE 1, ret |-> 0]).ret

\* Division of C.
Sign(x)    == IF x < 0 THEN -1 ELSE 1
Abs(x)     == Sign(x) * x
Quot(x, y) == Sign(x) * Sign(y) * (Abs(x) \div Abs(y))
Rem(x, y)  == x - y * Quot(x, y)

\* calc_func: the operations in the order of the array.
Apply(dep, op, x) ==
    IF dep = NULL \/ (op \in {"d", "M"} /\ x = 0) THEN NULL     \* a division by zero
    ELSE CASE op = "a" -> dep + x
           [] op = "m" -> dep * x
           [] op = "d" -> Quot(dep, x)
           [] op = "M" -> Rem(dep, x)
calc_func(a) ==
    LET ops == a[2]
    IN  FoldLeft(LAMBDA dep, k : Apply(dep, ops[k], parseInt(a[2 + k])),
                 parseInt(a[1]), [k \in DOMAIN ops |-> k])

\* sprintInt of an unsigned number; of zero it leaves the digit and a NUL.
sprintInt(n) ==
    LET text[m \in Nat] == IF m = 0 THEN <<>> ELSE Append(text[m \div 10], Digits[(m % 10) + 1])
    IN  IF n = 0 THEN <<"0", NULL>> ELSE text[n]

-----------------------------------------------------------------------------
Init == /\ command = <<>> /\ pieces = 0 /\ pc = "edit"
        /\ i = 0 /\ node = NULL /\ id = NONE /\ mandatoryArgs = <<>> /\ opts = <<>>
        /\ nbOpts = 0 /\ background = FALSE /\ args = <<>> /\ result = NULL

\* exec_shell appends what is typed to the list.
Type(piece) ==
    /\ pc = "edit" /\ pieces < MaxPieces
    /\ command' = command \o piece /\ pieces' = pieces + 1
    /\ UNCHANGED <<pc, i, node, id, parse, args, result>>

\* parseExecCommand
Enter ==
    /\ pc = "edit" /\ pc' = "lookup"
    /\ node' = <<>> /\ i' = 0
    /\ UNCHANGED <<line, id, parse, args, result>>
Descend ==
    /\ pc = "lookup"
    /\ node' = getChild(node, get(i))
    /\ i' = i + 1
    /\ pc' = IF get(i + 1) \in {" ", NULL} THEN "found" ELSE "lookup"
    /\ UNCHANGED <<line, id, parse, args, result>>
\* "Commande inconnue"
Unknown ==
    /\ pc = "found"
    /\ node = NULL \/ (node # NULL /\ makeTree[node] = NONE)
    /\ pc' = "refused"
    /\ UNCHANGED <<line, i, node, id, parse, args, result>>
Known ==
    /\ pc = "found"
    /\ node # NULL /\ makeTree[node] # NONE
    /\ pc' = "args" /\ id' = makeTree[node]
    /\ opts' = [k \in DOMAIN commandes[id'].opts |-> NULL]
    /\ UNCHANGED <<line, i, node, mandatoryArgs, nbOpts, background, args, result>>

-----------------------------------------------------------------------------
\* The loop of parseArgs, by the character it meets.
Meets(c) == pc = "args" /\ ~background /\ get(i) = c
Declared(c) == {k \in DOMAIN commandes[id].opts : commandes[id].opts[k] = c}

\* The line ends with a dash.
LastDash ==
    /\ Meets("-") /\ get(i + 1) = NULL
    /\ i' = i + 2
    /\ UNCHANGED <<line, pc, node, id, parse, args, result>>
\* The letter is skipped, and whatever comes after it.
UnknownOption ==
    /\ Meets("-") /\ get(i + 1) # NULL /\ Declared(get(i + 1)) = {}
    /\ i' = i + 3
    /\ UNCHANGED <<line, pc, node, id, parse, args, result>>
\* An option whose value is kept with the others' but not counted.
Option_NotCounted ==
    /\ Meets("-")
    /\ \E k \in Declared(get(i + 1)) :
          LET word == parseWord(i + 2)
          IN  /\ opts' = [opts EXCEPT ![k] = IF word = <<>> THEN NULL ELSE word]
              /\ i' = i + 2 + Len(word) + 1
    /\ UNCHANGED <<line, pc, node, id, mandatoryArgs, nbOpts, background, args, result>>
\* The value of an option follows its letter; memory for no character is NULL.
Option ==
    /\ Meets("-")
    /\ \E k \in Declared(get(i + 1)) :
          LET word == parseWord(i + 2)
          IN  /\ opts' = [opts EXCEPT ![k] = IF word = <<>> THEN NULL ELSE word]
              /\ i' = i + 2 + Len(word) + 1
    /\ nbOpts' = nbOpts + 1
    /\ UNCHANGED <<line, pc, node, id, mandatoryArgs, background, args, result>>
\* The rest of the line is not looked at.
Ampersand ==
    /\ Meets("&")
    /\ background' = TRUE
    /\ UNCHANGED <<line, pc, i, node, id, mandatoryArgs, opts, nbOpts, args, result>>
Space ==
    /\ Meets(" ")
    /\ i' = i + 1
    /\ UNCHANGED <<line, pc, node, id, parse, args, result>>
MandatoryArg ==
    /\ pc = "args" /\ ~background /\ get(i) \notin {"-", "&", " ", NULL}
    /\ Len(mandatoryArgs) < commandes[id].mandatoryArgs
    /\ mandatoryArgs' = Append(mandatoryArgs, parseWord(i))
    /\ i' = i + Len(parseWord(i)) + 1
    /\ UNCHANGED <<line, pc, node, id, opts, nbOpts, background, args, result>>
\* "mauvaise arite": one character is skipped, not the word.
ExcessArg ==
    /\ pc = "args" /\ ~background /\ get(i) \notin {"-", "&", " ", NULL}
    /\ Len(mandatoryArgs) >= commandes[id].mandatoryArgs
    /\ i' = i + 1
    /\ UNCHANGED <<line, pc, node, id, parse, args, result>>

Parsed == pc = "args" /\ (background \/ get(i) = NULL)
Given  == SelectSeq([k \in DOMAIN opts |-> k], LAMBDA k : opts[k] # NULL)

\* The mandatory arguments, those missing never written; the letters of the
\* options; their values.
Collect ==
    /\ Parsed /\ nbOpts <= Len(Given)
    /\ pc' = "called"
    /\ args' = [k \in 1 .. commandes[id].mandatoryArgs |->
                    IF k <= Len(mandatoryArgs) THEN mandatoryArgs[k] ELSE Unset]
               \o << [k \in 1 .. nbOpts |-> commandes[id].opts[Given[k]]] >>
               \o [k \in 1 .. nbOpts |-> opts[Given[k]]]
    /\ UNCHANGED <<line, i, node, id, parse, result>>
\* More options were counted than are there: the search leaves the array.
Overrun ==
    /\ Parsed /\ nbOpts > Len(Given)
    /\ pc' = "lost"
    /\ UNCHANGED <<line, i, node, id, parse, args, result>>

\* shellCommandProcess calls the function; of calc the number shown is kept, unless
\* it reads what is no number.
Calculates == id = CALC /\ \A k \in DOMAIN args \ {2} : IsNumber(args[k])
Call ==
    /\ pc = "called" /\ pc' = "done"
    /\ IF Calculates
       THEN calc_func(args) # NULL /\ result' = sprintInt(calc_func(args) % Wrap)
       ELSE result' = NULL
    /\ UNCHANGED <<line, i, node, id, parse, args>>
\* isr0 returns to the division by zero, for ever; the shell goes on after Ctrl-C.
Faults ==
    /\ pc = "called" /\ Calculates /\ calc_func(args) = NULL
    /\ pc' = "faulting"
    /\ UNCHANGED <<line, i, node, id, parse, args, result>>

\* delList, empty_list
NextLine ==
    /\ pc \in {"done", "faulting", "refused"} /\ pc' = "edit"
    /\ command' = <<>> /\ pieces' = 0
    /\ i' = 0 /\ node' = NULL /\ id' = NONE /\ mandatoryArgs' = <<>> /\ opts' = <<>>
    /\ nbOpts' = 0 /\ background' = FALSE /\ args' = <<>> /\ result' = NULL

Next == \/ (\E piece \in Pieces : Type(piece)) \/ Enter \/ Descend \/ Unknown \/ Known
        \/ LastDash \/ UnknownOption \/ Option \/ Ampersand \/ Space \/ MandatoryArg
        \/ ExcessArg \/ Collect \/ Overrun \/ Call \/ Faults \/ NextLine

Spec == Init /\ [][Next]_vars

-----------------------------------------------------------------------------
\* What the line says, read word by word: the words after the first, up to one
\* that begins with &.
Starts == {k \in 0 .. Len(command) - 1 : get(k) # " " /\ (k = 0 \/ get(k - 1) = " ")}
Cut    == {k \in Starts \ {0} : get(k) = "&"}
ArgWords ==
    LET before == {k \in Starts \ {0} : \A c \in Cut : k < c}
    IN  [k \in DOMAIN SetToSortSeq(before, <) |-> parseWord(SetToSortSeq(before, <)[k])]
IsOption(w) == w[1] = "-"
Plain       == SelectSeq(ArgWords, LAMBDA w : ~IsOption(w))
ValuesOf(c) == {k \in DOMAIN ArgWords : IsOption(ArgWords[k]) /\ Len(ArgWords[k]) > 1
                                        /\ ArgWords[k][2] = c}

\* A line as the command declares it: as many words as it demands, options it
\* knows, each once and with a value.
WellFormed(n) ==
    /\ Len(Plain) = commandes[n].mandatoryArgs
    /\ \A k \in DOMAIN ArgWords :
          IsOption(ArgWords[k]) =>
              /\ Len(ArgWords[k]) > 2
              /\ ArgWords[k][2] \in ToSet(commandes[n].opts)
              /\ ValuesOf(ArgWords[k][2]) = {k}

\* The convention of include/shell.h: the mandatory arguments, the options chosen in
\* the order of the declaration, then their values in the same order.
Convention(n) ==
    LET letters == SelectSeq(commandes[n].opts, LAMBDA c : ValuesOf(c) # {})
        value(c) == LET w == ArgWords[CHOOSE k \in ValuesOf(c) : TRUE] IN SubSeq(w, 3, Len(w))
    IN  Plain \o <<letters>> \o [k \in DOMAIN letters |-> value(letters[k])]

\* The commands whose whole name the line begins with.
Named == {n \in DOMAIN commandes : 0 \in Starts /\ parseWord(0) = commandes[n].text}

\* The search in the tree finds a command exactly for a line that begins with its
\* whole name.
LookupIsByName ==
    pc \in {"args", "called", "done", "faulting", "refused", "lost"} =>
        Named = IF pc = "refused" THEN {} ELSE {id}

\* A well-formed line is parsed by the convention, whatever the order of its words,
\* and runs in the background exactly if one of them begins with &.
ArgumentsFollowTheConvention ==
    pc \in {"called", "done", "lost"} /\ WellFormed(id) =>
        /\ pc # "lost"
        /\ args = Convention(id)
        /\ background = (Cut # {})

NumberOf(w) ==
    LET value(x, c) == 10 * x + digit(c)
    IN  (IF w[1] = "-" THEN -1 ELSE 1) * FoldLeft(value, 0, w)

\* calc shows the first number, plus a, times m, divided by d, modulo M, of those that
\* were given, in that order and not in the order of the line.
CalcIsInOrder ==
    pc = "done" /\ result # NULL /\ WellFormed(id) =>
        LET x(c)    == NumberOf(Tail(Tail(ArgWords[CHOOSE k \in ValuesOf(c) : TRUE])))
            has(c)  == ValuesOf(c) # {}
            sum     == NumberOf(Plain[1]) + (IF has("a") THEN x("a") ELSE 0)
            product == sum * (IF has("m") THEN x("m") ELSE 1)
            ratio   == IF has("d") THEN Quot(product, x("d")) ELSE product
            rest    == IF has("M") THEN Rem(ratio, x("M")) ELSE ratio
        IN  NumberOf(SelectSeq(result, LAMBDA c : c # NULL)) = rest % Wrap
=============================================================================
