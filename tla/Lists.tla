-------------------------------- MODULE Lists -------------------------------
(***************************************************************************)
(* The lists of lib/src/list.c on the heap: chained arrays, each twice as  *)
(* long as the one before it.  An array ends with the address of the next  *)
(* one; the first has the length of the list after that.                   *)
(***************************************************************************)
EXTENDS Heap

CONSTANTS
    FirstArray,     \* slots of the first array (4 in the code)
    MaxArrays       \* bound: arrays of a list

ASSUME ListsAssumption == FirstArray \in Nat \ {0} /\ MaxArrays \in Nat \ {0}

Slots(k)   == FirstArray * 2^k              \* of array k, from 0 on
Before(k)  == FirstArray * (2^k - 1)        \* slots of the arrays before it
ArrayOf(i) == CHOOSE k \in 0 .. MaxArrays : Before(k) <= i /\ i < Before(k + 1)

\* The arrays of list l.
Array(h, l) ==
    LET a[k \in 0 .. MaxArrays] == IF k = 0 THEN l
                                   ELSE IF a[k - 1] = NULL THEN NULL
                                   ELSE Word(h, a[k - 1] + 4 * Slots(k - 1))
    IN  a
Slot(h, l, i) == Array(h, l)[ArrayOf(i)] + 4 * (i - Before(ArrayOf(i)))
Length(l)     == l + 4 * (FirstArray + 1)

-----------------------------------------------------------------------------
\* A list whose length is what the memory held.
empty_list_Dirty(h) ==
    LET new == kmalloc(h, 4 * (FirstArray + 3))
    IN  [heap |-> Store(new.heap, << <<new.ptr + 4 * FirstArray, NULL>> >>), ptr |-> new.ptr]
empty_list(h) ==
    LET new == kmalloc(h, 4 * (FirstArray + 3))
    IN  [heap |-> Store(new.heap, << <<Length(new.ptr), 0>>,
                                     <<new.ptr + 4 * FirstArray, NULL>> >>),
         ptr  |-> new.ptr]

len(h, l)    == Word(h, Length(l))
get(h, l, i) == IF len(h, l) <= i THEN -1 ELSE Word(h, Slot(h, l, i))

\* The next array of a list, allocated when the list reaches it.
Grow(h, l, k) ==
    LET link == Array(h, l)[k - 1] + 4 * Slots(k - 1)
        new  == kmalloc(h, 4 * (Slots(k) + 1))
    IN  IF Word(h, link) # NULL THEN h
        ELSE Store(new.heap, << <<link, new.ptr>>, <<new.ptr + 4 * Slots(k), NULL>> >>)

append(h, l, v) ==
    LET size  == len(h, l)
        grown == FoldLeft(LAMBDA g, k : Grow(g, l, k), h, [k \in 1 .. ArrayOf(size) |-> k])
    IN  Store(grown, << <<Slot(grown, l, size), v>>, <<Length(l), size + 1>> >>)

\* pop: at the last slot of an array, the list forgets the next one.
pop(h, l) ==
    LET i    == len(h, l) - 1
        k    == ArrayOf(i)
        link == Array(h, l)[k] + 4 * Slots(k)
        cut  == i = Before(k + 1) - 1
    IN  [heap  |-> Store(h, (IF cut THEN << <<link, NULL>> >> ELSE <<>>)
                            \o << <<Length(l), i>> >>),
         value |-> Word(h, Slot(h, l, i))]

\* delList: the arrays up to the one of slot len, the last one first.
delList(h, l) ==
    LET a == Array(h, l)
        n == ArrayOf(len(h, l))
        arrays == [j \in 1 .. n + 1 |-> a[n + 1 - j]]
    IN  FoldLeft(LAMBDA g, p : kfree(g, p), h, arrays)
=============================================================================
