------------------------------- MODULE Memory -------------------------------
(***************************************************************************)
(* The heap and those who use it: kernel code that allocates and frees     *)
(* blocks (saved screens and cursors, arguments, processes), page tables   *)
(* (kmalloc_align, never freed), Python-like lists, and sprintf, which     *)
(* collects its characters in a list.  A call runs to its end: kmalloc and *)
(* kfree under preemption are not modelled.                                *)
(*                                                                         *)
(* The owner of a block fills it with Data.  Once a call has been misled   *)
(* (see Heap) the memory may hold anything; nobody makes a call after it.  *)
(***************************************************************************)
EXTENDS Lists, TLC, FiniteSets

CONSTANTS
    Sizes,          \* what kmalloc is asked for
    PageSizes,      \* what kmalloc_align is asked for
    Align,          \* its alignment
    Data,           \* the word owners write
    MaxLen,         \* bound: elements of a list
    MaxLists,       \* bound: lists at a time
    Texts           \* lengths of the texts sprintf makes

ASSUME MemoryAssumption ==
    /\ Sizes \subseteq Nat /\ Texts \subseteq Nat /\ PageSizes \subseteq Nat
    /\ Align \in Nat \ {0} /\ Align % 4 = 0
    /\ Data \in Nat /\ MaxLen \in Nat /\ MaxLen < Before(MaxArrays) /\ MaxLists \in Nat

VARIABLES
    heap,           \* the allocator
    blocks,         \* address -> size of the blocks somebody holds
    pages,          \* address -> size of those from kmalloc_align
    lists           \* address -> the elements appended and not popped

vars == <<heap, blocks, pages, lists>>

Init == heap = initKmalloc /\ blocks = <<>> /\ pages = <<>> /\ lists = <<>>

Without(f, x) == [y \in DOMAIN f \ {x} |-> f[y]]
Filled(h, ptr, n) == Store(h, [i \in 1 .. n \div 4 |-> <<ptr + 4 * (i - 1), Data>>])
Usable == heap.heapTop <= MaxTop /\ ~heap.misled

-----------------------------------------------------------------------------
Malloc(n) ==
    LET new == kmalloc(heap, n)
    IN  /\ Usable
        /\ heap' = Filled(new.heap, new.ptr, n)
        /\ blocks' = IF new.ptr = NULL THEN blocks ELSE (new.ptr :> n) @@ blocks
        /\ UNCHANGED <<pages, lists>>

Free(ptr) ==
    /\ Usable
    /\ heap' = kfree(heap, ptr)
    /\ blocks' = Without(blocks, ptr)
    /\ UNCHANGED <<pages, lists>>

MallocAlign(n) ==
    LET new == kmalloc_align(heap, n, Align)
    IN  /\ Usable
        /\ heap' = Filled(new.heap, new.ptr, n)
        /\ pages' = (new.ptr :> n) @@ pages
        /\ UNCHANGED <<blocks, lists>>

-----------------------------------------------------------------------------
EmptyList ==
    LET new == empty_list(heap)
    IN  /\ Usable /\ Cardinality(DOMAIN lists) < MaxLists
        /\ heap' = new.heap
        /\ lists' = (new.ptr :> <<>>) @@ lists
        /\ UNCHANGED <<blocks, pages>>

\* An element tells its list and its place.
AppendTo(l) ==
    LET v == l + Len(lists[l])
    IN  /\ Usable /\ Len(lists[l]) < MaxLen
        /\ heap' = append(heap, l, v)
        /\ lists' = [lists EXCEPT ![l] = Append(@, v)]
    /\ UNCHANGED <<blocks, pages>>

PopFrom(l) ==
    /\ Usable /\ lists[l] # <<>>
    /\ heap' = pop(heap, l).heap
    /\ lists' = [lists EXCEPT ![l] = Front(@)]
    /\ UNCHANGED <<blocks, pages>>

DelList(l) ==
    /\ Usable
    /\ heap' = delList(heap, l)
    /\ lists' = Without(lists, l)
    /\ UNCHANGED <<blocks, pages>>

\* sprintf: n characters into a list, a block of n bytes, the characters out of
\* the list from the last one on, the list deleted.
Sprintf(n) ==
    LET list == empty_list(heap)
        full == FoldLeft(LAMBDA h, i : append(h, list.ptr, i), list.heap, [i \in 1 .. n |-> i])
        str  == kmalloc(full, n)
        out  == FoldLeft(LAMBDA h, i : pop(h, list.ptr).heap, str.heap, [i \in 1 .. n |-> i])
    IN  /\ Usable
        /\ heap' = Filled(delList(out, list.ptr), str.ptr, n)
        /\ blocks' = IF str.ptr = NULL THEN blocks ELSE (str.ptr :> n) @@ blocks
        /\ UNCHANGED <<pages, lists>>

Next ==
    \/ \E n \in Sizes : Malloc(n)
    \/ \E ptr \in DOMAIN blocks : Free(ptr)
    \/ \E n \in PageSizes : MallocAlign(n)
    \/ EmptyList
    \/ \E l \in DOMAIN lists : AppendTo(l) \/ PopFrom(l) \/ DelList(l)
    \/ \E n \in Texts : Sprintf(n)

Spec == Init /\ [][Next]_vars

-----------------------------------------------------------------------------
\* Types; the addresses of page tables are multiples of Align, because makePageTable
\* keeps only their upper bits.
TypeOK ==
    /\ heap.mem \in [Words -> Int] /\ heap.heapTop \in Words
    /\ heap.entry \in [Classes -> Int] /\ heap.misled \in BOOLEAN
    /\ \A ptr \in DOMAIN blocks : ptr \in Words
    /\ \A ptr \in DOMAIN pages : ptr \in Words /\ ptr % Align = 0
    /\ \A l \in DOMAIN lists : lists[l] \in Seq(Int)

\* The blocks of a list: its arrays, the spare one at the end included.
Arrays(l) == {Array(heap, l)[k] : k \in 0 .. MaxArrays} \ {NULL}

Owned == {ptr - 4 : ptr \in DOMAIN blocks \cup DOMAIN pages
                            \cup UNION {Arrays(l) : l \in DOMAIN lists}}

\* "voir le rapport pour la description de l'implementation de malloc": no word
\* belongs to two blocks, in use or free, and none lies outside of the heap.
BlocksAreDisjoint ==
    ~heap.misled =>
        /\ Owned \cap heap.free = {}
        /\ \A a \in Owned \cup heap.free :
              /\ Bottom <= a /\ BlockEnd(heap, a) <= heap.heapTop
              /\ \A b \in (Owned \cup heap.free) \ {a} :
                    BlockEnd(heap, a) <= b \/ BlockEnd(heap, b) <= a

\* What the owner of a block wrote into it stays there, whatever others
\* allocate and free.
DataIsKept ==
    \A f \in {blocks, pages} : \A ptr \in DOMAIN f : \A i \in 0 .. (f[ptr] \div 4) - 1 :
        Word(heap, ptr + 4 * i) = Data
DataIsKeptUntilMisled == ~heap.misled => DataIsKept

\* get returns what append put in, across arrays and the memory of other lists.
ListsAreSequences ==
    ~heap.misled =>
        \A l \in DOMAIN lists :
            /\ len(heap, l) = Len(lists[l])
            /\ \A i \in 0 .. Len(lists[l]) - 1 : get(heap, l, i) = lists[l][i + 1]

\* The free list has the free blocks, is doubly linked and sorted by class, and every entry point is
\* the first block of its class or more.
FreeListIsSorted ==
    LET s == FreeList(heap)
        class(i) == log2(BlockSize(heap, s[i]))
    IN  ~heap.misled =>
        /\ ToSet(s) = heap.free
        /\ \A i \in 1 .. Len(s) : Pred(heap, s[i]) = IF i = 1 THEN NULL ELSE s[i - 1]
        /\ \A i, j \in 1 .. Len(s) : i < j => class(i) <= class(j)
        /\ \A k \in Classes :
              heap.entry[k] = LET i == SelectInSeq(s, LAMBDA a : log2(BlockSize(heap, a)) >= k)
                              IN  IF i = 0 THEN NULL ELSE s[i]

\* "la recherche est toujours rapide": the heap grows for a block only when no
\* free block is large enough.
HeapGrowsWhenFull ==
    [][\A n \in Sizes : Malloc(n) /\ heap'.heapTop # heap.heapTop
            => \A a \in heap.free : BlockSize(heap, a) < Rounded(n)]_vars

\* "si le succ est nul le pred est le dernier element de la liste chainee"
\* (kmalloc.c:58): freeListQueue is the last free block.
QueueIsLast == heap.queue = LastFree(heap)
=============================================================================
