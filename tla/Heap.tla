-------------------------------- MODULE Heap --------------------------------
(***************************************************************************)
(* The allocator, lib/src/kmalloc.c, as operators on a heap.               *)
(*                                                                         *)
(* A block begins with a header, the address of its end, whose two low     *)
(* bits say that the block is free (1) and that the one before it is (2).  *)
(* A free block holds its successor and predecessor in the free list after *)
(* the header and its own address, the footer, in its last word.  The free *)
(* list is sorted by size class; entryPoints[k] is its first block of      *)
(* class k or more, freeListQueue its last.                                *)
(*                                                                         *)
(* Addresses are bytes.  Memory nobody wrote is zero; what lies outside    *)
(* the modelled words reads as zero and is not kept.                       *)
(***************************************************************************)
EXTENDS Integers, SequencesExt

CONSTANTS
    Bottom,         \* initKmalloc's argument
    MaxTop,         \* bound: no call when the heap has grown beyond
    Room,           \* bytes that one call may still take
    MaxClass        \* bound: log2 of the largest block

ASSUME HeapAssumption ==
    /\ Bottom % 4 = 0 /\ Bottom > 8
    /\ MaxTop \in Nat /\ Room \in Nat /\ MaxTop > Bottom
    /\ MaxClass \in 1 .. 31     \* entryPoints has 32 entries

NULL    == 0
Words   == {a \in Bottom .. MaxTop + Room : a % 4 = 0}
Classes == 0 .. MaxClass

\* initKmalloc.  Three fields are history: the blocks that are free; whether
\* freeListQueue is no longer what an insertion has set it to; whether a call has
\* relied on such a queue, or taken for a footer what is none.
initKmalloc == [mem   |-> [a \in Words |-> 0], heapTop |-> Bottom, lastAddr |-> NULL,
                queue |-> NULL, entry |-> [k \in Classes |-> NULL],
                free  |-> {}, queueLost |-> FALSE, misled |-> FALSE]

-----------------------------------------------------------------------------
\* Words, their flags, and writes in the order of the code.
Word(h, a)    == IF a \in Words THEN h.mem[a] ELSE 0
clear(w)      == w - (w % 4)
IsFree(w)     == w % 2 = 1
PrevIsFree(w) == (w \div 2) % 2 = 1
Store(h, writes) ==
    FoldLeft(LAMBDA g, w : IF w[1] \in Words THEN [g EXCEPT !.mem[w[1]] = w[2]] ELSE g,
             h, writes)

BlockEnd(h, a)  == clear(Word(h, a))
BlockSize(h, a) == BlockEnd(h, a) - a
Succ(h, a)      == Word(h, a + 4)
Pred(h, a)      == Word(h, a + 8)

log2(n) == IF n < 2 THEN 0
           ELSE LET below == {k \in Classes : 2^k <= n} IN CHOOSE k \in below : k + 1 \notin below

\* The free list from a on.
FreeListFrom(h, a) ==
    LET most == (h.heapTop - Bottom) \div 12
        from[n \in 0 .. most, b \in Int] ==
            IF b = NULL \/ n = 0 THEN <<>> ELSE <<b>> \o from[n - 1, Succ(h, b)]
    IN  from[most, a]
FreeList(h) == FreeListFrom(h, h.entry[0])
LastFree(h) == IF FreeList(h) = <<>> THEN NULL ELSE Last(FreeList(h))

-----------------------------------------------------------------------------
\* sbrk and newBlock
sbrk(h, n) == [h EXCEPT !.heapTop = @ + ((n + 3) \div 4) * 4]

newBlock(h, size) ==
    LET addr == h.heapTop
        flag == IF h.lastAddr # NULL /\ IsFree(Word(h, h.lastAddr)) THEN 2 ELSE 0
    IN  [heap |-> Store([sbrk(h, size) EXCEPT !.lastAddr = addr],
                        << <<addr, addr + size + flag>> >>),
         ptr  |-> addr + 4]

\* Only the block's own class.
EntriesWith_OwnClass(h, addr, class) == [h.entry EXCEPT ![class] = addr]
\* The classes from the block's own down whose first block is not smaller.
EntriesWith(h, addr, class) ==
    LET first(k) == \A j \in k .. class : h.entry[j] \in {h.entry[class], NULL}
    IN  [k \in Classes |-> IF k <= class /\ first(k) THEN addr ELSE h.entry[k]]

\* insertBlock: before the first block of its class or more; at the end of the
\* list if there is none.
insertBlock(h, addr, size) ==
    LET class == log2(size)
        succ  == h.entry[class]
        pred  == IF succ # NULL THEN clear(Pred(h, succ)) ELSE h.queue
    IN  Store([h EXCEPT !.entry  = EntriesWith(h, addr, class),
                        !.queue  = IF succ # NULL THEN @ ELSE addr,
                        !.free   = @ \cup {addr},
                        !.misled = @ \/ (succ = NULL /\ h.queueLost),
                        !.queueLost = @ /\ succ # NULL],
              (IF pred # NULL THEN << <<pred + 4, addr>> >> ELSE <<>>)
              \o (IF succ # NULL THEN << <<succ + 8, addr>> >> ELSE <<>>)
              \o << <<addr + 4, succ>>, <<addr + 8, pred>> >>)

\* delFreeBlock: the list and the entries without the block.
delFreeBlock(h, addr) ==
    LET next == Succ(h, addr)
        prev == Pred(h, addr)
    IN  Store([h EXCEPT !.queue = IF @ = addr THEN BlockEnd(h, addr) ELSE @,
                        !.queueLost = @ \/ h.queue = addr,
                        !.free  = @ \ {addr},
                        !.entry = [k \in Classes |-> IF @[k] = addr THEN next ELSE @[k]]],
              (IF prev # NULL THEN << <<prev + 4, next>> >> ELSE <<>>)
              \o (IF next # NULL THEN << <<next + 8, prev>> >> ELSE <<>>))

-----------------------------------------------------------------------------
\* kmalloc's search without the test of the size; from the class above on; and as it
\* is: the first block that is large enough in the free list, from the
\* first of the class below on; what it has over 12 bytes is split off.
FirstFit_Unfit(h, size)   == h.entry[log2(size) - 1]
FirstFit_NextClass(h, size) == h.entry[log2(size) + 1]
FirstFit(h, size) ==
    LET candidates == FreeListFrom(h, h.entry[log2(size) - 1])
        i == SelectInSeq(candidates, LAMBDA a : BlockSize(h, a) >= size)
    IN  IF i = 0 THEN NULL ELSE candidates[i]

Rounded(n) == LET m == ((n + 3) \div 4) * 4 IN (IF m < 16 THEN 16 ELSE m) + 4

\* A remainder that begins at the last word of the block.
Split_Early(h, addr, size) ==
    LET end  == BlockEnd(h, addr)
        rest == addr + size - 4
    IN  insertBlock(Store(h, << <<rest, end>>, <<end - 4, end>> >>), rest, end - rest)
Split(h, addr, size) ==
    LET end  == BlockEnd(h, addr)
        rest == addr + size
    IN  insertBlock(Store(h, << <<rest, end>>, <<end - 4, end>> >>), rest, end - rest)

TakeWhole(h, addr) ==
    LET succ == clear(Succ(h, addr))
        w    == Word(h, succ)
    IN  IF succ = NULL THEN h
        ELSE Store(h, << <<succ, IF PrevIsFree(w) THEN w - 2 ELSE w>> >>)

kmalloc(h, n) ==
    LET size  == Rounded(n)
        addr  == FirstFit(h, size)
        split == BlockSize(h, addr) - size >= 12
        kept  == IF split THEN size ELSE BlockSize(h, addr)
    IN  IF n = 0 THEN [heap |-> h, ptr |-> NULL]
        ELSE IF addr = NULL THEN newBlock(h, size)
        ELSE [heap |-> Store(delFreeBlock(IF split THEN Split(h, addr, size)
                                                   ELSE TakeWhole(h, addr), addr),
                             << <<addr, addr + kept>> >>),
              ptr  |-> addr + 4]

-----------------------------------------------------------------------------
\* kfree: mark the block, tell the next one, join them if that is free; join the
\* previous one if the header says it is free; footer; back into the list.
MarkFree(h, addr) ==
    Store(h, << <<addr, IF IsFree(Word(h, addr)) THEN Word(h, addr) ELSE Word(h, addr) + 1>> >>)

TellNext(h, addr) ==
    LET next == BlockEnd(h, addr)
        w    == Word(h, next)
    IN  IF h.lastAddr = addr THEN h
        ELSE Store(h, << <<next, IF PrevIsFree(w) THEN w ELSE w + 2>> >>)

JoinNext(h, addr) ==
    LET next == BlockEnd(h, addr)
    IN  IF h.lastAddr = addr \/ ~IsFree(Word(h, next)) THEN h
        ELSE Store(delFreeBlock(h, next), << <<addr, BlockEnd(h, next) + 1>> >>)

\* The previous block by its footer, and the heap without it.
JoinPrev(h, addr) ==
    LET prev == Word(h, addr - 4)
        real == prev \in h.free /\ BlockEnd(h, prev) = addr
    IN  IF ~PrevIsFree(Word(h, addr)) THEN [heap |-> h, addr |-> addr]
        ELSE [heap |-> Store([delFreeBlock(h, prev) EXCEPT !.misled = @ \/ ~real],
                             << <<prev, BlockEnd(h, addr) + 1>> >>),
              addr |-> prev]

kfree(h, ptr) ==
    LET addr   == ptr - 4
        joined == JoinPrev(JoinNext(TellNext(MarkFree(h, addr), addr), addr), addr)
        start  == clear(joined.addr)
        tagged == Store(joined.heap, << <<BlockEnd(joined.heap, start) - 4, start>> >>)
    IN  IF ptr = NULL THEN h ELSE insertBlock(tagged, start, BlockSize(tagged, start))

-----------------------------------------------------------------------------
\* kmalloc_align that forgets the header.
kmalloc_align_NoHeader(h, n, align) == newBlock(sbrk(h, align - (h.heapTop % align)), n + 4)
\* kmalloc_align: a gap, then a new block.
kmalloc_align(h, n, align) ==
    newBlock(sbrk(h, align - ((h.heapTop + 4) % align)), n + 4)
=============================================================================
