------------------------------- MODULE Paging -------------------------------
(***************************************************************************)
(* Frames and page directories (lib/src/bitset.c, arch/i386/paging.c) and  *)
(* the handler of page faults, isr14 (arch/i386/isr.c).                    *)
(*                                                                         *)
(* A virtual page is a pair <<table, entry>>.  The two tables of the       *)
(* kernel, which all directories share, and the entry of a directory for   *)
(* itself are left out: what they map is below KernelFrames.  A search for *)
(* a frame is not interrupted.  A search that leaves the block of the      *)
(* bitset ends at any bit behind it; the model ends with it, because the   *)
(* bit it has set is in a block of somebody else.                          *)
(***************************************************************************)
EXTENDS Integers

CONSTANTS
    Size,           \* frames of the memory: maxMem / 4096
    KernelFrames,   \* mapped by initKernelPages (2048)
    Dirs,           \* the page directories, of the kernel and of processes
    BootDir,        \* currentDir
    Virtual,        \* pages the programs use
    StackTop,       \* the page of 0xFF000000
    StackPage,      \* the page below, of 0xFEFFF000
    NoFrame,        \* what maps no frame
    FreshEntry,     \* an entry of a page table that has just been allocated
    Beyond          \* bound: the last bit a search gets to

\* initFrame takes size/32 bytes for size bits, and kcalloc clears them by words: the
\* bits that are in its block.
Owned == 32 * ((Size \div 32 + 3) \div 4)

ASSUME PagingAssumption ==
    /\ Size \in Nat /\ KernelFrames \in Nat /\ KernelFrames <= Owned
    /\ Beyond \in Nat /\ Owned <= Beyond
    /\ BootDir \in Dirs
    /\ StackTop \in Virtual /\ StackPage \in Virtual /\ StackTop[1] # StackPage[1]
    /\ \A v \in Virtual : <<v[1], 0>> \in Virtual
    /\ NoFrame \notin Nat

\* alloc_page does not clear a table it allocates.  kmalloc_align always takes it from
\* the top of the heap, where nothing has been kept yet; that this memory is zero at
\* the start is what the code relies on.
ASSUME FreshMemoryIsZero == FreshEntry = NoFrame

VARIABLES
    used,           \* the bits set in the bitset, framesTable
    lastFound,      \* where the search goes on
    maps,           \* the frame of each page in each directory
    todo,           \* the pages newPageDirectory has still to allocate
    created,        \* the directories
    lost            \* has a search left the block of the bitset?

pagingVars == <<used, lastFound, maps, todo, created, lost>>

PagingInit ==
    /\ used = {} /\ lastFound = 0
    /\ maps = [d \in Dirs |-> [v \in Virtual |-> FreshEntry]]
    /\ todo = [d \in Dirs |-> {}]
    /\ created = {} /\ lost = FALSE

-----------------------------------------------------------------------------
\* findFirstClear: full words are skipped and then bits, so the first clear bit from
\* lastFound on, as long as that is in the block.
Clear == {n \in lastFound .. Owned - 1 : n \notin used}

\* findFirstClear that does not set the bit.
Take_NotSet(n) == lastFound' = n /\ UNCHANGED used
\* findFirstClear that leaves lastFound at the next word.
Take_NextWord(n) == lastFound' = 32 * (n \div 32 + 1) /\ used' = used \cup {n}
Take(n) == lastFound' = n /\ used' = used \cup {n}

\* makePageEntry
Enter(n, v, d) == maps' = [maps EXCEPT ![d][v] = n]

MapFrame(v, d) ==
    /\ Clear # {}
    /\ \E n \in Clear :
          /\ \A m \in Clear : n <= m
          /\ Take(n) /\ Enter(n, v, d)
    /\ UNCHANGED lost

\* The search goes on behind the block: it sets the first bit that is clear there, or
\* comes to the word of bit Size, finds this full as well and returns 0.
LeaveBitset(v, d) ==
    /\ Clear = {}
    /\ \/ \E n \in Owned .. Beyond : n >= lastFound /\ lastFound' = n /\ Enter(n, v, d)
       \/ /\ lastFound <= Size /\ (lastFound = Size \/ Size % 32 = 0)
          /\ lastFound' = 0 /\ Enter(0, v, d)
    /\ lost' = TRUE
    /\ UNCHANGED used

\* A test that does not tell the tables apart.
Present_AnyTable(v, d) == \E w \in Virtual : w[2] = 0 /\ maps[d][w] # NoFrame
\* alloc_page does not look at the page it is to map, but at the first of its table.
Present(v, d) == maps[d][<<v[1], 0>>] # NoFrame

alloc_page(v, d) ==
    \/ Present(v, d) /\ UNCHANGED <<used, lastFound, maps, lost>>
    \/ ~Present(v, d) /\ (MapFrame(v, d) \/ LeaveBitset(v, d))

-----------------------------------------------------------------------------
\* initPaging: frames of the kernel, then the directory of the kernel.
InitPaging ==
    /\ created = {}
    /\ used' = 0 .. KernelFrames - 1
    /\ created' = {BootDir} /\ todo' = [todo EXCEPT ![BootDir] = {StackTop, StackPage}]
    /\ UNCHANGED <<lastFound, maps, lost>>

\* newPageDirectory, called by newProcess, which any process may call at any time ...
NewPageDirectory(d) ==
    /\ BootDir \in created /\ todo[BootDir] = {} /\ d \notin created /\ ~lost
    /\ created' = created \cup {d}
    /\ todo' = [todo EXCEPT ![d] = {StackTop, StackPage}]
    /\ UNCHANGED <<used, lastFound, maps, lost>>
\* ... and its two calls of alloc_page, in this order.
AllocStack(d) ==
    /\ ~lost /\ todo[d] # {}
    /\ LET v == IF StackTop \in todo[d] THEN StackTop ELSE StackPage
       IN  /\ alloc_page(v, d)
           /\ todo' = [todo EXCEPT ![d] = @ \ {v}]
    /\ UNCHANGED created

\* isr14, when a program that runs in directory d uses a page it has not: the
\* page is allocated in the directory of the kernel, whatever d is.
PageFault(d, v) ==
    /\ ~lost /\ d \in created /\ todo[d] = {} /\ maps[d][v] = NoFrame
    /\ alloc_page(v, BootDir)
    /\ UNCHANGED <<todo, created>>

PagingNext ==
    \/ InitPaging
    \/ \E d \in Dirs : NewPageDirectory(d) \/ AllocStack(d) \/ (\E v \in Virtual : PageFault(d, v))

PagingSpec == PagingInit /\ [][PagingNext]_pagingVars

-----------------------------------------------------------------------------
PagingTypeOK ==
    /\ used \subseteq 0 .. Owned - 1 /\ lastFound \in 0 .. Beyond
    /\ maps \in [Dirs -> [Virtual -> Nat \cup {NoFrame}]]
    /\ todo \in [Dirs -> SUBSET Virtual] /\ created \subseteq Dirs /\ lost \in BOOLEAN

\* A search leaves the bitset, and a program is given a frame that is no one's to give,
\* only when every frame of the block is taken: going on where the last search ended
\* passes over no free frame.
LeavesWhenFull == lost => 0 .. Owned - 1 \subseteq used

\* As long as no search has left the bitset, no frame is mapped twice and none of the
\* kernel's is handed out.
FramesAreExclusive ==
    ~lost => \A d, e \in Dirs : \A v, w \in Virtual :
        maps[d][v] # NoFrame =>
            /\ maps[d][v] >= KernelFrames
            /\ maps[d][v] = maps[e][w] => d = e /\ v = w

\* A process has both pages its stack begins in, although alloc_page looks at the
\* first page of a table and not at the page it is to map.
StackIsMapped ==
    \A d \in created : ~lost /\ todo[d] = {} =>
        maps[d][StackTop] # NoFrame /\ maps[d][StackPage] # NoFrame
=============================================================================
