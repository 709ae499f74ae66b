----------------------------- MODULE BootProofs -----------------------------
(***************************************************************************)
(* Paging, whatever the memory, the kernel and the programs: frames are    *)
(* exclusive and every stack is mapped until a search leaves the bitset,   *)
(* and a search leaves it only when all of its frames are taken.           *)
(* Boot does with frames and directories what Paging allows, so this holds *)
(* from the first instruction of initKernel on, whatever the controller,   *)
(* the keyboard and the user do.  And a boot in which no wait for the      *)
(* controller runs out of patience ends with the keyboard found and        *)
(* translating: the polls are never late, so every answer is read as what  *)
(* it is.                                                                  *)
(***************************************************************************)
EXTENDS Boot, TLAPS

\* Every frame that is mapped has its bit set, the kernel's have theirs, and no
\* directory maps anything before the kernel's.
BitsAreSet ==
    /\ ~lost => \A d \in Dirs : \A v \in Virtual : maps[d][v] # NoFrame => maps[d][v] \in used
    /\ created # {} => 0 .. KernelFrames - 1 \subseteq used
    /\ created = {} => lastFound = 0 /\ ~lost
    /\ created = {} => \A d \in Dirs : \A v \in Virtual : maps[d][v] = NoFrame

\* No frame is passed over: below the place where a search goes on, all are taken, and
\* all of the block once it has been left.
NoneIsSkipped == \A n \in 0 .. Owned - 1 : lost \/ n < lastFound => n \in used

\* The stack of a directory: nothing is mapped before its first page, and nothing
\* else before the second.
StackOf(d) ==
    /\ todo[d] \in {{}, {StackPage}, {StackTop, StackPage}}
    /\ d \notin created => todo[d] = {}
    /\ d \notin created \/ StackTop \in todo[d] => \A v \in Virtual : maps[d][v] = NoFrame
    /\ todo[d] = {StackPage} => \A v \in Virtual : v # StackTop => maps[d][v] = NoFrame
    /\ d \in created /\ ~lost /\ StackTop \notin todo[d] => maps[d][StackTop] # NoFrame
    /\ d \in created /\ ~lost /\ todo[d] = {} => maps[d][StackPage] # NoFrame

StackComesFirst ==
    /\ BootDir \notin created => created = {}
    /\ \A d \in Dirs : StackOf(d)
    /\ \A d \in created : d # BootDir => todo[BootDir] = {}

PagingInv == PagingTypeOK /\ BitsAreSet /\ NoneIsSkipped /\ FramesAreExclusive /\ StackComesFirst

-----------------------------------------------------------------------------
\* The words kcalloc clears are a natural number of bits.
LEMMA OwnedIsNat == Owned \in Nat
<1>1. Size \div 32 \in Nat
  BY PagingAssumption, SMT
<1>2. (Size \div 32 + 3) \div 4 \in Nat
  BY <1>1, SMT
<1> QED
  BY <1>2, SMT DEF Owned

\* findFirstClear and the entry it is written to: the first frame that is free from
\* lastFound on, for the one page.
LEMMA MapFrameTakesOne ==
    ASSUME PagingTypeOK, NEW d \in Dirs, NEW v \in Virtual, MapFrame(v, d)
    PROVE  \E n \in 0 .. Owned - 1 :
              /\ n \notin used /\ used' = used \cup {n} /\ lastFound' = n
              /\ maps' \in [Dirs -> [Virtual -> Nat \cup {NoFrame}]]
              /\ maps'[d][v] = n
              /\ \A e \in Dirs : \A w \in Virtual :
                    ~(e = d /\ w = v) => maps'[e][w] = maps[e][w]
              /\ lost' = lost
              /\ n >= lastFound /\ \A m \in lastFound .. n - 1 : m \in used
<1>0. Owned \in Nat
  BY OwnedIsNat
<1>1. PICK n \in Clear : /\ \A m \in Clear : n <= m
                        /\ Take(n) /\ maps' = [maps EXCEPT ![d][v] = n]
  BY DEF MapFrame, Enter
<1>2. n \in 0 .. Owned - 1 /\ n \notin used /\ n >= lastFound
  BY <1>0, <1>1, PagingAssumption DEF Clear, PagingTypeOK
<1>3. \A m \in lastFound .. n - 1 : m \in used
  BY <1>0, <1>1, <1>2, PagingAssumption DEF Clear, PagingTypeOK
<1> QED
  BY <1>0, <1>1, <1>2, <1>3 DEF Take, MapFrame, PagingTypeOK

\* A search that leaves the block sets no bit of it; every frame of the block is taken.
LEMMA LeaveTakesAll ==
    ASSUME PagingTypeOK, BitsAreSet, NoneIsSkipped, FramesAreExclusive, created # {},
           NEW d \in Dirs, NEW v \in Virtual, LeaveBitset(v, d), created' = created,
           todo' \in [Dirs -> SUBSET Virtual]
    PROVE  PagingTypeOK' /\ BitsAreSet' /\ NoneIsSkipped' /\ FramesAreExclusive'
<1>0. Owned \in Nat /\ Beyond \in Nat /\ Owned <= Beyond /\ NoFrame \notin Nat
  BY PagingAssumption, OwnedIsNat
<1>1. lost' = TRUE /\ used' = used /\ Clear = {}
  BY DEF LeaveBitset
<1>2. PICK n \in 0 .. Beyond : lastFound' = n /\ maps' = [maps EXCEPT ![d][v] = n]
  BY <1>0 DEF LeaveBitset, Enter
<1>3. PagingTypeOK'
  BY <1>0, <1>1, <1>2 DEF PagingTypeOK
<1>4. NoneIsSkipped'
  BY <1>0, <1>1 DEF NoneIsSkipped, Clear, PagingTypeOK
<1> QED
  BY <1>1, <1>3, <1>4 DEF BitsAreSet, FramesAreExclusive

\* alloc_page keeps the types, the bits and the frames apart.
LEMMA AllocKeepsFrames ==
    ASSUME PagingTypeOK, BitsAreSet, NoneIsSkipped, FramesAreExclusive, created # {}, ~lost,
           NEW d \in Dirs, NEW v \in Virtual, alloc_page(v, d), created' = created,
           todo' \in [Dirs -> SUBSET Virtual]
    PROVE  PagingTypeOK' /\ BitsAreSet' /\ NoneIsSkipped' /\ FramesAreExclusive'
<1>1. CASE UNCHANGED <<used, lastFound, maps, lost>>
  BY <1>1 DEF PagingTypeOK, BitsAreSet, NoneIsSkipped, FramesAreExclusive
<1>2. CASE MapFrame(v, d)
  <2>0. Owned \in Nat /\ KernelFrames \in Nat /\ NoFrame \notin Nat
        /\ Beyond \in Nat /\ Owned <= Beyond
    BY PagingAssumption, OwnedIsNat
  <2>1. PICK n \in 0 .. Owned - 1 :
              /\ n \notin used /\ used' = used \cup {n} /\ lastFound' = n
              /\ maps' \in [Dirs -> [Virtual -> Nat \cup {NoFrame}]]
              /\ maps'[d][v] = n
              /\ \A e \in Dirs : \A w \in Virtual :
                    ~(e = d /\ w = v) => maps'[e][w] = maps[e][w]
              /\ lost' = lost
              /\ n >= lastFound /\ \A m \in lastFound .. n - 1 : m \in used
    BY <1>2, MapFrameTakesOne
  <2>2. PagingTypeOK'
    BY <2>0, <2>1 DEF PagingTypeOK
  <2>3. BitsAreSet'
    BY <2>1 DEF BitsAreSet
  <2>7. NoneIsSkipped'
    BY <2>0, <2>1 DEF NoneIsSkipped, PagingTypeOK
  <2>4. n >= KernelFrames
    BY <2>0, <2>1 DEF BitsAreSet
  <2>5. \A e \in Dirs : \A w \in Virtual :
            ~(e = d /\ w = v) /\ maps'[e][w] # NoFrame => maps'[e][w] # n
    BY <2>1 DEF BitsAreSet
  <2>6. FramesAreExclusive'
    <3> SUFFICES ASSUME NEW e \in Dirs, NEW g \in Dirs, NEW w \in Virtual, NEW x \in Virtual,
                        maps'[e][w] # NoFrame
                 PROVE  /\ maps'[e][w] >= KernelFrames
                        /\ maps'[e][w] = maps'[g][x] => e = g /\ w = x
      BY DEF FramesAreExclusive
    <3>1. CASE e = d /\ w = v
      BY <3>1, <2>0, <2>1, <2>4, <2>5
    <3>2. CASE ~(e = d /\ w = v)
      BY <3>2, <2>0, <2>1, <2>5 DEF FramesAreExclusive
    <3> QED
      BY <3>1, <3>2
  <2> QED
    BY <2>2, <2>3, <2>6, <2>7
<1>3. CASE LeaveBitset(v, d)
  BY <1>3, LeaveTakesAll
<1> QED
  BY <1>1, <1>2, <1>3 DEF alloc_page

-----------------------------------------------------------------------------
LEMMA InitInv == PagingInit => PagingInv
<1> SUFFICES ASSUME PagingInit PROVE PagingInv
  OBVIOUS
<1>0. Owned \in Nat /\ Beyond \in Nat
  BY PagingAssumption, OwnedIsNat
<1>1. PagingTypeOK
  <2>1. maps \in [Dirs -> [Virtual -> Nat \cup {NoFrame}]]
    BY FreshMemoryIsZero DEF PagingInit
  <2>2. todo \in [Dirs -> SUBSET Virtual] /\ created \subseteq Dirs /\ lost \in BOOLEAN
    BY DEF PagingInit
  <2>3. used \subseteq 0 .. Owned - 1 /\ lastFound \in 0 .. Beyond
    BY <1>0 DEF PagingInit
  <2> QED
    BY <2>1, <2>2, <2>3 DEF PagingTypeOK
<1>2. BitsAreSet /\ FramesAreExclusive
  BY FreshMemoryIsZero DEF PagingInit, BitsAreSet, FramesAreExclusive
<1>4. NoneIsSkipped
  BY <1>0 DEF PagingInit, NoneIsSkipped
<1>3. StackComesFirst
  BY FreshMemoryIsZero DEF PagingInit, StackComesFirst, StackOf
<1> QED
  BY <1>1, <1>2, <1>3, <1>4 DEF PagingInv

LEMMA InitPagingInv == PagingInv /\ InitPaging => PagingInv'
<1> SUFFICES ASSUME PagingInv, InitPaging PROVE PagingInv'
  OBVIOUS
<1> USE DEF PagingInv
<1>0. Owned \in Nat /\ KernelFrames \in Nat /\ KernelFrames <= Owned
  BY PagingAssumption, OwnedIsNat
<1>1. PagingTypeOK'
  BY <1>0, PagingAssumption DEF InitPaging, PagingTypeOK
<1>2. BitsAreSet' /\ FramesAreExclusive'
  BY DEF InitPaging, BitsAreSet, FramesAreExclusive
<1>4. NoneIsSkipped'
  BY <1>0 DEF InitPaging, NoneIsSkipped, BitsAreSet
<1>3. StackComesFirst'
  BY PagingAssumption DEF InitPaging, StackComesFirst, StackOf, PagingTypeOK, BitsAreSet
<1> QED
  BY <1>1, <1>2, <1>3, <1>4

LEMMA NewDirectoryInv ==
    ASSUME PagingInv, NEW d \in Dirs, NewPageDirectory(d)
    PROVE  PagingInv'
<1> USE DEF PagingInv
<1>1. PagingTypeOK'
  BY PagingAssumption DEF NewPageDirectory, PagingTypeOK
<1>2. BitsAreSet' /\ NoneIsSkipped' /\ FramesAreExclusive'
  BY DEF NewPageDirectory, BitsAreSet, NoneIsSkipped, FramesAreExclusive
<1>3. d # BootDir
  BY DEF NewPageDirectory
<1>4. StackComesFirst'
  BY <1>3, PagingAssumption DEF NewPageDirectory, StackComesFirst, StackOf, PagingTypeOK
<1> QED
  BY <1>1, <1>2, <1>4

\* The page below the stack's is in another table, so that the test of alloc_page
\* does not mistake the first page for it.
LEMMA AllocStackInv ==
    ASSUME PagingInv, NEW d \in Dirs, AllocStack(d)
    PROVE  PagingInv'
<1> USE DEF PagingInv
<1> DEFINE v == IF StackTop \in todo[d] THEN StackTop ELSE StackPage
<1>1. v \in Virtual /\ alloc_page(v, d) /\ todo' = [todo EXCEPT ![d] = @ \ {v}]
      /\ ~lost /\ todo[d] # {} /\ created' = created
  BY PagingAssumption DEF AllocStack
<1>2. d \in created
  BY <1>1 DEF StackComesFirst, StackOf
<1>3. PagingTypeOK' /\ BitsAreSet' /\ NoneIsSkipped' /\ FramesAreExclusive'
  <2>1. todo' \in [Dirs -> SUBSET Virtual]
    BY <1>1 DEF PagingTypeOK
  <2> QED
    BY <1>1, <1>2, <2>1, AllocKeepsFrames
<1>4. ~Present(v, d)
  BY <1>1, PagingAssumption DEF Present, StackComesFirst, StackOf
<1>5. v \in todo[d] /\ StackTop # StackPage
  BY <1>1, PagingAssumption DEF StackComesFirst, StackOf
<1>6. CASE MapFrame(v, d)
  <2>1. /\ maps'[d][v] # NoFrame
        /\ \A e \in Dirs : \A w \in Virtual : ~(e = d /\ w = v) => maps'[e][w] = maps[e][w]
        /\ lost' = lost
    BY <1>1, <1>6, MapFrameTakesOne, PagingAssumption
  <2>2. StackComesFirst'
    <3>1. StackOf(d)'
      <4>1. CASE StackTop \in todo[d]
        <5>1. todo[d] = {StackPage, StackTop} /\ v = StackTop /\ todo'[d] = {StackPage}
          BY <1>1, <1>5, <4>1 DEF StackComesFirst, StackOf, PagingTypeOK
        <5>2. \A w \in Virtual : w # StackTop => maps'[d][w] = NoFrame
          BY <2>1, <4>1, <5>1 DEF StackComesFirst, StackOf
        <5> QED BY <1>1, <1>2, <1>5, <2>1, <5>1, <5>2 DEF StackOf
      <4>2. CASE StackTop \notin todo[d]
        BY <1>1, <1>2, <1>5, <2>1, <4>2, PagingAssumption
           DEF StackComesFirst, StackOf, PagingTypeOK
      <4> QED
        BY <4>1, <4>2
    <3>2. \A e \in Dirs : e # d => StackOf(e)'
      BY <1>1, <2>1, PagingAssumption DEF StackComesFirst, StackOf, PagingTypeOK
    <3>3. \A e \in created' : e # BootDir => todo'[BootDir] = {}
      BY <1>1, <1>2, PagingAssumption DEF StackComesFirst, StackOf, PagingTypeOK
    <3> QED
      BY <1>1, <3>1, <3>2, <3>3 DEF StackComesFirst
  <2> QED
    BY <1>3, <2>2
<1>7. CASE LeaveBitset(v, d)
  <2>1. lost' /\ \A e \in Dirs : \A w \in Virtual :
            ~(e = d /\ w = v) => maps'[e][w] = maps[e][w]
    BY <1>1, <1>7 DEF LeaveBitset, Enter, PagingTypeOK
  <2>2. StackOf(d)'
    BY <1>1, <1>2, <1>5, <2>1, PagingAssumption DEF StackComesFirst, StackOf, PagingTypeOK
  <2>3. \A e \in Dirs : e # d => StackOf(e)'
    BY <1>1, <2>1, PagingAssumption DEF StackComesFirst, StackOf, PagingTypeOK
  <2>4. \A e \in created' : e # BootDir => todo'[BootDir] = {}
    BY <1>1, <1>2, PagingAssumption DEF StackComesFirst, StackOf, PagingTypeOK
  <2> QED
    BY <1>1, <1>3, <2>2, <2>3, <2>4 DEF StackComesFirst
<1> QED
  BY <1>1, <1>4, <1>6, <1>7 DEF alloc_page

\* A page fault comes when the stack of the kernel's directory is there already.
LEMMA PageFaultInv ==
    ASSUME PagingInv, NEW d \in Dirs, NEW v \in Virtual, PageFault(d, v)
    PROVE  PagingInv'
<1> USE DEF PagingInv
<1>1. BootDir \in Dirs /\ alloc_page(v, BootDir) /\ UNCHANGED <<todo, created>>
      /\ d \in created /\ todo[d] = {} /\ ~lost
  BY PagingAssumption DEF PageFault
<1>2. PagingTypeOK' /\ BitsAreSet' /\ NoneIsSkipped' /\ FramesAreExclusive'
  BY <1>1, AllocKeepsFrames DEF PagingTypeOK
<1>3. BootDir \in created /\ todo[BootDir] = {}
  BY <1>1 DEF StackComesFirst, StackOf
<1>4. CASE MapFrame(v, BootDir)
  <2>1. /\ maps'[BootDir][v] # NoFrame
        /\ \A e \in Dirs : \A w \in Virtual :
              ~(e = BootDir /\ w = v) => maps'[e][w] = maps[e][w]
        /\ lost' = lost
    BY <1>1, <1>4, MapFrameTakesOne, PagingAssumption
  <2> QED
    BY <1>1, <1>2, <1>3, <2>1, PagingAssumption DEF StackComesFirst, StackOf
<1>5. CASE UNCHANGED <<maps, lost>>
  BY <1>1, <1>2, <1>5 DEF StackComesFirst, StackOf
<1>6. CASE LeaveBitset(v, BootDir)
  <2>1. lost' /\ \A e \in Dirs : \A w \in Virtual :
            ~(e = BootDir /\ w = v) => maps'[e][w] = maps[e][w]
    BY <1>1, <1>6 DEF LeaveBitset, Enter, PagingTypeOK
  <2> QED
    BY <1>1, <1>2, <1>3, <2>1, PagingAssumption DEF StackComesFirst, StackOf
<1> QED
  BY <1>1, <1>4, <1>5, <1>6 DEF alloc_page

LEMMA NextInv == PagingInv /\ [PagingNext]_pagingVars => PagingInv'
<1> SUFFICES ASSUME PagingInv, [PagingNext]_pagingVars PROVE PagingInv'
  OBVIOUS
<1>1. CASE UNCHANGED pagingVars
  <2>1. UNCHANGED <<used, lastFound, maps, todo, created, lost>>
    BY <1>1 DEF pagingVars
  <2>2. PagingTypeOK' /\ BitsAreSet' /\ NoneIsSkipped' /\ FramesAreExclusive'
    <3>1. PagingTypeOK /\ BitsAreSet /\ NoneIsSkipped /\ FramesAreExclusive
      BY DEF PagingInv
    <3> QED BY <2>1, <3>1 DEF PagingTypeOK, BitsAreSet, NoneIsSkipped, FramesAreExclusive
  <2>3. StackComesFirst'
    <3>1. StackComesFirst
      BY DEF PagingInv
    <3> QED BY <2>1, <3>1 DEF StackComesFirst, StackOf
  <2> QED
    BY <2>2, <2>3 DEF PagingInv
<1>2. CASE PagingNext
  BY <1>2, InitPagingInv, NewDirectoryInv, AllocStackInv, PageFaultInv DEF PagingNext
<1> QED
  BY <1>1, <1>2

LEMMA InvHolds == PagingSpec => []PagingInv
  BY InitInv, NextInv, PTL DEF PagingSpec

\* A search leaves the bitset, to give a program a frame of its choice behind it, only
\* when every frame of the block is taken, whatever the size of the memory and whatever
\* programs are created and fault.
THEOREM BlockIsFullFirst == PagingSpec => []LeavesWhenFull
<1>1. PagingInv => LeavesWhenFull
  BY DEF PagingInv, NoneIsSkipped, LeavesWhenFull
<1> QED
  BY <1>1, InvHolds, PTL

\* Until a search leaves the bitset, no frame is mapped twice and none of the kernel's is
\* handed out, however many processes are created and fault.
THEOREM FramesStayExclusive == PagingSpec => []FramesAreExclusive
<1>1. PagingInv => FramesAreExclusive
  BY DEF PagingInv
<1> QED
  BY <1>1, InvHolds, PTL

\* Every process that has been created has the two pages of its stack.
THEOREM EveryStackIsMapped == PagingSpec => []StackIsMapped
<1>1. PagingInv => StackIsMapped
  BY DEF PagingInv, StackIsMapped, StackComesFirst, StackOf, PagingTypeOK
<1> QED
  BY <1>1, InvHolds, PTL

-----------------------------------------------------------------------------
\* What Boot does with frames and directories is what Paging allows.
LEMMA StepPages == [Next]_vars => [PagingNext]_pagingVars
<1> SUFFICES ASSUME [Next]_vars PROVE PagingNext \/ UNCHANGED pagingVars
  OBVIOUS
<1>1. CASE UNCHANGED vars
  BY <1>1 DEF vars
<1>2. CASE Devices
  BY <1>2 DEF Devices
<1>3. CASE StartPaging
  BY <1>3 DEF StartPaging, PagingNext
<1>4. CASE FinishDirectory
  BY <1>4 DEF FinishDirectory, PagingNext
<1>5. CASE Unfreeze
  BY <1>5 DEF Unfreeze
<1>6. CASE CreateProcess
  BY <1>6 DEF CreateProcess, PagingNext
<1>7. CASE ProcessFaults
  BY <1>7 DEF ProcessFaults, PagingNext
<1> QED
  BY <1>1, <1>2, <1>3, <1>4, <1>5, <1>6, <1>7 DEF Next

\* initKernel, freeze and the creation of processes implement Paging.
THEOREM BootImplementsPaging == Spec => PagingSpec
<1>1. Init => PagingInit
  BY DEF Init
<1> QED
  BY <1>1, StepPages, PTL DEF Spec, PagingSpec

\* No frame is mapped twice and none of the kernel's is handed out before a search leaves
\* the bitset, however the boot goes and whoever is created.
THEOREM BootKeepsFramesExclusive == Spec => []FramesAreExclusive
  BY BootImplementsPaging, FramesStayExclusive, PTL

\* A process never enters its program without the two pages of its stack.
THEOREM BootMapsStacks == Spec => []StackIsMapped
  BY BootImplementsPaging, EveryStackIsMapped, PTL

-----------------------------------------------------------------------------
\* While everything goes well, the bytes between keyboard and kernel are those the
\* kernel is going to read, in this order.
Flying(s) ==
    \/ out = <<>> /\ coming = s
    \/ s # <<>> /\ out = <<Head(s)>> /\ coming = Tail(s)

\* What flies while the kernel polls for the answer it is at.
PolledFor ==
    \/ step = "selftest" /\ Flying(<<Ok55>>)
    \/ step \in Commands /\ Flying(<<Resend>>)
    \/ step = "disable"  /\ Flying(<<Ack>>) /\ ~scanning
    \/ step = "identify" /\ Flying(<<Ack, Id1, Id2>>)
    \/ step = "enable"   /\ Flying(<<Ack>>) /\ scanning
    \/ step = "a1"       /\ Flying(<<Id1, Id2>>)
    \/ step = "a2"       /\ Flying(<<Id2>>) /\ a1 = Id1

GoesWell ==
    /\ step \in Commands \cup {"selftest", "a1", "a2", "done"}
    /\ phase \in {"send", "poll"}
    /\ phase = "send" /\ step = "selftest" => coming = <<>>
    /\ phase = "send" /\ step \in Commands => Flying(<<>>)
    /\ phase = "poll" /\ step # "done" => PolledFor
    /\ phase = "send" => step \in Commands \cup {"selftest"}
    /\ step # "selftest" => ps2Ok
    /\ step = "done" => keyboardOk /\ irqOn /\ scanning /\ Flying(<<>>)

\* The self-test that is passed has opened the port.
PortIsOpen == step # "selftest" => open

SmoothInv == smooth => GoesWell /\ PortIsOpen

\* The controller hands the bytes out in their order, and a poll takes the first one.
LEMMA DeliverKeepsFlying ==
    ASSUME NEW s, Flying(s), Deliver
    PROVE  Flying(s)'
  BY DEF Flying, Deliver

LEMMA PollTakesHead ==
    ASSUME NEW s, Flying(s), out # <<>>
    PROVE  s # <<>> /\ out[1] = Head(s) /\ coming = Tail(s)
  BY DEF Flying

LEMMA SendInv == ASSUME GoesWell, Send, smooth' PROVE GoesWell'
<1>1. /\ step \in Commands /\ phase = "send" /\ phase' = "poll"
      /\ UNCHANGED <<step, a1, ps2Ok, keyboardOk, irqOn, out, open>>
  BY DEF Send
<1>2. coming = <<>> /\ out = <<>> /\ ps2Ok
  BY <1>1 DEF GoesWell, Flying, Commands
<1>3. \/ /\ coming' = coming \o Replies(step)
         /\ scanning' = (IF step = "identify" THEN scanning ELSE step = "enable")
      \/ coming' = Append(coming, Resend)
  BY <1>2 DEF Send
<1>4. PolledFor'
  <2>1. CASE coming' = Append(coming, Resend)
    <3>1. coming' = <<Resend>>
      BY <1>2, <2>1
    <3> QED BY <1>1, <1>2, <3>1 DEF PolledFor, Flying
  <2>2. CASE /\ coming' = coming \o Replies(step)
             /\ scanning' = (IF step = "identify" THEN scanning ELSE step = "enable")
    <3>1. coming' = Replies(step)
      BY <1>1, <1>2, <2>2 DEF Replies
    <3> QED BY <1>1, <1>2, <2>2, <3>1 DEF PolledFor, Flying, Replies, Commands
  <2> QED BY <1>3, <2>1, <2>2
<1> QED
  BY <1>1, <1>2, <1>4 DEF GoesWell, Commands

LEMMA PollInv == ASSUME GoesWell, Poll PROVE GoesWell'
<1>1. /\ step # "done" /\ phase = "poll" /\ out # <<>> /\ PolledFor
      /\ out' = <<>> /\ Answer(out[1])
      /\ UNCHANGED <<coming, scanning>>
  BY DEF Poll, GoesWell
<1> USE DEF Commands, Goto, GoesWell, Flying
<1>2. CASE step = "selftest"
  <2>1. Flying(<<Ok55>>)
    BY <1>1, <1>2 DEF PolledFor
  <2>2. out[1] = Ok55 /\ coming = <<>>
    BY <1>1, <2>1, PollTakesHead
  <2> QED BY <1>1, <1>2, <2>2 DEF Answer, SendAgain, Leaves
<1>3. CASE step \in Commands /\ Flying(<<Resend>>)
  <2>1. out[1] = Resend /\ coming = <<>>
    BY <1>1, <1>3, PollTakesHead
  <2> QED BY <1>1, <1>3, <2>1 DEF Answer, SendAgain
<1>4. CASE step = "disable" /\ Flying(<<Ack>>)
  <2>1. out[1] = Ack /\ coming = <<>>
    BY <1>1, <1>4, PollTakesHead
  <2> QED BY <1>1, <1>4, <2>1 DEF Answer, Leaves, After, Ack, Resend
<1>5. CASE step = "identify" /\ Flying(<<Ack, Id1, Id2>>)
  <2>1. out[1] = Ack /\ coming = <<Id1, Id2>>
    BY <1>1, <1>5, PollTakesHead
  <2>2. step' = "a1" /\ phase' = "poll" /\ ps2Ok' = ps2Ok
    BY <1>1, <1>5, <2>1 DEF Answer, Leaves, After, Ack, Resend
  <2>3. Flying(<<Id1, Id2>>)'
    BY <1>1, <2>1
  <2>4. PolledFor'
    BY <2>2, <2>3 DEF PolledFor
  <2>5. ps2Ok'
    BY <1>5, <2>2
  <2> HIDE DEF Flying
  <2> QED BY <2>2, <2>4, <2>5
<1>6. CASE step = "enable" /\ Flying(<<Ack>>) /\ scanning
  <2>1. out[1] = Ack /\ coming = <<>>
    BY <1>1, <1>6, PollTakesHead
  <2>2. Leaves
    BY <1>1, <1>6, <2>1 DEF Answer, Ack, Resend
  <2>3. step' = "done" /\ phase' = "poll" /\ ps2Ok' = ps2Ok
    BY <1>6, <2>2 DEF Leaves, After
  <2>4. keyboardOk' /\ irqOn' /\ scanning'
    BY <1>1, <1>6, <2>2 DEF Leaves
  <2>5. Flying(<<>>)' /\ ps2Ok'
    BY <1>1, <1>6, <2>1, <2>3
  <2> HIDE DEF Flying
  <2> QED BY <2>3, <2>4, <2>5
<1>7. CASE step = "a1"
  <2>1. Flying(<<Id1, Id2>>)
    BY <1>1, <1>7 DEF PolledFor
  <2>2. out[1] = Id1 /\ coming = <<Id2>>
    BY <1>1, <2>1, PollTakesHead
  <2> QED BY <1>1, <1>7, <2>2 DEF Answer, Leaves, PolledFor
<1>8. CASE step = "a2"
  <2>1. Flying(<<Id2>>) /\ a1 = Id1
    BY <1>1, <1>8 DEF PolledFor
  <2>2. coming = <<>>
    BY <1>1, <2>1, PollTakesHead
  <2> QED BY <1>1, <1>8, <2>1, <2>2 DEF Answer, Leaves, SendAgain
<1> QED
  BY <1>1, <1>2, <1>3, <1>4, <1>5, <1>6, <1>7, <1>8 DEF PolledFor

LEMMA PollOpens == ASSUME GoesWell, PortIsOpen, Poll PROVE PortIsOpen'
<1>1. PolledFor /\ out # <<>> /\ Answer(out[1])
  BY DEF Poll, GoesWell
<1>2. open' = (open \/ (step = "selftest" /\ out[1] = Ok55))
  BY <1>1 DEF Answer
<1>3. CASE step = "selftest"
  <2>1. Flying(<<Ok55>>)
    BY <1>1, <1>3 DEF PolledFor, Commands
  <2>2. out[1] = Ok55
    BY <1>1, <2>1, PollTakesHead
  <2> QED BY <1>2, <1>3, <2>2, Zenon DEF PortIsOpen
<1>4. CASE step # "selftest"
  BY <1>2, <1>4, Zenon DEF PortIsOpen
<1> QED
  BY <1>3, <1>4

LEMMA DeliverInv == ASSUME GoesWell, Deliver PROVE GoesWell'
<1>1. UNCHANGED <<ps2Kernel, scanning, open>> /\ coming # <<>> /\ out = <<>>
  BY DEF Deliver
<1>2. phase = "poll" /\ step # "done" => PolledFor'
  BY <1>1, DeliverKeepsFlying DEF GoesWell, PolledFor, ps2Kernel
<1> QED
  BY <1>1, <1>2 DEF GoesWell, ps2Kernel, Flying

LEMMA SmoothInvHolds == Spec => []SmoothInv
<1>1. Init => SmoothInv
  BY DEF Init, Ps2Init, SmoothInv, GoesWell, PortIsOpen, Commands
<1>2. SmoothInv /\ [Next]_vars => SmoothInv'
  <2> SUFFICES ASSUME SmoothInv, [Next]_vars, smooth' PROVE GoesWell' /\ PortIsOpen'
    BY DEF SmoothInv
  <2>1. CASE UNCHANGED ps2Vars
    BY <2>1 DEF ps2Vars, ps2Kernel, ps2Hardware, SmoothInv, GoesWell, PortIsOpen, PolledFor, Flying
  <2>2. CASE SelfTest
    BY <2>2 DEF SmoothInv, SelfTest, GoesWell, PortIsOpen, PolledFor, Flying, Commands
  <2>3. CASE Send
    <3>1. smooth /\ GoesWell /\ PortIsOpen
      BY <2>3 DEF SmoothInv, Send
    <3>2. PortIsOpen'
      BY <2>3, <3>1 DEF Send, PortIsOpen
    <3> QED BY <2>3, <3>1, <3>2, SendInv
  <2>4. CASE Busy \/ GiveUp \/ HitKey
    BY <2>4 DEF Busy, GiveUp, HitKey
  <2>5. CASE Poll
    BY <2>5, PollInv, PollOpens DEF SmoothInv, Poll
  <2>6. CASE PollEmpty
    BY <2>6 DEF SmoothInv, PollEmpty, ps2Hardware, GoesWell, PortIsOpen, PolledFor, Flying
  <2>7. CASE Deliver
    BY <2>7, DeliverInv DEF SmoothInv, Deliver, PortIsOpen, ps2Kernel
  <2> QED
    BY <2>1, <2>2, <2>3, <2>4, <2>5, <2>6, <2>7
    DEF Next, Devices, Ps2Next, Ps2Driver, vars, StartPaging, FinishDirectory, Unfreeze,
        CreateProcess, ProcessFaults
<1> QED
  BY <1>1, <1>2, PTL DEF Spec

\* If every byte is in time, no key is hit meanwhile and no command is refused for good,
\* initKernel ends with a keyboard that answers and interrupts, and with no answer left
\* that isr33 would take for a key, however often commands are asked for again.
THEOREM SmoothBootIsRight == Spec => []SmoothBootFindsTheKeyboard
<1>1. SmoothInv => SmoothBootFindsTheKeyboard
  BY DEF SmoothInv, GoesWell, PortIsOpen, SmoothBootFindsTheKeyboard, Flying
<1> QED
  BY <1>1, SmoothInvHolds, PTL
=============================================================================
