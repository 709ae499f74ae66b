---------------------------- MODULE PreemptProofs ----------------------------
(***************************************************************************)
(* The invariants of KernelPreempt, for any number of processes, channels  *)
(* and values, when timer interrupts fall in the windows of SafeWindows.   *)
(* Where a process is in a call (Point) determines what it still has to    *)
(* do, so the inductive invariant speaks of points; CodeInv says that they *)
(* are points of the calls, and the lemmas of the first section read off   *)
(* the calls what an invariant needs to know of them.                      *)
(*                                                                         *)
(* The second part: Kernel is what programs see of KernelPreempt when no   *)
(* timer interrupt falls inside a call.  Such a call can only end in one   *)
(* way.  Final is the state it will end in, computed from the statements   *)
(* that are still to be executed: a statement leaves it as it is, so what  *)
(* the call does to the state of rest is known from its first statement.   *)
(***************************************************************************)
EXTENDS PreemptRefinement, RingProofs, SequenceTheorems

\* The windows of the run preempt_windows.
SafeWindows == {"readNext", "permit", "return", "numberIt", "readValue"}

BlockedStates == {"BlockedWriting", "BlockedReading"}

Calls == {NewProcess, Yield, SendUnused, SendReceiver, SendSender, ReceiveUnused,
          ReceiveSender, ReceiveQueued, Exit}

\* Before these statements a process has yet to link one in, or to leave the ring.
Linking == {"numberIt", "appendIt", "passValue", "popWaiter", "markUnused", "wake",
            "linkOut", "linkBack", "linkIn"}
Leaving == {"markSender", "offerValue", "blockWriting", "markReceiver", "newList",
            "appendWaiter", "blockReading", "prevent", "unlinkBack", "unlinkForward"}
Rest    == {"testEmpty", "resetChannel", "freeList", "permit", "readNext", "setCurrent",
            "switchTask", "return", "readValue", "dead"}
Words   == Linking \cup Leaving \cup Rest

\* The statements of one kind of call only.
Sending   == {"markSender", "offerValue", "blockWriting", "passValue", "popWaiter",
              "testEmpty", "resetChannel", "freeList"}
Receiving == {"markReceiver", "newList", "appendWaiter", "blockReading", "markUnused",
              "readValue"}
Creating  == {"numberIt", "appendIt"}

\* Where a process may be that is not on the CPU.
Parked == SafeWindows \cup {"program", "dead"}

\* What the locals of a call say of it.
Fits(C, lo) ==
    /\ C \in {NewProcess, Yield} => lo.op = "none"
    /\ C \in {SendUnused, SendReceiver, SendSender} => lo.op = "send" /\ lo.ch \in Channels
    /\ C \in {ReceiveUnused, ReceiveSender, ReceiveQueued} =>
          lo.op = "receive" /\ lo.ch \in Channels
    /\ C = Exit => lo.op = "exit"

CodeOf(p) ==
    \/ code[p] = <<>> /\ local[p].op = "none"
    \/ \E C \in Calls : \E i \in 1 .. Len(C) :
          code[p] = SubSeq(C, i, Len(C)) /\ Fits(C, local[p])

CodeInv ==
    /\ \A p \in Procs : CodeOf(p)
    /\ \A p \in Procs \ {onCpu} : Point(p) \in Parked
    /\ \A p \in Procs \ Allocated : code[p] = <<>> /\ p # onCpu

LocalType == [op : {"none", "send", "receive", "exit"}, ch : Channels \cup {NoChannel},
              val : Values \cup {NoValue}, owed : Values \cup {NoValue},
              who : Procs \cup {NULL}, nextTask : Procs \cup {NULL},
              prevProcess : Procs \cup {NULL}]
ChannelType == [state : {"Unused", "Sender", "Receiver"}, sendId : Nat,
                value : Values \cup {NoValue}, receive : Seq(Nat)]

TypeInv ==
    /\ next \in [Procs -> Procs \cup {NULL}]
    /\ prev \in [Procs -> Procs \cup {NULL}]
    /\ state \in [Procs -> {"Free", "Runnable", "Running"} \cup BlockedStates]
    /\ id \in [Procs -> Nat]
    /\ processesList \in Seq(Procs) /\ maxId \in Nat
    /\ stackTop \in [Procs -> Procs] /\ onCpu \in Procs
    /\ channels \in [Channels -> ChannelType]
    /\ received \in [Procs -> Values \cup {NoValue}]
    /\ code \in [Procs -> Seq(Words)]
    /\ local \in [Procs -> LocalType]

\* The processes that wait for nothing.
Awake(p) == state[p] \notin BlockedStates /\ local[p].op # "exit"

\* InRing, in terms of points.
Queue == {p \in Allocated : /\ ~(Point(onCpu) \in Linking /\ p = Me.who)
                            /\ Point(p) \in Leaving \/ Awake(p)}

\* The process on the CPU, and the one it is switching to.
CpuInv ==
    /\ \A p \in Procs \ {onCpu} : stackTop[p] = p
    /\ At("switchTask") => Me.prevProcess = onCpu /\ currentProcess = Me.nextTask
    /\ ~At("switchTask") => currentProcess = onCpu
    /\ Point(onCpu) \in {"setCurrent", "switchTask"} => Me.nextTask \in Queue
    /\ Point(onCpu) \in {"permit", "readNext"} => next[onCpu] \in Queue
    /\ Point(onCpu) \notin {"permit", "readNext", "setCurrent", "switchTask"} =>
          onCpu \in Queue
    /\ state[onCpu] \in BlockedStates =>
          Point(onCpu) \in {"prevent", "unlinkBack", "unlinkForward", "permit",
                            "readNext", "setCurrent", "switchTask"}
    /\ Point(onCpu) \in {"prevent", "unlinkBack", "unlinkForward"} => ~Awake(onCpu)

\* The ring, also while a process is linked in or out.
RingInv ==
    /\ ~At("linkIn") /\ ~At("unlinkForward") => IsRing(Queue, next, prev)
    /\ At("linkBack") => next[Me.who] = next[onCpu] /\ prev[Me.who] = onCpu
    /\ At("linkIn") => IsRing(Queue \cup {Me.who}, [next EXCEPT ![onCpu] = Me.who], prev)
    /\ At("unlinkForward") =>
          IsRing(Queue \ {onCpu}, [next EXCEPT ![prev[onCpu]] = next[onCpu]], prev)
    /\ Point(onCpu) \in Leaving => next[onCpu] \in Queue \ {onCpu}

\* Ids index processesList, but for the process that is about to be put there.
IdInv ==
    /\ \A i \in 1 .. Len(processesList) : id[processesList[i]] = i - 1
    /\ At("appendIt") => /\ Len(processesList) = maxId /\ id[Me.who] = maxId
                         /\ state[Me.who] = "Runnable"
    /\ ~At("appendIt") => Len(processesList) = maxId + 1

\* The process that a call is about to insert: a new one, or one that waited.
WhoInv ==
    /\ \A p \in Procs : Point(p) \in Creating =>
          /\ local[p].who \in Procs \ Allocated
          /\ \A q \in Procs \ {p} : local[q].who # local[p].who
    /\ Point(onCpu) \in {"passValue", "popWaiter", "markUnused"} => Me.who = NULL
    /\ Point(onCpu) \in {"wake", "linkOut", "linkBack", "linkIn"} =>
          Me.who \in Allocated \ {onCpu} /\ local[Me.who].op # "exit"
    /\ Point(onCpu) \in {"linkOut", "linkBack", "linkIn"} =>
          state[Me.who] \notin BlockedStates
    /\ At("wake") => /\ local[Me.who].ch = Me.ch
                     /\ Chan.state = "Sender" => Chan.sendId # id[Me.who]
                     /\ id[Me.who] \notin Entries(Chan.receive)

\* The process with this id waits on the channel, or is about to.
Waits(pid, ch, op, st, about) ==
    LET p == Process(pid) IN
    /\ pid \in 0 .. Len(processesList) - 1 /\ p \in Allocated
    /\ local[p].op = op /\ local[p].ch = ch
    /\ state[p] = st \/ (p = onCpu /\ At(about))

\* A receiver has been taken off the list, or has not yet put itself there.
ListMayBeEmpty(ch) ==
    /\ Me.ch = ch
    /\ \/ Point(onCpu) \in {"newList", "appendWaiter"}
       \/ Me.op = "send" /\ Point(onCpu) \in {"wake", "linkOut", "linkBack", "linkIn",
                                              "testEmpty", "resetChannel"}

ChannelOk(ch) ==
    LET k == channels[ch] IN
    /\ k.state = "Sender" =>
          \/ Waits(k.sendId, ch, "send", "BlockedWriting", "blockWriting")
          \/ At("offerValue") /\ Me.ch = ch
    /\ \A i \in 1 .. Len(k.receive) :
          Waits(k.receive[i], ch, "receive", "BlockedReading", "blockReading")
    /\ \A i, j \in 1 .. Len(k.receive) : k.receive[i] = k.receive[j] => i = j
    /\ k.state # "Receiver" => k.receive = <<>>
    /\ k.state = "Receiver" /\ k.receive = <<>> => ListMayBeEmpty(ch)

\* The channel of the call that is being executed.
CallInv ==
    /\ Point(onCpu) \in {"markSender", "markReceiver"} => Chan.state = "Unused"
    /\ Point(onCpu) \in {"offerValue", "blockWriting", "markUnused"} => Chan.state = "Sender"
    /\ Point(onCpu) \in {"newList", "appendWaiter", "blockReading", "passValue",
                          "popWaiter", "testEmpty", "resetChannel"} =>
          Chan.state = "Receiver"
    /\ At("freeList") => Chan.state = "Unused"
    /\ Point(onCpu) \in {"wake", "linkOut", "linkBack", "linkIn"} /\ Me.op = "send" =>
          Chan.state = "Receiver"
    /\ Point(onCpu) \in {"passValue", "popWaiter"} => Chan.receive # <<>>
    /\ Point(onCpu) \in {"newList", "resetChannel"} => Chan.receive = <<>>
    /\ At("offerValue") => \A p \in Allocated :
                             local[p].ch = Me.ch => state[p] \notin BlockedStates
    /\ At("blockWriting") => Chan.sendId = id[onCpu]
    /\ At("blockReading") => id[onCpu] \in Entries(Chan.receive)

\* A process that waits can be found by the call that is to wake it.
Known(p) ==
    LET k == channels[local[p].ch] IN
    \/ At("wake") /\ p = Me.who
    \/ state[p] = "BlockedWriting" /\ local[p].op = "send"
         /\ local[p].ch \in Channels /\ k.state = "Sender" /\ k.sendId = id[p]
    \/ state[p] = "BlockedReading" /\ local[p].op = "receive"
         /\ local[p].ch \in Channels /\ k.state = "Receiver" /\ id[p] \in Entries(k.receive)

WaitInv ==
    /\ \A ch \in Channels : ChannelOk(ch)
    /\ CallInv
    /\ \A p \in Allocated : state[p] \in BlockedStates =>
          Known(p) /\ local[p].op \in {"send", "receive"} /\ code[p] # <<>>

Inv == TypeInv /\ CodeInv /\ CpuInv /\ RingInv /\ IdInv /\ WhoInv /\ WaitInv

-----------------------------------------------------------------------------
\* The statements of the calls.
LEMMA CallsAreCode ==
    ASSUME NEW C \in Calls
    PROVE  C \in Seq(Words) /\ Len(C) \in 1 .. 13
<1> USE DEF Words, Linking, Leaving, Rest
<1>1. NewProcess \in Seq(Words) /\ Len(NewProcess) \in 1 .. 13
  BY DEF NewProcess
<1>2. Yield \in Seq(Words) /\ Len(Yield) \in 1 .. 13
  BY DEF Yield
<1>3. SendUnused \in Seq(Words) /\ Len(SendUnused) \in 1 .. 13
  BY DEF SendUnused
<1>4. SendReceiver \in Seq(Words) /\ Len(SendReceiver) \in 1 .. 13
  BY DEF SendReceiver
<1>5. SendSender \in Seq(Words) /\ Len(SendSender) \in 1 .. 13
  BY DEF SendSender
<1>6. ReceiveUnused \in Seq(Words) /\ Len(ReceiveUnused) \in 1 .. 13
  BY DEF ReceiveUnused
<1>7. ReceiveSender \in Seq(Words) /\ Len(ReceiveSender) \in 1 .. 13
  BY DEF ReceiveSender
<1>8. ReceiveQueued \in Seq(Words) /\ Len(ReceiveQueued) \in 1 .. 13
  BY DEF ReceiveQueued
<1>9. Exit \in Seq(Words) /\ Len(Exit) \in 1 .. 13
  BY DEF Exit
<1> QED
  BY <1>1, <1>2, <1>3, <1>4, <1>5, <1>6, <1>7, <1>8, <1>9 DEF Calls

\* The rest of a call from its i-th statement on.
LEMMA RestOfCall ==
    ASSUME NEW C \in Calls, NEW i \in 1 .. Len(C)
    PROVE  LET k == SubSeq(C, i, Len(C)) IN
           /\ k # <<>> /\ k \in Seq(Words) /\ Head(k) = C[i]
           /\ Tail(k) = SubSeq(C, i + 1, Len(C))
           /\ i = Len(C) => Tail(k) = <<>>
           /\ i < Len(C) => i + 1 \in 1 .. Len(C)
           /\ \A s : s \in Entries(k) <=> \E j \in i .. Len(C) : s = C[j]
<1> DEFINE n == Len(C)
           k == SubSeq(C, i, n)
<1>1. C \in Seq(Words) /\ n \in Nat \ {0}
  BY CallsAreCode
<1>2. /\ k \in Seq(Words) /\ Len(k) = n - i + 1
      /\ \A j \in 1 .. n - i + 1 : k[j] = C[i + j - 1]
  <2>1. \A j \in i .. n : C[j] \in Words
    BY <1>1, ElementOfSeq
  <2> QED BY <1>1, <2>1, SubSeqProperties
<1>3. k # <<>>
  <2>1. Len(k) # 0
    BY <1>1, <1>2
  <2> HIDE DEF k
  <2> QED BY <2>1, EmptySeq
<1>4. Head(k) = C[i] /\ Tail(k) = SubSeq(C, i + 1, n)
  BY <1>1, HeadTailOfSubSeq
<1>5. i = n => SubSeq(C, i + 1, n) = <<>>
  BY <1>1, SubSeqEmpty
<1>6. ASSUME NEW s PROVE s \in Entries(k) <=> \E j \in i .. n : s = C[j]
  <2>1. DOMAIN k = 1 .. n - i + 1
    BY <1>2, LenProperties
  <2>2. ASSUME NEW j \in i .. n PROVE C[j] \in Entries(k)
    <3>1. j - i + 1 \in 1 .. n - i + 1 /\ i + (j - i + 1) - 1 = j
      BY <1>1
    <3> QED BY <1>2, <2>1, <3>1 DEF Entries
  <2>3. ASSUME NEW j \in 1 .. n - i + 1 PROVE i + j - 1 \in i .. n
    BY <1>1
  <2> QED BY <1>2, <2>1, <2>2, <2>3 DEF Entries
<1> HIDE DEF k
<1> QED BY <1>1, <1>2, <1>3, <1>4, <1>5, <1>6 DEF k

\* The statements that may follow one.
After(s) ==
    CASE s = "numberIt"   -> {"appendIt"}
      [] s \in {"appendIt", "wake"} -> {"linkOut"}
      [] s = "linkOut"    -> {"linkBack"}
      [] s = "linkBack"   -> {"linkIn"}
      [] s = "linkIn"     -> {"return", "testEmpty", "readValue"}
      [] s = "passValue"  -> {"popWaiter"}
      [] s \in {"popWaiter", "markUnused"} -> {"wake"}
      [] s = "markSender" -> {"offerValue"}
      [] s = "offerValue" -> {"blockWriting"}
      [] s = "markReceiver" -> {"newList"}
      [] s = "newList"    -> {"appendWaiter"}
      [] s = "appendWaiter" -> {"blockReading"}
      [] s \in {"blockWriting", "blockReading"} -> {"prevent"}
      [] s = "prevent"    -> {"prevent", "unlinkBack"}
      [] s = "unlinkBack" -> {"unlinkForward"}
      [] s = "unlinkForward" -> {"permit"}
      [] s = "permit"     -> {"permit", "readNext"}
      [] s = "testEmpty"  -> {"resetChannel", "readNext"}
      [] s = "resetChannel" -> {"freeList"}
      [] s = "freeList"   -> {"readNext"}
      [] s = "readNext"   -> {"setCurrent"}
      [] s = "setCurrent" -> {"switchTask"}
      [] s = "switchTask" -> {"return", "readValue", "dead"}
      [] OTHER            -> {"program"}

LEMMA StatementsOfCalls ==
    ASSUME NEW C \in Calls, NEW i \in 1 .. Len(C)
    PROVE  /\ C[i] \in Words
           /\ (\E j \in i .. Len(C) : "linkIn" = C[j]) <=> C[i] \in Linking
           /\ (\E j \in i .. Len(C) : "unlinkForward" = C[j]) <=> C[i] \in Leaving
           /\ C[i] \in Sending => C \in {SendUnused, SendReceiver}
           /\ C[i] \in Receiving => C \in {ReceiveUnused, ReceiveSender, ReceiveQueued}
           /\ C[i] \in Creating => C = NewProcess
           /\ C[i] = "dead" => C = Exit
           /\ C[i] = "switchTask" /\ C = Exit => C[i + 1] = "dead"
           /\ C[i] = "linkIn" /\ C \in {SendUnused, SendReceiver, SendSender} =>
                 C[i + 1] = "testEmpty"
           /\ C[i] = "testEmpty" => /\ i + 3 \in 1 .. Len(C)
                                    /\ C[i + 1] = "resetChannel" /\ C[i + 3] = "readNext"
           /\ C[i] = "wake" => C \in {SendReceiver, ReceiveSender}
           /\ C[i] \in Linking => C # Exit
           /\ i < Len(C) /\ C[i] # "testEmpty" => C[i + 1] \in After(C[i])
           /\ i = Len(C) => C[i] \in {"return", "readValue", "dead"}
<1> USE DEF Words, Linking, Leaving, Rest, Sending, Receiving, Creating, After
<1>1. CASE C = NewProcess
  BY <1>1 DEF NewProcess, Yield, SendUnused, SendReceiver, SendSender, ReceiveUnused, ReceiveSender, ReceiveQueued, Exit
<1>2. CASE C = Yield
  BY <1>2 DEF NewProcess, Yield, SendUnused, SendReceiver, SendSender, ReceiveUnused, ReceiveSender, ReceiveQueued, Exit
<1>3. CASE C = SendUnused
  BY <1>3 DEF NewProcess, Yield, SendUnused, SendReceiver, SendSender, ReceiveUnused, ReceiveSender, ReceiveQueued, Exit
<1>4. CASE C = SendReceiver
  BY <1>4 DEF NewProcess, Yield, SendUnused, SendReceiver, SendSender, ReceiveUnused, ReceiveSender, ReceiveQueued, Exit
<1>5. CASE C = SendSender
  BY <1>5 DEF NewProcess, Yield, SendUnused, SendReceiver, SendSender, ReceiveUnused, ReceiveSender, ReceiveQueued, Exit
<1>6. CASE C = ReceiveUnused
  BY <1>6 DEF NewProcess, Yield, SendUnused, SendReceiver, SendSender, ReceiveUnused, ReceiveSender, ReceiveQueued, Exit
<1>7. CASE C = ReceiveSender
  BY <1>7 DEF NewProcess, Yield, SendUnused, SendReceiver, SendSender, ReceiveUnused, ReceiveSender, ReceiveQueued, Exit
<1>8. CASE C = ReceiveQueued
  BY <1>8 DEF NewProcess, Yield, SendUnused, SendReceiver, SendSender, ReceiveUnused, ReceiveSender, ReceiveQueued, Exit
<1>9. CASE C = Exit
  BY <1>9 DEF NewProcess, Yield, SendUnused, SendReceiver, SendSender, ReceiveUnused, ReceiveSender, ReceiveQueued, Exit
<1> QED
  BY <1>1, <1>2, <1>3, <1>4, <1>5, <1>6, <1>7, <1>8, <1>9 DEF Calls

\* What the point of a process says of its call.
LEMMA PointOf ==
    ASSUME TypeInv, CodeInv, NEW p \in Procs
    PROVE  /\ Point(p) \in Words \cup {"program"}
           /\ Point(p) = "program" <=> code[p] = <<>>
           /\ HasYetTo(p, "linkIn") <=> Point(p) \in Linking
           /\ HasYetTo(p, "unlinkForward") <=> Point(p) \in Leaving
           /\ Point(p) = "program" => local[p].op = "none"
           /\ Point(p) \in Sending => local[p].op = "send" /\ local[p].ch \in Channels
           /\ Point(p) \in Receiving => local[p].op = "receive" /\ local[p].ch \in Channels
           /\ Point(p) \in Creating => local[p].op = "none"
           /\ Point(p) = "wake" => local[p].op \in {"send", "receive"} /\ local[p].ch \in Channels
           /\ Point(p) = "dead" => local[p].op = "exit"
           /\ Point(p) \in Linking => local[p].op # "exit"
           /\ local[p].op \in {"send", "receive"} => local[p].ch \in Channels
<1>1. CASE code[p] = <<>> /\ local[p].op = "none"
  <2>1. Entries(code[p]) = {}
    BY <1>1 DEF Entries
  <2>2. Point(p) = "program"
    BY <1>1 DEF Point
  <2> QED BY <1>1, <2>1, <2>2 DEF HasYetTo, Linking, Leaving, Sending, Receiving, Creating
<1>2. ASSUME NEW C \in Calls, NEW i \in 1 .. Len(C),
             code[p] = SubSeq(C, i, Len(C)), Fits(C, local[p])
      PROVE  /\ Point(p) = C[i] /\ code[p] # <<>> /\ C[i] \in Words
             /\ HasYetTo(p, "linkIn") <=> C[i] \in Linking
             /\ HasYetTo(p, "unlinkForward") <=> C[i] \in Leaving
             /\ C[i] \in Sending => local[p].op = "send" /\ local[p].ch \in Channels
             /\ C[i] \in Receiving => local[p].op = "receive" /\ local[p].ch \in Channels
             /\ C[i] \in Creating => local[p].op = "none"
             /\ C[i] = "wake" => local[p].op \in {"send", "receive"} /\ local[p].ch \in Channels
             /\ C[i] = "dead" => local[p].op = "exit"
             /\ C[i] \in Linking => local[p].op # "exit"
             /\ local[p].op \in {"send", "receive"} => local[p].ch \in Channels
  <2>1. code[p] # <<>> /\ Point(p) = C[i]
    BY <1>2, RestOfCall DEF Point
  <2>2. /\ HasYetTo(p, "linkIn") <=> \E j \in i .. Len(C) : "linkIn" = C[j]
        /\ HasYetTo(p, "unlinkForward") <=> \E j \in i .. Len(C) : "unlinkForward" = C[j]
    BY <1>2, RestOfCall DEF HasYetTo
  <2>3. C \in Calls \ {Exit} => local[p].op # "exit"
    BY <1>2 DEF Calls, Fits
  <2>4. local[p].op \in {"send", "receive"} => local[p].ch \in Channels
    BY <1>2 DEF Calls, Fits
  <2>5. /\ C[i] \in Words
        /\ (\E j \in i .. Len(C) : "linkIn" = C[j]) <=> C[i] \in Linking
        /\ (\E j \in i .. Len(C) : "unlinkForward" = C[j]) <=> C[i] \in Leaving
    BY StatementsOfCalls
  <2>6. /\ C[i] \in Sending => C \in {SendUnused, SendReceiver}
        /\ C[i] \in Receiving => C \in {ReceiveUnused, ReceiveSender, ReceiveQueued}
        /\ C[i] \in Creating => C = NewProcess
        /\ C[i] = "dead" => C = Exit
        /\ C[i] = "wake" => C \in {SendReceiver, ReceiveSender}
        /\ C[i] \in Linking => C # Exit
    BY StatementsOfCalls
  <2> QED
    BY <1>2, <2>1, <2>2, <2>3, <2>4, <2>5, <2>6 DEF Fits
<1>3. "program" \notin Words
  BY DEF Words, Linking, Leaving, Rest
<1> QED
  BY <1>1, <1>2, <1>3 DEF CodeInv, CodeOf

\* p goes on to the next statement, or past the block that follows a test.
Onward(p) ==
    \/ code' = [code EXCEPT ![p] = Tail(@)]
    \/ Point(p) = "testEmpty" /\ code' = [code EXCEPT ![p] = Tail(Tail(Tail(@)))]

\* The process on the CPU executes a statement that is not the last of its call.
LEMMA NextStatement ==
    ASSUME TypeInv, CodeInv, NEW c \in Procs, Point(c) \in Words \ {"return", "readValue", "dead"},
           Onward(c),
           local'[c].op = local[c].op, local'[c].ch = local[c].ch
    PROVE  /\ code' \in [Procs -> Seq(Words)]
           /\ CodeOf(c)' /\ code'[c] # <<>>
           /\ Point(c)' \in After(Point(c))
           /\ Point(c) = "linkIn" => (Point(c)' = "testEmpty" <=> local[c].op = "send")
           /\ Point(c) = "switchTask" => (Point(c)' = "dead" <=> local[c].op = "exit")
           /\ Point(c) = "testEmpty" =>
                 /\ code' = [code EXCEPT ![c] = Tail(@)] => Point(c)' = "resetChannel"
                 /\ code' = [code EXCEPT ![c] = Tail(Tail(Tail(@)))] => Point(c)' = "readNext"
           /\ \A p \in Procs \ {c} : code'[p] = code[p] /\ Point(p)' = Point(p)
<1>0. PICK C \in Calls : \E i \in 1 .. Len(C) :
         code[c] = SubSeq(C, i, Len(C)) /\ Fits(C, local[c])
  BY PointOf DEF CodeInv, CodeOf, Words, Linking, Leaving, Rest
<1>1. PICK i \in 1 .. Len(C) : code[c] = SubSeq(C, i, Len(C)) /\ Fits(C, local[c])
  BY <1>0
<1>2. C[i] = Point(c) /\ i < Len(C) /\ Len(C) \in Nat
  <2>1. Point(c) = C[i]
    BY <1>1, RestOfCall DEF Point
  <2> QED BY <2>1, StatementsOfCalls, CallsAreCode
<1>3. i + 1 \in 1 .. Len(C) /\ Tail(code[c]) = SubSeq(C, i + 1, Len(C))
  BY <1>1, <1>2, RestOfCall
<1>4. C[i] = "testEmpty" => /\ i + 3 \in 1 .. Len(C)
                            /\ Tail(Tail(Tail(code[c]))) = SubSeq(C, i + 3, Len(C))
  <2>1. SUFFICES ASSUME C[i] = "testEmpty"
                 PROVE  /\ i + 3 \in 1 .. Len(C)
                        /\ Tail(Tail(Tail(code[c]))) = SubSeq(C, i + 3, Len(C))
    OBVIOUS
  <2>2. i + 2 \in 1 .. Len(C) /\ i + 3 \in 1 .. Len(C)
    BY <1>2, <2>1, StatementsOfCalls
  <2>3. Tail(SubSeq(C, i + 1, Len(C))) = SubSeq(C, i + 2, Len(C))
    <3>1. (i + 1) + 1 = i + 2
      OBVIOUS
    <3> QED BY <1>3, <3>1, RestOfCall
  <2>4. Tail(SubSeq(C, i + 2, Len(C))) = SubSeq(C, i + 3, Len(C))
    <3>1. (i + 2) + 1 = i + 3
      OBVIOUS
    <3> QED BY <2>2, <3>1, RestOfCall
  <2> QED BY <1>3, <2>2, <2>3, <2>4
<1>5. /\ code' = [code EXCEPT ![c] = Tail(@)] => code'[c] = SubSeq(C, i + 1, Len(C))
      /\ C[i] = "testEmpty" /\ code' = [code EXCEPT ![c] = Tail(Tail(Tail(@)))] =>
            code'[c] = SubSeq(C, i + 3, Len(C))
  BY <1>3, <1>4 DEF TypeInv
<1>6. PICK j \in 1 .. Len(C) :
         /\ code'[c] = SubSeq(C, j, Len(C))
         /\ j = i + 1 \/ (C[i] = "testEmpty" /\ j = i + 3)
  BY <1>2, <1>3, <1>4, <1>5 DEF Onward
<1>7. code'[c] # <<>> /\ code'[c] \in Seq(Words) /\ Point(c)' = C[j]
  BY <1>6, RestOfCall DEF Point
<1>8. C[i] = "testEmpty" =>
         /\ code' = [code EXCEPT ![c] = Tail(@)] => Point(c)' = "resetChannel"
         /\ code' = [code EXCEPT ![c] = Tail(Tail(Tail(@)))] => Point(c)' = "readNext"
  <2>1. code'[c] = SubSeq(C, i + 1, Len(C)) => Point(c)' = C[i + 1]
    BY <1>3, RestOfCall DEF Point
  <2>2. C[i] = "testEmpty" /\ code'[c] = SubSeq(C, i + 3, Len(C)) => Point(c)' = C[i + 3]
    BY <1>4, RestOfCall DEF Point
  <2> QED BY <1>5, <2>1, <2>2, StatementsOfCalls
<1>9. CodeOf(c)'
  <2>1. Fits(C, local'[c])
    BY <1>1 DEF Fits
  <2> QED BY <1>6, <2>1 DEF CodeOf
<1>10. \A p \in Procs \ {c} : code'[p] = code[p] /\ Point(p)' = Point(p)
  BY DEF TypeInv, Point, Onward
<1>11. /\ C[j] \in After(C[i])
       /\ C[i] = "switchTask" /\ C = Exit => C[j] = "dead"
       /\ C[i] = "linkIn" /\ C \in {SendUnused, SendReceiver, SendSender} => C[j] = "testEmpty"
       /\ C[j] = "dead" => C = Exit
       /\ C[j] = "testEmpty" => C \in {SendUnused, SendReceiver}
  BY <1>2, <1>6, StatementsOfCalls DEF Sending, After
<1>12. /\ local[c].op = "send" => C \in {SendUnused, SendReceiver, SendSender}
       /\ local[c].op = "exit" <=> C = Exit
  BY <1>1 DEF Fits, Calls
<1>13. code' \in [Procs -> Seq(Words)]
  BY <1>7, <1>10 DEF TypeInv, Onward
<1> QED
  BY <1>1, <1>2, <1>7, <1>8, <1>9, <1>10, <1>11, <1>12, <1>13 DEF Fits

\* ... or the last one.
LEMMA LastStatement ==
    ASSUME TypeInv, CodeInv, NEW c \in Procs, Point(c) \in {"return", "readValue"},
           code' = [code EXCEPT ![c] = Tail(@)],
           local'[c].op = "none"
    PROVE  /\ code' \in [Procs -> Seq(Words)]
           /\ CodeOf(c)' /\ Point(c)' = "program"
           /\ \A p \in Procs \ {c} : code'[p] = code[p] /\ Point(p)' = Point(p)
<1>0. PICK C \in Calls : \E i \in 1 .. Len(C) :
         code[c] = SubSeq(C, i, Len(C)) /\ Fits(C, local[c])
  BY PointOf DEF CodeInv, CodeOf
<1>1. PICK i \in 1 .. Len(C) : code[c] = SubSeq(C, i, Len(C)) /\ Fits(C, local[c])
  BY <1>0
<1>2. C[i] = Point(c)
  BY <1>1, RestOfCall DEF Point
<1>3. i = Len(C)
  <2>1. Len(C) \in Nat
    BY CallsAreCode
  <2>2. SUFFICES ASSUME i < Len(C) PROVE FALSE
    BY <2>1
  <2>3. i + 1 \in 1 .. Len(C)
    BY <2>1, <2>2
  <2>4. C[i + 1] \in Words /\ C[i + 1] \in After(C[i])
    BY <1>2, <2>2, <2>3, StatementsOfCalls
  <2> QED BY <1>2, <2>4 DEF After, Words, Linking, Leaving, Rest
<1>4. code'[c] = <<>>
  BY <1>1, <1>3, RestOfCall DEF TypeInv
<1> QED BY <1>4 DEF CodeOf, Point, TypeInv

-----------------------------------------------------------------------------
\* The ring as the invariant speaks of it.
LEMMA QueueIsInRing ==
    ASSUME TypeInv, CodeInv, WhoInv
    PROVE  InRing = Queue
<1>1. Allocated \subseteq Procs
  BY DEF TypeInv, Allocated
<1>2. ASSUME NEW p \in Allocated
      PROVE  p \in Pending <=> Point(onCpu) \in Linking /\ p = Me.who
  <2>1. p \in Pending <=> \E q \in Procs : Point(q) \in Linking /\ p = local[q].who
    BY PointOf DEF Pending
  <2>2. \A q \in Procs \ {onCpu} : Point(q) \in Linking => local[q].who \notin Allocated
    BY DEF CodeInv, WhoInv, Parked, SafeWindows, Linking, Creating
  <2> QED BY <2>1, <2>2 DEF TypeInv, Me
<1>3. ASSUME NEW p \in Allocated
      PROVE  p \in Left <=> ~(Point(p) \in Leaving \/ Awake(p))
  BY <1>1, PointOf DEF Left, Awake, BlockedStates
<1> QED BY <1>2, <1>3 DEF InRing, Queue

\* get(processesList, id) inverts the id field.
LEMMA ProcessOfId ==
    ASSUME TypeInv, IdInv
    PROVE  /\ Allocated \subseteq Procs
           /\ \A p \in Allocated : Process(id[p]) = p /\ id[p] \in 0 .. Len(processesList) - 1
           /\ \A pid \in 0 .. Len(processesList) - 1 :
                 Process(pid) \in Allocated /\ id[Process(pid)] = pid
<1>1. Allocated \subseteq Procs
  BY DEF TypeInv, Allocated
<1>2. ASSUME NEW p \in Allocated
      PROVE  Process(id[p]) = p /\ id[p] \in 0 .. Len(processesList) - 1
  <2>1. PICK i \in 1 .. Len(processesList) : p = processesList[i]
    BY DEF Allocated, TypeInv
  <2>2. id[p] = i - 1
    BY <2>1 DEF IdInv
  <2>3. Process(id[p]) = p
    BY <2>1, <2>2 DEF Process
  <2>4. Len(processesList) \in Nat
    BY LenProperties DEF TypeInv
  <2> QED BY <2>1, <2>2, <2>3, <2>4
<1>3. ASSUME NEW pid \in 0 .. Len(processesList) - 1
      PROVE  Process(pid) \in Allocated /\ id[Process(pid)] = pid
  <2>1. pid + 1 \in 1 .. Len(processesList)
    BY LenProperties DEF TypeInv
  <2>2. id[processesList[pid + 1]] = (pid + 1) - 1 /\ processesList[pid + 1] \in Allocated
    BY <2>1 DEF IdInv, Allocated, TypeInv
  <2> QED BY <2>1, <2>2 DEF Process, TypeInv
<1> QED BY <1>1, <1>2, <1>3

LEMMA InitInv == Init => Inv
<1> SUFFICES ASSUME Init PROVE Inv
  OBVIOUS
<1> USE PreemptAssumption DEF Init
<1>1. Allocated = {Main} /\ Point(Main) = "program" /\ \A p \in Procs : Point(p) = "program"
  BY DEF Allocated, Point
<1>2. TypeInv
  BY DEF TypeInv, LocalType, ChannelType, NoLocal, BlockedStates
<1>3. CodeInv
  BY <1>1 DEF CodeInv, CodeOf, NoLocal, Parked, SafeWindows
<1>4. Queue = {Main}
  BY <1>1 DEF Queue, Awake, BlockedStates, NoLocal, Linking
<1>5. CpuInv
  BY <1>1, <1>4 DEF CpuInv, At, BlockedStates
<1>6. RingInv
  BY <1>1, <1>4 DEF RingInv, At, IsRing, Leaving
<1>7. IdInv
  BY <1>1 DEF IdInv, At
<1>8. WhoInv
  BY <1>1 DEF WhoInv, At, Creating
<1>9. WaitInv
  BY <1>1 DEF WaitInv, ChannelOk, CallInv, At, BlockedStates
<1> QED BY <1>2, <1>3, <1>5, <1>6, <1>7, <1>8, <1>9 DEF Inv

-----------------------------------------------------------------------------
\* What all statements have in common that end neither a call nor a switch.
LEMMA Moves ==
    ASSUME Inv, NEW c \in Procs, c = onCpu,
           NEW s \in Words \ {"return", "readValue", "dead", "switchTask"}, At(s),
           Advance \/ (s = "testEmpty" /\ PassBy),
           onCpu' = onCpu, Allocated \subseteq Allocated',
           \A p \in Procs : local'[p].op = local[p].op /\ local'[p].ch = local[p].ch
    PROVE  /\ code' \in [Procs -> Seq(Words)] /\ CodeInv'
           /\ onCpu' = c /\ Point(c) = s /\ Point(c)' \in After(s) /\ code'[c] # <<>>
           /\ s = "linkIn" => (Point(c)' = "testEmpty" <=> local[c].op = "send")
           /\ s = "testEmpty" => /\ Advance => Point(c)' = "resetChannel"
                                 /\ PassBy => Point(c)' = "readNext"
           /\ \A p \in Procs \ {c} : code'[p] = code[p] /\ Point(p)' = Point(p)
<1>1. Point(c) = s /\ Onward(c) /\ TypeInv /\ CodeInv
  BY DEF At, Advance, PassBy, Onward, Inv
<1>2. /\ code' \in [Procs -> Seq(Words)]
      /\ CodeOf(c)' /\ code'[c] # <<>>
      /\ Point(c)' \in After(Point(c))
      /\ Point(c) = "linkIn" => (Point(c)' = "testEmpty" <=> local[c].op = "send")
      /\ Point(c) = "testEmpty" => /\ Advance => Point(c)' = "resetChannel"
                                   /\ PassBy => Point(c)' = "readNext"
      /\ \A p \in Procs \ {c} : code'[p] = code[p] /\ Point(p)' = Point(p)
  BY <1>1, NextStatement DEF Advance, PassBy
<1>3. ASSUME NEW p \in Procs PROVE CodeOf(p)'
  <2>1. CASE p = c
    BY <1>2, <2>1
  <2>2. CASE p # c
    <3>1. code'[p] = code[p] /\ CodeOf(p)
      BY <1>1, <1>2, <2>2 DEF CodeInv
    <3>2. \A C \in Calls : Fits(C, local[p]) => Fits(C, local'[p])
      BY DEF Fits
    <3> QED BY <3>1, <3>2 DEF CodeOf
  <2> QED BY <2>1, <2>2
<1>4. CodeInv'
  <2>1. \A p \in Procs \ {onCpu'} : Point(p)' \in Parked
    BY <1>1, <1>2 DEF CodeInv
  <2>2. \A p \in Procs \ Allocated' : code'[p] = <<>> /\ p # onCpu'
    BY <1>1, <1>2 DEF CodeInv
  <2> QED BY <1>3, <2>1, <2>2 DEF CodeInv
<1> QED BY <1>1, <1>2, <1>4

\* When the members of the ring stay the same.
LEMMA QueueSame ==
    ASSUME NEW c \in Procs, c = onCpu, onCpu' = c, Allocated \subseteq Procs,
           UNCHANGED processesList,
           \A p \in Procs \ {c} : /\ Point(p)' = Point(p) /\ state'[p] = state[p]
                                  /\ local'[p].op = local[p].op,
           Point(c) \in Leaving \/ Awake(c) <=> Point(c)' \in Leaving \/ Awake(c)',
           Point(c) \in Linking <=> Point(c)' \in Linking,
           Point(c) \in Linking => local'[c].who = local[c].who
    PROVE  Queue' = Queue
<1>1. Allocated' = Allocated
  BY DEF Allocated
<1>2. \A p \in Allocated : Point(p) \in Leaving \/ Awake(p) <=> Point(p)' \in Leaving \/ Awake(p)'
  BY DEF Awake
<1> QED BY <1>1, <1>2 DEF Queue, Me

\* The process on the CPU is in the ring, if it is not on its way out of it.
LEMMA OnCpu ==
    ASSUME Inv, NEW c \in Procs, c = onCpu
    PROVE  /\ Allocated \subseteq Procs /\ Queue \subseteq Allocated
           /\ c \in Allocated
           /\ Point(c) \notin {"permit", "readNext", "setCurrent", "switchTask"} =>
                 c \in Queue /\ (Point(c) \in Leaving \/ Awake(c))
           /\ Point(c) \notin {"linkIn", "unlinkForward", "permit", "readNext",
                              "setCurrent", "switchTask"} => next[c] \in Queue
<1>1. Allocated \subseteq Procs /\ Queue \subseteq Allocated
  BY DEF Inv, TypeInv, Allocated, Queue
<1>2. c \in Allocated
  BY DEF Inv, CodeInv
<1>3. Point(c) \notin {"permit", "readNext", "setCurrent", "switchTask"} =>
                 c \in Queue /\ (Point(c) \in Leaving \/ Awake(c))
  BY DEF Inv, CpuInv, Queue
<1> QED BY <1>1, <1>2, <1>3 DEF Inv, RingInv, IsRing, At

\* A step that touches no channel and no process that waits.
LEMMA WaitFrame ==
    ASSUME Inv, NEW c \in Procs, c = onCpu,
           UNCHANGED channels,
           \A i \in 1 .. Len(processesList) : i \in 1 .. Len(processesList')
                                             /\ processesList'[i] = processesList[i],
           Allocated \subseteq Allocated',
           \A p \in Allocated : state'[p] = state[p] /\ id'[p] = id[p],
           \A p \in Allocated' \ Allocated : state'[p] \notin BlockedStates,
           \A p \in Procs \ {c} : /\ local'[p].op = local[p].op /\ local'[p].ch = local[p].ch
                                  /\ code'[p] = code[p],
           \/ state[c] \notin BlockedStates
           \/ local'[c].op = local[c].op /\ local'[c].ch = local[c].ch /\ code'[c] # <<>>,
           Point(c) \notin {"offerValue", "blockWriting", "blockReading", "wake"},
           CallInv',
           \A ch \in Channels : channels[ch].receive = <<>> /\ ListMayBeEmpty(ch) =>
                                    ListMayBeEmpty(ch)'
    PROVE  WaitInv'
<1>1. WaitInv /\ CodeInv /\ TypeInv /\ ~At("offerValue") /\ ~At("wake")
  BY DEF Inv, At
<1>2. Allocated \subseteq Procs
  BY <1>1 DEF Allocated, TypeInv
<1>3. ASSUME NEW pid, NEW ch, NEW op \in {"send", "receive"}, NEW st \in BlockedStates,
             NEW about \in {"blockWriting", "blockReading"},
             Waits(pid, ch, op, st, about)
      PROVE  Waits(pid, ch, op, st, about)'
  <2>1. state[Process(pid)] = st /\ Process(pid) \in Allocated
    BY <1>3 DEF Waits, At
  <2>2. Process(pid)' = Process(pid) /\ pid \in 0 .. Len(processesList') - 1
    <3>1. pid + 1 \in 1 .. Len(processesList) /\ pid \in Nat
      BY <1>1, <1>3, LenProperties DEF Waits, TypeInv
    <3>2. pid + 1 \in 1 .. Len(processesList') /\ processesList'[pid + 1] = processesList[pid + 1]
      BY <3>1
    <3>3. pid \in 0 .. Len(processesList') - 1
      BY <3>1, <3>2
    <3> QED BY <3>2, <3>3 DEF Process
  <2>3. /\ local'[Process(pid)].op = local[Process(pid)].op
        /\ local'[Process(pid)].ch = local[Process(pid)].ch
    BY <1>2, <2>1
  <2> QED BY <1>3, <2>1, <2>2, <2>3 DEF Waits
<1>4. ASSUME NEW ch \in Channels PROVE ChannelOk(ch)'
  <2>1. ChannelOk(ch)
    BY <1>1 DEF WaitInv
  <2> QED BY <1>1, <1>3, <2>1 DEF ChannelOk, BlockedStates
<1>5. ASSUME NEW p \in Allocated', state'[p] \in BlockedStates
      PROVE  Known(p)' /\ local'[p].op \in {"send", "receive"} /\ code'[p] # <<>>
  <2>1. Known(p) /\ local[p].op \in {"send", "receive"} /\ code[p] # <<>> /\ p \in Procs
    BY <1>1, <1>2, <1>5 DEF WaitInv
  <2>2. /\ local'[p].op = local[p].op /\ local'[p].ch = local[p].ch /\ code'[p] # <<>>
        /\ state'[p] = state[p] /\ id'[p] = id[p]
    BY <1>5, <2>1
  <2> QED BY <1>1, <2>1, <2>2 DEF Known
<1> QED BY <1>4, <1>5 DEF WaitInv

-----------------------------------------------------------------------------
\* The statements that neither link nor switch.
Plain == {"prevent", "permit", "readNext", "setCurrent", "testEmpty", "resetChannel",
          "freeList", "markSender",
          "offerValue", "markReceiver", "newList", "appendWaiter", "passValue",
          "blockWriting", "blockReading"}

LEMMA PlainStep ==
    ASSUME Inv, NEW c \in Procs, c = onCpu, NEW s \in Plain, At(s),
           Advance \/ (s = "testEmpty" /\ PassBy),
           UNCHANGED <<linkVars, id, processesList, maxId, stackTop, onCpu>>,
           local' \in [Procs -> LocalType],
           \A p \in Procs : /\ local'[p].op = local[p].op /\ local'[p].ch = local[p].ch
                            /\ local'[p].who = local[p].who,
           \A p \in Procs \ {c} : state'[p] = state[p],
           s \in {"blockWriting", "blockReading"} => state'[c] \in BlockedStates,
           s \notin {"blockWriting", "blockReading"} => state'[c] = state[c],
           s = "readNext" => local'[c].nextTask = next[c],
           s = "setCurrent" => /\ local'[c].nextTask = local[c].nextTask
                               /\ local'[c].prevProcess = c /\ currentProcess' = local[c].nextTask,
           s # "setCurrent" => currentProcess' = currentProcess
    PROVE  /\ code' \in [Procs -> Seq(Words)] /\ onCpu' = c /\ Point(c) = s
           /\ Point(c)' \in After(s)
           /\ \A p \in Procs \ {c} : code'[p] = code[p] /\ Point(p)' = Point(p)
           /\ code'[c] # <<>>
           /\ CodeInv' /\ CpuInv' /\ RingInv' /\ IdInv' /\ WhoInv'
<1>1. /\ code' \in [Procs -> Seq(Words)] /\ CodeInv'
      /\ onCpu' = c /\ Point(c) = s /\ Point(c)' \in After(s) /\ code'[c] # <<>>
      /\ \A p \in Procs \ {c} : code'[p] = code[p] /\ Point(p)' = Point(p)
  BY Moves DEF Plain, Words, Linking, Leaving, Rest, Allocated
<1>2. /\ Allocated \subseteq Procs /\ Queue \subseteq Allocated /\ Allocated' = Allocated
  BY OnCpu DEF Allocated
<1>3. Queue' = Queue
  <2>1. Point(c) \in Leaving \/ Awake(c) <=> Point(c)' \in Leaving \/ Awake(c)'
    BY <1>1 DEF Plain, Leaving, After, Awake
  <2>2. Point(c) \in Linking <=> Point(c)' \in Linking
    BY <1>1 DEF Plain, Linking, After
  <2> QED BY <1>1, <1>2, <2>1, <2>2, QueueSame
<1>4. Point(onCpu)' = Point(c)' /\ Me' = local'[c] /\ Me = local[c]
  BY <1>1 DEF Me, Point
<1>5. CpuInv'
  <2>1. CpuInv /\ (s # "setCurrent" => currentProcess' = c)
    <3>1. s # "switchTask"
      BY DEF Plain
    <3> QED BY <1>1, <3>1 DEF Inv, CpuInv, At
  <2>2. s = "setCurrent" => Me.nextTask \in Queue
    BY <1>1, <2>1 DEF CpuInv
  <2>3. s \in {"permit", "readNext", "testEmpty", "freeList"} => next[c] \in Queue
    BY <1>1, <2>1, OnCpu DEF CpuInv
  <2>4. s \notin {"permit", "readNext", "setCurrent"} => c \in Queue
    BY <1>1, OnCpu DEF Plain
  <2>5. state'[c] \in BlockedStates =>
          Point(c)' \in {"prevent", "unlinkBack", "unlinkForward", "permit",
                         "readNext", "setCurrent", "switchTask"}
    BY <1>1, <2>1 DEF CpuInv, Plain, After
  <2>10. Point(c)' \in {"prevent", "unlinkBack", "unlinkForward"} => ~Awake(c)'
    BY <1>1, <2>1 DEF CpuInv, Plain, After, Awake
  <2>6. /\ Point(c)' = "switchTask" => s = "setCurrent"
        /\ Point(c)' = "setCurrent" => s = "readNext"
        /\ Point(c)' \in {"permit", "readNext"} => s \in {"permit", "testEmpty", "freeList"}
        /\ s \in {"permit", "readNext", "setCurrent"} =>
              Point(c)' \in {"permit", "readNext", "setCurrent", "switchTask"}
    BY <1>1 DEF Plain, After
  <2>7. \A p \in Procs \ {onCpu'} : stackTop'[p] = p
    BY <2>1 DEF CpuInv
  <2>8. /\ At("switchTask")' => Me'.prevProcess = onCpu' /\ currentProcess' = Me'.nextTask
        /\ ~At("switchTask")' => currentProcess' = onCpu'
    BY <1>1, <1>4, <2>1, <2>6 DEF At, Plain, After
  <2>9. /\ Point(onCpu)' \in {"setCurrent", "switchTask"} => Me'.nextTask \in Queue'
        /\ Point(onCpu)' \in {"permit", "readNext"} => next'[onCpu'] \in Queue'
        /\ Point(onCpu)' \notin {"permit", "readNext", "setCurrent", "switchTask"} =>
              onCpu' \in Queue'
    <3>1. s = "readNext" => local'[c].nextTask \in Queue
      BY <2>3
    <3> QED BY <1>1, <1>3, <1>4, <2>2, <2>3, <2>4, <2>6, <3>1 DEF linkVars
  <2> QED BY <1>1, <1>4, <2>5, <2>7, <2>8, <2>9, <2>10 DEF CpuInv, Awake
<1>6. RingInv'
  <2>1. ~At("linkIn") /\ ~At("unlinkForward") /\ (Point(c)' \in Leaving => Point(c) \in Leaving)
    BY <1>1 DEF At, Plain, Leaving, After
  <2>2. Point(c)' \notin {"linkBack", "linkIn", "unlinkForward"}
    BY <1>1 DEF Plain, After
  <2> QED BY <1>1, <1>3, <1>4, <2>1, <2>2 DEF Inv, RingInv, At, linkVars
<1>7. IdInv'
  BY <1>1, <1>4 DEF Inv, IdInv, At, Plain, After
<1>8. WhoInv'
  <2>1. /\ Point(c)' \notin Creating \cup {"wake", "linkOut", "linkBack", "linkIn", "passValue", "markUnused"}
        /\ Point(c)' = "popWaiter" => Point(c) = "passValue"
    BY <1>1 DEF Plain, After, Creating
  <2>2. ASSUME NEW p \in Procs, Point(p)' \in Creating
        PROVE  /\ local'[p].who \in Procs \ Allocated'
               /\ \A q \in Procs \ {p} : local'[q].who # local'[p].who
    BY <1>1, <1>2, <2>1, <2>2 DEF Inv, WhoInv
  <2>3. Point(onCpu)' \in {"passValue", "popWaiter", "markUnused"} => Me'.who = NULL
    BY <1>1, <1>4, <2>1 DEF Inv, WhoInv
  <2> QED BY <1>4, <2>1, <2>2, <2>3 DEF WhoInv, At
<1> QED BY <1>1, <1>5, <1>6, <1>7, <1>8

-----------------------------------------------------------------------------
\* A statement about one channel leaves the others, and who waits on them, alone.
LEMMA OtherChannels ==
    ASSUME Inv, NEW c \in Procs, c = onCpu, onCpu' = c, NEW h, h = local[c].ch,
           UNCHANGED <<id, processesList, maxId>>,
           \A p \in Procs : local'[p].op = local[p].op /\ local'[p].ch = local[p].ch,
           \A p \in Procs \ {c} : code'[p] = code[p],
           code'[c] # <<>>,
           \A p \in Procs : local[p].ch # h => state'[p] = state[p],
           \A ch \in Channels \ {h} : channels'[ch] = channels[ch]
    PROVE  /\ \A ch \in Channels \ {h} : ChannelOk(ch)'
           /\ \A p \in Allocated' :
                 local[p].ch # h /\ state'[p] \in BlockedStates =>
                    Known(p)' /\ local'[p].op \in {"send", "receive"} /\ code'[p] # <<>>
<1>1. WaitInv /\ CodeInv /\ TypeInv /\ WhoInv
  BY DEF Inv
<1>2. Allocated' = Allocated /\ Allocated \subseteq Procs
  BY <1>1 DEF Allocated, TypeInv
<1>3. ASSUME NEW pid, NEW ch \in Channels \ {h}, NEW op \in {"send", "receive"},
             NEW st \in BlockedStates, NEW about \in {"blockWriting", "blockReading"},
             Waits(pid, ch, op, st, about)
      PROVE  Waits(pid, ch, op, st, about)'
  <2>1. state[Process(pid)] = st /\ Process(pid) \in Procs /\ local[Process(pid)].ch # h
    BY <1>2, <1>3 DEF Waits, At
  <2>2. Process(pid)' = Process(pid)
    BY DEF Process
  <2> QED BY <1>2, <1>3, <2>1, <2>2 DEF Waits
<1>4. ASSUME NEW ch \in Channels \ {h} PROVE ChannelOk(ch)'
  <2>1. ChannelOk(ch) /\ ~ListMayBeEmpty(ch) /\ ~(At("offerValue") /\ Me.ch = ch)
    BY <1>1 DEF WaitInv, ListMayBeEmpty, Me
  <2> QED BY <1>3, <2>1 DEF ChannelOk, BlockedStates
<1>5. ASSUME NEW p \in Allocated', local[p].ch # h, state'[p] \in BlockedStates
      PROVE  Known(p)' /\ local'[p].op \in {"send", "receive"} /\ code'[p] # <<>>
  <2>1. state[p] \in BlockedStates /\ p \in Allocated
    BY <1>2, <1>5
  <2>2. Known(p) /\ local[p].op \in {"send", "receive"} /\ code[p] # <<>> /\ p \in Procs
    BY <1>1, <1>2, <2>1 DEF WaitInv
  <2>3. ~(At("wake") /\ p = Me.who)
    BY <1>1, <1>5 DEF WhoInv, Me
  <2>4. state'[p] = state[p] /\ local'[p].op = local[p].op /\ local'[p].ch = local[p].ch /\ code'[p] # <<>>
    BY <1>5, <2>2
  <2>5. local[p].ch \in Channels => channels'[local[p].ch] = channels[local[p].ch]
    BY <1>5
  <2> QED BY <2>2, <2>3, <2>4, <2>5 DEF Known
<1> QED BY <1>4, <1>5

\* A process that waits on the channel still does so.
LEMMA WaitsKept ==
    ASSUME NEW c \in Procs, c = onCpu, onCpu' = c, Allocated \subseteq Procs,
           UNCHANGED <<id, processesList, maxId>>,
           \A p \in Procs : local'[p].op = local[p].op /\ local'[p].ch = local[p].ch,
           NEW pid, NEW ch, NEW op, NEW st, NEW about, Waits(pid, ch, op, st, about),
           state'[Process(pid)] = state[Process(pid)],
           ~At(about)
    PROVE  Waits(pid, ch, op, st, about)'
<1>1. Process(pid)' = Process(pid) /\ Allocated' = Allocated /\ Process(pid) \in Procs
  BY DEF Process, Allocated, Waits
<1> QED BY <1>1 DEF Waits

\* Assignments to locals.
LEMMA SetNextTask ==
    ASSUME NEW lo \in LocalType, NEW q \in Procs \cup {NULL},
           NEW l, l = [lo EXCEPT !.nextTask = q]
    PROVE  /\ l \in LocalType /\ l.nextTask = q
           /\ l.op = lo.op /\ l.ch = lo.ch /\ l.who = lo.who
  BY DEF LocalType

LEMMA SetPrevProcess ==
    ASSUME NEW lo \in LocalType, NEW q \in Procs,
           NEW l, l = [lo EXCEPT !.prevProcess = q]
    PROVE  /\ l \in LocalType /\ l.prevProcess = q /\ l.nextTask = lo.nextTask
           /\ l.op = lo.op /\ l.ch = lo.ch /\ l.who = lo.who
  BY DEF LocalType

LEMMA QuietPlainInv ==
    ASSUME Inv, NEW c \in Procs, c = onCpu, Prevent \/ Permit \/ ReadNext \/ SetCurrent
    PROVE  Inv'
<1> DEFINE s == Point(c)
<1>1. /\ At(s) /\ s \in {"prevent", "permit", "readNext", "setCurrent"} /\ Advance
      /\ UNCHANGED <<linkVars, procVars, stackTop, onCpu, channels, received>>
      /\ s = "readNext" => local' = [local EXCEPT ![c] = [local[c] EXCEPT !.nextTask = next[currentProcess]]]
      /\ s = "setCurrent" => /\ local' = [local EXCEPT ![c] = [local[c] EXCEPT !.prevProcess = currentProcess]]
                             /\ currentProcess' = local[c].nextTask
      /\ s \in {"prevent", "permit"} => UNCHANGED local
      /\ s # "setCurrent" => UNCHANGED currentProcess
  BY DEF Prevent, Permit, ReadNext, SetCurrent, FlagStatement, At, Let, Me, cpuVars
<1>2. TypeInv /\ currentProcess = c
  BY <1>1 DEF Inv, CpuInv, At
<1>3. /\ local \in [Procs -> LocalType] /\ local[c] \in LocalType
      /\ next[c] \in Procs \cup {NULL}
  BY <1>2 DEF TypeInv
<1>4. /\ local' \in [Procs -> LocalType]
      /\ \A p \in Procs \ {c} : local'[p] = local[p]
      /\ local'[c].op = local[c].op /\ local'[c].ch = local[c].ch /\ local'[c].who = local[c].who
      /\ s = "readNext" => local'[c].nextTask = next[c]
      /\ s = "setCurrent" => /\ local'[c].nextTask = local[c].nextTask
                               /\ local'[c].prevProcess = c /\ currentProcess' = local[c].nextTask
  <2>1. CASE s = "readNext"
    <3>1. PICK l : l = [local[c] EXCEPT !.nextTask = next[c]]
      OBVIOUS
    <3>2. /\ l \in LocalType /\ l.nextTask = next[c]
          /\ l.op = local[c].op /\ l.ch = local[c].ch /\ l.who = local[c].who
      BY <1>3, <3>1, SetNextTask
    <3>3. local' = [local EXCEPT ![c] = l]
      BY <1>1, <1>2, <2>1, <3>1
    <3> QED BY <1>3, <2>1, <3>2, <3>3
  <2>2. CASE s = "setCurrent"
    <3>1. PICK l : l = [local[c] EXCEPT !.prevProcess = c]
      OBVIOUS
    <3>2. /\ l \in LocalType /\ l.prevProcess = c /\ l.nextTask = local[c].nextTask
          /\ l.op = local[c].op /\ l.ch = local[c].ch /\ l.who = local[c].who
      BY <1>3, <3>1, SetPrevProcess
    <3>3. local' = [local EXCEPT ![c] = l]
      BY <1>1, <1>2, <2>2, <3>1
    <3> QED BY <1>1, <1>3, <2>2, <3>2, <3>3
  <2>3. CASE s \in {"prevent", "permit"}
    BY <1>1, <1>3, <2>3
  <2> QED BY <1>1, <2>1, <2>2, <2>3
<1>5. \A p \in Procs : /\ local'[p].op = local[p].op /\ local'[p].ch = local[p].ch
                       /\ local'[p].who = local[p].who
  BY <1>4
<1>6. s \in Plain
  BY <1>1 DEF Plain
<1> HIDE DEF s
<1>7. /\ code' \in [Procs -> Seq(Words)] /\ onCpu' = c /\ Point(c) = s
      /\ Point(c)' \in After(s)
      /\ \A p \in Procs \ {c} : code'[p] = code[p] /\ Point(p)' = Point(p)
      /\ code'[c] # <<>>
      /\ CodeInv' /\ CpuInv' /\ RingInv' /\ IdInv' /\ WhoInv'
  BY <1>1, <1>2, <1>4, <1>5, <1>6, PlainStep DEF procVars
<1>8. TypeInv'
  BY <1>1, <1>2, <1>4, <1>7 DEF TypeInv, linkVars, procVars
<1>9. CallInv'
  BY <1>1, <1>7 DEF CallInv, At, After, Point
<1>10. \A ch \in Channels : ~ListMayBeEmpty(ch)
  BY <1>1, <1>7 DEF ListMayBeEmpty
<1>11. WaitInv'
  <2>1. UNCHANGED <<channels, state, id, processesList>> /\ UNCHANGED Allocated
    BY <1>1 DEF procVars, Allocated
  <2> QED BY <1>1, <1>5, <1>7, <1>9, <1>10, <2>1, WaitFrame
<1> QED BY <1>7, <1>8, <1>11 DEF Inv

-----------------------------------------------------------------------------
\* What is left to show of a statement about the channel of the call.
LEMMA ChannelStep ==
    ASSUME Inv, NEW c \in Procs, c = onCpu,
           NEW s \in {"markSender", "offerValue", "markReceiver", "newList", "appendWaiter",
                      "passValue", "resetChannel"},
           NEW k, k \in ChannelType, ChannelStatement(s, k), UNCHANGED local,
           NEW h, h = local[c].ch
    PROVE  /\ onCpu' = c /\ Point(c) = s /\ Point(c)' \in After(s)
           /\ h \in Channels /\ channels'[h] = k /\ currentProcess = c
           /\ (/\ ChannelOk(h)' /\ CallInv'
               /\ \A p \in Allocated : local[p].ch = h /\ state[p] \in BlockedStates =>
                     Known(p)') => Inv'
<1>1. /\ At(s) /\ Advance /\ channels' = [channels EXCEPT ![h] = k]
      /\ UNCHANGED <<linkVars, procVars, cpuVars, received, local>>
  BY DEF ChannelStatement, Me
<1>2. TypeInv /\ CodeInv /\ WaitInv /\ currentProcess = c /\ Point(c) = s
  BY <1>1 DEF Inv, CpuInv, At
<1>3. h \in Channels
  BY <1>1, <1>2, PointOf DEF Sending, Receiving
<1>4. s \in Plain
  BY DEF Plain
<1>5. /\ code' \in [Procs -> Seq(Words)] /\ onCpu' = c
      /\ Point(c)' \in After(s)
      /\ \A p \in Procs \ {c} : code'[p] = code[p] /\ Point(p)' = Point(p)
      /\ code'[c] # <<>>
      /\ CodeInv' /\ CpuInv' /\ RingInv' /\ IdInv' /\ WhoInv'
  BY <1>1, <1>2, <1>4, PlainStep DEF procVars, cpuVars, TypeInv
<1>6. channels' \in [Channels -> ChannelType] /\ channels'[h] = k
  BY <1>1, <1>2, <1>3 DEF TypeInv
<1>7. TypeInv'
  BY <1>1, <1>2, <1>5, <1>6 DEF TypeInv, linkVars, procVars, cpuVars
<1>8. \A ch \in Channels \ {h} : channels'[ch] = channels[ch]
  BY <1>1, <1>2 DEF TypeInv
<1>9. /\ \A ch \in Channels \ {h} : ChannelOk(ch)'
      /\ \A p \in Allocated' :
            local[p].ch # h /\ state'[p] \in BlockedStates =>
               Known(p)' /\ local'[p].op \in {"send", "receive"} /\ code'[p] # <<>>
  BY <1>1, <1>5, <1>8, OtherChannels DEF procVars
<1>10. ASSUME ChannelOk(h)', CallInv',
              \A p \in Allocated : local[p].ch = h /\ state[p] \in BlockedStates => Known(p)'
       PROVE  WaitInv'
  <2>1. Allocated' = Allocated /\ Allocated \subseteq Procs
    BY <1>1, <1>2 DEF Allocated, procVars, TypeInv
  <2>2. ASSUME NEW p \in Allocated', state'[p] \in BlockedStates
        PROVE  Known(p)' /\ local'[p].op \in {"send", "receive"} /\ code'[p] # <<>>
    <3>1. CASE local[p].ch # h
      BY <1>9, <2>2, <3>1
    <3>2. CASE local[p].ch = h
      <4>1. p \in Allocated /\ state[p] \in BlockedStates
        BY <1>1, <2>1, <2>2 DEF procVars
      <4> QED BY <1>1, <1>2, <1>5, <1>10, <2>1, <3>2, <4>1 DEF WaitInv
    <3> QED BY <3>1, <3>2
  <2> QED BY <1>9, <1>10, <2>2 DEF WaitInv
<1> QED BY <1>2, <1>3, <1>5, <1>6, <1>7, <1>10 DEF Inv

LEMMA ChannelType_ ==
    ASSUME TypeInv, NEW h \in Channels
    PROVE  LET k == channels[h] IN
           /\ k \in ChannelType
           /\ \A st \in {"Unused", "Sender", "Receiver"} : [k EXCEPT !.state = st] \in ChannelType
           /\ \A v \in Values \cup {NoValue} :
                 /\ [k EXCEPT !.value = v] \in ChannelType
                 /\ \A i \in Nat : [k EXCEPT !.sendId = i, !.value = v] \in ChannelType
           /\ \A l \in Seq(Nat) : [k EXCEPT !.receive = l] \in ChannelType
  BY DEF TypeInv, ChannelType

LEMMA MarkSenderInv ==
    ASSUME Inv, NEW c \in Procs, c = onCpu, MarkSender
    PROVE  Inv'
<1>0. PICK h, k : h = local[c].ch /\ k = [channels[h] EXCEPT !.state = "Sender"]
  OBVIOUS
<1>1. ChannelStatement("markSender", k) /\ UNCHANGED local /\ At("markSender")
  BY <1>0 DEF MarkSender, ChannelStatement, Chan, Me
<1>2. TypeInv /\ CodeInv /\ WaitInv /\ Point(c) = "markSender"
  BY <1>1 DEF Inv, At
<1>3. h \in Channels
  BY <1>0, <1>2, PointOf DEF Sending
<1>4. k \in ChannelType /\ channels[h] \in ChannelType
  BY <1>0, <1>2, <1>3, ChannelType_
<1>5. channels[h].state = "Unused" /\ channels[h].receive = <<>>
  BY <1>0, <1>2, <1>3 DEF WaitInv, CallInv, ChannelOk, Chan, Me
<1>6. k.state = "Sender" /\ k.receive = <<>>
  BY <1>0, <1>4, <1>5 DEF ChannelType
<1>7. /\ onCpu' = c /\ Point(c)' \in After("markSender")
      /\ channels'[h] = k
      /\ (/\ ChannelOk(h)' /\ CallInv'
          /\ \A p \in Allocated : local[p].ch = h /\ state[p] \in BlockedStates =>
                     Known(p)') => Inv'
  BY <1>0, <1>1, <1>4, ChannelStep
<1>8. Me'.ch = h /\ Point(onCpu)' = "offerValue" /\ Chan' = k
  BY <1>0, <1>1, <1>7 DEF After, Me, Chan, Point
<1>9. ASSUME NEW p \in Allocated, local[p].ch = h, state[p] \in BlockedStates PROVE FALSE
  BY <1>2, <1>3, <1>5, <1>9 DEF WaitInv, Known, At
<1>10. ChannelOk(h)'
  BY <1>6, <1>7, <1>8 DEF ChannelOk, At
<1>11. CallInv'
  BY <1>1, <1>6, <1>8, <1>9 DEF CallInv, At, ChannelStatement, procVars, Allocated
<1> QED BY <1>7, <1>9, <1>10, <1>11

LEMMA OfferValueInv ==
    ASSUME Inv, NEW c \in Procs, c = onCpu, OfferValue
    PROVE  Inv'
<1>0. PICK h, k : /\ h = local[c].ch
                  /\ k = [channels[h] EXCEPT !.sendId = id[currentProcess], !.value = local[c].val]
  OBVIOUS
<1>1. ChannelStatement("offerValue", k) /\ UNCHANGED local /\ At("offerValue")
  BY <1>0 DEF OfferValue, ChannelStatement, Chan, Me
<1>2. TypeInv /\ CodeInv /\ WaitInv /\ IdInv /\ Point(c) = "offerValue"
  BY <1>1 DEF Inv, At
<1>3. h \in Channels
  BY <1>0, <1>2, PointOf DEF Sending, Receiving
<1>4. k \in ChannelType /\ channels[h] \in ChannelType
  <2>1. /\ id[currentProcess] \in Nat /\ local[c].val \in Values \cup {NoValue}
    BY <1>2 DEF Inv, CpuInv, At, TypeInv, LocalType
  <2> QED BY <1>0, <1>2, <1>3, <2>1, ChannelType_
<1>5. /\ channels[h].state = "Sender" /\ channels[h].receive = <<>> /\ currentProcess = c
      /\ \A p \in Allocated : local[p].ch = h => state[p] \notin BlockedStates
  BY <1>0, <1>2, <1>3 DEF Inv, CpuInv, WaitInv, CallInv, ChannelOk, Chan, Me, At
<1>6. k.state = "Sender" /\ k.receive = <<>> /\ k.sendId = id[c]
  BY <1>0, <1>4, <1>5 DEF ChannelType
<1>7. /\ onCpu' = c /\ Point(c)' \in After("offerValue")
      /\ channels'[h] = k
      /\ (/\ ChannelOk(h)' /\ CallInv'
          /\ \A p \in Allocated : local[p].ch = h /\ state[p] \in BlockedStates =>
                     Known(p)') => Inv'
  BY <1>0, <1>1, <1>4, ChannelStep
<1>8. /\ Me'.ch = h /\ Me' = local[c] /\ Point(onCpu)' = "blockWriting" /\ Chan' = k
      /\ UNCHANGED <<state, id, processesList, maxId, local>>
  BY <1>0, <1>1, <1>7 DEF After, Me, Chan, Point, ChannelStatement, procVars
<1>9. Waits(id[c], h, "send", "BlockedWriting", "blockWriting")'
  <2>1. c \in Allocated
    BY OnCpu
  <2>2. Process(id[c]) = c /\ id[c] \in 0 .. Len(processesList) - 1 /\ local[c].op = "send"
    BY <1>2, <2>1, ProcessOfId, PointOf DEF Sending, At
  <2> QED BY <1>0, <1>7, <1>8, <2>1, <2>2 DEF Waits, Process, Allocated, At
<1>10. ChannelOk(h)'
  BY <1>6, <1>7, <1>8, <1>9 DEF ChannelOk
<1>11. CallInv'
  BY <1>6, <1>7, <1>8 DEF CallInv, At
<1> QED BY <1>5, <1>7, <1>10, <1>11

LEMMA MarkReceiverInv ==
    ASSUME Inv, NEW c \in Procs, c = onCpu, MarkReceiver
    PROVE  Inv'
<1>0. PICK h, k : /\ h = local[c].ch
                  /\ k = [channels[h] EXCEPT !.state = "Receiver"]
  OBVIOUS
<1>1. ChannelStatement("markReceiver", k) /\ UNCHANGED local /\ At("markReceiver")
  BY <1>0 DEF MarkReceiver, ChannelStatement, Chan, Me
<1>2. TypeInv /\ CodeInv /\ WaitInv /\ IdInv /\ Point(c) = "markReceiver"
  BY <1>1 DEF Inv, At
<1>3. h \in Channels
  BY <1>0, <1>2, PointOf DEF Sending, Receiving
<1>4. k \in ChannelType /\ channels[h] \in ChannelType
  BY <1>0, <1>2, <1>3, ChannelType_
<1>5. channels[h].state = "Unused" /\ channels[h].receive = <<>>
  BY <1>0, <1>2, <1>3 DEF WaitInv, CallInv, ChannelOk, Chan, Me
<1>6. k.state = "Receiver" /\ k.receive = <<>>
  BY <1>0, <1>4, <1>5 DEF ChannelType
<1>7. /\ onCpu' = c /\ Point(c)' \in After("markReceiver")
      /\ channels'[h] = k
      /\ (/\ ChannelOk(h)' /\ CallInv'
          /\ \A p \in Allocated : local[p].ch = h /\ state[p] \in BlockedStates =>
                     Known(p)') => Inv'
  BY <1>0, <1>1, <1>4, ChannelStep
<1>8. /\ Me'.ch = h /\ Me' = local[c] /\ Point(onCpu)' = "newList" /\ Chan' = k
      /\ UNCHANGED <<state, id, processesList, maxId, local>>
  BY <1>0, <1>1, <1>7 DEF After, Me, Chan, Point, ChannelStatement, procVars
<1>9. ASSUME NEW p \in Allocated, local[p].ch = h, state[p] \in BlockedStates PROVE FALSE
  BY <1>2, <1>3, <1>5, <1>9 DEF WaitInv, Known, At
<1>10. ChannelOk(h)'
  BY <1>6, <1>7, <1>8 DEF ChannelOk, ListMayBeEmpty
<1>11. CallInv'
  BY <1>6, <1>8 DEF CallInv, At
<1> QED BY <1>7, <1>9, <1>10, <1>11

LEMMA NewListInv ==
    ASSUME Inv, NEW c \in Procs, c = onCpu, NewList
    PROVE  Inv'
<1>0. PICK h, k : /\ h = local[c].ch
                  /\ k = [channels[h] EXCEPT !.receive = <<>>]
  OBVIOUS
<1>1. ChannelStatement("newList", k) /\ UNCHANGED local /\ At("newList")
  BY <1>0 DEF NewList, ChannelStatement, Chan, Me
<1>2. TypeInv /\ CodeInv /\ WaitInv /\ IdInv /\ Point(c) = "newList"
  BY <1>1 DEF Inv, At
<1>3. h \in Channels
  BY <1>0, <1>2, PointOf DEF Sending, Receiving
<1>4. k \in ChannelType /\ channels[h] \in ChannelType
  <2>1. <<>> \in Seq(Nat)
    BY EmptySeq
  <2> QED BY <1>0, <1>2, <1>3, <2>1, ChannelType_
<1>5. channels[h].state = "Receiver" /\ channels[h].receive = <<>>
  BY <1>0, <1>2, <1>3 DEF WaitInv, CallInv, Chan, Me, At
<1>6. k.state = "Receiver" /\ k.receive = <<>>
  BY <1>0, <1>4, <1>5 DEF ChannelType
<1>7. /\ onCpu' = c /\ Point(c)' \in After("newList")
      /\ channels'[h] = k
      /\ (/\ ChannelOk(h)' /\ CallInv'
          /\ \A p \in Allocated : local[p].ch = h /\ state[p] \in BlockedStates =>
                     Known(p)') => Inv'
  BY <1>0, <1>1, <1>4, ChannelStep
<1>8. /\ Me'.ch = h /\ Me' = local[c] /\ Point(onCpu)' = "appendWaiter" /\ Chan' = k
      /\ UNCHANGED <<state, id, processesList, maxId, local>>
  BY <1>0, <1>1, <1>7 DEF After, Me, Chan, Point, ChannelStatement, procVars
<1>9. ASSUME NEW p \in Allocated, local[p].ch = h, state[p] \in BlockedStates PROVE FALSE
  BY <1>2, <1>3, <1>5, <1>9 DEF WaitInv, Known, At, Entries
<1>10. ChannelOk(h)'
  BY <1>6, <1>7, <1>8 DEF ChannelOk, ListMayBeEmpty
<1>11. CallInv'
  BY <1>6, <1>8 DEF CallInv, At
<1> QED BY <1>7, <1>9, <1>10, <1>11

LEMMA PassValueInv ==
    ASSUME Inv, NEW c \in Procs, c = onCpu, PassValue
    PROVE  Inv'
<1>0. PICK h, k : /\ h = local[c].ch
                  /\ k = [channels[h] EXCEPT !.value = local[c].val]
  OBVIOUS
<1>1. ChannelStatement("passValue", k) /\ UNCHANGED local /\ At("passValue")
  BY <1>0 DEF PassValue, ChannelStatement, Chan, Me
<1>2. TypeInv /\ CodeInv /\ WaitInv /\ IdInv /\ Point(c) = "passValue"
  BY <1>1 DEF Inv, At
<1>3. h \in Channels
  BY <1>0, <1>2, PointOf DEF Sending, Receiving
<1>4. k \in ChannelType /\ channels[h] \in ChannelType
  <2>1. local[c].val \in Values \cup {NoValue}
    BY <1>2 DEF TypeInv, LocalType
  <2> QED BY <1>0, <1>2, <1>3, <2>1, ChannelType_
<1>5. channels[h].state = "Receiver" /\ channels[h].receive # <<>> /\ ChannelOk(h)
  BY <1>0, <1>2, <1>3 DEF WaitInv, CallInv, Chan, Me
<1>6. k.state = channels[h].state /\ k.receive = channels[h].receive
  BY <1>0, <1>4 DEF ChannelType
<1>7. /\ onCpu' = c /\ Point(c)' \in After("passValue")
      /\ channels'[h] = k
      /\ (/\ ChannelOk(h)' /\ CallInv'
          /\ \A p \in Allocated : local[p].ch = h /\ state[p] \in BlockedStates =>
                     Known(p)') => Inv'
  BY <1>0, <1>1, <1>4, ChannelStep
<1>8. /\ Me'.ch = h /\ Me' = local[c] /\ Point(onCpu)' = "popWaiter" /\ Chan' = k
      /\ UNCHANGED <<state, id, processesList, maxId, local>>
  BY <1>0, <1>1, <1>7 DEF After, Me, Chan, Point, ChannelStatement, procVars
<1>9. ASSUME NEW p \in Allocated, local[p].ch = h, state[p] \in BlockedStates
      PROVE  Known(p)'
  BY <1>2, <1>3, <1>5, <1>6, <1>7, <1>8, <1>9 DEF WaitInv, Known, At
<1>10. ChannelOk(h)'
  <2>1. ASSUME NEW i \in 1 .. Len(k.receive)
        PROVE  Waits(k.receive[i], h, "receive", "BlockedReading", "blockReading")'
    <3>1. Waits(k.receive[i], h, "receive", "BlockedReading", "blockReading")
      BY <1>5, <1>6 DEF ChannelOk
    <3> QED BY <1>2, <1>7, <1>8, <3>1, WaitsKept, OnCpu DEF At
  <2> QED BY <1>5, <1>6, <1>7, <2>1 DEF ChannelOk
<1>11. CallInv'
  BY <1>5, <1>6, <1>8 DEF CallInv, At
<1> QED BY <1>7, <1>9, <1>10, <1>11

LEMMA ResetChannelInv ==
    ASSUME Inv, NEW c \in Procs, c = onCpu, ResetChannel
    PROVE  Inv'
<1>0. PICK h, k : h = local[c].ch /\ k = [channels[h] EXCEPT !.state = "Unused"]
  OBVIOUS
<1>1. ChannelStatement("resetChannel", k) /\ UNCHANGED local /\ At("resetChannel")
  BY <1>0 DEF ResetChannel, ChannelStatement, Chan, Me
<1>2. TypeInv /\ CodeInv /\ WaitInv /\ IdInv /\ Point(c) = "resetChannel"
  BY <1>1 DEF Inv, At
<1>3. h \in Channels
  BY <1>0, <1>2, PointOf DEF Sending, Receiving
<1>4. k \in ChannelType /\ channels[h] \in ChannelType
  BY <1>0, <1>2, <1>3, ChannelType_
<1>5. channels[h].state = "Receiver" /\ channels[h].receive = <<>> /\ ChannelOk(h)
  BY <1>0, <1>2, <1>3 DEF WaitInv, CallInv, Chan, Me
<1>6. k.receive = <<>> /\ k.state = "Unused"
  BY <1>0, <1>4, <1>5 DEF ChannelType
<1>7. /\ onCpu' = c /\ Point(c)' \in After("resetChannel")
      /\ channels'[h] = k
      /\ (/\ ChannelOk(h)' /\ CallInv'
          /\ \A p \in Allocated : local[p].ch = h /\ state[p] \in BlockedStates =>
                     Known(p)') => Inv'
  BY <1>0, <1>1, <1>4, ChannelStep
<1>8. /\ Me'.ch = h /\ Me' = local[c] /\ Point(onCpu)' = "freeList" /\ Chan' = k
      /\ UNCHANGED <<state, id, processesList, maxId, local>>
  BY <1>0, <1>1, <1>7 DEF After, Me, Chan, Point, ChannelStatement, procVars
<1>9. ASSUME NEW p \in Allocated, local[p].ch = h, state[p] \in BlockedStates
      PROVE  Known(p)'
  BY <1>2, <1>5, <1>9 DEF WaitInv, Known, At, Entries
<1>10. ChannelOk(h)'
  BY <1>6, <1>7 DEF ChannelOk
<1>11. CallInv'
  BY <1>6, <1>8 DEF CallInv, At
<1> QED BY <1>7, <1>9, <1>10, <1>11

\* The test of the list, and freeing a list that is empty: no channel changes.
LEMMA EmptyListStep ==
    ASSUME Inv, NEW c \in Procs, c = onCpu, TestEmpty \/ FreeList
    PROVE  /\ Point(c) \in {"testEmpty", "freeList"} /\ At(Point(c))
           /\ UNCHANGED <<linkVars, procVars, cpuVars, preventTaskSwitch, channels,
                          received, local>>
           /\ Advance \/ (Point(c) = "testEmpty" /\ PassBy)
           /\ Point(c) = "testEmpty" => IF Chan.receive = <<>> THEN Advance ELSE PassBy
           /\ Point(c)' = IF Point(c) = "testEmpty" /\ Chan.receive = <<>> THEN "resetChannel"
                                                                           ELSE "readNext"
           /\ Me.ch \in Channels /\ Me.op = "send"
           /\ Point(c) = "freeList" => Chan.state = "Unused" /\ Chan.receive = <<>>
<1>1. TypeInv /\ CodeInv /\ WaitInv
  BY DEF Inv
<1>2. Point(c) \in {"testEmpty", "freeList"} /\ At(Point(c))
  BY DEF TestEmpty, FreeList, ChannelStatement, At
<1>3. Me.ch \in Channels /\ Me.op = "send"
  BY <1>1, <1>2, PointOf DEF Sending, Me
<1>4. Point(c) = "freeList" => Chan.state = "Unused" /\ Chan.receive = <<>>
  BY <1>1, <1>3 DEF WaitInv, CallInv, ChannelOk, Chan, At
<1>5. /\ UNCHANGED <<linkVars, procVars, cpuVars, preventTaskSwitch, received, local>>
      /\ Point(c) = "testEmpty" => (IF Chan.receive = <<>> THEN Advance ELSE PassBy)
      /\ Point(c) = "testEmpty" => UNCHANGED channels
      /\ Point(c) = "freeList" => /\ channels' = [channels EXCEPT ![Me.ch] =
                                                    [Chan EXCEPT !.receive = <<>>]]
                                  /\ Advance
  BY <1>2 DEF TestEmpty, FreeList, ChannelStatement, At
<1>6. UNCHANGED channels
  <2>1. CASE Point(c) = "freeList"
    <3>1. Chan \in ChannelType /\ Chan.receive = <<>>
      BY <1>1, <1>3, <1>4, <2>1 DEF TypeInv, Chan
    <3>2. [Chan EXCEPT !.receive = <<>>] = Chan
      BY <3>1 DEF ChannelType
    <3> QED BY <1>1, <1>3, <1>5, <2>1, <3>2 DEF TypeInv, Chan
  <2> QED BY <1>2, <1>5, <2>1
<1>7. /\ Point(c)' \in After(Point(c))
      /\ Point(c) = "testEmpty" => /\ Advance => Point(c)' = "resetChannel"
                                   /\ PassBy => Point(c)' = "readNext"
  <2>1. Allocated' = Allocated /\ onCpu' = onCpu /\ UNCHANGED local
    BY <1>5 DEF Allocated, procVars, cpuVars
  <2>2. Point(c) \in Words \ {"return", "readValue", "dead", "switchTask"}
    BY <1>2 DEF Words, Rest
  <2>3. Advance \/ (Point(c) = "testEmpty" /\ PassBy)
    BY <1>2, <1>5
  <2> QED BY <1>2, <2>1, <2>2, <2>3, Moves
<1>8. Point(c)' = IF Point(c) = "testEmpty" /\ Chan.receive = <<>> THEN "resetChannel"
                                                                    ELSE "readNext"
  BY <1>2, <1>5, <1>7 DEF After
<1> QED BY <1>2, <1>3, <1>4, <1>5, <1>6, <1>8

LEMMA EmptyListInv ==
    ASSUME Inv, NEW c \in Procs, c = onCpu, TestEmpty \/ FreeList
    PROVE  Inv'
<1> PICK s : s = Point(c)
  OBVIOUS
<1>1. /\ s \in {"testEmpty", "freeList"} /\ At(s)
      /\ UNCHANGED <<linkVars, procVars, cpuVars, preventTaskSwitch, channels, received, local>>
      /\ Advance \/ (s = "testEmpty" /\ PassBy)
      /\ Point(c)' = IF s = "testEmpty" /\ Chan.receive = <<>> THEN "resetChannel" ELSE "readNext"
      /\ Me.ch \in Channels
  BY EmptyListStep
<1>2. TypeInv /\ CodeInv /\ WaitInv /\ CpuInv /\ currentProcess = c
  BY <1>1 DEF Inv, CpuInv, At
<1>3. s \in Plain
  BY <1>1 DEF Plain
<1>4. /\ code' \in [Procs -> Seq(Words)] /\ onCpu' = c
      /\ \A p \in Procs \ {c} : code'[p] = code[p] /\ Point(p)' = Point(p)
      /\ code'[c] # <<>>
      /\ CodeInv' /\ CpuInv' /\ RingInv' /\ IdInv' /\ WhoInv'
  BY <1>1, <1>2, <1>3, PlainStep DEF procVars, cpuVars, TypeInv
<1>5. TypeInv'
  BY <1>1, <1>2, <1>4 DEF TypeInv, linkVars, procVars, cpuVars
<1>6. Point(onCpu)' = Point(c)' /\ Me' = Me /\ Chan' = Chan
  BY <1>1, <1>4 DEF Point, Me, Chan, cpuVars
<1>7. CallInv'
  BY <1>1, <1>2, <1>6 DEF CallInv, WaitInv, At
<1>8. \A ch \in Channels : channels[ch].receive = <<>> /\ ListMayBeEmpty(ch) =>
                              ListMayBeEmpty(ch)'
  BY <1>1, <1>6 DEF ListMayBeEmpty, Chan
<1>9. WaitInv'
  <2>1. UNCHANGED <<channels, state, id, processesList, local>> /\ UNCHANGED Allocated
    BY <1>1 DEF procVars, Allocated
  <2> QED BY <1>1, <1>4, <1>7, <1>8, <2>1, WaitFrame
<1> QED BY <1>4, <1>5, <1>9 DEF Inv

LEMMA AppendWaiterInv ==
    ASSUME Inv, NEW c \in Procs, c = onCpu, AppendWaiter
    PROVE  Inv'
<1>0. PICK h, k : /\ h = local[c].ch
                  /\ k = [channels[h] EXCEPT !.receive = Append(channels[h].receive, id[currentProcess])]
  OBVIOUS
<1>1. ChannelStatement("appendWaiter", k) /\ UNCHANGED local /\ At("appendWaiter")
  BY <1>0 DEF AppendWaiter, ChannelStatement, Chan, Me
<1>2. TypeInv /\ CodeInv /\ WaitInv /\ IdInv /\ Point(c) = "appendWaiter"
  BY <1>1 DEF Inv, At
<1>3. h \in Channels
  BY <1>0, <1>2, PointOf DEF Sending, Receiving
<1>4. PICK q, r : q = channels[h].receive /\ r = Append(q, id[c])
  OBVIOUS
<1>5. /\ channels[h].state = "Receiver" /\ ChannelOk(h) /\ currentProcess = c
      /\ state[c] \notin BlockedStates /\ c \in Allocated
  BY <1>0, <1>2, <1>3, OnCpu DEF Inv, CpuInv, WaitInv, CallInv, Chan, Me, At
<1>6. /\ channels[h] \in ChannelType /\ id[c] \in Nat /\ q \in Seq(Nat)
  BY <1>2, <1>3, <1>4 DEF TypeInv, ChannelType
<1>7. PICK n \in Nat : n = Len(q)
  BY <1>6, LenProperties
<1>8. /\ r \in Seq(Nat) /\ Len(r) = n + 1 /\ r[n + 1] = id[c]
      /\ \A i \in 1 .. n : r[i] = q[i]
      /\ r # <<>> /\ DOMAIN r = 1 .. n + 1 /\ DOMAIN q = 1 .. n
  <2>1. /\ r \in Seq(Nat) /\ Len(r) = Len(q) + 1 /\ r[Len(q) + 1] = id[c]
        /\ \A i \in 1 .. Len(q) : r[i] = q[i]
    BY <1>4, <1>6, AppendProperties
  <2>2. DOMAIN r = 1 .. Len(r) /\ DOMAIN q = 1 .. Len(q)
    BY <1>6, <2>1, LenProperties
  <2>3. r # <<>>
    BY <1>7, <2>1, EmptySeq
  <2> QED BY <1>7, <2>1, <2>2, <2>3
<1>9. k = [channels[h] EXCEPT !.receive = r]
  BY <1>0, <1>4, <1>5
<1>10. k \in ChannelType /\ k.state = "Receiver" /\ k.receive = r
  BY <1>2, <1>3, <1>5, <1>6, <1>8, <1>9, ChannelType_ DEF ChannelType
<1>11. /\ onCpu' = c /\ Point(c)' \in After("appendWaiter")
       /\ channels'[h] = k
       /\ (/\ ChannelOk(h)' /\ CallInv'
           /\ \A p \in Allocated : local[p].ch = h /\ state[p] \in BlockedStates =>
                      Known(p)') => Inv'
  BY <1>0, <1>1, <1>10, ChannelStep
<1>12. /\ Me'.ch = h /\ Me' = local[c] /\ Point(onCpu)' = "blockReading" /\ Chan' = k
       /\ UNCHANGED <<state, id, processesList, maxId, local>>
  BY <1>0, <1>1, <1>11 DEF After, Me, Chan, Point, ChannelStatement, procVars
<1>13. Waits(r[n + 1], h, "receive", "BlockedReading", "blockReading")'
  <2>1. Process(id[c]) = c /\ id[c] \in 0 .. Len(processesList) - 1 /\ local[c].op = "receive"
    BY <1>2, <1>5, ProcessOfId, PointOf DEF Receiving, At
  <2> QED BY <1>0, <1>5, <1>8, <1>11, <1>12, <2>1 DEF Waits, Process, Allocated, At
<1>14. ASSUME NEW i \in 1 .. n
       PROVE  /\ Waits(r[i], h, "receive", "BlockedReading", "blockReading")'
              /\ r[i] # id[c]
  <2>1. Waits(r[i], h, "receive", "BlockedReading", "blockReading")
    BY <1>4, <1>5, <1>7, <1>8 DEF ChannelOk
  <2>2. Waits(r[i], h, "receive", "BlockedReading", "blockReading")'
    BY <1>2, <1>11, <1>12, <2>1, WaitsKept, OnCpu DEF At
  <2>3. Process(id[c]) = c
    BY <1>2, <1>5, ProcessOfId
  <2>4. state[Process(r[i])] = "BlockedReading"
    BY <1>2, <2>1 DEF Waits, At
  <2> QED BY <1>5, <2>2, <2>3, <2>4 DEF BlockedStates
<1>15. ChannelOk(h)'
  <2>1. \A i \in 1 .. Len(r) : i = n + 1 \/ i \in 1 .. n
    BY <1>8
  <2>2. ASSUME NEW i \in 1 .. Len(r)
        PROVE  Waits(r[i], h, "receive", "BlockedReading", "blockReading")'
    <3>1. CASE i = n + 1
      BY <1>8, <1>13, <3>1 DEF Waits
    <3>2. CASE i \in 1 .. n
      BY <1>14, <3>2
    <3> QED BY <2>1, <3>1, <3>2
  <2>3. ASSUME NEW i \in 1 .. Len(r), NEW j \in 1 .. Len(r), r[i] = r[j]
        PROVE  i = j
    <3>1. CASE i \in 1 .. n /\ j \in 1 .. n
      <4>1. \A a, b \in 1 .. n : q[a] = q[b] => a = b
        <5>1. \A a, b \in 1 .. Len(channels[h].receive) :
                 channels[h].receive[a] = channels[h].receive[b] => a = b
          BY <1>5 DEF ChannelOk
        <5> QED BY <1>4, <1>7, <5>1
      <4>2. q[i] = q[j]
        BY <1>8, <2>3, <3>1
      <4> QED BY <3>1, <4>1, <4>2
    <3>2. CASE i = n + 1 \/ j = n + 1
      BY <1>8, <1>14, <2>1, <2>3, <3>2
    <3> QED BY <2>1, <3>1, <3>2
  <2> QED BY <1>8, <1>10, <1>11, <2>2, <2>3 DEF ChannelOk
<1>16. ASSUME NEW p \in Allocated, local[p].ch = h, state[p] \in BlockedStates
       PROVE  Known(p)'
  <2>1. /\ state[p] = "BlockedReading" /\ local[p].op = "receive"
        /\ id[p] \in Entries(q)
    BY <1>2, <1>4, <1>5, <1>16 DEF WaitInv, Known, At
  <2>2. id[p] \in Entries(r)
    BY <1>8, <2>1 DEF Entries
  <2> QED BY <1>3, <1>10, <1>11, <1>12, <1>16, <2>1, <2>2 DEF Known, Entries
<1>17. CallInv'
  <2>1. id[c] \in Entries(r)
    BY <1>8 DEF Entries
  <2> QED BY <1>10, <1>11, <1>12, <2>1 DEF CallInv, At, Entries
<1> QED BY <1>11, <1>15, <1>16, <1>17

\* The process marks itself as one that waits.
LEMMA BlockInv ==
    ASSUME Inv, NEW c \in Procs, c = onCpu, BlockWriting \/ BlockReading
    PROVE  Inv'
<1>0. PICK h, s, st : /\ h = local[c].ch /\ s = Point(c)
                      /\ st = IF s = "blockWriting" THEN "BlockedWriting" ELSE "BlockedReading"
  OBVIOUS
<1>1. /\ At(s) /\ s \in {"blockWriting", "blockReading"} /\ Advance
      /\ state' = [state EXCEPT ![currentProcess] = st]
      /\ UNCHANGED <<linkVars, id, processesList, maxId, cpuVars, channels, received, local>>
  BY <1>0 DEF BlockWriting, BlockReading, StateStatement, At
<1>2. TypeInv /\ CodeInv /\ WaitInv /\ IdInv /\ currentProcess = c
  BY <1>0, <1>1 DEF Inv, CpuInv, At
<1>3. h \in Channels /\ st \in BlockedStates
  BY <1>0, <1>1, <1>2, PointOf DEF Sending, Receiving, BlockedStates
<1>4. state'[c] = st /\ \A p \in Procs \ {c} : state'[p] = state[p]
  BY <1>1, <1>2 DEF TypeInv
<1>5. /\ code' \in [Procs -> Seq(Words)] /\ onCpu' = c
      /\ Point(c)' \in After(s)
      /\ \A p \in Procs \ {c} : code'[p] = code[p] /\ Point(p)' = Point(p)
      /\ code'[c] # <<>>
      /\ CodeInv' /\ CpuInv' /\ RingInv' /\ IdInv' /\ WhoInv'
  <2>1. s \in Plain
    BY <1>1 DEF Plain
  <2> QED BY <1>1, <1>2, <1>3, <1>4, <2>1, PlainStep DEF cpuVars, TypeInv
<1>6. TypeInv'
  BY <1>1, <1>2, <1>3, <1>5 DEF TypeInv, linkVars, cpuVars, BlockedStates
<1>7. Point(onCpu)' = "prevent"
  BY <1>1, <1>5 DEF After, Point
<1>8. /\ \A ch \in Channels \ {h} : ChannelOk(ch)'
      /\ \A p \in Allocated' :
            local[p].ch # h /\ state'[p] \in BlockedStates =>
               Known(p)' /\ local'[p].op \in {"send", "receive"} /\ code'[p] # <<>>
  <2>1. \A p \in Procs : local[p].ch # h => state'[p] = state[p]
    BY <1>0, <1>4
  <2> QED BY <1>0, <1>1, <1>5, <2>1, OtherChannels
<1>9. PICK k : k = channels[h] /\ k = Chan
  BY <1>0 DEF Chan, Me
<1>10. /\ ChannelOk(h) /\ channels' = channels /\ c \in Allocated
       /\ s = "blockWriting" => /\ k.state = "Sender" /\ k.sendId = id[c]
                                /\ local[c].op = "send"
       /\ s = "blockReading" => /\ k.state = "Receiver" /\ id[c] \in Entries(k.receive)
                                /\ local[c].op = "receive"
  BY <1>0, <1>1, <1>2, <1>3, <1>9, OnCpu, PointOf DEF WaitInv, CallInv, At, Sending, Receiving
<1>11. ASSUME NEW pid, NEW op, NEW w \in {"blockWriting", "blockReading"},
              NEW o, o = (IF w = "blockWriting" THEN "BlockedWriting" ELSE "BlockedReading"),
              op = (IF w = "blockWriting" THEN "send" ELSE "receive"),
              Waits(pid, h, op, o, w)
       PROVE  Waits(pid, h, op, o, w)'
  <2>1. /\ Process(pid)' = Process(pid) /\ Allocated' = Allocated /\ Process(pid) \in Allocated
        /\ UNCHANGED <<id, processesList, local>>
    BY <1>1, <1>11 DEF Process, Allocated, Waits
  <2>2. state'[Process(pid)] = o
    <3>1. CASE Process(pid) = c
      BY <1>0, <1>1, <1>4, <1>10, <1>11, <3>1 DEF Waits
    <3>2. CASE Process(pid) # c
      BY <1>4, <1>11, <2>1, <3>2, OnCpu DEF Waits
    <3> QED BY <3>1, <3>2
  <2> QED BY <1>11, <2>1, <2>2 DEF Waits
<1>12. ChannelOk(h)'
  <2>1. ~At("offerValue") /\ (k.state = "Receiver" => k.receive # <<>>)
    BY <1>0, <1>1, <1>9, <1>10 DEF At, ChannelOk, ListMayBeEmpty, Entries
  <2>2. k.state = "Sender" => Waits(k.sendId, h, "send", "BlockedWriting", "blockWriting")'
    BY <1>9, <1>10, <1>11, <2>1 DEF ChannelOk
  <2>3. ASSUME NEW i \in 1 .. Len(k.receive)
        PROVE  Waits(k.receive[i], h, "receive", "BlockedReading", "blockReading")'
    <3>1. Waits(k.receive[i], h, "receive", "BlockedReading", "blockReading")
      BY <1>9, <1>10 DEF ChannelOk
    <3> QED BY <1>11, <3>1
  <2> QED BY <1>9, <1>10, <2>1, <2>2, <2>3 DEF ChannelOk
<1>13. ASSUME NEW p \in Allocated', local[p].ch = h, state'[p] \in BlockedStates
       PROVE  Known(p)' /\ local'[p].op \in {"send", "receive"} /\ code'[p] # <<>>
  <2>1. p \in Allocated /\ Allocated \subseteq Procs /\ UNCHANGED <<id, processesList, local>>
    BY <1>1, OnCpu DEF Allocated
  <2>2. CASE p = c
    <3>1. local'[c] = local[c] /\ id'[c] = id[c] /\ channels'[h] = k /\ code'[c] # <<>>
      BY <1>5, <1>9, <1>10, <2>1
    <3>2. CASE s = "blockWriting"
      BY <1>0, <1>3, <1>4, <1>10, <2>2, <3>1, <3>2 DEF Known
    <3>3. CASE s = "blockReading"
      <4>1. id'[c] \in Entries(k.receive)'
        BY <1>10, <3>1, <3>3 DEF Entries
      <4> QED BY <1>0, <1>3, <1>4, <1>10, <2>2, <3>1, <3>3, <4>1 DEF Known
    <3> QED BY <1>1, <3>2, <3>3
  <2>3. CASE p # c
    <3>1. Known(p) /\ local[p].op \in {"send", "receive"} /\ code[p] # <<>> /\ ~At("wake")
      BY <1>0, <1>1, <1>2, <1>4, <1>13, <2>1, <2>3 DEF WaitInv, At
    <3> QED BY <1>4, <1>5, <1>10, <2>1, <2>3, <3>1 DEF Known
  <2> QED BY <2>2, <2>3
<1>14. CallInv'
  BY <1>7 DEF CallInv, At
<1>15. WaitInv'
  <2>1. UNCHANGED local
    BY <1>1
  <2> QED BY <1>8, <1>12, <1>13, <1>14 DEF WaitInv
<1> QED BY <1>5, <1>6, <1>15 DEF Inv

-----------------------------------------------------------------------------
\* A call on its way to link a process w in: it picks w, wakes it, sets its links.
LEMMA LinkStep ==
    ASSUME Inv, NEW c \in Procs, c = onCpu,
           NEW s \in {"popWaiter", "markUnused", "wake", "linkOut", "linkBack"}, At(s), Advance,
           UNCHANGED <<id, processesList, maxId, cpuVars>>,
           \A p \in Procs : local'[p].op = local[p].op /\ local'[p].ch = local[p].ch,
           \A p \in Procs \ {c} : local'[p].who = local[p].who,
           NEW w \in Allocated \ {c}, local'[c].who = w,
           IF s \in {"popWaiter", "markUnused"} THEN local[c].who = NULL /\ state[w] \in BlockedStates
                                                ELSE local[c].who = w,
           \A p \in Procs \ {w} : state'[p] = state[p],
           IF s = "wake" THEN state'[w] = "Runnable" ELSE state'[w] = state[w]
    PROVE  /\ code' \in [Procs -> Seq(Words)] /\ onCpu' = c /\ Point(c) = s /\ Me'.who = w
           /\ Point(c)' \in After(s) /\ Point(onCpu)' = Point(c)' /\ code'[c] # <<>>
           /\ \A p \in Procs \ {c} : code'[p] = code[p] /\ Point(p)' = Point(p)
           /\ Queue' = Queue /\ w \notin Queue
           /\ CodeInv' /\ CpuInv' /\ IdInv'
           /\ (/\ local[w].op # "exit"
               /\ s \in {"popWaiter", "markUnused"} =>
                     /\ local'[w].ch = Me'.ch
                     /\ Chan'.state = "Sender" => Chan'.sendId # id'[w]
                     /\ id'[w] \notin Entries(Chan'.receive)) => WhoInv'
<1>1. /\ code' \in [Procs -> Seq(Words)] /\ CodeInv'
      /\ onCpu' = c /\ Point(c) = s /\ Point(c)' \in After(s) /\ code'[c] # <<>>
      /\ \A p \in Procs \ {c} : code'[p] = code[p] /\ Point(p)' = Point(p)
  BY Moves DEF Words, Linking, Leaving, Rest, Allocated, cpuVars
<1>2. /\ Allocated' = Allocated /\ Allocated \subseteq Procs /\ c \in Queue
      /\ currentProcess = c
  <2>1. currentProcess = c
    BY <1>1 DEF Inv, CpuInv, At
  <2> QED BY <1>1, <2>1, OnCpu DEF Allocated
<1>3. Me' = local'[c] /\ Me = local[c] /\ Point(onCpu)' = Point(c)'
  BY <1>1 DEF Me, Point
<1>4. Point(c) \in Linking /\ Point(c)' \in Linking \ {"numberIt", "appendIt", "passValue", "popWaiter", "markUnused"}
  BY <1>1 DEF Linking, After
<1>5. Queue' = Queue /\ w \notin Queue
  <2>1. ASSUME s \in {"popWaiter", "markUnused"} PROVE ~(Point(w) \in Leaving \/ Awake(w))
    BY <1>1, <1>2, <2>1 DEF Inv, CodeInv, Parked, SafeWindows, Leaving, Awake
  <2>2. \A p \in Procs \ {w} : Point(p) \in Leaving \/ Awake(p) <=> Point(p)' \in Leaving \/ Awake(p)'
    <3>1. ~(Point(c) \in Leaving) /\ ~(Point(c)' \in Leaving)
      BY <1>4 DEF Linking, Leaving
    <3> QED BY <1>1, <3>1 DEF Awake
  <2>3. \A p \in Allocated : p \in Queue <=> p # w /\ (Point(p) \in Leaving \/ Awake(p))
    <3>1. CASE s \in {"popWaiter", "markUnused"}
      <4>1. local[c].who \notin Procs
        BY <3>1, PreemptAssumption
      <4> QED BY <1>2, <1>3, <2>1, <3>1, <4>1 DEF Queue
    <3>2. CASE s \notin {"popWaiter", "markUnused"}
      BY <1>3, <1>4, <3>2 DEF Queue
    <3> QED BY <3>1, <3>2
  <2>4. \A p \in Allocated : p \in Queue' <=> p # w /\ (Point(p)' \in Leaving \/ Awake(p)')
    BY <1>2, <1>3, <1>4 DEF Queue
  <2>5. Queue \subseteq Allocated /\ Queue' \subseteq Allocated
    BY <1>2 DEF Queue
  <2> QED BY <1>2, <2>2, <2>3, <2>4, <2>5
<1>6. CpuInv'
  <2>1. CpuInv /\ state'[c] = state[c] /\ state[c] \notin BlockedStates
    BY <1>1 DEF Inv, CpuInv
  <2>2. Point(c)' \notin {"prevent", "unlinkBack", "unlinkForward", "permit", "readNext", "setCurrent", "switchTask"}
    BY <1>4 DEF Linking
  <2>3. \A p \in Procs \ {onCpu'} : stackTop'[p] = p
    BY <2>1 DEF CpuInv, cpuVars
  <2>4. currentProcess' = c
    BY <1>2 DEF cpuVars
  <2> QED BY <1>1, <1>2, <1>3, <1>5, <2>1, <2>2, <2>3, <2>4 DEF CpuInv, At, cpuVars
<1>7. IdInv'
  BY <1>1, <1>3, <1>4 DEF Inv, IdInv, At
<1>8. ASSUME local[w].op # "exit",
             s \in {"popWaiter", "markUnused"} =>
                           /\ local'[w].ch = Me'.ch
                           /\ Chan'.state = "Sender" => Chan'.sendId # id'[w]
                           /\ id'[w] \notin Entries(Chan'.receive)
      PROVE  WhoInv'
  <2>1. ASSUME NEW p \in Procs, Point(p)' \in Creating
        PROVE  /\ local'[p].who \in Procs \ Allocated'
               /\ \A q \in Procs \ {p} : local'[q].who # local'[p].who
    <3>1. p # c /\ Point(p) \in Creating
      BY <1>1, <1>4, <2>1 DEF Creating
    <3> QED BY <1>1, <1>2, <3>1 DEF Inv, WhoInv
  <2>2. /\ w \in Allocated' /\ local'[w].op # "exit"
    BY <1>2, <1>8
  <2>3. Point(c)' \in {"linkOut", "linkBack", "linkIn"} => state'[w] \notin BlockedStates
    <3>1. Point(c)' \in {"linkOut", "linkBack", "linkIn"} => s \in {"wake", "linkOut", "linkBack"}
      BY <1>1 DEF After
    <3> QED BY <1>1, <1>3, <3>1 DEF Inv, WhoInv, BlockedStates
  <2>4. Point(c)' = "wake" => s \in {"popWaiter", "markUnused"}
    BY <1>1 DEF After
  <2> QED BY <1>1, <1>3, <1>4, <1>8, <2>1, <2>2, <2>3, <2>4 DEF WhoInv, At
<1> QED BY <1>1, <1>3, <1>5, <1>6, <1>7, <1>8

\* The links do not change, and no process is in the middle of changing them.
LEMMA RingSame ==
    ASSUME Inv, UNCHANGED <<linkVars, onCpu>>, Queue' = Queue,
           Point(onCpu) \notin {"linkIn", "unlinkForward"},
           Point(onCpu)' \notin {"linkBack", "linkIn", "unlinkForward"},
           Point(onCpu)' \notin Leaving
    PROVE  RingInv'
  BY DEF Inv, RingInv, At, linkVars

LEMMA WakeInv ==
    ASSUME Inv, NEW c \in Procs, c = onCpu, Wake
    PROVE  Inv'
<1>0. PICK h, w : h = local[c].ch /\ w = local[c].who
  OBVIOUS
<1>1. /\ At("wake") /\ Advance /\ state' = [state EXCEPT ![w] = "Runnable"]
      /\ UNCHANGED <<linkVars, id, processesList, maxId, cpuVars, channels, received, local>>
  BY <1>0 DEF Wake, StateStatement, Me
<1>2. TypeInv /\ CodeInv /\ WaitInv /\ IdInv /\ Point(c) = "wake"
  BY <1>1 DEF Inv, At
<1>3. /\ w \in Allocated \ {c} /\ Allocated \subseteq Procs
      /\ local[w].op # "exit" /\ local[w].ch = h /\ h \in Channels
      /\ channels[h].state = "Sender" => channels[h].sendId # id[w]
      /\ id[w] \notin Entries(channels[h].receive)
  BY <1>0, <1>1, <1>2, OnCpu, PointOf DEF Inv, WhoInv, Me, Chan
<1>4. state'[w] = "Runnable" /\ \A p \in Procs \ {w} : state'[p] = state[p]
  BY <1>1, <1>2, <1>3 DEF TypeInv
<1>5. /\ code' \in [Procs -> Seq(Words)] /\ onCpu' = c /\ Me'.who = w
      /\ Point(onCpu)' = "linkOut" /\ code'[c] # <<>>
      /\ \A p \in Procs \ {c} : code'[p] = code[p] /\ Point(p)' = Point(p)
      /\ Queue' = Queue
      /\ CodeInv' /\ CpuInv' /\ IdInv' /\ WhoInv'
  <2>1. local'[c].who = w /\ local[c].who = w
    BY <1>0, <1>1
  <2> QED BY <1>1, <1>3, <1>4, <2>1, LinkStep DEF After
<1>6. TypeInv'
  BY <1>1, <1>2, <1>3, <1>5 DEF TypeInv, linkVars, cpuVars, BlockedStates
<1>7. RingInv'
  BY <1>1, <1>2, <1>5, RingSame DEF cpuVars, Leaving
<1>8. /\ \A ch \in Channels \ {h} : ChannelOk(ch)'
      /\ \A p \in Allocated' :
            local[p].ch # h /\ state'[p] \in BlockedStates =>
               Known(p)' /\ local'[p].op \in {"send", "receive"} /\ code'[p] # <<>>
  <2>1. \A p \in Procs : local[p].ch # h => state'[p] = state[p]
    BY <1>3, <1>4
  <2> QED BY <1>0, <1>1, <1>5, <2>1, OtherChannels
<1>9. ChannelOk(h) /\ Allocated' = Allocated /\ (local[c].op = "send" => channels[h].state = "Receiver")
  BY <1>0, <1>1, <1>2, <1>3 DEF WaitInv, CallInv, Allocated, Me, Chan
<1>10. ASSUME NEW pid, pid # id[w], NEW op, NEW st, NEW about \in {"blockWriting", "blockReading"},
              Waits(pid, h, op, st, about)
       PROVE  Waits(pid, h, op, st, about)'
  <2>1. Process(pid) # w /\ Process(pid) \in Procs
    BY <1>2, <1>3, <1>10, ProcessOfId DEF Waits
  <2> QED BY <1>1, <1>2, <1>3, <1>4, <1>5, <1>10, <2>1, WaitsKept DEF At
<1>11. ChannelOk(h)'
  <2>1. \A i \in 1 .. Len(channels[h].receive) : channels[h].receive[i] # id[w]
    BY <1>2, <1>3, LenProperties DEF Entries, TypeInv, ChannelType
  <2>2. ListMayBeEmpty(h) => ListMayBeEmpty(h)'
    BY <1>1, <1>5, <1>2 DEF ListMayBeEmpty, Me
  <2>3. channels'[h] = channels[h] /\ ~At("offerValue")
    BY <1>1 DEF At
  <2> QED BY <1>3, <1>9, <1>10, <2>1, <2>2, <2>3 DEF ChannelOk
<1>12. ASSUME NEW p \in Allocated', local[p].ch = h, state'[p] \in BlockedStates
       PROVE  Known(p)' /\ local'[p].op \in {"send", "receive"} /\ code'[p] # <<>>
  <2>1. p # w /\ p \in Allocated /\ state'[p] = state[p] /\ UNCHANGED <<id, local, channels>>
    BY <1>1, <1>3, <1>4, <1>9, <1>12 DEF BlockedStates
  <2>2. Known(p) /\ local[p].op \in {"send", "receive"} /\ code[p] # <<>> /\ p # Me.who
    BY <1>0, <1>2, <1>12, <2>1 DEF WaitInv, Me
  <2> QED BY <1>3, <1>5, <2>1, <2>2 DEF Known
<1>13. CallInv'
  BY <1>0, <1>1, <1>5, <1>9 DEF CallInv, At, Me, Chan
<1>14. WaitInv'
  BY <1>8, <1>11, <1>12, <1>13 DEF WaitInv
<1> QED BY <1>5, <1>6, <1>7, <1>14 DEF Inv

\* receive takes the sender it finds off the channel.
LEMMA MarkUnusedInv ==
    ASSUME Inv, NEW c \in Procs, c = onCpu, MarkUnused
    PROVE  Inv'
<1>0. PICK h, k : h = local[c].ch /\ k = [channels[h] EXCEPT !.state = "Unused"]
  OBVIOUS
<1>1. PICK w, l : w = Process(channels[h].sendId)
                  /\ l = [local[c] EXCEPT !.who = w, !.owed = local[w].val]
  OBVIOUS
<1>2. /\ At("markUnused") /\ Advance /\ channels' = [channels EXCEPT ![h] = k]
      /\ local' = [local EXCEPT ![c] = l]
      /\ UNCHANGED <<linkVars, procVars, cpuVars, received>>
  BY <1>0, <1>1 DEF MarkUnused, ChannelStatement, Let, Me, Chan
<1>3. TypeInv /\ CodeInv /\ WaitInv /\ IdInv /\ Point(c) = "markUnused"
  BY <1>2 DEF Inv, At
<1>4. /\ h \in Channels /\ local[c].op = "receive" /\ channels[h].state = "Sender"
      /\ local[c].who = NULL
  BY <1>0, <1>2, <1>3, PointOf DEF Receiving, WaitInv, CallInv, Inv, WhoInv, Me, Chan
<1>5. k \in ChannelType /\ channels[h] \in ChannelType
  BY <1>0, <1>3, <1>4, ChannelType_
<1>6. k.state = "Unused" /\ k.receive = channels[h].receive /\ k.receive = <<>>
  BY <1>0, <1>3, <1>4, <1>5 DEF ChannelType, WaitInv, ChannelOk
<1>7. /\ w \in Allocated /\ w \in Procs /\ local[w].op = "send" /\ local[w].ch = h
      /\ state[w] = "BlockedWriting" /\ w # c /\ id[w] = channels[h].sendId
  <2>1. Waits(channels[h].sendId, h, "send", "BlockedWriting", "blockWriting")
    BY <1>2, <1>3, <1>4 DEF WaitInv, ChannelOk, At
  <2> QED BY <1>1, <1>2, <1>3, <1>4, <2>1, ProcessOfId DEF Waits, At
<1>8. /\ l \in LocalType /\ l.op = local[c].op /\ l.ch = local[c].ch /\ l.who = w
  <2>1. local[c] \in LocalType /\ local[w] \in LocalType
    BY <1>3, <1>7 DEF TypeInv
  <2> QED BY <1>1, <1>7, <2>1 DEF LocalType
<1>9. /\ local' \in [Procs -> LocalType] /\ local'[c] = l
      /\ \A p \in Procs \ {c} : local'[p] = local[p]
      /\ channels' \in [Channels -> ChannelType] /\ channels'[h] = k
      /\ \A ch \in Channels \ {h} : channels'[ch] = channels[ch]
  BY <1>2, <1>3, <1>4, <1>5, <1>8 DEF TypeInv
<1>10. \A p \in Procs : /\ local'[p].op = local[p].op /\ local'[p].ch = local[p].ch
  BY <1>8, <1>9
<1>11. /\ code' \in [Procs -> Seq(Words)] /\ onCpu' = c
       /\ Point(onCpu)' = "wake" /\ code'[c] # <<>>
       /\ \A p \in Procs \ {c} : code'[p] = code[p] /\ Point(p)' = Point(p)
       /\ Queue' = Queue
       /\ CodeInv' /\ CpuInv' /\ IdInv' /\ WhoInv'
  <2>1. /\ UNCHANGED <<id, processesList, maxId, cpuVars, state>>
    BY <1>2 DEF procVars
  <2>2. /\ local'[c].who = w /\ local[c].who = NULL /\ state[w] \in BlockedStates
        /\ \A p \in Procs \ {c} : local'[p].who = local[p].who
    BY <1>4, <1>7, <1>8, <1>9 DEF BlockedStates
  <2>3. Me' = l /\ Chan' = k
    BY <1>0, <1>2, <1>8, <1>9 DEF Me, Chan, cpuVars
  <2>4. /\ local[w].op # "exit" /\ local'[w].ch = Me'.ch
        /\ Chan'.state # "Sender" /\ id'[w] \notin Entries(Chan'.receive)
    BY <1>0, <1>6, <1>7, <1>8, <1>9, <2>3 DEF Entries
  <2> QED BY <1>2, <1>7, <1>10, <2>1, <2>2, <2>4, LinkStep DEF After
<1>12. TypeInv'
  BY <1>2, <1>3, <1>9, <1>11 DEF TypeInv, linkVars, procVars, cpuVars
<1>13. RingInv'
  BY <1>2, <1>3, <1>11, RingSame DEF cpuVars, Leaving
<1>14. /\ \A ch \in Channels \ {h} : ChannelOk(ch)'
       /\ \A p \in Allocated' :
            local[p].ch # h /\ state'[p] \in BlockedStates =>
               Known(p)' /\ local'[p].op \in {"send", "receive"} /\ code'[p] # <<>>
  BY <1>0, <1>2, <1>9, <1>10, <1>11, OtherChannels DEF procVars
<1>15. ChannelOk(h)'
  BY <1>6, <1>9 DEF ChannelOk
<1>16. ASSUME NEW p \in Allocated', local[p].ch = h, state'[p] \in BlockedStates
       PROVE  Known(p)' /\ local'[p].op \in {"send", "receive"} /\ code'[p] # <<>>
  <2>1. p \in Allocated /\ p \in Procs /\ state[p] \in BlockedStates
    BY <1>2, <1>3, <1>16, OnCpu DEF Allocated, procVars
  <2>2. Known(p) /\ local[p].op \in {"send", "receive"} /\ code[p] # <<>> /\ ~At("wake")
    BY <1>2, <1>3, <2>1 DEF WaitInv, At
  <2>3. channels[h].sendId = id[p]
    BY <1>4, <1>16, <2>2 DEF Known
  <2>4. p = w
    BY <1>1, <1>3, <2>1, <2>3, ProcessOfId
  <2> QED BY <1>8, <1>9, <1>10, <1>11, <2>1, <2>2, <2>4 DEF Known, At, Me
<1>17. CallInv'
  <2>1. Me'.op = "receive"
    BY <1>4, <1>10, <1>11 DEF Me
  <2> QED BY <1>11, <2>1 DEF CallInv, At
<1> QED BY <1>11, <1>12, <1>13, <1>14, <1>15, <1>16, <1>17 DEF Inv, WaitInv

\* send takes the last receiver off the list.
LEMMA PopWaiterInv ==
    ASSUME Inv, NEW c \in Procs, c = onCpu, PopWaiter
    PROVE  Inv'
<1>0. PICK h, q : h = local[c].ch /\ q = channels[h].receive
  OBVIOUS
<1>1. PICK n, r : n = Len(q) /\ r = SubSeq(q, 1, n - 1)
  OBVIOUS
<1>2. PICK k, w, v : /\ k = [channels[h] EXCEPT !.receive = r] /\ w = Process(q[n])
                     /\ v = local[c].val
  OBVIOUS
<1>3. /\ At("popWaiter") /\ Advance /\ channels' = [channels EXCEPT ![h] = k]
      /\ q # <<>> /\ local' = [local EXCEPT ![c].who = w, ![w].owed = v]
      /\ UNCHANGED <<linkVars, procVars, cpuVars, received>>
  BY <1>0, <1>1, <1>2 DEF PopWaiter, ChannelStatement, Me, Chan
<1>4. TypeInv /\ CodeInv /\ WaitInv /\ IdInv /\ Point(c) = "popWaiter"
  BY <1>3 DEF Inv, At
<1>5. /\ h \in Channels /\ local[c].op = "send" /\ channels[h].state = "Receiver"
      /\ local[c].who = NULL /\ ChannelOk(h)
  BY <1>0, <1>3, <1>4, PointOf DEF Sending, WaitInv, CallInv, Inv, WhoInv, Me, Chan
<1>6. q \in Seq(Nat) /\ n \in Nat \ {0} /\ DOMAIN q = 1 .. n
  <2>1. q \in Seq(Nat)
    BY <1>0, <1>4, <1>5 DEF TypeInv, ChannelType
  <2> QED BY <1>1, <1>3, <2>1, LenProperties, EmptySeq
<1>7. /\ r \in Seq(Nat) /\ Len(r) = n - 1 /\ \A i \in 1 .. n - 1 : r[i] = q[i]
      /\ DOMAIN r = 1 .. n - 1
  <2>1. \A i \in 1 .. n - 1 : q[i] \in Nat
    BY <1>6, ElementOfSeq, <1>1
  <2>2. r \in Seq(Nat) /\ Len(r) = n - 1 /\ \A i \in 1 .. n - 1 : r[i] = q[i]
    BY <1>1, <1>6, <2>1, SubSeqProperties
  <2> QED BY <2>2, LenProperties
<1>8. /\ k \in ChannelType /\ k.state = "Receiver" /\ k.receive = r
  <2>1. k \in ChannelType
    BY <1>2, <1>4, <1>5, <1>7, ChannelType_
  <2>2. channels[h] \in ChannelType
    BY <1>4, <1>5 DEF TypeInv
  <2> QED BY <1>2, <1>5, <1>7, <2>1, <2>2 DEF ChannelType
<1>9. \A i \in 1 .. n : Waits(q[i], h, "receive", "BlockedReading", "blockReading")
  BY <1>0, <1>1, <1>5 DEF ChannelOk
<1>10. /\ w \in Allocated /\ w \in Procs /\ local[w].op = "receive" /\ local[w].ch = h
       /\ state[w] = "BlockedReading" /\ w # c /\ id[w] = q[n]
  <2>1. Waits(q[n], h, "receive", "BlockedReading", "blockReading")
    BY <1>6, <1>9
  <2> QED BY <1>2, <1>3, <1>4, <1>5, <2>1, ProcessOfId DEF Waits, At
<1>11. \A i \in 1 .. n - 1 : r[i] # q[n]
  <2>1. \A i, j \in 1 .. n : q[i] = q[j] => i = j
    <3>1. \A i, j \in 1 .. Len(channels[h].receive) :
             channels[h].receive[i] = channels[h].receive[j] => i = j
      BY <1>5 DEF ChannelOk
    <3> QED BY <1>0, <1>1, <3>1
  <2> QED BY <1>6, <1>7, <2>1
<1>12. /\ local' \in [Procs -> LocalType]
       /\ \A p \in Procs : local'[p].op = local[p].op /\ local'[p].ch = local[p].ch
       /\ \A p \in Procs \ {c} : local'[p].who = local[p].who
       /\ local'[c].who = w
  <2>1. PICK lc, lw : lc = [local[c] EXCEPT !.who = w] /\ lw = [local[w] EXCEPT !.owed = v]
    OBVIOUS
  <2>2. local[c] \in LocalType /\ local[w] \in LocalType /\ local \in [Procs -> LocalType]
    BY <1>4, <1>10 DEF TypeInv
  <2>3. v \in Values \cup {NoValue}
    BY <1>2, <2>2 DEF LocalType
  <2>4. /\ lc \in LocalType /\ lc.op = local[c].op /\ lc.ch = local[c].ch /\ lc.who = w
        /\ lw \in LocalType /\ lw.op = local[w].op /\ lw.ch = local[w].ch
        /\ lw.who = local[w].who
    BY <1>10, <2>1, <2>2, <2>3 DEF LocalType
  <2>5. local' = [local EXCEPT ![c] = lc, ![w] = lw]
    BY <1>3, <1>10, <2>1, <2>2
  <2> QED BY <1>10, <2>2, <2>4, <2>5
<1>13. /\ channels' \in [Channels -> ChannelType] /\ channels'[h] = k
       /\ \A ch \in Channels \ {h} : channels'[ch] = channels[ch]
  BY <1>3, <1>4, <1>5, <1>8 DEF TypeInv
<1>14. /\ code' \in [Procs -> Seq(Words)] /\ onCpu' = c
       /\ Point(onCpu)' = "wake" /\ code'[c] # <<>>
       /\ \A p \in Procs \ {c} : code'[p] = code[p] /\ Point(p)' = Point(p)
       /\ Queue' = Queue
       /\ CodeInv' /\ CpuInv' /\ IdInv' /\ WhoInv'
  <2>1. /\ UNCHANGED <<id, processesList, maxId, cpuVars, state>>
    BY <1>3 DEF procVars
  <2>2. state[w] \in BlockedStates
    BY <1>10 DEF BlockedStates
  <2>3. Me'.ch = h /\ Chan' = k
    BY <1>0, <1>3, <1>12, <1>13 DEF Me, Chan, cpuVars
  <2>4. /\ local[w].op # "exit" /\ local'[w].ch = Me'.ch
        /\ Chan'.state # "Sender" /\ id'[w] \notin Entries(Chan'.receive)
    BY <1>7, <1>8, <1>10, <1>11, <1>12, <2>1, <2>3 DEF Entries
  <2> QED BY <1>3, <1>5, <1>10, <1>12, <2>1, <2>2, <2>4, LinkStep DEF After
<1>15. TypeInv'
  BY <1>3, <1>4, <1>12, <1>13, <1>14 DEF TypeInv, linkVars, procVars, cpuVars
<1>16. RingInv'
  BY <1>3, <1>4, <1>14, RingSame DEF cpuVars, Leaving
<1>17. /\ \A ch \in Channels \ {h} : ChannelOk(ch)'
       /\ \A p \in Allocated' :
            local[p].ch # h /\ state'[p] \in BlockedStates =>
               Known(p)' /\ local'[p].op \in {"send", "receive"} /\ code'[p] # <<>>
  <2>1. UNCHANGED <<id, processesList, maxId, state>> /\ h = local[c].ch
    BY <1>0, <1>3 DEF procVars
  <2> QED BY <1>12, <1>13, <1>14, <2>1, OtherChannels
<1>18. ChannelOk(h)'
  <2>1. ASSUME NEW i \in 1 .. n - 1
        PROVE  Waits(r[i], h, "receive", "BlockedReading", "blockReading")'
    <3>1. Waits(r[i], h, "receive", "BlockedReading", "blockReading")
      BY <1>6, <1>7, <1>9
    <3>2. UNCHANGED <<id, processesList, maxId, state>>
      BY <1>3 DEF procVars
    <3> QED BY <1>3, <1>4, <1>12, <1>14, <3>1, <3>2, WaitsKept, OnCpu DEF At
  <2>2. ASSUME NEW i \in 1 .. n - 1, NEW j \in 1 .. n - 1, r[i] = r[j]
        PROVE  i = j
    <3>1. \A a, b \in 1 .. Len(channels[h].receive) :
             channels[h].receive[a] = channels[h].receive[b] => a = b
      BY <1>5 DEF ChannelOk
    <3>2. \A a, b \in 1 .. n : q[a] = q[b] => a = b
      BY <1>0, <1>1, <3>1
    <3> QED BY <1>6, <1>7, <2>2, <3>2
  <2>3. ListMayBeEmpty(h)'
    <3>1. Me'.ch = h /\ Me'.op = "send"
      BY <1>0, <1>5, <1>12, <1>14 DEF Me
    <3> QED BY <1>14, <3>1 DEF ListMayBeEmpty
  <2> QED BY <1>7, <1>8, <1>13, <2>1, <2>2, <2>3 DEF ChannelOk
<1>19. ASSUME NEW p \in Allocated', local[p].ch = h, state'[p] \in BlockedStates
       PROVE  Known(p)' /\ local'[p].op \in {"send", "receive"} /\ code'[p] # <<>>
  <2>1. /\ p \in Allocated /\ p \in Procs /\ state[p] \in BlockedStates
        /\ UNCHANGED <<id, state>>
    BY <1>3, <1>4, <1>19, OnCpu DEF Allocated, procVars
  <2>2. Known(p) /\ local[p].op \in {"send", "receive"} /\ code[p] # <<>> /\ ~At("wake")
    BY <1>3, <1>4, <2>1 DEF WaitInv, At
  <2>3. local'[p].op \in {"send", "receive"} /\ code'[p] # <<>> /\ local'[p].ch = h
    BY <1>12, <1>14, <1>19, <2>1, <2>2
  <2>4. state[p] = "BlockedReading" /\ local[p].op = "receive" /\ id[p] \in Entries(q)
    BY <1>0, <1>5, <1>19, <2>2 DEF Known
  <2>5. CASE p = w
    BY <1>12, <1>14, <2>3, <2>5 DEF Known, At, Me
  <2>6. CASE p # w
    <3>1. id[p] # q[n]
      BY <1>2, <1>4, <2>1, <2>6, ProcessOfId
    <3>2. id'[p] \in Entries(r)'
      BY <1>6, <1>7, <2>1, <2>4, <3>1 DEF Entries
    <3> QED BY <1>5, <1>8, <1>12, <1>13, <2>1, <2>3, <2>4, <3>2 DEF Known
  <2> QED BY <2>5, <2>6
<1>20. CallInv'
  <2>1. Chan' = k
    BY <1>0, <1>12, <1>13, <1>14 DEF Me, Chan
  <2> QED BY <1>8, <1>14, <2>1 DEF CallInv, At
<1> QED BY <1>14, <1>15, <1>16, <1>17, <1>18, <1>19, <1>20 DEF Inv, WaitInv

\* Links that differ outside the ring only.
LEMMA RingFrame ==
    ASSUME NEW S, NEW n1, NEW p1, NEW n2, NEW p2,
           \A p \in S : n1[p] = n2[p] /\ p1[p] = p2[p], IsRing(S, n1, p1)
    PROVE  IsRing(S, n2, p2)
<1>1. ASSUME NEW p \in S
      PROVE  n2[p] \in S /\ p2[n2[p]] = p /\ p2[p] \in S /\ n2[p2[p]] = p
  BY DEF IsRing
<1>2. ASSUME NEW T \in SUBSET S, T # {}, \A p \in T : n2[p] \in T
      PROVE  T = S
  <2>1. \A p \in T : n1[p] \in T
    BY <1>2
  <2> QED BY <1>2, <2>1 DEF IsRing
<1> QED BY <1>1, <1>2 DEF IsRing

\* insertProcess up to its last store.
LEMMA LinkOutBackInv ==
    ASSUME Inv, NEW c \in Procs, c = onCpu, LinkOut \/ LinkBack
    PROVE  Inv'
<1>0. PICK s, w : s = Point(c) /\ w = local[c].who
  OBVIOUS
<1>1. /\ At(s) /\ s \in {"linkOut", "linkBack"} /\ Advance
      /\ s = "linkOut"  => /\ next' = [next EXCEPT ![w] = next[currentProcess]]
                           /\ prev' = [prev EXCEPT ![w] = currentProcess]
      /\ s = "linkBack" => /\ next' = next
                           /\ prev' = [prev EXCEPT ![next[currentProcess]] = w]
      /\ UNCHANGED <<procVars, cpuVars, channels, received, local>>
  BY <1>0 DEF LinkOut, LinkBack, LinkStatement, At, Me
<1>2. TypeInv /\ CodeInv /\ WaitInv /\ IdInv /\ currentProcess = c /\ RingInv
  BY <1>0, <1>1 DEF Inv, CpuInv, At
<1>3. /\ w \in Allocated \ {c} /\ Allocated \subseteq Procs /\ local[w].op # "exit"
      /\ state[w] \notin BlockedStates
  BY <1>0, <1>1, <1>2, OnCpu DEF Inv, WhoInv, Me
<1>4. /\ code' \in [Procs -> Seq(Words)] /\ onCpu' = c /\ Me'.who = w
      /\ Point(c)' \in After(s) /\ Point(onCpu)' = Point(c)' /\ code'[c] # <<>>
      /\ \A p \in Procs \ {c} : code'[p] = code[p] /\ Point(p)' = Point(p)
      /\ Queue' = Queue /\ w \notin Queue
      /\ CodeInv' /\ CpuInv' /\ IdInv' /\ WhoInv'
  <2>1. local'[c].who = w /\ local[c].who = w /\ s \notin {"popWaiter", "markUnused", "wake"}
    BY <1>0, <1>1
  <2>2. UNCHANGED <<state, id, processesList, maxId, local>>
    BY <1>1 DEF procVars
  <2> QED BY <1>1, <1>3, <2>1, <2>2, LinkStep
<1>5. /\ Queue \in SUBSET Procs /\ c \in Queue /\ next[c] \in Queue
      /\ next \in [Procs -> Procs \cup {NULL}] /\ prev \in [Procs -> Procs \cup {NULL}]
  BY <1>0, <1>1, <1>2, OnCpu DEF TypeInv
<1>6. IsRing(Queue, next, prev)
  BY <1>0, <1>1, <1>2 DEF RingInv, At
<1>7. TypeInv'
  <2>1. next' \in [Procs -> Procs \cup {NULL}] /\ prev' \in [Procs -> Procs \cup {NULL}]
    BY <1>1, <1>2, <1>3, <1>5
  <2>2. UNCHANGED <<state, id, processesList, maxId, stackTop, onCpu, channels, received, local>>
    BY <1>1 DEF procVars, cpuVars
  <2> QED BY <1>2, <1>4, <2>1, <2>2 DEF TypeInv
<1>8. RingInv'
  <2>1. CASE s = "linkOut"
    <3>1. \A p \in Queue : next[p] = next'[p] /\ prev[p] = prev'[p]
      BY <1>1, <1>2, <1>4, <1>5, <2>1
    <3>2. IsRing(Queue, next', prev')
      BY <1>6, <3>1, RingFrame
    <3>3. next'[w] = next[c] /\ next'[c] = next[c] /\ prev'[w] = c
      BY <1>1, <1>2, <1>3, <1>5, <2>1
    <3>4. Point(c)' = "linkBack"
      BY <1>4, <2>1 DEF After
    <3> QED BY <1>4, <3>2, <3>3, <3>4 DEF RingInv, At, Leaving
  <2>2. CASE s = "linkBack"
    <3>1. next[w] = next[c] /\ prev[w] = c
      BY <1>0, <1>1, <1>2, <2>2 DEF RingInv, At, Me
    <3>2. IsRing(Queue \cup {w}, InsertNext(next, prev, c, w), InsertPrev(next, prev, c, w))
      BY <1>3, <1>4, <1>5, <1>6, InsertKeepsRing
    <3>3. InsertNext(next, prev, c, w) = [next' EXCEPT ![c] = w]
      BY <1>1, <1>3, <1>5, <2>2, <3>1 DEF InsertNext
    <3>4. InsertPrev(next, prev, c, w) = prev'
      BY <1>1, <1>2, <1>3, <1>5, <2>2, <3>1 DEF InsertPrev
    <3>5. Point(c)' = "linkIn"
      BY <1>4, <2>2 DEF After
    <3> QED BY <1>4, <3>2, <3>3, <3>4, <3>5 DEF RingInv, At, Leaving
  <2> QED BY <1>1, <2>1, <2>2
<1>9. CallInv'
  BY <1>0, <1>1, <1>2, <1>4 DEF CallInv, WaitInv, At, After, Me, Chan
<1>10. \A ch \in Channels : ListMayBeEmpty(ch) => ListMayBeEmpty(ch)'
  BY <1>0, <1>1, <1>4 DEF ListMayBeEmpty, After, Me
<1>11. WaitInv'
  <2>1. UNCHANGED <<channels, state, id, processesList, local>> /\ UNCHANGED Allocated
    BY <1>1 DEF procVars, Allocated
  <2> QED BY <1>0, <1>1, <1>4, <1>9, <1>10, <2>1, WaitFrame
<1> QED BY <1>4, <1>7, <1>8, <1>11 DEF Inv

\* The last store of insertProcess: w is in the ring.
LEMMA LinkInInv ==
    ASSUME Inv, NEW c \in Procs, c = onCpu, LinkIn
    PROVE  Inv'
<1>0. PICK w : w = local[c].who
  OBVIOUS
<1>1. /\ At("linkIn") /\ Advance /\ next' = [next EXCEPT ![currentProcess] = w]
      /\ UNCHANGED <<prev, procVars, cpuVars, channels, received, local>>
  BY <1>0 DEF LinkIn, LinkStatement, Me
<1>2. TypeInv /\ CodeInv /\ WaitInv /\ currentProcess = c /\ RingInv /\ CpuInv /\ Point(c) = "linkIn"
  BY <1>1 DEF Inv, CpuInv, At
<1>3. /\ w \in Allocated \ {c} /\ Allocated \subseteq Procs /\ local[w].op # "exit"
      /\ state[w] \notin BlockedStates
  BY <1>0, <1>1, <1>2, OnCpu DEF Inv, WhoInv, Me
<1>4. /\ UNCHANGED <<state, id, processesList, maxId, local, channels>> /\ Allocated' = Allocated
      /\ UNCHANGED <<stackTop, onCpu, received, currentProcess>>
  BY <1>1 DEF procVars, cpuVars, Allocated
<1>5. /\ code' \in [Procs -> Seq(Words)] /\ CodeInv'
      /\ onCpu' = c /\ Point(c)' \in {"return", "testEmpty", "readValue"} /\ code'[c] # <<>>
      /\ Point(c)' = "testEmpty" <=> local[c].op = "send"
      /\ \A p \in Procs \ {c} : code'[p] = code[p] /\ Point(p)' = Point(p)
  <2>1. "linkIn" \in Words \ {"return", "readValue", "dead", "switchTask"}
    BY DEF Words, Linking
  <2> QED BY <1>1, <1>4, <2>1, Moves DEF After
<1>6. Point(onCpu)' = Point(c)' /\ Me' = local[c] /\ Me = local[c]
  BY <1>4, <1>5 DEF Point, Me
<1>7. Queue' = Queue \cup {w} /\ c \in Queue
  <2>1. \A p \in Allocated : p \in Queue <=> p # w /\ (Point(p) \in Leaving \/ Awake(p))
    BY <1>0, <1>2, <1>6 DEF Queue, Linking
  <2>2. \A p \in Allocated : p \in Queue' <=> Point(p)' \in Leaving \/ Awake(p)'
    BY <1>4, <1>5, <1>6 DEF Queue, Linking
  <2>3. \A p \in Allocated : Point(p) \in Leaving \/ Awake(p) <=> Point(p)' \in Leaving \/ Awake(p)'
    BY <1>2, <1>3, <1>4, <1>5 DEF Awake, Leaving
  <2>4. Awake(w)
    BY <1>3 DEF Awake
  <2>5. Queue \subseteq Allocated /\ Queue' \subseteq Allocated
    BY <1>4 DEF Queue
  <2> QED BY <1>2, <1>3, <2>1, <2>2, <2>3, <2>4, <2>5, OnCpu
<1>8. TypeInv'
  BY <1>1, <1>2, <1>3, <1>4, <1>5 DEF TypeInv
<1>9. CpuInv'
  <2>1. \A p \in Procs \ {c} : stackTop[p] = p
    BY <1>2 DEF CpuInv
  <2>2. state[c] \notin BlockedStates
    BY <1>2 DEF CpuInv
  <2> QED BY <1>2, <1>4, <1>5, <1>6, <1>7, <2>1, <2>2 DEF CpuInv, At
<1>10. RingInv'
  <2>1. IsRing(Queue', next', prev')
    BY <1>0, <1>1, <1>2, <1>6, <1>7 DEF RingInv
  <2> QED BY <1>5, <1>6, <2>1 DEF RingInv, At, Leaving
<1>11. IdInv'
  BY <1>2, <1>4, <1>5, <1>6 DEF Inv, IdInv, At
<1>12. WhoInv'
  <2>1. ASSUME NEW p \in Procs, Point(p)' \in Creating
        PROVE  /\ local'[p].who \in Procs \ Allocated'
               /\ \A q \in Procs \ {p} : local'[q].who # local'[p].who
    <3>1. p # c /\ Point(p) \in Creating
      BY <1>5, <2>1 DEF Creating
    <3> QED BY <1>4, <3>1 DEF Inv, WhoInv
  <2> QED BY <1>5, <1>6, <2>1 DEF WhoInv, At
<1>13. CallInv'
  BY <1>2, <1>4, <1>5, <1>6 DEF CallInv, WaitInv, At, Chan
<1>14. \A ch \in Channels : ListMayBeEmpty(ch) => ListMayBeEmpty(ch)'
  BY <1>2, <1>5, <1>6 DEF ListMayBeEmpty
<1>15. WaitInv'
  BY <1>2, <1>4, <1>5, <1>13, <1>14, WaitFrame
<1> QED BY <1>5, <1>8, <1>9, <1>10, <1>11, <1>12, <1>15 DEF Inv

\* delCurrentProcess: the two stores that take the current process out of the ring.
LEMMA UnlinkInv ==
    ASSUME Inv, NEW c \in Procs, c = onCpu, UnlinkBack \/ UnlinkForward
    PROVE  Inv'
<1>0. PICK s : s = Point(c)
  OBVIOUS
<1>1. /\ At(s) /\ s \in {"unlinkBack", "unlinkForward"} /\ Advance
      /\ s = "unlinkBack"    => /\ next' = next
                                /\ prev' = [prev EXCEPT ![next[currentProcess]] = prev[currentProcess]]
      /\ s = "unlinkForward" => /\ next' = [next EXCEPT ![prev[currentProcess]] = next[currentProcess]]
                                /\ prev' = prev
      /\ UNCHANGED <<procVars, cpuVars, channels, received, local>>
  BY <1>0 DEF UnlinkBack, UnlinkForward, LinkStatement, At
<1>2. TypeInv /\ CodeInv /\ WaitInv /\ currentProcess = c /\ RingInv /\ CpuInv
  BY <1>0, <1>1 DEF Inv, CpuInv, At
<1>4. /\ UNCHANGED <<state, id, processesList, maxId, local, channels>> /\ Allocated' = Allocated
      /\ UNCHANGED <<stackTop, onCpu, received, currentProcess>>
  BY <1>1 DEF procVars, cpuVars, Allocated
<1>5. /\ code' \in [Procs -> Seq(Words)] /\ CodeInv'
      /\ onCpu' = c /\ Point(c)' = (IF s = "unlinkBack" THEN "unlinkForward" ELSE "permit")
      /\ code'[c] # <<>>
      /\ \A p \in Procs \ {c} : code'[p] = code[p] /\ Point(p)' = Point(p)
  <2>1. s \in Words \ {"return", "readValue", "dead", "switchTask"}
    BY <1>1 DEF Words, Leaving
  <2> QED BY <1>1, <1>4, <2>1, Moves DEF After
<1>6. Point(onCpu)' = Point(c)' /\ Me' = local[c] /\ Me = local[c]
  BY <1>4, <1>5 DEF Point, Me
<1>7. /\ Queue \in SUBSET Procs /\ c \in Queue /\ next[c] \in Queue \ {c} /\ ~Awake(c)
      /\ next \in [Procs -> Procs \cup {NULL}] /\ prev \in [Procs -> Procs \cup {NULL}]
  BY <1>0, <1>1, <1>2, OnCpu DEF TypeInv, RingInv, CpuInv, Leaving
<1>8. Queue' = IF s = "unlinkBack" THEN Queue ELSE Queue \ {c}
  <2>1. \A p \in Allocated : p \in Queue <=> Point(p) \in Leaving \/ Awake(p)
    BY <1>0, <1>1, <1>6 DEF Queue, Linking
  <2>2. \A p \in Allocated : p \in Queue' <=> Point(p)' \in Leaving \/ Awake(p)'
    BY <1>4, <1>5, <1>6 DEF Queue, Linking
  <2>3. \A p \in Allocated \ {c} : Point(p) \in Leaving \/ Awake(p) <=> Point(p)' \in Leaving \/ Awake(p)'
    BY <1>4, <1>5, OnCpu DEF Awake
  <2>4. Point(c)' \in Leaving \/ Awake(c)' <=> s = "unlinkBack"
    BY <1>1, <1>4, <1>5, <1>7 DEF Awake, Leaving
  <2>5. Queue \subseteq Allocated /\ Queue' \subseteq Allocated
    BY <1>4 DEF Queue
  <2> QED BY <1>7, <2>1, <2>2, <2>3, <2>4, <2>5
<1>9. ASSUME s = "unlinkBack"
      PROVE  IsRing(Queue \ {c}, UnlinkNext(next, prev, c), UnlinkPrev(next, prev, c))
  <2>1. IsRing(Queue, next, prev)
    BY <1>0, <1>2, <1>9 DEF RingInv, At
  <2>2. next[c] # c
    BY <1>7
  <2> QED BY <1>7, <2>1, <2>2, UnlinkKeepsRing
<1>10. next'[c] = next[c] /\ (s = "unlinkBack" => prev'[c] = prev[c])
  BY <1>1, <1>2, <1>7
<1>11. next' \in [Procs -> Procs \cup {NULL}] /\ prev' \in [Procs -> Procs \cup {NULL}]
  BY <1>1, <1>2, <1>7
<1>12. TypeInv'
  BY <1>2, <1>4, <1>5, <1>11 DEF TypeInv
<1>13. CpuInv'
  <2>1. \A p \in Procs \ {c} : stackTop[p] = p
    BY <1>2 DEF CpuInv
  <2>2. ~Awake(c)'
    BY <1>4, <1>7 DEF Awake
  <2>3. Point(c)' \in {"unlinkForward", "permit"}
    BY <1>5
  <2>4. Point(c)' = "permit" => next'[c] \in Queue'
    BY <1>1, <1>5, <1>7, <1>8, <1>10
  <2>5. Point(c)' # "permit" => c \in Queue'
    BY <1>1, <1>5, <1>7, <1>8
  <2>6. ~Awake(onCpu)'
    BY <1>4, <2>2 DEF Awake
  <2> QED BY <1>2, <1>4, <1>6, <2>1, <2>3, <2>4, <2>5, <2>6 DEF CpuInv, At
<1>14. RingInv'
  <2>1. CASE s = "unlinkBack"
    <3>1. UnlinkNext(next, prev, c) = [next' EXCEPT ![prev'[c]] = next'[c]]
      BY <1>1, <1>10, <2>1 DEF UnlinkNext
    <3>2. UnlinkPrev(next, prev, c) = prev'
      BY <1>1, <1>2, <2>1 DEF UnlinkPrev
    <3> QED BY <1>4, <1>5, <1>6, <1>7, <1>8, <1>9, <1>10, <2>1, <3>1, <3>2 DEF RingInv, At
  <2>2. CASE s = "unlinkForward"
    <3>1. IsRing(Queue', next', prev')
      BY <1>0, <1>1, <1>2, <1>8, <2>2 DEF RingInv, At
    <3> QED BY <1>5, <1>6, <2>2, <3>1 DEF RingInv, At, Leaving
  <2> QED BY <1>1, <2>1, <2>2
<1>15. IdInv'
  BY <1>0, <1>1, <1>2, <1>4, <1>5, <1>6 DEF Inv, IdInv, At
<1>16. WhoInv'
  <2>1. ASSUME NEW p \in Procs, Point(p)' \in Creating
        PROVE  /\ local'[p].who \in Procs \ Allocated'
               /\ \A q \in Procs \ {p} : local'[q].who # local'[p].who
    <3>1. p # c /\ Point(p) \in Creating
      BY <1>5, <2>1 DEF Creating
    <3> QED BY <1>4, <3>1 DEF Inv, WhoInv
  <2> QED BY <1>5, <1>6, <2>1 DEF WhoInv, At
<1>17. CallInv'
  BY <1>5, <1>6 DEF CallInv, At
<1>18. \A ch \in Channels : ~ListMayBeEmpty(ch)
  BY <1>0, <1>1 DEF ListMayBeEmpty
<1>19. WaitInv'
  BY <1>0, <1>1, <1>4, <1>5, <1>17, <1>18, WaitFrame
<1> QED BY <1>5, <1>12, <1>13, <1>14, <1>15, <1>16, <1>19 DEF Inv

\* newProcess: the number, and the entry of the list.
LEMMA CreateInv ==
    ASSUME Inv, NEW c \in Procs, c = onCpu, NumberIt \/ AppendIt
    PROVE  Inv'
<1>0. PICK s, w : s = Point(c) /\ w = local[c].who
  OBVIOUS
<1>1. /\ At(s) /\ s \in Creating /\ Advance
      /\ s = "numberIt" => /\ maxId' = maxId + 1
                           /\ id' = [id EXCEPT ![w] = maxId + 1]
                           /\ state' = [state EXCEPT ![w] = "Runnable"]
                           /\ UNCHANGED processesList
      /\ s = "appendIt" => /\ processesList' = Append(processesList, w)
                           /\ UNCHANGED <<state, id, maxId>>
      /\ UNCHANGED <<linkVars, cpuVars, channels, received, local>>
  BY <1>0 DEF NumberIt, AppendIt, At, Me, Creating
<1>2. TypeInv /\ CodeInv /\ WaitInv /\ IdInv /\ currentProcess = c /\ RingInv /\ CpuInv /\ WhoInv
  BY <1>0, <1>1 DEF Inv, CpuInv, At, Creating
<1>3. /\ w \in Procs \ Allocated /\ \A q \in Procs \ {c} : local[q].who # w
      /\ c \in Allocated /\ c \in Queue /\ Allocated \subseteq Procs
      /\ local[w].op # "exit" /\ code[w] = <<>>
  <2>1. w \in Procs \ Allocated /\ \A q \in Procs \ {c} : local[q].who # w
    BY <1>0, <1>1, <1>2 DEF WhoInv
  <2>2. code[w] = <<>>
    BY <1>2, <2>1 DEF CodeInv
  <2>3. local[w].op # "exit"
    BY <1>2, <2>1, <2>2, PointOf
  <2> QED BY <1>0, <1>1, <2>1, <2>2, <2>3, OnCpu DEF Creating
<1>4. PICK n \in Nat : n = Len(processesList) /\ processesList \in Seq(Procs)
  BY <1>2, LenProperties DEF TypeInv
<1>5. /\ processesList' \in Seq(Procs)
      /\ \A i \in 1 .. n : i \in 1 .. Len(processesList') /\ processesList'[i] = processesList[i]
      /\ s = "numberIt" => Len(processesList') = n
      /\ s = "appendIt" => Len(processesList') = n + 1 /\ processesList'[n + 1] = w
  <2>1. CASE s = "numberIt"
    BY <1>1, <1>4, <2>1
  <2>2. CASE s = "appendIt"
    <3>1. /\ processesList' \in Seq(Procs) /\ Len(processesList') = n + 1
          /\ processesList'[n + 1] = w /\ \A i \in 1 .. n : processesList'[i] = processesList[i]
      BY <1>1, <1>3, <1>4, <2>2, AppendProperties
    <3> QED BY <2>2, <3>1
  <2> QED BY <1>1, <2>1, <2>2 DEF Creating
<1>6. Allocated' = IF s = "numberIt" THEN Allocated ELSE Allocated \cup {w}
  <2>1. DOMAIN processesList = 1 .. n /\ DOMAIN processesList' = 1 .. Len(processesList')
    BY <1>4, <1>5, LenProperties
  <2>2. CASE s = "numberIt"
    BY <1>1, <2>2 DEF Allocated
  <2>3. CASE s = "appendIt"
    <3>1. DOMAIN processesList' = 1 .. n + 1
      BY <1>5, <2>1, <2>3
    <3>2. \A i \in 1 .. n + 1 : i \in 1 .. n \/ i = n + 1
      OBVIOUS
    <3>3. n + 1 \in 1 .. n + 1 /\ \A i \in 1 .. n : i \in 1 .. n + 1
      OBVIOUS
    <3>4. Allocated' \subseteq Allocated \cup {w}
      BY <1>5, <2>1, <2>3, <3>1, <3>2 DEF Allocated
    <3>5. Allocated \subseteq Allocated' /\ w \in Allocated'
      BY <1>5, <2>1, <2>3, <3>1, <3>3 DEF Allocated
    <3> QED BY <2>3, <3>4, <3>5
  <2> QED BY <1>1, <2>2, <2>3 DEF Creating
<1>7. /\ code' \in [Procs -> Seq(Words)] /\ CodeInv'
      /\ onCpu' = c /\ Point(c)' = (IF s = "numberIt" THEN "appendIt" ELSE "linkOut")
      /\ code'[c] # <<>>
      /\ \A p \in Procs \ {c} : code'[p] = code[p] /\ Point(p)' = Point(p)
  <2>1. s \in Words \ {"return", "readValue", "dead", "switchTask"}
    BY <1>1 DEF Words, Linking, Creating
  <2>2. Allocated \subseteq Allocated' /\ onCpu' = onCpu /\ local' = local
    BY <1>1, <1>6 DEF cpuVars
  <2> QED BY <1>1, <2>1, <2>2, Moves DEF After, Creating
<1>8. Point(onCpu)' = Point(c)' /\ Me' = local[c] /\ Me = local[c] /\ local' = local
  BY <1>1, <1>7 DEF Point, Me
<1>9. /\ state' \in [Procs -> {"Free", "Runnable", "Running"} \cup BlockedStates]
      /\ id' \in [Procs -> Nat] /\ maxId' \in Nat
      /\ \A p \in Procs \ {w} : state'[p] = state[p] /\ id'[p] = id[p]
      /\ s = "numberIt" => state'[w] = "Runnable" /\ id'[w] = maxId'
      /\ s = "appendIt" => UNCHANGED <<state, id, maxId>>
  <2>1. CASE s = "numberIt"
    <3>1. state \in [Procs -> {"Free", "Runnable", "Running"} \cup BlockedStates] /\ maxId \in Nat
          /\ id \in [Procs -> Nat]
      BY <1>2 DEF TypeInv
    <3>2. /\ state' \in [Procs -> {"Free", "Runnable", "Running"} \cup BlockedStates]
          /\ state'[w] = "Runnable" /\ \A p \in Procs \ {w} : state'[p] = state[p]
      BY <1>1, <1>3, <2>1, <3>1
    <3>3. /\ maxId' \in Nat /\ id' \in [Procs -> Nat] /\ id'[w] = maxId'
          /\ \A p \in Procs \ {w} : id'[p] = id[p]
      BY <1>1, <1>3, <2>1, <3>1
    <3> QED BY <2>1, <3>2, <3>3
  <2>2. CASE s = "appendIt"
    BY <1>1, <1>2, <2>2 DEF TypeInv
  <2> QED BY <1>1, <2>1, <2>2 DEF Creating
<1>10. Queue' = Queue
  <2>1. \A p \in Allocated : p \in Queue <=> Point(p) \in Leaving \/ Awake(p)
    BY <1>0, <1>3 DEF Queue, Me
  <2>2. \A p \in Allocated' : p \in Queue' <=> p # w /\ (Point(p)' \in Leaving \/ Awake(p)')
    BY <1>0, <1>7, <1>8 DEF Queue, Linking
  <2>3. \A p \in Allocated : Point(p) \in Leaving \/ Awake(p) <=> Point(p)' \in Leaving \/ Awake(p)'
    <3>1. Point(c) \notin Leaving /\ Point(c)' \notin Leaving
      BY <1>0, <1>1, <1>7 DEF Creating, Leaving
    <3> QED BY <1>3, <1>7, <1>8, <1>9, <3>1 DEF Awake
  <2>4. Queue \subseteq Allocated /\ Queue' \subseteq Allocated'
    BY DEF Queue
  <2> QED BY <1>3, <1>6, <2>1, <2>2, <2>3, <2>4
<1>11. TypeInv'
  BY <1>1, <1>2, <1>5, <1>7, <1>9 DEF TypeInv, linkVars, cpuVars
<1>12. CpuInv'
  <2>1. \A p \in Procs \ {c} : stackTop[p] = p
    BY <1>2 DEF CpuInv
  <2>2. state[c] \notin BlockedStates /\ state'[c] = state[c]
    BY <1>0, <1>1, <1>2, <1>3, <1>9 DEF CpuInv, Creating
  <2> QED BY <1>1, <1>2, <1>3, <1>7, <1>8, <1>10, <2>1, <2>2 DEF CpuInv, At, cpuVars
<1>13. RingInv'
  BY <1>0, <1>1, <1>7, <1>10, RingSame DEF cpuVars, Creating, Leaving
<1>14. IdInv'
  <2>1. /\ \A i \in 1 .. n : id[processesList[i]] = i - 1 /\ processesList[i] \in Allocated
    BY <1>2, <1>4, LenProperties DEF IdInv, Allocated
  <2>2. \A i \in 1 .. n : id'[processesList'[i]] = i - 1
    BY <1>3, <1>5, <1>9, <2>1
  <2>3. CASE s = "numberIt"
    <3>1. n = maxId + 1
      BY <1>0, <1>2, <1>4, <2>3 DEF IdInv, At
    <3> QED BY <1>1, <1>5, <1>7, <1>8, <1>0, <1>9, <2>2, <2>3, <3>1 DEF IdInv, At
  <2>4. CASE s = "appendIt"
    <3>1. n = maxId /\ id[w] = maxId
      BY <1>0, <1>1, <1>2, <1>4, <2>4 DEF IdInv, Me
    <3>2. \A i \in 1 .. n + 1 : i \in 1 .. n \/ i = n + 1
      OBVIOUS
    <3>3. \A i \in 1 .. n + 1 : id'[processesList'[i]] = i - 1
      BY <1>5, <1>9, <2>2, <2>4, <3>1, <3>2
    <3> QED BY <1>5, <1>7, <1>9, <2>4, <3>1, <3>3 DEF IdInv, At, Point
  <2> QED BY <1>1, <2>3, <2>4 DEF Creating
<1>15. WhoInv'
  <2>1. ASSUME NEW p \in Procs, Point(p)' \in Creating
        PROVE  /\ local'[p].who \in Procs \ Allocated'
               /\ \A q \in Procs \ {p} : local'[q].who # local'[p].who
    <3>1. /\ Point(p) \in Creating /\ (p = c => s = "numberIt")
          /\ local[p].who \in Procs \ Allocated
          /\ \A q \in Procs \ {p} : local[q].who # local[p].who
      BY <1>0, <1>1, <1>2, <1>7, <2>1 DEF WhoInv, Creating
    <3>2. local[p].who \notin Allocated'
      BY <1>0, <1>6, <3>1
    <3> QED BY <1>8, <3>1, <3>2
  <2>2. Point(c)' \notin {"passValue", "popWaiter", "markUnused", "wake", "linkBack", "linkIn"}
    BY <1>7
  <2>3. Point(c)' = "linkOut" => /\ w \in Allocated' \ {c} /\ local'[w].op # "exit"
                                 /\ state'[w] \notin BlockedStates
    <3>1. ASSUME s = "appendIt" PROVE state[w] = "Runnable"
      BY <1>0, <1>1, <1>2, <3>1 DEF IdInv, Me
    <3> QED BY <1>1, <1>3, <1>6, <1>7, <1>8, <1>9, <3>1 DEF Creating, BlockedStates
  <2> QED BY <1>0, <1>7, <1>8, <2>1, <2>2, <2>3 DEF WhoInv, At
<1>16. CallInv'
  <2>1. Me'.op \notin {"send", "receive"}
    BY <1>0, <1>1, <1>2, <1>8, PointOf
  <2> QED BY <1>7, <1>8, <2>1 DEF CallInv, At
<1>17. \A ch \in Channels : ~ListMayBeEmpty(ch)
  BY <1>0, <1>1 DEF ListMayBeEmpty, Creating
<1>18. WaitInv'
  <2>1. /\ UNCHANGED <<channels, local>> /\ Allocated \subseteq Allocated'
        /\ \A p \in Allocated : state'[p] = state[p] /\ id'[p] = id[p]
        /\ \A p \in Allocated' \ Allocated : state'[p] \notin BlockedStates
    <3>1. ASSUME s = "appendIt" PROVE state[w] = "Runnable"
      BY <1>0, <1>1, <1>2, <3>1 DEF IdInv, Me
    <3> QED BY <1>1, <1>3, <1>6, <1>9, <3>1 DEF Creating, BlockedStates
  <2>2. \A i \in 1 .. Len(processesList) : i \in 1 .. Len(processesList')
                                             /\ processesList'[i] = processesList[i]
    BY <1>4, <1>5
  <2> QED BY <1>0, <1>1, <1>7, <1>16, <1>17, <2>1, <2>2, WaitFrame DEF Creating
<1> QED BY <1>7, <1>11, <1>12, <1>13, <1>14, <1>15, <1>18 DEF Inv

-----------------------------------------------------------------------------
\* The CPU goes to the process d of the ring.
LEMMA Switched ==
    ASSUME Inv, NEW c \in Procs, c = onCpu, NEW d \in Queue,
           Point(c) \in SafeWindows \cup {"program", "switchTask"},
           onCpu' = d, currentProcess' = d, stackTop' = [stackTop EXCEPT ![c] = c],
           UNCHANGED <<linkVars, procVars, channels, local, received>>,
           code' \in [Procs -> Seq(Words)],
           \A p \in Procs \ {c} : code'[p] = code[p],
           CodeOf(c)', Point(c)' \in Parked,
           code'[c] # <<>> \/ code'[c] = code[c],
           Point(c)' = "dead" => local[c].op = "exit",
           Point(c)' = Point(c) \/ (Point(c)' \in {"return", "readValue", "dead"})
    PROVE  Inv'
<1>1. TypeInv /\ CodeInv /\ WaitInv /\ IdInv /\ RingInv /\ CpuInv /\ WhoInv
  BY DEF Inv
<1>2. /\ UNCHANGED <<next, prev, state, id, processesList, maxId>>
      /\ Allocated' = Allocated /\ Allocated \subseteq Procs
      /\ d \in Allocated /\ d \in Procs
  BY OnCpu DEF Allocated, linkVars, procVars
<1>3. /\ \A p \in Procs \ {c} : Point(p)' = Point(p) /\ Point(p) \in Parked
      /\ \A p \in Procs : Point(p)' \in Parked
  BY <1>1 DEF CodeInv, Point
<1>4. Point(d)' \in SafeWindows \cup {"program"} /\ Awake(d)
  <2>1. CASE d = c
    <3>1. c \in Queue /\ Point(c) \notin Leaving
      BY <2>1 DEF SafeWindows, Leaving
    <3>2. Awake(c)
      BY <3>1 DEF Queue
    <3> QED BY <1>3, <2>1, <3>2 DEF Parked, Awake
  <2>2. CASE d # c
    <3>1. Point(d) \in Parked
      BY <1>2, <1>3, <2>2
    <3>2. Awake(d)
      BY <3>1 DEF Queue, Parked, SafeWindows, Leaving
    <3> QED BY <1>1, <1>2, <1>3, <2>2, <3>1, <3>2, PointOf DEF Parked, Awake
  <2> QED BY <2>1, <2>2
<1>5. CodeInv'
  <2>1. \A p \in Procs : CodeOf(p)'
    BY <1>1 DEF CodeInv, CodeOf
  <2>2. \A p \in Procs \ Allocated' : code'[p] = <<>> /\ p # onCpu'
    BY <1>1, <1>2 DEF CodeInv
  <2> QED BY <1>3, <2>1, <2>2 DEF CodeInv
<1>6. Point(onCpu)' = Point(d)' /\ Me' = local[d] /\ Me = local[c]
  BY DEF Point, Me
<1>7. Queue' = Queue
  <2>1. ASSUME NEW p \in Allocated PROVE ~(Point(c) \in Linking /\ p = local[c].who)
    <3>1. Point(c) \in Linking => Point(c) \in Creating
      BY DEF SafeWindows, Linking, Creating
    <3> QED BY <1>1, <3>1 DEF WhoInv
  <2>2. ASSUME NEW p \in Allocated PROVE ~(Point(d)' \in Linking /\ p = local[d].who)
    <3>1. Point(d)' \in Linking => Point(d) \in Creating
      BY <1>2, <1>3, <1>4 DEF SafeWindows, Linking, Creating
    <3> QED BY <1>1, <1>2, <3>1 DEF WhoInv
  <2>3. ASSUME NEW p \in Allocated
        PROVE  Point(p) \in Leaving \/ Awake(p) <=> Point(p)' \in Leaving \/ Awake(p)'
    <3>1. Awake(p)' <=> Awake(p)
      BY <1>2 DEF Awake
    <3>2. Point(p) \in Leaving <=> Point(p)' \in Leaving
      BY <1>2, <1>3 DEF Parked, SafeWindows, Leaving
    <3> QED BY <3>1, <3>2
  <2> QED BY <1>2, <1>6, <2>1, <2>2, <2>3 DEF Queue
<1>8. TypeInv'
  <2>1. stackTop' \in [Procs -> Procs]
    BY <1>1 DEF TypeInv
  <2> QED BY <1>1, <1>2, <2>1 DEF TypeInv
<1>9. CpuInv'
  <2>1. \A p \in Procs \ {d} : stackTop'[p] = p
    BY <1>1 DEF CpuInv, TypeInv
  <2>2. next[d] \in Queue
    <3>1. IsRing(Queue, next, prev)
      BY <1>1 DEF RingInv, At, SafeWindows
    <3> QED BY <3>1 DEF IsRing
  <2>3. state'[d] \notin BlockedStates
    BY <1>2, <1>4 DEF Awake
  <2> QED BY <1>2, <1>4, <1>6, <1>7, <2>1, <2>2, <2>3 DEF CpuInv, At, SafeWindows
<1>10. RingInv'
  <2>1. IsRing(Queue, next, prev)
    BY <1>1 DEF RingInv, At, SafeWindows
  <2> QED BY <1>2, <1>4, <1>6, <1>7, <2>1 DEF RingInv, At, SafeWindows, Leaving
<1>11. IdInv'
  <2>1. ~At("appendIt") /\ ~At("appendIt")'
    BY <1>4, <1>6 DEF At, SafeWindows
  <2> QED BY <1>1, <1>2, <2>1 DEF IdInv
<1>12. WhoInv'
  <2>1. ASSUME NEW p \in Procs, Point(p)' \in Creating
        PROVE  /\ local'[p].who \in Procs \ Allocated'
               /\ \A q \in Procs \ {p} : local'[q].who # local'[p].who
    <3>1. Point(p) \in Creating
      BY <1>3, <2>1 DEF Creating
    <3> QED BY <1>1, <1>2, <3>1 DEF WhoInv
  <2> QED BY <1>4, <1>6, <2>1 DEF WhoInv, At, SafeWindows
<1>13. CallInv'
  BY <1>4, <1>6 DEF CallInv, At, SafeWindows
<1>14. \A ch \in Channels : ~ListMayBeEmpty(ch)
  BY DEF ListMayBeEmpty, SafeWindows
<1>15. WaitInv'
  <2>1. state[c] \notin BlockedStates \/ code'[c] # <<>>
    BY <1>1 DEF WaitInv, CodeInv
  <2>2. Point(c) \notin {"offerValue", "blockWriting", "blockReading", "wake"}
    BY DEF SafeWindows
  <2> QED BY <1>2, <1>13, <1>14, <2>1, <2>2, WaitFrame
<1> QED BY <1>5, <1>8, <1>9, <1>10, <1>11, <1>12, <1>15 DEF Inv

\* switchTask at the end of a call, or of onTimerInterrupt.
LEMMA SwitchTaskInv ==
    ASSUME Inv, NEW c \in Procs, c = onCpu, SwitchTask
    PROVE  Inv'
<1>1. PICK d : d = local[c].nextTask
  OBVIOUS
<1>2. /\ At("switchTask") /\ Advance /\ Load(local[c].prevProcess, d)
      /\ UNCHANGED <<linkVars, procVars, currentProcess, channels, received, local>>
  BY <1>1 DEF SwitchTask, Me
<1>3. TypeInv /\ CodeInv /\ CpuInv /\ Point(c) = "switchTask"
  BY <1>2 DEF Inv, At
<1>4. d \in Queue /\ local[c].prevProcess = c /\ currentProcess = d /\ d \in Procs
  BY <1>1, <1>2, <1>3, OnCpu DEF CpuInv, Me
<1>5. stackTop' = [stackTop EXCEPT ![c] = c] /\ onCpu' = d
  BY <1>2, <1>3, <1>4 DEF Load, CpuInv, TypeInv
<1>6. /\ code' \in [Procs -> Seq(Words)] /\ CodeOf(c)' /\ code'[c] # <<>>
      /\ Point(c)' \in {"return", "readValue", "dead"}
      /\ Point(c)' = "dead" <=> local[c].op = "exit"
      /\ \A p \in Procs \ {c} : code'[p] = code[p] /\ Point(p)' = Point(p)
  BY <1>2, <1>3, NextStatement DEF Advance, Onward, After, Words, Rest
<1> QED
  BY <1>2, <1>3, <1>4, <1>5, <1>6, Switched DEF Parked, SafeWindows

LEMMA TimerSwitchInv ==
    ASSUME TickPoints \subseteq SafeWindows, Inv, NEW c \in Procs, c = onCpu, TimerSwitch
    PROVE  Inv'
<1>1. PICK d : d = next[c]
  OBVIOUS
<1>2. /\ Point(c) \in SafeWindows \cup {"program"}
      /\ currentProcess' = next[currentProcess]
      /\ Load(currentProcess, next[currentProcess])
      /\ UNCHANGED <<linkVars, procVars, channels, received, code, local>>
  BY DEF TimerSwitch
<1>3. TypeInv /\ CodeInv /\ CpuInv /\ currentProcess = c
  BY <1>2 DEF Inv, CpuInv, At, SafeWindows
<1>4. d \in Queue /\ d \in Procs
  BY <1>1, <1>2, <1>3, OnCpu DEF CpuInv, SafeWindows
<1>5. stackTop' = [stackTop EXCEPT ![c] = c] /\ onCpu' = d
  BY <1>1, <1>2, <1>3, <1>4 DEF Load, CpuInv, TypeInv
<1>6. /\ code' \in [Procs -> Seq(Words)] /\ CodeOf(c)' /\ Point(c)' = Point(c)
  BY <1>2, <1>3 DEF CodeInv, CodeOf, Point, TypeInv
<1>7. Point(c) # "dead"
  BY <1>2 DEF SafeWindows
<1> QED
  BY <1>1, <1>2, <1>3, <1>4, <1>5, <1>6, <1>7, Switched DEF Parked

\* The last statement of a call.
LEMMA ReturnInv ==
    ASSUME Inv, NEW c \in Procs, c = onCpu, Return \/ ReadValue
    PROVE  Inv'
<1>1. /\ At(Point(c)) /\ Point(c) \in {"return", "readValue"} /\ Advance
      /\ local' = [local EXCEPT ![c] = NoLocal]
      /\ Point(c) = "readValue" => received' = [received EXCEPT ![c] = channels[local[c].ch].value]
      /\ Point(c) = "return" => UNCHANGED received
      /\ UNCHANGED <<linkVars, procVars, cpuVars, channels>>
  BY DEF Return, ReadValue, At, Let, Me, Chan
<1>2. TypeInv /\ CodeInv /\ CpuInv /\ WhoInv /\ currentProcess = c
  BY <1>1 DEF Inv, CpuInv, At
<1>3. /\ UNCHANGED <<next, prev, state, id, processesList, maxId, channels>>
      /\ Allocated' = Allocated /\ onCpu' = c /\ currentProcess' = c /\ stackTop' = stackTop
  BY <1>1, <1>2 DEF linkVars, procVars, cpuVars, Allocated
<1>4. /\ local' \in [Procs -> LocalType] /\ local'[c] = NoLocal
      /\ \A p \in Procs \ {c} : local'[p] = local[p]
  BY <1>1, <1>2 DEF TypeInv, LocalType, NoLocal
<1>5. NoLocal.op = "none" /\ NoLocal.who = NULL
  BY DEF NoLocal
<1>6. /\ code' \in [Procs -> Seq(Words)] /\ CodeOf(c)' /\ Point(c)' = "program"
      /\ \A p \in Procs \ {c} : code'[p] = code[p] /\ Point(p)' = Point(p)
  BY <1>1, <1>2, <1>4, <1>5, LastStatement DEF Advance
<1>7. c \in Queue /\ Awake(c) /\ Allocated \subseteq Procs /\ c \in Allocated
  BY <1>1, OnCpu DEF Leaving
<1>8. Point(onCpu)' = "program" /\ Me' = local'[c] /\ Me = local[c]
  BY <1>3, <1>6 DEF Point, Me
<1>9. Queue' = Queue
  <2>1. Awake(c)' /\ \A p \in Procs \ {c} : local'[p].op = local[p].op
    BY <1>3, <1>4, <1>5, <1>7 DEF Awake
  <2>2. /\ Point(c) \notin Linking \cup Leaving /\ Point(c)' \notin Linking \cup Leaving
    BY <1>1, <1>6 DEF Linking, Leaving
  <2> QED BY <1>3, <1>6, <1>7, <2>1, <2>2, QueueSame
<1>10. CodeInv'
  <2>1. \A p \in Procs : CodeOf(p)'
    BY <1>2, <1>4, <1>6 DEF CodeInv, CodeOf
  <2> QED BY <1>2, <1>3, <1>6, <1>7, <2>1 DEF CodeInv
<1>11. TypeInv'
  <2>1. received' \in [Procs -> Values \cup {NoValue}]
    <3>1. CASE Point(c) = "readValue"
      <4>1. local[c].ch \in Channels
        BY <1>2, <3>1, PointOf DEF Receiving
      <4>2. channels[local[c].ch].value \in Values \cup {NoValue}
        BY <1>2, <4>1 DEF TypeInv, ChannelType
      <4> QED BY <1>1, <1>2, <3>1, <4>2 DEF TypeInv
    <3>2. CASE Point(c) = "return"
      BY <1>1, <1>2, <3>2 DEF TypeInv
    <3> QED BY <1>1, <3>1, <3>2
  <2> QED BY <1>2, <1>3, <1>4, <1>6, <2>1 DEF TypeInv
<1>12. CpuInv'
  <2>1. \A p \in Procs \ {c} : stackTop[p] = p
    BY <1>2 DEF CpuInv
  <2>2. state[c] \notin BlockedStates
    BY <1>7 DEF Awake
  <2> QED BY <1>3, <1>7, <1>8, <1>9, <2>1, <2>2 DEF CpuInv, At
<1>13. RingInv'
  BY <1>1, <1>3, <1>8, <1>9, RingSame DEF linkVars, Leaving
<1>14. IdInv'
  <2>1. ~At("appendIt") /\ ~At("appendIt")'
    BY <1>1, <1>8 DEF At
  <2> QED BY <1>3, <2>1 DEF Inv, IdInv
<1>15. WhoInv'
  <2>1. ASSUME NEW p \in Procs, Point(p)' \in Creating
        PROVE  /\ local'[p].who \in Procs \ Allocated'
               /\ \A q \in Procs \ {p} : local'[q].who # local'[p].who
    <3>1. p # c /\ Point(p) \in Creating
      BY <1>6, <2>1 DEF Creating
    <3>2. /\ local[p].who \in Procs \ Allocated
          /\ \A q \in Procs \ {p} : local[q].who # local[p].who
      BY <1>2, <3>1 DEF WhoInv
    <3>3. local'[c].who # local[p].who
      BY <1>4, <1>5, <3>2, PreemptAssumption
    <3> QED BY <1>3, <1>4, <3>1, <3>2, <3>3
  <2> QED BY <1>8, <2>1 DEF WhoInv, At
<1>16. CallInv'
  BY <1>8 DEF CallInv, At
<1>17. \A ch \in Channels : ~ListMayBeEmpty(ch)
  BY <1>1 DEF ListMayBeEmpty
<1>18. WaitInv'
  <2>1. state[c] \notin BlockedStates
    BY <1>7 DEF Awake
  <2> QED BY <1>1, <1>3, <1>4, <1>6, <1>16, <1>17, <2>1, WaitFrame
<1> QED BY <1>10, <1>11, <1>12, <1>13, <1>14, <1>15, <1>18 DEF Inv

-----------------------------------------------------------------------------
LEMMA FirstStatements ==
    /\ NewProcess[1] = "numberIt" /\ Yield[1] = "readNext" /\ SendUnused[1] = "markSender"
    /\ SendReceiver[1] = "passValue" /\ SendSender[1] = "return"
    /\ ReceiveUnused[1] = "markReceiver" /\ ReceiveSender[1] = "markUnused"
    /\ ReceiveQueued[1] = "appendWaiter" /\ Exit[1] = "prevent"
  BY DEF NewProcess, Yield, SendUnused, SendReceiver, SendSender, ReceiveUnused,
         ReceiveSender, ReceiveQueued, Exit

\* A program makes a call; what is left to show is about its channel.
LEMMA CallStep ==
    ASSUME Inv, NEW c \in Procs, c = onCpu, NEW C \in Calls, NEW lo \in LocalType,
           Call(C, lo), Fits(C, lo),
           \/ lo.who = NULL
           \/ /\ C = NewProcess /\ lo.who \in Procs \ Allocated
              /\ \A q \in Procs : local[q].who # lo.who,
           C = NewProcess => lo.who # NULL,
           C \notin {Yield, SendReceiver, SendSender, ReceiveSender, NewProcess} => ~Alone
    PROVE  /\ Point(c) = "program" /\ Point(onCpu)' = C[1]
           /\ Me' = lo /\ channels' = channels
           /\ CallInv' => Inv'
<1>1. /\ Point(c) = "program" /\ code' = [code EXCEPT ![c] = C]
      /\ local' = [local EXCEPT ![c] = lo]
      /\ UNCHANGED <<next, prev, state, id, processesList, maxId, currentProcess,
                     stackTop, onCpu, channels, received>>
  BY DEF Call, InProgram, linkVars, procVars, cpuVars
<1>2. TypeInv /\ CodeInv /\ CpuInv /\ WhoInv /\ RingInv /\ currentProcess = c
  BY <1>1 DEF Inv, CpuInv, At
<1>3. /\ C \in Seq(Words) /\ Len(C) \in 1 .. 13 /\ SubSeq(C, 1, Len(C)) = C /\ C # <<>>
      /\ Head(C) = C[1]
  <2>1. C \in Seq(Words) /\ Len(C) \in 1 .. 13
    BY CallsAreCode
  <2>2. SubSeq(C, 1, Len(C)) = C
    BY <2>1, SubSeqFull
  <2>3. 1 \in 1 .. Len(C)
    <3>1. \A n \in 1 .. 13 : 1 \in 1 .. n
      OBVIOUS
    <3> QED BY <2>1, <3>1
  <2>4. SubSeq(C, 1, Len(C)) # <<>> /\ Head(SubSeq(C, 1, Len(C))) = C[1]
    BY <2>3, RestOfCall
  <2> QED BY <2>1, <2>2, <2>4
<1>4. /\ code' \in [Procs -> Seq(Words)] /\ code'[c] = C /\ Point(c)' = C[1]
      /\ \A p \in Procs \ {c} : code'[p] = code[p] /\ Point(p)' = Point(p)
      /\ local' \in [Procs -> LocalType] /\ local'[c] = lo
      /\ \A p \in Procs \ {c} : local'[p] = local[p]
  BY <1>1, <1>2, <1>3 DEF TypeInv, Point
<1>5. /\ c \in Queue /\ Awake(c) /\ Allocated \subseteq Procs /\ c \in Allocated
      /\ next[c] \in Queue /\ Allocated' = Allocated
  BY <1>1, OnCpu DEF Leaving, Allocated
<1>6. Point(onCpu)' = C[1] /\ Me' = lo /\ Me = local[c]
  BY <1>1, <1>4 DEF Point, Me
<1>7. /\ C[1] \in {"numberIt", "readNext", "markSender", "passValue", "return", "markReceiver",
                   "markUnused", "appendWaiter", "prevent"}
      /\ C[1] \in Creating => C = NewProcess
      /\ C[1] \in Leaving => C \notin {Yield, SendReceiver, SendSender, ReceiveSender, NewProcess}
      /\ C[1] = "prevent" <=> C = Exit
      /\ C[1] \in {"passValue", "markUnused"} => C # NewProcess
      /\ C # Exit => lo.op # "exit"
      /\ C = Exit => lo.op = "exit"
  <2> USE DEF Calls, Creating, Leaving, Fits
  <2>1. C # Exit => lo.op # "exit"
    OBVIOUS
  <2>2. C[1] = "prevent" <=> C = Exit
    BY FirstStatements
  <2>3. C[1] \in Leaving => C \notin {Yield, SendReceiver, SendSender, ReceiveSender, NewProcess}
    BY FirstStatements
  <2> QED BY <2>1, <2>2, <2>3, FirstStatements
<1>8. Queue' = Queue
  <2>1. \A p \in Allocated : p \in Queue <=> Point(p) \in Leaving \/ Awake(p)
    BY <1>1 DEF Queue, Linking
  <2>2. lo.who \notin Allocated
    BY <1>5, PreemptAssumption
  <2>3. \A p \in Allocated : p \in Queue' <=> Point(p)' \in Leaving \/ Awake(p)'
    BY <1>5, <1>6, <2>2 DEF Queue
  <2>4. Point(c)' \in Leaving \/ Awake(c)'
    BY <1>1, <1>4, <1>5, <1>7 DEF Awake, Leaving
  <2>5. \A p \in Allocated \ {c} : Point(p) \in Leaving \/ Awake(p) <=> Point(p)' \in Leaving \/ Awake(p)'
    BY <1>1, <1>4, <1>5 DEF Awake
  <2>6. Queue \subseteq Allocated /\ Queue' \subseteq Allocated
    BY <1>5 DEF Queue
  <2> QED BY <1>5, <2>1, <2>3, <2>4, <2>5, <2>6
<1>9. CodeInv'
  <2>1. CodeOf(c)'
    <3>1. 1 \in 1 .. Len(C)
      BY <1>3
    <3> QED BY <1>3, <1>4, <3>1 DEF CodeOf
  <2>2. \A p \in Procs \ {c} : CodeOf(p)'
    BY <1>2, <1>4 DEF CodeInv, CodeOf
  <2> QED BY <1>1, <1>2, <1>4, <1>5, <2>1, <2>2 DEF CodeInv
<1>10. TypeInv'
  BY <1>1, <1>2, <1>4 DEF TypeInv
<1>11. CpuInv'
  <2>1. \A p \in Procs \ {c} : stackTop[p] = p
    BY <1>2 DEF CpuInv
  <2>2. state[c] \notin BlockedStates
    BY <1>5 DEF Awake
  <2>3. C[1] = "prevent" => ~Awake(onCpu)'
    BY <1>1, <1>4, <1>7 DEF Awake
  <2> QED BY <1>1, <1>2, <1>5, <1>6, <1>7, <1>8, <2>1, <2>2, <2>3 DEF CpuInv, At
<1>12. RingInv'
  <2>1. IsRing(Queue, next, prev)
    BY <1>1, <1>2 DEF RingInv, At
  <2>2. C[1] \in Leaving => next[c] # c
    BY <1>2, <1>7 DEF Alone
  <2> QED BY <1>1, <1>5, <1>6, <1>7, <1>8, <2>1, <2>2 DEF RingInv, At
<1>13. IdInv'
  <2>1. ~At("appendIt") /\ ~At("appendIt")'
    BY <1>1, <1>6, <1>7 DEF At
  <2> QED BY <1>1, <2>1 DEF Inv, IdInv
<1>14. WhoInv'
  <2>1. ASSUME NEW p \in Procs, Point(p)' \in Creating
        PROVE  /\ local'[p].who \in Procs \ Allocated'
               /\ \A q \in Procs \ {p} : local'[q].who # local'[p].who
    <3>1. CASE p = c
      BY <1>4, <1>5, <1>7, <2>1, <3>1
    <3>2. CASE p # c
      <4>1. /\ local[p].who \in Procs \ Allocated
            /\ \A q \in Procs \ {p} : local[q].who # local[p].who
        BY <1>2, <1>4, <2>1, <3>2 DEF WhoInv
      <4>2. lo.who # local[p].who
        BY <4>1, PreemptAssumption
      <4> QED BY <1>4, <1>5, <3>2, <4>1, <4>2
    <3> QED BY <3>1, <3>2
  <2>2. C[1] \in {"passValue", "markUnused"} => lo.who = NULL
    BY <1>7
  <2> QED BY <1>6, <1>7, <2>1, <2>2 DEF WhoInv, At
<1>15. \A ch \in Channels : ~ListMayBeEmpty(ch)
  BY <1>1 DEF ListMayBeEmpty
<1>16. CallInv' => WaitInv'
  <2>1. state[c] \notin BlockedStates
    BY <1>5 DEF Awake
  <2> QED BY <1>1, <1>4, <1>5, <1>15, <2>1, WaitFrame
<1> QED BY <1>1, <1>6, <1>9, <1>10, <1>11, <1>12, <1>13, <1>14, <1>16 DEF Inv

LEMMA CallInvs ==
    ASSUME Inv, NEW c \in Procs, c = onCpu,
           \/ \E p \in Procs : CallNewProcess(p)
           \/ \E ch \in Channels : CallReceive(ch) \/ \E v \in Values : CallSend(ch, v)
           \/ CallSwitch \/ CallExit
    PROVE  Inv'
<1> USE FirstStatements
<1>1. NoLocal \in LocalType /\ NoLocal.op = "none" /\ NoLocal.who = NULL
  BY DEF NoLocal, LocalType
<1>2. TypeInv /\ WaitInv
  BY DEF Inv
<1>3. ASSUME NEW p \in Procs, CallNewProcess(p) PROVE Inv'
  <2>1. PICK lo : lo = [NoLocal EXCEPT !.who = p]
    OBVIOUS
  <2>2. lo \in LocalType /\ lo.op = "none" /\ lo.who = p
    BY <1>1, <2>1 DEF LocalType
  <2>3. /\ Call(NewProcess, lo) /\ p \notin Allocated /\ \A q \in Procs : local[q].who # p
        /\ NewProcess \in Calls /\ p # NULL
    BY <1>3, <2>1, PreemptAssumption DEF CallNewProcess, Calls
  <2>4. Fits(NewProcess, lo)
    BY <2>2 DEF Fits
  <2>5. Point(onCpu)' = NewProcess[1] /\ Me' = lo /\ (CallInv' => Inv')
    BY <2>2, <2>3, <2>4, CallStep
  <2>6. CallInv'
    BY <2>5 DEF CallInv, At
  <2> QED BY <2>5, <2>6
<1>4. ASSUME NEW ch \in Channels, NEW v \in Values, CallSend(ch, v) PROVE Inv'
  <2>1. PICK lo, s : /\ lo = [NoLocal EXCEPT !.op = "send", !.ch = ch, !.val = v]
                     /\ s = channels[ch].state
    OBVIOUS
  <2>2. lo \in LocalType /\ lo.op = "send" /\ lo.who = NULL /\ lo.ch = ch
    BY <1>1, <2>1 DEF LocalType
  <2>3. s \in {"Unused", "Sender", "Receiver"} /\ ChannelOk(ch)
    BY <1>2, <2>1 DEF TypeInv, ChannelType, WaitInv
  <2>4. PICK C : C = CASE s = "Unused"   -> SendUnused
                       [] s = "Receiver" -> SendReceiver
                       [] s = "Sender"   -> SendSender
    OBVIOUS
  <2>5. Call(C, lo) /\ (s = "Unused" => ~Alone)
    BY <1>4, <2>1, <2>4 DEF CallSend
  <2>6. /\ C \in Calls /\ C # NewProcess /\ Fits(C, lo)
        /\ C[1] = (IF s = "Unused" THEN "markSender" ELSE IF s = "Receiver" THEN "passValue" ELSE "return")
        /\ C \notin {Yield, SendReceiver, SendSender, ReceiveSender, NewProcess} => s = "Unused"
    BY <2>2, <2>3, <2>4 DEF Calls, Fits
  <2>7. /\ Point(c) = "program" /\ Point(onCpu)' = C[1] /\ Me' = lo /\ channels' = channels
        /\ CallInv' => Inv'
    BY <2>2, <2>5, <2>6, CallStep
  <2>8. Chan' = channels[ch] /\ (s = "Receiver" => channels[ch].receive # <<>>)
    BY <2>1, <2>2, <2>3, <2>7 DEF Chan, ChannelOk, ListMayBeEmpty
  <2>9. CallInv'
    BY <2>1, <2>3, <2>6, <2>7, <2>8 DEF CallInv, At
  <2> QED BY <2>7, <2>9
<1>5. ASSUME NEW ch \in Channels, CallReceive(ch) PROVE Inv'
  <2>1. PICK lo, s : /\ lo = [NoLocal EXCEPT !.op = "receive", !.ch = ch]
                     /\ s = channels[ch].state
    OBVIOUS
  <2>2. lo \in LocalType /\ lo.op = "receive" /\ lo.who = NULL /\ lo.ch = ch
    BY <1>1, <2>1 DEF LocalType
  <2>3. s \in {"Unused", "Sender", "Receiver"}
    BY <1>2, <2>1 DEF TypeInv, ChannelType
  <2>4. PICK C : C = CASE s = "Unused"   -> ReceiveUnused
                       [] s = "Sender"   -> ReceiveSender
                       [] s = "Receiver" -> ReceiveQueued
    OBVIOUS
  <2>5. Call(C, lo) /\ (s # "Sender" => ~Alone)
    BY <1>5, <2>1, <2>4 DEF CallReceive
  <2>6. /\ C \in Calls /\ C # NewProcess /\ Fits(C, lo)
        /\ C[1] = (IF s = "Unused" THEN "markReceiver" ELSE IF s = "Sender" THEN "markUnused" ELSE "appendWaiter")
        /\ C \notin {Yield, SendReceiver, SendSender, ReceiveSender, NewProcess} => s # "Sender"
    BY <2>2, <2>3, <2>4 DEF Calls, Fits
  <2>7. /\ Point(onCpu)' = C[1] /\ Me' = lo /\ channels' = channels
        /\ CallInv' => Inv'
    BY <2>2, <2>5, <2>6, CallStep
  <2>8. Chan' = channels[ch]
    BY <2>2, <2>7 DEF Chan
  <2>9. CallInv'
    BY <2>1, <2>2, <2>3, <2>6, <2>7, <2>8 DEF CallInv, At
  <2> QED BY <2>7, <2>9
<1>6. ASSUME CallSwitch PROVE Inv'
  <2>1. Call(Yield, NoLocal) /\ Yield \in Calls /\ Yield # NewProcess
    BY <1>6 DEF CallSwitch, Calls
  <2>2. Fits(Yield, NoLocal)
    BY <1>1 DEF Fits
  <2>3. Point(onCpu)' = Yield[1] /\ Me' = NoLocal /\ (CallInv' => Inv')
    BY <1>1, <2>1, <2>2, CallStep
  <2> QED BY <2>3 DEF CallInv, At
<1>7. ASSUME CallExit PROVE Inv'
  <2>1. PICK lo : lo = [NoLocal EXCEPT !.op = "exit"]
    OBVIOUS
  <2>2. lo \in LocalType /\ lo.op = "exit" /\ lo.who = NULL
    BY <1>1, <2>1 DEF LocalType
  <2>3. Call(Exit, lo) /\ ~Alone /\ Exit \in Calls /\ Exit # NewProcess
    BY <1>7, <2>1 DEF CallExit, Calls
  <2>4. Fits(Exit, lo)
    BY <2>2 DEF Fits
  <2>5. Point(onCpu)' = Exit[1] /\ Me' = lo /\ (CallInv' => Inv')
    BY <2>2, <2>3, <2>4, CallStep
  <2> QED BY <2>5 DEF CallInv, At
<1> QED BY <1>3, <1>4, <1>5, <1>6, <1>7

\* Nothing but the flag changes.
LEMMA FlagOnlyInv ==
    ASSUME Inv, UNCHANGED <<linkVars, procVars, cpuVars, channels, received, code, local>>
    PROVE  Inv'
<1>1. /\ UNCHANGED <<next, prev, state, id, processesList, maxId, currentProcess, stackTop,
                     onCpu, channels, received, code, local>>
  BY DEF linkVars, procVars, cpuVars
<1>2. /\ Allocated' = Allocated /\ Me' = Me /\ Chan' = Chan
      /\ \A p : Point(p)' = Point(p) /\ Process(p)' = Process(p) /\ Awake(p)' = Awake(p)
      /\ \A s : At(s)' = At(s)
      /\ Queue' = Queue
  BY <1>1 DEF Allocated, Me, Chan, Point, Process, Awake, At, Queue
<1>3. TypeInv' /\ CodeInv'
  BY <1>1, <1>2 DEF Inv, TypeInv, CodeInv, CodeOf
<1>4. CpuInv' /\ RingInv'
  BY <1>1, <1>2 DEF Inv, CpuInv, RingInv
<1>5. IdInv' /\ WhoInv'
  BY <1>1, <1>2 DEF Inv, IdInv, WhoInv
<1>6. WaitInv'
  <2>1. CallInv'
    BY <1>1, <1>2 DEF Inv, WaitInv, CallInv
  <2>2. \A ch \in Channels : ChannelOk(ch)'
    BY <1>1, <1>2 DEF Inv, WaitInv, ChannelOk, Waits, ListMayBeEmpty
  <2>3. \A p \in Allocated' : state'[p] \in BlockedStates =>
          Known(p)' /\ local'[p].op \in {"send", "receive"} /\ code'[p] # <<>>
    BY <1>1, <1>2 DEF Inv, WaitInv, Known
  <2> QED BY <2>1, <2>2, <2>3 DEF WaitInv
<1> QED BY <1>3, <1>4, <1>5, <1>6 DEF Inv

-----------------------------------------------------------------------------
\* With timer interrupts in the safe windows only, every step keeps Inv.
LEMMA NextInv ==
    ASSUME TickPoints \subseteq SafeWindows, Inv, [Next]_vars
    PROVE  Inv'
<1> PICK c \in Procs : c = onCpu
  BY DEF Inv, TypeInv
<1>1. CASE EnableTaskSwitch \/ UNCHANGED vars
  BY <1>1, FlagOnlyInv DEF EnableTaskSwitch, vars
<1>2. CASE \/ \E p \in Procs : CallNewProcess(p)
           \/ \E ch \in Channels : CallReceive(ch) \/ \E v \in Values : CallSend(ch, v)
           \/ CallSwitch \/ CallExit
  BY <1>2, CallInvs
<1>3. CASE \/ MarkSender \/ OfferValue \/ PassValue \/ MarkReceiver \/ NewList
           \/ AppendWaiter \/ TestEmpty \/ ResetChannel \/ FreeList
  BY <1>3, MarkSenderInv, OfferValueInv, PassValueInv, MarkReceiverInv, NewListInv,
     AppendWaiterInv, EmptyListInv, ResetChannelInv
<1>4. CASE PopWaiter \/ MarkUnused \/ BlockWriting \/ BlockReading \/ Wake
  BY <1>4, PopWaiterInv, MarkUnusedInv, BlockInv, WakeInv
<1>5. CASE LinkOut \/ LinkBack \/ LinkIn \/ UnlinkBack \/ UnlinkForward
  BY <1>5, LinkOutBackInv, LinkInInv, UnlinkInv
<1>6. CASE Prevent \/ Permit \/ ReadNext \/ SetCurrent
  BY <1>6, QuietPlainInv
<1>7. CASE NumberIt \/ AppendIt
  BY <1>7, CreateInv
<1>8. CASE SwitchTask \/ Return \/ ReadValue \/ TimerSwitch
  BY <1>8, SwitchTaskInv, ReturnInv, TimerSwitchInv
<1> QED
  BY <1>1, <1>2, <1>3, <1>4, <1>5, <1>6, <1>7, <1>8 DEF Next

LEMMA PreemptInv ==
    ASSUME TickPoints \subseteq SafeWindows
    PROVE  Spec => []Inv
<1>1. Inv /\ [Next]_vars => Inv'
  BY NextInv
<1> QED BY <1>1, InitInv, PTL DEF Spec

\* Interrupts in these windows never find, and never leave, a run queue that
\* is not one ring: insertProcess and delCurrentProcess of kernel.c always
\* finish their stores before another process touches the links.
THEOREM RingIsIntact ==
    ASSUME TickPoints \subseteq SafeWindows
    PROVE  Spec => []RingIntact
<1>1. ASSUME Inv PROVE RingIntact
  <2>1. InRing = Queue
    BY <1>1, QueueIsInRing DEF Inv
  <2>2. LinksAtRest => ~At("linkIn") /\ ~At("unlinkForward")
    BY <1>1 DEF LinksAtRest, At, Inv, TypeInv
  <2> QED BY <1>1, <2>1, <2>2 DEF RingIntact, Inv, RingInv
<1> QED BY <1>1, PreemptInv, PTL

\* A process that send or receive has put to sleep stays known to its channel,
\* or is in the hands of the call that is waking it up.
THEOREM NobodyGetsLost ==
    ASSUME TickPoints \subseteq SafeWindows
    PROVE  Spec => []NobodyIsLost
<1>1. ASSUME Inv, NEW p \in Allocated \cap Left, local[p].op # "exit"
      PROVE  \/ \E ch \in Channels :
                   \/ channels[ch].state = "Sender" /\ channels[ch].sendId = id[p]
                   \/ channels[ch].state = "Receiver" /\ id[p] \in Entries(channels[ch].receive)
             \/ p \in Pending
  <2>1. state[p] \in BlockedStates
    BY <1>1 DEF Left, BlockedStates
  <2>2. Known(p)
    BY <1>1, <2>1 DEF Inv, WaitInv
  <2>3. At("wake") => HasYetTo(onCpu, "linkIn") /\ onCpu \in Procs
    BY <1>1, PointOf DEF Inv, TypeInv, At, Linking
  <2> QED BY <2>2, <2>3 DEF Known, Pending, Me
<1>2. Inv => NobodyIsLost
  BY <1>1 DEF NobodyIsLost
<1> QED BY <1>2, PreemptInv, PTL

\* switchTask and onTimerInterrupt resume every process on its own stack.
THEOREM EveryProcessKeepsItsStack ==
    ASSUME TickPoints \subseteq SafeWindows
    PROVE  Spec => []OwnStack
<1>1. Inv => OwnStack
  BY DEF Inv, CpuInv, OwnStack, InProgram, At
<1> QED BY <1>1, PreemptInv, PTL

\* Nobody returns from exit, a process that runs its program is in the ring,
\* and send never pops an empty list.
THEOREM CallsStaySane ==
    ASSUME TickPoints \subseteq SafeWindows
    PROVE  Spec => []CallsAreSane
<1>1. ASSUME Inv PROVE CallsAreSane
  <2>1. InRing = Queue /\ onCpu \in Procs
    BY <1>1, QueueIsInRing DEF Inv, TypeInv
  <2>2. Point(onCpu) # "dead"
    BY <1>1, <2>1, PointOf, OnCpu DEF Inv, Awake, Leaving
  <2>3. InProgram(onCpu) => onCpu \in Queue
    BY <1>1 DEF Inv, CpuInv, InProgram
  <2>4. At("popWaiter") => Chan.receive # <<>>
    BY <1>1 DEF Inv, WaitInv, CallInv, At
  <2> QED BY <2>1, <2>2, <2>3, <2>4 DEF CallsAreSane
<1> QED BY <1>1, PreemptInv, PTL

\* Although newProcess numbers a process before it lists it, ids index
\* processesList: no other process can number or list one in between.
THEOREM IdsStayIndexes ==
    ASSUME TickPoints \subseteq SafeWindows
    PROVE  Spec => []IdsIndexTheList
<1>1. Inv => IdsIndexTheList
  <2> SUFFICES ASSUME Inv PROVE IdsIndexTheList
    OBVIOUS
  <2>1. DOMAIN processesList = 1 .. Len(processesList)
    BY LenProperties DEF Inv, TypeInv
  <2> QED BY <2>1 DEF Inv, IdInv, IdsIndexTheList
<1> QED BY <1>1, PreemptInv, PTL

-----------------------------------------------------------------------------
\* No process is interrupted in a call, and ids are signed chars.
CallsAreUninterrupted == TickPoints = {} /\ MaxId \in 0 .. 127

-----------------------------------------------------------------------------
Before(s) == Point(onCpu) \in s

\* The statements that are followed by the one that blocks or wakes a process.
BlocksWriting == {"markSender", "offerValue", "blockWriting"}
BlocksReading == {"markReceiver", "newList", "appendWaiter", "blockReading"}
Wakes         == {"passValue", "popWaiter", "markUnused", "wake", "numberIt"}

\* The process that the call is going to insert.
Last_(s) == s[Len(s)]
Woken == IF Before({"passValue", "popWaiter"}) THEN Process(Last_(Chan.receive))
         ELSE IF At("markUnused") THEN Process(Chan.sendId) ELSE Me.who

FinalNext ==
    IF Before(Leaving) THEN UnlinkNext(next, prev, onCpu)
    ELSE IF Before({"linkBack", "linkIn"}) THEN [next EXCEPT ![onCpu] = Woken]
    ELSE IF Before(Linking) THEN InsertNext(next, prev, onCpu, Woken) ELSE next
FinalPrev ==
    IF Before(Leaving \ {"unlinkForward"}) THEN UnlinkPrev(next, prev, onCpu)
    ELSE IF At("linkBack") THEN [prev EXCEPT ![next[onCpu]] = Woken]
    ELSE IF Before(Linking \ {"linkIn"}) THEN InsertPrev(next, prev, onCpu, Woken) ELSE prev
FinalState ==
    IF Before(BlocksWriting) THEN [state EXCEPT ![onCpu] = "BlockedWriting"]
    ELSE IF Before(BlocksReading) THEN [state EXCEPT ![onCpu] = "BlockedReading"]
    ELSE IF Before(Wakes) THEN [state EXCEPT ![Woken] = "Runnable"] ELSE state
FinalId    == IF At("numberIt") THEN [id EXCEPT ![Me.who] = maxId + 1] ELSE id
FinalMaxId == IF At("numberIt") THEN maxId + 1 ELSE maxId
FinalList  == IF Before(Creating) THEN Append(processesList, Me.who) ELSE processesList
FinalFlag  == IF Before(Leaving \cup {"permit"}) THEN FALSE ELSE preventTaskSwitch

\* The fields of the channel, one by one.
FinalChanState ==
    LET waiters == IF Before({"passValue", "popWaiter"})
                   THEN SubSeq(Chan.receive, 1, Len(Chan.receive) - 1) ELSE Chan.receive
    IN  IF At("markSender") THEN "Sender"
        ELSE IF At("markReceiver") THEN "Receiver"
        ELSE IF \/ At("markUnused")
                \/ /\ Before({"passValue", "popWaiter", "wake", "linkOut", "linkBack",
                              "linkIn", "testEmpty", "resetChannel"})
                   /\ Me.op = "send" /\ waiters = <<>>
             THEN "Unused" ELSE Chan.state
FinalSendId == IF Before({"markSender", "offerValue"}) THEN id[onCpu] ELSE Chan.sendId
FinalValue  == IF Before({"markSender", "offerValue", "passValue"}) THEN Me.val ELSE Chan.value
FinalReceive ==
    IF Before({"markReceiver", "newList"}) THEN Append(<<>>, id[onCpu])
    ELSE IF At("appendWaiter") THEN Append(Chan.receive, id[onCpu])
    ELSE IF Before({"passValue", "popWaiter"})
    THEN SubSeq(Chan.receive, 1, Len(Chan.receive) - 1) ELSE Chan.receive
OnChannel == Before(BlocksWriting \cup BlocksReading \cup (Linking \ Creating)
                    \cup {"testEmpty", "resetChannel"}) /\ Me.op \in {"send", "receive"}
FinalChannels ==
    IF OnChannel
    THEN [channels EXCEPT ![Me.ch] = [state |-> FinalChanState, sendId |-> FinalSendId,
                                      value |-> FinalValue, receive |-> FinalReceive]]
    ELSE channels

\* The process that will be in its program when the call is over.
Target ==
    IF \/ Before(Leaving \cup {"permit", "readNext", "testEmpty", "resetChannel", "freeList"})
       \/ Before(Linking) /\ Me.op = "send"
    THEN FinalNext[onCpu]
    ELSE IF Before({"setCurrent", "switchTask"}) THEN Me.nextTask ELSE onCpu

\* A process that is suspended in receive reads the value of its channel.
Reads(t, chans) ==
    IF local[t].op = "receive" THEN [received EXCEPT ![t] = chans[local[t].ch].value]
                               ELSE received
Idle == [op |-> "none", on |-> NoChannel]
CallsBut(t) == [p \in Procs |-> IF p = t THEN Idle ELSE Suspended(p)]

Final == [next |-> FinalNext, prev |-> FinalPrev, state |-> FinalState, id |-> FinalId,
          processesList |-> FinalList, maxId |-> FinalMaxId,
          currentProcess |-> Target, preventTaskSwitch |-> FinalFlag,
          channels |-> FinalChannels, received |-> Reads(Target, FinalChannels),
          call |-> CallsBut(Target)]

-----------------------------------------------------------------------------
\* The actions of Kernel, between two states given as records.
Same(a, b, fields) == \A f \in fields : b[f] = a[f]

SwitchesTo(q, a, b, calls) ==
    /\ b.currentProcess = q
    /\ b.call = [calls EXCEPT ![q] = Idle]
    /\ b.received = IF calls[q].op = "receive"
                    THEN [a.received EXCEPT ![q] = b.channels[calls[q].on].value]
                    ELSE a.received
SuspendedIn(a, op, ch) == [a.call EXCEPT ![a.currentProcess] = [op |-> op, on |-> ch]]

Inserts(p, a, b) ==
    /\ b.next = InsertNext(a.next, a.prev, a.currentProcess, p)
    /\ b.prev = InsertPrev(a.next, a.prev, a.currentProcess, p)

LeavesFor(a, b, calls) ==
    LET c == a.currentProcess IN
    /\ a.next[c] # c
    /\ b.next = UnlinkNext(a.next, a.prev, c)
    /\ b.prev = UnlinkPrev(a.next, a.prev, c)
    /\ b.preventTaskSwitch = FALSE
    /\ SwitchesTo(b.next[c], a, b, calls)

\* A channel with an offer, or given a value, or waited on; one whose offer is taken.
Offered(chans, ch, n, v) ==
    [chans EXCEPT ![ch].state = "Sender", ![ch].sendId = n, ![ch].value = v]
Given(chans, ch, v, left) ==
    [chans EXCEPT ![ch].value = v, ![ch].receive = left,
                  ![ch].state = IF left = <<>> THEN "Unused" ELSE @]
Awaited(chans, ch, waiters) ==
    [chans EXCEPT ![ch].state = "Receiver", ![ch].receive = waiters]
Taken(chans, ch) == [chans EXCEPT ![ch].state = "Unused"]

Enables(a, b) ==
    /\ a.preventTaskSwitch /\ b.preventTaskSwitch = FALSE
    /\ Same(a, b, {"next", "prev", "state", "id", "processesList", "maxId", "currentProcess",
                   "channels", "call", "received"})

Creates(p, a, b) ==
    /\ a.maxId < MaxId /\ \A i \in DOMAIN a.processesList : a.processesList[i] # p
    /\ b.maxId = a.maxId + 1
    /\ b.id = [a.id EXCEPT ![p] = b.maxId]
    /\ b.state = [a.state EXCEPT ![p] = "Runnable"]
    /\ b.processesList = Append(a.processesList, p)
    /\ b.call = [a.call EXCEPT ![p] = Idle]
    /\ Inserts(p, a, b)
    /\ Same(a, b, {"currentProcess", "preventTaskSwitch", "channels", "received"})

Offers(ch, v, a, b) ==
    LET c == a.currentProcess IN
    /\ a.channels[ch].state = "Unused"
    /\ b.channels = Offered(a.channels, ch, a.id[c], v)
    /\ b.state = [a.state EXCEPT ![c] = "BlockedWriting"]
    /\ LeavesFor(a, b, SuspendedIn(a, "send", ch))
    /\ Same(a, b, {"id", "processesList", "maxId"})

Passes(ch, v, a, b) ==
    LET waiters == a.channels[ch].receive
        left    == SubSeq(waiters, 1, Len(waiters) - 1)
        r       == a.processesList[waiters[Len(waiters)] + 1]
    IN  /\ a.channels[ch].state = "Receiver"
        /\ b.channels = Given(a.channels, ch, v, left)
        /\ b.state = [a.state EXCEPT ![r] = "Runnable"]
        /\ Inserts(r, a, b)
        /\ SwitchesTo(b.next[a.currentProcess], a, b, SuspendedIn(a, "send", ch))
        /\ Same(a, b, {"id", "processesList", "maxId", "preventTaskSwitch"})

Waits_(ch, a, b) ==
    LET c       == a.currentProcess
        waiters == IF a.channels[ch].state = "Unused" THEN <<>> ELSE a.channels[ch].receive
    IN  /\ a.channels[ch].state \in {"Unused", "Receiver"}
        /\ b.channels = Awaited(a.channels, ch, Append(waiters, a.id[c]))
        /\ b.state = [a.state EXCEPT ![c] = "BlockedReading"]
        /\ LeavesFor(a, b, SuspendedIn(a, "receive", ch))
        /\ Same(a, b, {"id", "processesList", "maxId"})

Takes(ch, a, b) ==
    LET s == a.processesList[a.channels[ch].sendId + 1]
    IN  /\ a.channels[ch].state = "Sender"
        /\ b.channels = Taken(a.channels, ch)
        /\ b.state = [a.state EXCEPT ![s] = "Runnable"]
        /\ Inserts(s, a, b)
        /\ b.received = [a.received EXCEPT ![a.currentProcess] = a.channels[ch].value]
        /\ Same(a, b, {"id", "processesList", "maxId", "currentProcess",
                       "preventTaskSwitch", "call"})

Exits(a, b) ==
    /\ a.currentProcess # Main
    /\ LeavesFor(a, b, SuspendedIn(a, "exit", NoChannel))
    /\ Same(a, b, {"state", "id", "processesList", "maxId", "channels"})

Yields(a, b) ==
    /\ SwitchesTo(a.next[a.currentProcess], a, b, a.call)
    /\ Same(a, b, {"next", "prev", "state", "id", "processesList", "maxId",
                   "preventTaskSwitch", "channels"})

Steps(a, b) ==
    \/ a = b
    \/ Enables(a, b)
    \/ /\ ~a.preventTaskSwitch
       /\ \/ \E p \in Procs : Creates(p, a, b)
          \/ \E ch \in Channels, v \in Values : Offers(ch, v, a, b) \/ Passes(ch, v, a, b)
          \/ \E ch \in Channels : Waits_(ch, a, b) \/ Takes(ch, a, b)
          \/ Exits(a, b) \/ Yields(a, b)

-----------------------------------------------------------------------------
\* Where the processes are that are not on the CPU, and what Kernel shows of them.
Resting ==
    /\ \A p \in Procs \ {onCpu} : Point(p) \in {"program", "return", "readValue", "dead"}
    /\ \A p \in Procs : local[p].op \in {"none", "exit"} => local[p].ch = NoChannel

RestInv ==
    /\ Inv /\ Resting
    /\ InProgram(onCpu) => rest = Now
    /\ Steps(rest, Final)
    /\ rest.maxId \in Nat

-----------------------------------------------------------------------------
\* The process a call is going to insert, and the one that runs when it is over.
LEMMA WokenIsOther ==
    ASSUME Inv, Before(Linking \ Creating)
    PROVE  /\ Woken \in Allocated \ {onCpu} /\ Allocated \subseteq Procs
           /\ Before({"passValue", "popWaiter"}) =>
                 Chan.receive # <<>> /\ Me.op = "send"
           /\ At("markUnused") => Me.op = "receive"
<1>1. TypeInv /\ CodeInv /\ onCpu \in Procs /\ Allocated \subseteq Procs
  BY OnCpu DEF Inv, TypeInv
<1>2. CASE Before({"passValue", "popWaiter"})
  <2>1. Me.op = "send" /\ Me.ch \in Channels /\ Chan.receive # <<>>
    BY <1>1, <1>2, PointOf DEF Before, Sending, Me, Inv, WaitInv, CallInv
  <2>2. Chan.receive \in Seq(Nat)
    BY <1>1, <2>1 DEF TypeInv, ChannelType, Chan
  <2>3. Len(Chan.receive) \in 1 .. Len(Chan.receive)
    BY <2>1, <2>2, EmptySeq, LenProperties
  <2>4. Waits(Last_(Chan.receive), Me.ch, "receive", "BlockedReading", "blockReading")
    BY <2>1, <2>3 DEF Inv, WaitInv, ChannelOk, Chan, Last_
  <2>5. Woken = Process(Last_(Chan.receive))
    BY <1>2 DEF Woken
  <2> QED BY <1>1, <1>2, <2>1, <2>3, <2>4, <2>5 DEF Waits, Me, Before, At
<1>3. CASE At("markUnused")
  <2>1. Me.op = "receive" /\ Me.ch \in Channels /\ Chan.state = "Sender"
    BY <1>1, <1>3, PointOf DEF At, Receiving, Me, Inv, WaitInv, CallInv
  <2>2. Waits(Chan.sendId, Me.ch, "send", "BlockedWriting", "blockWriting")
    BY <1>3, <2>1 DEF Inv, WaitInv, ChannelOk, Chan, At
  <2>3. Woken = Process(Chan.sendId)
    BY <1>3 DEF Woken, Before, At
  <2> QED BY <1>1, <1>3, <2>1, <2>2, <2>3 DEF Waits, Me, Before, At
<1>4. CASE Before({"wake", "linkOut", "linkBack", "linkIn"})
  BY <1>1, <1>4 DEF Before, Inv, WhoInv, Woken, At
<1> QED BY <1>2, <1>3, <1>4 DEF Before, Linking, Creating, At

\* The process that will run next is one, whatever is left of the call.
LEMMA TargetIsProcess ==
    ASSUME Inv
    PROVE  Target \in Procs /\ onCpu \in Procs
<1> PICK c \in Procs : c = onCpu
  BY DEF Inv, TypeInv
<1>1. TypeInv /\ CodeInv /\ Allocated \subseteq Procs /\ Queue \subseteq Procs
  BY OnCpu DEF Inv
<1>2. CASE Before(Leaving)
  <2>1. next[c] \in Queue
    BY <1>2 DEF Inv, RingInv, Before
  <2>2. FinalNext[c] = next[c]
    BY <1>1, <1>2 DEF FinalNext, UnlinkNext, TypeInv
  <2> QED BY <1>1, <1>2, <2>1, <2>2 DEF Target, Before
<1>3. CASE Before({"permit", "readNext", "testEmpty", "resetChannel", "freeList"})
  <2>1. next[c] \in Queue
    BY <1>3, OnCpu DEF Inv, CpuInv, Before
  <2>2. FinalNext = next
    BY <1>3 DEF FinalNext, Before, Leaving, Linking
  <2> QED BY <1>1, <1>3, <2>1, <2>2 DEF Target, Before
<1>4. CASE Before(Linking) /\ Me.op = "send"
  <2>1. Before(Linking \ Creating)
    BY <1>1, <1>4, PointOf DEF Before, Me
  <2>2. Woken \in Procs \ {c}
    BY <1>1, <2>1, WokenIsOther
  <2>3. FinalNext[c] = Woken
    BY <1>1, <1>4, <2>2 DEF FinalNext, InsertNext, TypeInv, Before, Linking, Leaving
  <2> QED BY <1>4, <2>2, <2>3 DEF Target
<1>5. CASE Before({"setCurrent", "switchTask"})
  <2>1. Target = Me.nextTask
    BY <1>5 DEF Target, Before, Leaving, Linking
  <2> QED BY <1>1, <1>5, <2>1 DEF Inv, CpuInv, Before
<1> QED BY <1>2, <1>3, <1>4, <1>5 DEF Target, Before

\* The statement that follows leaves the final state as it is, when it leaves
\* the parts of it that a statement can change.
LEMMA Carries ==
    ASSUME Inv, NEW c \in Procs, c = onCpu,
           NEW s \in Words \ {"return", "readValue", "dead", "switchTask"}, At(s),
           Advance \/ (s = "testEmpty" /\ PassBy),
           onCpu' = onCpu, UNCHANGED received, Allocated \subseteq Allocated',
           \A p \in Procs : local'[p].op = local[p].op /\ local'[p].ch = local[p].ch,
           FinalNext' = FinalNext, FinalPrev' = FinalPrev, FinalState' = FinalState,
           FinalId' = FinalId, FinalMaxId' = FinalMaxId, FinalList' = FinalList,
           FinalFlag' = FinalFlag, FinalChannels' = FinalChannels,
           Target' = Target
    PROVE  Final' = Final
<1>1. /\ Point(c) = s /\ code'[c] # <<>> /\ \A p \in Procs \ {c} : code'[p] = code[p]
  BY Moves
<1>2. code[c] # <<>>
  BY <1>1 DEF Point, Words, Linking, Leaving, Rest
<1>3. \A p \in Procs : Suspended(p)' = Suspended(p)
  BY <1>1, <1>2 DEF Suspended
<1>4. CallsBut(Target)' = CallsBut(Target)
  BY <1>3 DEF CallsBut, Idle
<1>5. Reads(Target, FinalChannels)' = Reads(Target, FinalChannels)
  BY TargetIsProcess DEF Reads
<1> QED BY <1>4, <1>5 DEF Final

\* Statements that assign fields of the channel.
LEMMA ChannelCarries ==
    ASSUME Inv, NEW c \in Procs, c = onCpu,
           NEW s \in {"markSender", "offerValue", "markReceiver", "newList", "appendWaiter",
                      "passValue", "resetChannel"},
           NEW k \in ChannelType, ChannelStatement(s, k), UNCHANGED local,
           s = "passValue" => k.receive = Chan.receive,
           /\ FinalChanState' = FinalChanState /\ FinalSendId' = FinalSendId
           /\ FinalValue' = FinalValue /\ FinalReceive' = FinalReceive
    PROVE  Final' = Final
<1>1. /\ At(s) /\ Advance /\ channels' = [channels EXCEPT ![Me.ch] = k]
      /\ UNCHANGED <<next, prev, state, id, processesList, maxId, currentProcess, stackTop,
                     onCpu, preventTaskSwitch, received, local>>
  BY DEF ChannelStatement, linkVars, procVars, cpuVars
<1>2. Allocated' = Allocated
  BY <1>1 DEF Allocated
<1>3. Point(c) = s /\ Point(c)' \in After(s)
  BY <1>1, <1>2, Moves DEF Words, Linking, Leaving, Rest
<1>4. TypeInv /\ CodeInv /\ currentProcess = c
  BY <1>1 DEF Inv, CpuInv, At
<1>5. Me.ch \in Channels /\ Me.op \in {"send", "receive"}
  BY <1>3, <1>4, PointOf DEF Sending, Receiving, Me
<1>6. /\ Me' = Me /\ Chan' = k /\ onCpu' = c
  BY <1>1, <1>4, <1>5 DEF Me, Chan, TypeInv
<1>7. /\ s = "markSender" => Point(c)' = "offerValue"
      /\ s = "offerValue" => Point(c)' = "blockWriting"
      /\ s = "markReceiver" => Point(c)' = "newList"
      /\ s = "newList" => Point(c)' = "appendWaiter"
      /\ s = "appendWaiter" => Point(c)' = "blockReading"
      /\ s = "passValue" => Point(c)' = "popWaiter"
      /\ s = "resetChannel" => Point(c)' = "freeList"
  BY <1>3 DEF After
<1> USE DEF Before, At
<1>8. CASE s = "passValue"
  <2>1. Woken' = Woken
    BY <1>1, <1>3, <1>6, <1>7, <1>8 DEF Woken, Process, Last_
  <2>2. /\ FinalNext' = FinalNext /\ FinalPrev' = FinalPrev /\ FinalState' = FinalState
        /\ FinalId' = FinalId /\ FinalMaxId' = FinalMaxId /\ FinalList' = FinalList
        /\ FinalFlag' = FinalFlag
    BY <1>1, <1>3, <1>6, <1>7, <1>8, <2>1
       DEF FinalNext, FinalPrev, FinalState, FinalId, FinalMaxId, FinalList, FinalFlag,
           Leaving, Linking, BlocksWriting, BlocksReading, Wakes, Creating
  <2>3. Target' = Target
    BY <1>1, <1>3, <1>6, <1>7, <1>8, <2>2 DEF Target, Leaving, Linking
  <2>4. FinalChannels' = FinalChannels
    BY <1>1, <1>3, <1>4, <1>5, <1>6, <1>7, <1>8
       DEF FinalChannels, OnChannel, BlocksWriting, BlocksReading, Linking, Creating, TypeInv
  <2> QED BY <1>1, <1>2, <1>8, <2>2, <2>3, <2>4, Carries DEF Words, Linking
<1>9. CASE s \in {"markSender", "offerValue", "markReceiver", "newList", "appendWaiter"}
  <2>2. /\ FinalNext' = FinalNext /\ FinalPrev' = FinalPrev /\ FinalState' = FinalState
        /\ FinalId' = FinalId /\ FinalMaxId' = FinalMaxId /\ FinalList' = FinalList
        /\ FinalFlag' = FinalFlag
    BY <1>1, <1>3, <1>6, <1>7, <1>9
       DEF FinalNext, FinalPrev, FinalState, FinalId, FinalMaxId, FinalList, FinalFlag,
           Leaving, BlocksWriting, BlocksReading, Creating
  <2>3. Target' = Target
    BY <1>1, <1>3, <1>6, <1>7, <1>9, <2>2 DEF Target, Leaving
  <2>4. FinalChannels' = FinalChannels
    BY <1>1, <1>3, <1>4, <1>5, <1>6, <1>7, <1>9
       DEF FinalChannels, OnChannel, BlocksWriting, BlocksReading, TypeInv
  <2> QED BY <1>1, <1>2, <1>9, <2>2, <2>3, <2>4, Carries DEF Words, Leaving
<1>10. CASE s = "resetChannel"
  <2>2. /\ FinalNext' = FinalNext /\ FinalPrev' = FinalPrev /\ FinalState' = FinalState
        /\ FinalId' = FinalId /\ FinalMaxId' = FinalMaxId /\ FinalList' = FinalList
        /\ FinalFlag' = FinalFlag
    BY <1>1, <1>3, <1>6, <1>7, <1>10
       DEF FinalNext, FinalPrev, FinalState, FinalId, FinalMaxId, FinalList, FinalFlag,
           Leaving, Linking, BlocksWriting, BlocksReading, Wakes, Creating
  <2>3. Target' = Target
    BY <1>1, <1>3, <1>6, <1>7, <1>10, <2>2 DEF Target
  <2>4. /\ FinalChannels' = channels'
        /\ FinalChannels = [channels EXCEPT ![Me.ch] =
                              [state |-> FinalChanState, sendId |-> FinalSendId,
                               value |-> FinalValue, receive |-> FinalReceive]]
    BY <1>1, <1>3, <1>5, <1>6, <1>7, <1>10
       DEF FinalChannels, OnChannel, BlocksWriting, BlocksReading, Linking, Creating
  <2>5. /\ FinalChanState = k.state /\ FinalSendId = k.sendId
        /\ FinalValue = k.value /\ FinalReceive = k.receive
    BY <1>6, <1>7, <1>10 DEF FinalChanState, FinalSendId, FinalValue, FinalReceive
  <2>6. FinalChannels' = FinalChannels
    BY <1>1, <2>4, <2>5 DEF ChannelType
  <2> QED BY <1>1, <1>2, <1>10, <2>2, <2>3, <2>6, Carries DEF Words, Rest
<1> QED BY <1>8, <1>9, <1>10

\* Statements that assign fields of the channel leave the final state as it is.
LEMMA ChannelStatementsCarry ==
    ASSUME Inv, NEW c \in Procs, c = onCpu,
           \/ MarkSender \/ OfferValue \/ PassValue \/ MarkReceiver \/ NewList
           \/ AppendWaiter \/ ResetChannel
    PROVE  Final' = Final
<1> PICK s, k : s = Point(c) /\ k = Chan'
  OBVIOUS
<1>1. PICK q : q = Chan
  OBVIOUS
<1>2. /\ s \in {"markSender", "offerValue", "markReceiver", "newList", "appendWaiter",
                "passValue", "resetChannel"}
      /\ At(s) /\ UNCHANGED <<local, onCpu, currentProcess, id>> /\ Advance
      /\ s = "markSender" => ChannelStatement(s, [q EXCEPT !.state = "Sender"])
      /\ s = "offerValue" => ChannelStatement(s, [q EXCEPT !.sendId = id[currentProcess],
                                                           !.value = Me.val])
      /\ s = "passValue" => ChannelStatement(s, [q EXCEPT !.value = Me.val])
      /\ s = "markReceiver" => ChannelStatement(s, [q EXCEPT !.state = "Receiver"])
      /\ s = "newList" => ChannelStatement(s, [q EXCEPT !.receive = <<>>])
      /\ s = "appendWaiter" => ChannelStatement(s, [q EXCEPT !.receive =
                                                      Append(q.receive, id[currentProcess])])
      /\ s = "resetChannel" => ChannelStatement(s, [q EXCEPT !.state = "Unused"])
  BY <1>1 DEF MarkSender, OfferValue, PassValue, MarkReceiver, NewList, AppendWaiter,
              ResetChannel, ChannelStatement, At, cpuVars, procVars
<1>3. TypeInv /\ CodeInv /\ IdInv /\ currentProcess = c
  BY <1>2 DEF Inv, CpuInv, At
<1>4. Me.ch \in Channels /\ Me.op \in {"send", "receive"}
  BY <1>2, <1>3, PointOf DEF Sending, Receiving, Me
<1>5. /\ q \in ChannelType /\ id[c] \in Nat /\ Me.val \in Values \cup {NoValue}
      /\ q.receive \in Seq(Nat) /\ Append(q.receive, id[c]) \in Seq(Nat)
  BY <1>1, <1>3, <1>4, AppendProperties DEF TypeInv, ChannelType, LocalType, Chan, Me
<1>6. ASSUME NEW n \in ChannelType, ChannelStatement(s, n) PROVE k = n
  BY <1>2, <1>3, <1>4, <1>6 DEF ChannelStatement, Chan, Me, TypeInv
<1>7. Point(c)' \in After(s)
  <2>1. Allocated' = Allocated
    BY <1>2 DEF Allocated, MarkSender, OfferValue, PassValue, MarkReceiver, NewList,
                AppendWaiter, ResetChannel, ChannelStatement, procVars
  <2> QED BY <1>2, <2>1, Moves DEF Words, Linking, Leaving, Rest
<1> USE DEF FinalChanState, FinalSendId, FinalValue, FinalReceive, Before, At
<1>8. CASE s = "markSender"
  <2>1. PICK n : n = [q EXCEPT !.state = "Sender"]
    OBVIOUS
  <2>2. n \in ChannelType /\ ChannelStatement(s, n)
    BY <1>2, <1>3, <1>5, <1>8, <2>1 DEF ChannelType
  <2>3. k = n
    BY <1>6, <2>2
  <2>4. Point(c)' = "offerValue" /\ Me' = Me /\ id' = id /\ onCpu' = c
    BY <1>2, <1>7, <1>8 DEF After, Me
  <2>5. /\ FinalChanState' = FinalChanState /\ FinalSendId' = FinalSendId
        /\ FinalValue' = FinalValue /\ FinalReceive' = FinalReceive
    BY <1>1, <1>3, <1>5, <1>8, <2>1, <2>3, <2>4 DEF ChannelType
  <2> QED BY <1>1, <1>2, <1>5, <1>8, <2>1, <2>2, <2>3, <2>5, ChannelCarries DEF ChannelType
<1>9. CASE s = "offerValue"
  <2>1. PICK n : n = [q EXCEPT !.sendId = id[c], !.value = Me.val]
    OBVIOUS
  <2>2. n \in ChannelType /\ ChannelStatement(s, n)
    BY <1>2, <1>3, <1>5, <1>9, <2>1 DEF ChannelType
  <2>3. k = n
    BY <1>6, <2>2
  <2>4. Point(c)' = "blockWriting" /\ Me' = Me /\ id' = id /\ onCpu' = c
    BY <1>2, <1>7, <1>9 DEF After, Me
  <2>5. /\ FinalChanState' = FinalChanState /\ FinalSendId' = FinalSendId
        /\ FinalValue' = FinalValue /\ FinalReceive' = FinalReceive
    BY <1>1, <1>3, <1>5, <1>9, <2>1, <2>3, <2>4 DEF ChannelType
  <2> QED BY <1>1, <1>2, <1>5, <1>9, <2>1, <2>2, <2>3, <2>5, ChannelCarries DEF ChannelType
<1>10. CASE s = "passValue"
  <2>1. PICK n : n = [q EXCEPT !.value = Me.val]
    OBVIOUS
  <2>2. n \in ChannelType /\ ChannelStatement(s, n)
    BY <1>2, <1>3, <1>5, <1>10, <2>1 DEF ChannelType
  <2>3. k = n
    BY <1>6, <2>2
  <2>4. Point(c)' = "popWaiter" /\ Me' = Me /\ id' = id /\ onCpu' = c
    BY <1>2, <1>7, <1>10 DEF After, Me
  <2>5. /\ FinalChanState' = FinalChanState /\ FinalSendId' = FinalSendId
        /\ FinalValue' = FinalValue /\ FinalReceive' = FinalReceive
    BY <1>1, <1>3, <1>5, <1>10, <2>1, <2>3, <2>4 DEF ChannelType
  <2> QED BY <1>1, <1>2, <1>5, <1>10, <2>1, <2>2, <2>3, <2>5, ChannelCarries DEF ChannelType
<1>11. CASE s = "markReceiver"
  <2>1. PICK n : n = [q EXCEPT !.state = "Receiver"]
    OBVIOUS
  <2>2. n \in ChannelType /\ ChannelStatement(s, n)
    BY <1>2, <1>3, <1>5, <1>11, <2>1 DEF ChannelType
  <2>3. k = n
    BY <1>6, <2>2
  <2>4. Point(c)' = "newList" /\ Me' = Me /\ id' = id /\ onCpu' = c
    BY <1>2, <1>7, <1>11 DEF After, Me
  <2>5. /\ FinalChanState' = FinalChanState /\ FinalSendId' = FinalSendId
        /\ FinalValue' = FinalValue /\ FinalReceive' = FinalReceive
    BY <1>1, <1>3, <1>5, <1>11, <2>1, <2>3, <2>4 DEF ChannelType
  <2> QED BY <1>1, <1>2, <1>5, <1>11, <2>1, <2>2, <2>3, <2>5, ChannelCarries DEF ChannelType
<1>12. CASE s = "newList"
  <2>1. PICK n : n = [q EXCEPT !.receive = <<>>]
    OBVIOUS
  <2>2. n \in ChannelType /\ ChannelStatement(s, n)
    <3>1. <<>> \in Seq(Nat)
      BY EmptySeq
    <3>2. n \in ChannelType
      BY <1>5, <2>1, <3>1 DEF ChannelType
    <3>3. ChannelStatement(s, n)
      BY <1>2, <1>12, <2>1
    <3> QED BY <3>2, <3>3
  <2>3. k = n
    BY <1>6, <2>2
  <2>4. Point(c)' = "appendWaiter" /\ Me' = Me /\ id' = id /\ onCpu' = c
    BY <1>2, <1>7, <1>12 DEF After, Me
  <2>5. /\ FinalChanState' = FinalChanState /\ FinalSendId' = FinalSendId
        /\ FinalValue' = FinalValue /\ FinalReceive' = FinalReceive
    BY <1>1, <1>3, <1>5, <1>12, <2>1, <2>3, <2>4 DEF ChannelType
  <2> QED BY <1>1, <1>2, <1>5, <1>12, <2>1, <2>2, <2>3, <2>5, ChannelCarries DEF ChannelType
<1>13. CASE s = "appendWaiter"
  <2>1. PICK n : n = [q EXCEPT !.receive = Append(q.receive, id[c])]
    OBVIOUS
  <2>2. n \in ChannelType /\ ChannelStatement(s, n)
    BY <1>2, <1>3, <1>5, <1>13, <2>1 DEF ChannelType
  <2>3. k = n
    BY <1>6, <2>2
  <2>4. Point(c)' = "blockReading" /\ Me' = Me /\ id' = id /\ onCpu' = c
    BY <1>2, <1>7, <1>13 DEF After, Me
  <2>5. /\ FinalChanState' = FinalChanState /\ FinalSendId' = FinalSendId
        /\ FinalValue' = FinalValue /\ FinalReceive' = FinalReceive
    BY <1>1, <1>3, <1>5, <1>13, <2>1, <2>3, <2>4 DEF ChannelType
  <2> QED BY <1>1, <1>2, <1>5, <1>13, <2>1, <2>2, <2>3, <2>5, ChannelCarries DEF ChannelType
<1>14. CASE s = "resetChannel"
  <2>1. PICK n : n = [q EXCEPT !.state = "Unused"]
    OBVIOUS
  <2>2. n \in ChannelType /\ ChannelStatement(s, n)
    BY <1>2, <1>5, <1>14, <2>1 DEF ChannelType
  <2>3. k = n
    BY <1>6, <2>2
  <2>4. Point(c)' = "freeList" /\ Me' = Me /\ onCpu' = c
    BY <1>2, <1>7, <1>14 DEF After, Me
  <2>5. Me.op = "send" /\ q.receive = <<>>
    BY <1>1, <1>2, <1>3, <1>14, PointOf DEF Sending, Me, Inv, WaitInv, CallInv
  <2>6. /\ FinalSendId' = FinalSendId /\ FinalValue' = FinalValue
        /\ FinalReceive' = FinalReceive /\ FinalChanState' = n.state
        /\ FinalChanState = "Unused"
    <3>1. n.sendId = q.sendId /\ n.value = q.value /\ n.receive = q.receive
      BY <1>5, <2>1 DEF ChannelType
    <3> QED BY <1>1, <1>14, <2>3, <2>4, <2>5, <3>1
  <2>7. n.state = "Unused"
    BY <1>5, <2>1 DEF ChannelType
  <2> QED BY <1>2, <1>14, <2>2, <2>3, <2>6, <2>7, ChannelCarries
<1> QED BY <1>2, <1>8, <1>9, <1>10, <1>11, <1>12, <1>13, <1>14

\* A channel that is given the fields it has stays what it is.
LEMMA SameChannel ==
    ASSUME TypeInv, NEW h \in Channels
    PROVE  [channels EXCEPT ![h] = [state |-> channels[h].state, sendId |-> channels[h].sendId,
                                    value |-> channels[h].value,
                                    receive |-> channels[h].receive]] = channels
<1>1. channels[h] = [state |-> channels[h].state, sendId |-> channels[h].sendId,
                     value |-> channels[h].value, receive |-> channels[h].receive]
  BY DEF TypeInv, ChannelType
<1> QED BY <1>1 DEF TypeInv

\* Neither the test of the list nor freeing an empty one changes what the call will
\* have done: a channel with a waiter left stays as it is.
LEMMA EmptyListCarries ==
    ASSUME Inv, NEW c \in Procs, c = onCpu, TestEmpty \/ FreeList
    PROVE  Final' = Final
<1> PICK s : s = Point(c)
  OBVIOUS
<1> USE DEF Before, At
<1>1. /\ s \in {"testEmpty", "freeList"} /\ At(s)
      /\ UNCHANGED <<next, prev, state, id, processesList, maxId, currentProcess, onCpu,
                     preventTaskSwitch, received, channels, local>>
      /\ Advance \/ (s = "testEmpty" /\ PassBy)
      /\ Point(c)' = IF s = "testEmpty" /\ Chan.receive = <<>> THEN "resetChannel" ELSE "readNext"
      /\ Me.ch \in Channels /\ Me.op = "send"
  BY EmptyListStep DEF linkVars, procVars, cpuVars
<1>2. Allocated' = Allocated /\ Me' = Me /\ Chan' = Chan
  BY <1>1 DEF Allocated, Me, Chan
<1>3. /\ FinalNext' = FinalNext /\ FinalPrev' = FinalPrev /\ FinalState' = FinalState
      /\ FinalId' = FinalId /\ FinalMaxId' = FinalMaxId /\ FinalList' = FinalList
      /\ FinalFlag' = FinalFlag
  BY <1>1 DEF FinalNext, FinalPrev, FinalState, FinalId, FinalMaxId, FinalList, FinalFlag,
              Leaving, Linking, BlocksWriting, BlocksReading, Wakes, Creating
<1>4. Target' = Target
  BY <1>1, <1>2, <1>3 DEF Target
<1>5. CASE Point(c)' = "resetChannel"
  <2>1. OnChannel' /\ OnChannel
    BY <1>1, <1>2, <1>5 DEF OnChannel
  <2>2. /\ FinalChanState' = FinalChanState /\ FinalSendId' = FinalSendId
        /\ FinalValue' = FinalValue /\ FinalReceive' = FinalReceive
    BY <1>1, <1>2, <1>5 DEF FinalChanState, FinalSendId, FinalValue, FinalReceive
  <2>3. FinalChannels' = FinalChannels
    BY <1>1, <1>2, <2>1, <2>2 DEF FinalChannels
  <2> QED BY <1>1, <1>2, <1>3, <1>4, <2>3, Carries DEF Words, Rest
<1>6. CASE Point(c)' = "readNext"
  <2>1. FinalChannels' = channels
    BY <1>1, <1>6 DEF FinalChannels, OnChannel, BlocksWriting, BlocksReading, Linking
  <2>2. FinalChannels = channels
    <3>1. CASE s = "freeList"
      BY <3>1 DEF FinalChannels, OnChannel, BlocksWriting, BlocksReading, Linking
    <3>2. CASE s = "testEmpty"
      <4>1. /\ FinalChanState = Chan.state /\ FinalSendId = Chan.sendId
            /\ FinalValue = Chan.value /\ FinalReceive = Chan.receive
        BY <1>1, <1>6, <3>2 DEF FinalChanState, FinalSendId, FinalValue, FinalReceive
      <4> QED BY <1>1, <4>1, SameChannel DEF FinalChannels, Chan, Inv
    <3> QED BY <1>1, <3>1, <3>2
  <2> QED BY <1>1, <1>2, <1>3, <1>4, <2>1, <2>2, Carries DEF Words, Rest
<1> QED BY <1>1, <1>5, <1>6

\* The statements that leave the channels alone, and after which the call does too
\* with what it has not done yet.
LEMMA ChannelsDone ==
    ASSUME Inv,
           \/ Before({"blockWriting", "blockReading"})
           \/ Before({"wake", "linkOut", "linkBack", "linkIn"}) /\ Me.op # "send"
    PROVE  FinalChannels = channels
<1>1. TypeInv /\ CodeInv /\ onCpu \in Procs
  BY DEF Inv, TypeInv
<1>2. CASE ~OnChannel
  BY <1>2 DEF FinalChannels
<1>3. CASE OnChannel
  <2>1. Me.ch \in Channels
    BY <1>1, <1>3, PointOf DEF OnChannel, Me, CodeInv, CodeOf, Fits, Calls
  <2>2. /\ FinalChanState = Chan.state /\ FinalSendId = Chan.sendId
        /\ FinalValue = Chan.value /\ FinalReceive = Chan.receive
    BY DEF FinalChanState, FinalSendId, FinalValue, FinalReceive, Before, At
  <2> QED BY <1>1, <1>3, <2>1, <2>2, SameChannel DEF FinalChannels, Chan
<1> QED BY <1>2, <1>3

\* So does the statement by which a process blocks,
LEMMA BlockCarries ==
    ASSUME Inv, NEW c \in Procs, c = onCpu, BlockWriting \/ BlockReading
    PROVE  Final' = Final
<1> PICK s, st : s = Point(c) /\ st = IF s = "blockWriting" THEN "BlockedWriting" ELSE "BlockedReading"
  OBVIOUS
<1>1. /\ At(s) /\ s \in {"blockWriting", "blockReading"} /\ Advance
      /\ state' = [state EXCEPT ![currentProcess] = st]
      /\ UNCHANGED <<next, prev, id, processesList, maxId, currentProcess, onCpu,
                     preventTaskSwitch, channels, received, local>>
  BY DEF BlockWriting, BlockReading, StateStatement, At, linkVars, cpuVars
<1>2. currentProcess = c
  BY <1>1 DEF Inv, CpuInv, At
<1>3. Allocated' = Allocated /\ Me' = Me
  BY <1>1 DEF Allocated, Me
<1>4. Point(c)' = "prevent"
  <2>1. Point(c)' \in After(s)
    BY <1>1, <1>3, Moves DEF Words, Linking, Leaving, Rest
  <2> QED BY <1>1, <2>1 DEF After
<1> USE DEF Before, At
<1>5. /\ FinalNext' = FinalNext /\ FinalPrev' = FinalPrev /\ FinalState' = FinalState
      /\ FinalId' = FinalId /\ FinalMaxId' = FinalMaxId /\ FinalList' = FinalList
      /\ FinalFlag' = FinalFlag
  BY <1>1, <1>2, <1>4
     DEF FinalNext, FinalPrev, FinalState, FinalId, FinalMaxId, FinalList, FinalFlag,
         Leaving, BlocksWriting, BlocksReading, Wakes, Creating
<1>6. Target' = Target
  BY <1>1, <1>4, <1>5 DEF Target, Leaving
<1>7. FinalChannels' = FinalChannels
  <2>1. FinalChannels = channels
    <3>1. Before({"blockWriting", "blockReading"})
      BY <1>1
    <3> QED BY <3>1, ChannelsDone
  <2>2. ~OnChannel'
    BY <1>1, <1>4 DEF OnChannel, BlocksWriting, BlocksReading, Linking
  <2> QED BY <1>1, <2>1, <2>2 DEF FinalChannels
<1> QED BY <1>1, <1>3, <1>5, <1>6, <1>7, Carries DEF Words, Leaving

\* the one that makes the process to be woken runnable,
LEMMA WakeCarries ==
    ASSUME Inv, NEW c \in Procs, c = onCpu, Wake
    PROVE  Final' = Final
<1>1. /\ At("wake") /\ Advance /\ state' = [state EXCEPT ![Me.who] = "Runnable"]
      /\ UNCHANGED <<next, prev, id, processesList, maxId, currentProcess, onCpu,
                     preventTaskSwitch, channels, received, local>>
  BY DEF Wake, StateStatement, At, linkVars, cpuVars
<1>2. Allocated' = Allocated /\ Me' = Me
  BY <1>1 DEF Allocated, Me
<1>3. Point(c) = "wake" /\ Point(c)' = "linkOut"
  <2>1. Point(c)' \in After("wake")
    BY <1>1, <1>2, Moves DEF Words, Linking, Leaving, Rest
  <2> QED BY <1>1, <2>1 DEF After, At
<1> USE DEF Before, At
<1>4. Woken = Me.who /\ Woken' = Me.who /\ Chan' = Chan
  BY <1>1, <1>2, <1>3 DEF Woken, Chan
<1>5. /\ FinalNext' = FinalNext /\ FinalPrev' = FinalPrev /\ FinalState' = FinalState
      /\ FinalId' = FinalId /\ FinalMaxId' = FinalMaxId /\ FinalList' = FinalList
      /\ FinalFlag' = FinalFlag
  BY <1>1, <1>3, <1>4
     DEF FinalNext, FinalPrev, FinalState, FinalId, FinalMaxId, FinalList, FinalFlag,
         Leaving, Linking, BlocksWriting, BlocksReading, Wakes, Creating
<1>6. Target' = Target
  BY <1>1, <1>2, <1>3, <1>5 DEF Target, Leaving, Linking
<1>7. FinalChannels' = FinalChannels
  BY <1>1, <1>2, <1>3, <1>4
     DEF FinalChannels, FinalChanState, FinalSendId, FinalValue, FinalReceive, OnChannel,
         BlocksWriting, BlocksReading, Linking, Creating
<1> QED BY <1>1, <1>2, <1>5, <1>6, <1>7, Carries DEF Words, Linking

\* pop and the taking of an offer find out who is to be woken, and no call changes.
LEMMA FindStep ==
    ASSUME Inv, NEW c \in Procs, c = onCpu, PopWaiter \/ MarkUnused
    PROVE  /\ local'[c].who = Woken
           /\ \A p \in Procs : local'[p].op = local[p].op /\ local'[p].ch = local[p].ch
<1> PICK s, h, w, q : /\ s = Point(c) /\ h = Me.ch /\ w = Woken /\ q = Chan
  OBVIOUS
<1> USE DEF Before, At
<1>1. TypeInv /\ CodeInv /\ Allocated \subseteq Procs
  BY OnCpu DEF Inv
<1>2. /\ s \in {"popWaiter", "markUnused"} /\ At(s) /\ Advance
      /\ UNCHANGED <<next, prev, state, id, processesList, maxId, currentProcess, onCpu,
                     preventTaskSwitch, received>>
  BY DEF PopWaiter, MarkUnused, ChannelStatement, linkVars, procVars, cpuVars
<1>3. /\ w \in Procs \ {c}
      /\ s = "popWaiter" => q.receive # <<>> /\ Me.op = "send"
      /\ s = "markUnused" => Me.op = "receive"
  BY <1>1, <1>2, WokenIsOther DEF Linking, Creating
<1>4. h \in Channels /\ q = channels[h] /\ q \in ChannelType /\ Me \in LocalType
  BY <1>1, <1>2, PointOf DEF Sending, Receiving, Me, Chan, TypeInv
<1>5. /\ s = "popWaiter" =>
            /\ channels' = [channels EXCEPT ![h] = [q EXCEPT !.receive =
                                                     SubSeq(q.receive, 1, Len(q.receive) - 1)]]
            /\ local' = [local EXCEPT ![c].who = w, ![w].owed = Me.val]
      /\ s = "markUnused" =>
            /\ channels' = [channels EXCEPT ![h] = [q EXCEPT !.state = "Unused"]]
            /\ local' = [local EXCEPT ![c] = [Me EXCEPT !.who = w, !.owed = local[w].val]]
  BY <1>2 DEF PopWaiter, MarkUnused, ChannelStatement, Chan, Let, Me, Woken, Last_
<1>6. /\ local'[c].who = w /\ local'[c].op = Me.op /\ local'[c].ch = h
      /\ \A p \in Procs : local'[p].op = local[p].op /\ local'[p].ch = local[p].ch
  <2>1. local \in [Procs -> LocalType] /\ Me = local[c]
    BY <1>1 DEF TypeInv, Me
  <2>2. CASE s = "popWaiter"
    <3>1. /\ local'[c] = [local[c] EXCEPT !.who = w]
          /\ local'[w] = [local[w] EXCEPT !.owed = Me.val]
          /\ \A p \in Procs \ {c, w} : local'[p] = local[p]
      BY <1>3, <1>5, <2>1, <2>2
    <3>2. \A p \in Procs : local[p] \in LocalType
      BY <2>1
    <3>3. /\ local'[c].who = w /\ local'[c].op = local[c].op /\ local'[c].ch = local[c].ch
          /\ local'[w].op = local[w].op /\ local'[w].ch = local[w].ch
      BY <1>3, <3>1, <3>2 DEF LocalType
    <3> QED BY <2>1, <3>1, <3>3
  <2>3. CASE s = "markUnused"
    <3>1. /\ local'[c] = [Me EXCEPT !.who = w, !.owed = local[w].val]
          /\ \A p \in Procs \ {c} : local'[p] = local[p]
      BY <1>5, <2>1, <2>3
    <3>2. local'[c].who = w /\ local'[c].op = Me.op /\ local'[c].ch = Me.ch
      BY <1>4, <3>1 DEF LocalType
    <3> QED BY <2>1, <3>1, <3>2
  <2> QED BY <1>2, <2>2, <2>3
<1> QED BY <1>6

\* and the ones that find out who that is.
LEMMA FindCarries ==
    ASSUME Inv, NEW c \in Procs, c = onCpu, PopWaiter \/ MarkUnused
    PROVE  Final' = Final
<1> PICK s, h, w, q : /\ s = Point(c) /\ h = Me.ch /\ w = Woken /\ q = Chan
  OBVIOUS
<1> USE DEF Before, At
<1>1. TypeInv /\ CodeInv /\ Allocated \subseteq Procs
  BY OnCpu DEF Inv
<1>2. /\ s \in {"popWaiter", "markUnused"} /\ At(s) /\ Advance
      /\ UNCHANGED <<next, prev, state, id, processesList, maxId, currentProcess, onCpu,
                     preventTaskSwitch, received>>
  BY DEF PopWaiter, MarkUnused, ChannelStatement, linkVars, procVars, cpuVars
<1>3. /\ w \in Procs \ {c}
      /\ s = "popWaiter" => q.receive # <<>> /\ Me.op = "send"
      /\ s = "markUnused" => Me.op = "receive"
  BY <1>1, <1>2, WokenIsOther DEF Linking, Creating
<1>4. h \in Channels /\ q = channels[h] /\ q \in ChannelType /\ Me \in LocalType
  BY <1>1, <1>2, PointOf DEF Sending, Receiving, Me, Chan, TypeInv
<1>5. /\ s = "popWaiter" =>
            /\ channels' = [channels EXCEPT ![h] = [q EXCEPT !.receive =
                                                     SubSeq(q.receive, 1, Len(q.receive) - 1)]]
            /\ local' = [local EXCEPT ![c].who = w, ![w].owed = Me.val]
      /\ s = "markUnused" =>
            /\ channels' = [channels EXCEPT ![h] = [q EXCEPT !.state = "Unused"]]
            /\ local' = [local EXCEPT ![c] = [Me EXCEPT !.who = w, !.owed = local[w].val]]
  BY <1>2 DEF PopWaiter, MarkUnused, ChannelStatement, Chan, Let, Me, Woken, Last_
<1>6. /\ local'[c].who = w /\ local'[c].op = Me.op /\ local'[c].ch = h
      /\ \A p \in Procs : local'[p].op = local[p].op /\ local'[p].ch = local[p].ch
  BY FindStep DEF Me
<1>7. Allocated' = Allocated /\ Me'.who = w /\ Me'.op = Me.op /\ Me'.ch = h
  BY <1>2, <1>6 DEF Allocated, Me
<1>8. Point(c)' = "wake"
  <2>1. Point(c)' \in After(s)
    BY <1>2, <1>6, <1>7, Moves DEF Words, Linking, Leaving, Rest
  <2> QED BY <1>2, <2>1 DEF After
<1>9. Woken' = w
  BY <1>2, <1>7, <1>8 DEF Woken
<1>10. /\ FinalNext' = FinalNext /\ FinalPrev' = FinalPrev /\ FinalState' = FinalState
      /\ FinalId' = FinalId /\ FinalMaxId' = FinalMaxId /\ FinalList' = FinalList
      /\ FinalFlag' = FinalFlag
  BY <1>2, <1>8, <1>9
     DEF FinalNext, FinalPrev, FinalState, FinalId, FinalMaxId, FinalList, FinalFlag,
         Leaving, Linking, BlocksWriting, BlocksReading, Wakes, Creating
<1>11. Target' = Target
  BY <1>2, <1>7, <1>8, <1>10 DEF Target, Leaving, Linking
<1>12. Chan' = channels'[h] /\ channels'[h] =
         IF s = "popWaiter" THEN [q EXCEPT !.receive = SubSeq(q.receive, 1, Len(q.receive) - 1)]
                            ELSE [q EXCEPT !.state = "Unused"]
  BY <1>1, <1>2, <1>4, <1>5, <1>7 DEF Chan, TypeInv
<1>13. /\ FinalChanState' = FinalChanState /\ FinalSendId' = FinalSendId
       /\ FinalValue' = FinalValue /\ FinalReceive' = FinalReceive
  <2>1. CASE s = "popWaiter"
    BY <1>2, <1>3, <1>4, <1>7, <1>8, <1>12, <2>1
       DEF FinalChanState, FinalSendId, FinalValue, FinalReceive, ChannelType
  <2>2. CASE s = "markUnused"
    BY <1>2, <1>3, <1>4, <1>7, <1>8, <1>12, <2>2
       DEF FinalChanState, FinalSendId, FinalValue, FinalReceive, ChannelType
  <2> QED BY <1>2, <2>1, <2>2
<1>14. FinalChannels' = FinalChannels
  <2>1. OnChannel /\ OnChannel'
    BY <1>2, <1>3, <1>7, <1>8 DEF OnChannel, Linking, Creating
  <2>2. /\ FinalChannels = [channels EXCEPT ![h] =
                              [state |-> FinalChanState, sendId |-> FinalSendId,
                               value |-> FinalValue, receive |-> FinalReceive]]
        /\ FinalChannels' = [channels' EXCEPT ![h] =
                              [state |-> FinalChanState, sendId |-> FinalSendId,
                               value |-> FinalValue, receive |-> FinalReceive]]
    BY <1>7, <1>13, <2>1 DEF FinalChannels
  <2> QED BY <1>1, <1>2, <1>5, <2>2 DEF TypeInv
<1> QED BY <1>2, <1>6, <1>7, <1>10, <1>11, <1>14, Carries DEF Words, Linking

\* insertProcess, statement by statement.
LEMMA LinkCarries ==
    ASSUME Inv, NEW c \in Procs, c = onCpu, LinkOut \/ LinkBack \/ LinkIn
    PROVE  Final' = Final
<1> PICK s, w : s = Point(c) /\ w = Woken
  OBVIOUS
<1> USE DEF Before, At
<1>1. TypeInv /\ CodeInv /\ Allocated \subseteq Procs
  BY OnCpu DEF Inv
<1>2. /\ s \in {"linkOut", "linkBack", "linkIn"} /\ At(s) /\ Advance
      /\ UNCHANGED <<state, id, processesList, maxId, currentProcess, onCpu,
                     preventTaskSwitch, received, channels, local>>
  BY DEF LinkOut, LinkBack, LinkIn, LinkStatement, procVars, cpuVars
<1>3. currentProcess = c
  BY <1>2 DEF Inv, CpuInv
<1>4. w \in Procs \ {c} /\ w = Me.who
  BY <1>1, <1>2, WokenIsOther DEF Linking, Creating, Woken
<1>5. /\ s = "linkOut" => /\ next' = [next EXCEPT ![w] = next[c]]
                          /\ prev' = [prev EXCEPT ![w] = c]
      /\ s = "linkBack" => /\ next' = next
                           /\ prev' = [prev EXCEPT ![next[c]] = w]
      /\ s = "linkIn" => next' = [next EXCEPT ![c] = w] /\ prev' = prev
  BY <1>2, <1>3, <1>4 DEF LinkOut, LinkBack, LinkIn, LinkStatement
<1>6. Allocated' = Allocated /\ Me' = Me /\ Chan' = Chan
  BY <1>2 DEF Allocated, Me, Chan
<1>7. /\ s = "linkOut" => Point(c)' = "linkBack"
      /\ s = "linkBack" => Point(c)' = "linkIn"
      /\ s = "linkIn" => Point(c)' \in {"return", "testEmpty", "readValue"}
      /\ s = "linkIn" => (Point(c)' = "testEmpty" <=> Me.op = "send")
  <2>1. Point(c)' \in After(s) /\ (s = "linkIn" => (Point(c)' = "testEmpty" <=> Me.op = "send"))
    BY <1>2, <1>6, Moves DEF Words, Linking, Leaving, Rest, Me
  <2> QED BY <1>2, <2>1 DEF After
<1>8. s # "linkIn" => Woken' = w
  BY <1>2, <1>4, <1>6, <1>7 DEF Woken
<1>9. FinalNext' = FinalNext /\ FinalPrev' = FinalPrev
  <2>1. CASE s = "linkOut"
    <3>1. next'[c] = next[c] /\ Point(c)' = "linkBack"
      BY <1>1, <1>4, <1>5, <1>7, <2>1 DEF TypeInv
    <3>2. /\ FinalNext = [next EXCEPT ![w] = next[c], ![c] = w]
          /\ FinalPrev = [prev EXCEPT ![w] = c, ![next[c]] = w]
      BY <1>2, <2>1 DEF FinalNext, FinalPrev, InsertNext, InsertPrev, Leaving, Linking
    <3>3. FinalNext' = [next' EXCEPT ![c] = w] /\ FinalPrev' = [prev' EXCEPT ![next[c]] = w]
      BY <1>2, <1>8, <2>1, <3>1 DEF FinalNext, FinalPrev, Leaving
    <3> QED BY <1>5, <2>1, <3>2, <3>3
  <2>2. CASE s = "linkBack"
    BY <1>2, <1>5, <1>7, <1>8, <2>2 DEF FinalNext, FinalPrev, Leaving, Linking
  <2>3. CASE s = "linkIn"
    BY <1>2, <1>5, <1>7, <2>3 DEF FinalNext, FinalPrev, Leaving, Linking
  <2> QED BY <1>2, <2>1, <2>2, <2>3
<1>10. /\ FinalState' = FinalState
      /\ FinalId' = FinalId /\ FinalMaxId' = FinalMaxId /\ FinalList' = FinalList
      /\ FinalFlag' = FinalFlag
  BY <1>2, <1>7
     DEF FinalState, FinalId, FinalMaxId, FinalList, FinalFlag,
         Leaving, BlocksWriting, BlocksReading, Wakes, Creating
<1>11. Target' = Target
  BY <1>2, <1>6, <1>7, <1>9 DEF Target, Leaving, Linking
<1>12. FinalChannels' = FinalChannels
  <2>1. CASE s # "linkIn" \/ Me.op = "send"
    <3>1. OnChannel' <=> OnChannel
      BY <1>2, <1>6, <1>7, <2>1 DEF OnChannel, BlocksWriting, BlocksReading, Linking, Creating
    <3>2. /\ FinalChanState' = FinalChanState /\ FinalSendId' = FinalSendId
          /\ FinalValue' = FinalValue /\ FinalReceive' = FinalReceive
      BY <1>2, <1>6, <1>7, <2>1 DEF FinalChanState, FinalSendId, FinalValue, FinalReceive
    <3> QED BY <1>2, <1>6, <3>1, <3>2 DEF FinalChannels
  <2>2. CASE s = "linkIn" /\ Me.op # "send"
    <3>1. Before({"wake", "linkOut", "linkBack", "linkIn"})
      BY <1>2, <2>2
    <3>2. FinalChannels = channels
      BY <2>2, <3>1, ChannelsDone
    <3>3. ~OnChannel'
      BY <1>2, <1>7, <2>2 DEF OnChannel, BlocksWriting, BlocksReading, Linking
    <3> QED BY <1>2, <3>2, <3>3 DEF FinalChannels
  <2> QED BY <2>1, <2>2
<1> QED BY <1>2, <1>6, <1>9, <1>10, <1>11, <1>12, Carries DEF Words, Linking

\* delCurrentProcess, statement by statement.
LEMMA UnlinkCarries ==
    ASSUME Inv, NEW c \in Procs, c = onCpu, UnlinkBack \/ UnlinkForward \/ Prevent \/ Permit
    PROVE  Final' = Final
<1> PICK s : s = Point(c)
  OBVIOUS
<1> USE DEF Before, At
<1>1. TypeInv
  BY DEF Inv
<1>2. /\ s \in {"unlinkBack", "unlinkForward", "prevent", "permit"} /\ At(s) /\ Advance
      /\ UNCHANGED <<state, id, processesList, maxId, currentProcess, onCpu,
                     received, channels, local>>
      /\ s \in {"unlinkBack", "unlinkForward"} => UNCHANGED preventTaskSwitch
      /\ s = "permit" => preventTaskSwitch' = FALSE
      /\ s \in {"prevent", "permit"} => UNCHANGED <<next, prev>>
  BY DEF UnlinkBack, UnlinkForward, Prevent, Permit, LinkStatement, FlagStatement,
         procVars, cpuVars, linkVars
<1>3. currentProcess = c
  BY <1>2 DEF Inv, CpuInv
<1>4. /\ s = "unlinkBack" => next' = next /\ prev' = [prev EXCEPT ![next[c]] = prev[c]]
      /\ s = "unlinkForward" => next' = [next EXCEPT ![prev[c]] = next[c]] /\ prev' = prev
  BY <1>2, <1>3 DEF UnlinkBack, UnlinkForward, Prevent, Permit, LinkStatement, FlagStatement
<1>5. Allocated' = Allocated /\ Me' = Me
  BY <1>2 DEF Allocated, Me
<1>6. /\ s = "prevent" => Point(c)' \in {"prevent", "unlinkBack"}
      /\ s = "unlinkBack" => Point(c)' = "unlinkForward"
      /\ s = "unlinkForward" => Point(c)' = "permit"
      /\ s = "permit" => Point(c)' \in {"permit", "readNext"}
  <2>1. Point(c)' \in After(s)
    BY <1>2, <1>5, Moves DEF Words, Linking, Leaving, Rest
  <2> QED BY <1>2, <2>1 DEF After
<1>7. FinalNext' = FinalNext /\ FinalPrev' = FinalPrev
  <2>1. CASE s = "unlinkBack"
    <3>1. next[c] # c
      BY <1>2, <2>1 DEF Inv, RingInv, Leaving
    <3>2. prev'[c] = prev[c]
      BY <1>1, <1>4, <2>1, <3>1 DEF TypeInv
    <3>3. /\ FinalNext = [next EXCEPT ![prev[c]] = next[c]]
          /\ FinalNext' = [next' EXCEPT ![prev'[c]] = next'[c]]
          /\ FinalPrev = [prev EXCEPT ![next[c]] = prev[c]] /\ FinalPrev' = prev'
      BY <1>2, <1>6, <2>1 DEF FinalNext, FinalPrev, UnlinkNext, UnlinkPrev, Leaving, Linking
    <3> QED BY <1>4, <2>1, <3>2, <3>3
  <2>2. CASE s = "unlinkForward"
    BY <1>2, <1>4, <1>6, <2>2 DEF FinalNext, FinalPrev, UnlinkNext, Leaving, Linking
  <2>3. CASE s \in {"prevent", "permit"}
    BY <1>2, <1>6, <2>3 DEF FinalNext, FinalPrev, UnlinkNext, UnlinkPrev, Leaving, Linking
  <2> QED BY <1>2, <2>1, <2>2, <2>3
<1>8. /\ FinalState' = FinalState
      /\ FinalId' = FinalId /\ FinalMaxId' = FinalMaxId /\ FinalList' = FinalList
      /\ FinalFlag' = FinalFlag
  BY <1>2, <1>6
     DEF FinalState, FinalId, FinalMaxId, FinalList, FinalFlag,
         Leaving, BlocksWriting, BlocksReading, Wakes, Creating
<1>9. Target' = Target
  BY <1>2, <1>6, <1>7 DEF Target, Leaving
<1>10. FinalChannels' = FinalChannels
  BY <1>2, <1>6 DEF FinalChannels, OnChannel, BlocksWriting, BlocksReading, Linking
<1> QED BY <1>2, <1>5, <1>7, <1>8, <1>9, <1>10, Carries DEF Words, Leaving, Rest

\* newProcess numbers the process and puts it on the list.
LEMMA CreateCarries ==
    ASSUME Inv, NEW c \in Procs, c = onCpu, NumberIt \/ AppendIt
    PROVE  Final' = Final
<1> PICK s : s = Point(c)
  OBVIOUS
<1> USE DEF Before, At
<1>1. TypeInv /\ CodeInv
  BY DEF Inv
<1>2. /\ s \in {"numberIt", "appendIt"} /\ At(s) /\ Advance
      /\ UNCHANGED <<next, prev, currentProcess, onCpu, preventTaskSwitch, received,
                     channels, local>>
      /\ s = "numberIt" => /\ maxId' = maxId + 1 /\ id' = [id EXCEPT ![Me.who] = maxId + 1]
                           /\ state' = [state EXCEPT ![Me.who] = "Runnable"]
                           /\ UNCHANGED processesList
      /\ s = "appendIt" => /\ processesList' = Append(processesList, Me.who)
                           /\ UNCHANGED <<state, id, maxId>>
  BY DEF NumberIt, AppendIt, linkVars, cpuVars
<1>3. Me' = Me /\ Me.op = "none"
  BY <1>1, <1>2, PointOf DEF Me, Creating
<1>4. Allocated \subseteq Allocated'
  <2>1. Me.who \in Procs
    BY <1>1, <1>2 DEF Inv, WhoInv, Creating, Me
  <2>2. /\ Len(processesList) <= Len(processesList')
        /\ \A i \in 1 .. Len(processesList) : processesList'[i] = processesList[i]
    BY <1>1, <1>2, <2>1, AppendProperties DEF TypeInv
  <2>3. processesList \in Seq(Procs) /\ processesList' \in Seq(Procs)
    <3>1. processesList \in Seq(Procs) /\ Append(processesList, Me.who) \in Seq(Procs)
      BY <1>1, <2>1, AppendProperties DEF TypeInv
    <3> QED BY <1>2, <3>1
  <2>4. /\ Len(processesList) \in Nat /\ Len(processesList') \in Nat
        /\ DOMAIN processesList = 1 .. Len(processesList)
        /\ DOMAIN processesList' = 1 .. Len(processesList')
    BY <2>3, LenProperties
  <2> QED BY <2>2, <2>4 DEF Allocated
<1>5. /\ s = "numberIt" => Point(c)' = "appendIt"
      /\ s = "appendIt" => Point(c)' = "linkOut"
  <2>1. Point(c)' \in After(s)
    BY <1>2, <1>4, Moves DEF Words, Linking, Leaving, Rest
  <2> QED BY <1>2, <2>1 DEF After
<1>6. Woken = Me.who /\ Woken' = Me.who
  BY <1>2, <1>3, <1>5 DEF Woken
<1>7. /\ FinalNext' = FinalNext /\ FinalPrev' = FinalPrev /\ FinalState' = FinalState
      /\ FinalId' = FinalId /\ FinalMaxId' = FinalMaxId /\ FinalList' = FinalList
      /\ FinalFlag' = FinalFlag
  BY <1>2, <1>3, <1>5, <1>6
     DEF FinalNext, FinalPrev, FinalState, FinalId, FinalMaxId, FinalList, FinalFlag,
         Leaving, Linking, BlocksWriting, BlocksReading, Wakes, Creating
<1>8. Target' = Target /\ FinalChannels' = FinalChannels
  BY <1>2, <1>3, <1>5 DEF Target, FinalChannels, OnChannel, Leaving, Linking
<1> QED BY <1>2, <1>4, <1>7, <1>8, Carries DEF Words, Linking

\* switchToNextTask and switchTaskWrapper, up to the switch itself.
LEMMA ChooseCarries ==
    ASSUME Inv, NEW c \in Procs, c = onCpu, ReadNext \/ SetCurrent
    PROVE  Final' = Final
<1> PICK s : s = Point(c)
  OBVIOUS
<1> USE DEF Before, At
<1>1. TypeInv /\ CodeInv /\ CpuInv
  BY DEF Inv
<1>2. /\ s \in {"readNext", "setCurrent"} /\ At(s) /\ Advance
      /\ UNCHANGED <<next, prev, state, id, processesList, maxId, onCpu, preventTaskSwitch,
                     received, channels>>
      /\ s = "readNext" =>
            local' = [local EXCEPT ![c] = [local[c] EXCEPT !.nextTask = next[currentProcess]]]
      /\ s = "setCurrent" =>
            local' = [local EXCEPT ![c] = [local[c] EXCEPT !.prevProcess = currentProcess]]
  BY DEF ReadNext, SetCurrent, Let, Me, linkVars, procVars, cpuVars
<1>3. currentProcess = c
  BY <1>1, <1>2 DEF CpuInv
<1>4. local[c] \in LocalType /\ local \in [Procs -> LocalType]
  BY <1>1 DEF TypeInv
<1>5. /\ \A p \in Procs : local'[p].op = local[p].op /\ local'[p].ch = local[p].ch
      /\ s = "readNext" => local'[c].nextTask = next[c]
      /\ s = "setCurrent" => local'[c].nextTask = local[c].nextTask
  BY <1>2, <1>3, <1>4 DEF LocalType
<1>6. Allocated' = Allocated
  BY <1>2 DEF Allocated
<1>7. /\ s = "readNext" => Point(c)' = "setCurrent"
      /\ s = "setCurrent" => Point(c)' = "switchTask"
  <2>1. Point(c)' \in After(s)
    BY <1>2, <1>5, <1>6, Moves DEF Words, Linking, Leaving, Rest
  <2> QED BY <1>2, <2>1 DEF After
<1>8. /\ FinalNext' = FinalNext /\ FinalPrev' = FinalPrev /\ FinalState' = FinalState
      /\ FinalId' = FinalId /\ FinalMaxId' = FinalMaxId /\ FinalList' = FinalList
      /\ FinalFlag' = FinalFlag
  BY <1>2, <1>7
     DEF FinalNext, FinalPrev, FinalState, FinalId, FinalMaxId, FinalList, FinalFlag,
         Leaving, Linking, BlocksWriting, BlocksReading, Wakes, Creating
<1>9. Target' = Target
  BY <1>2, <1>5, <1>7 DEF Target, FinalNext, Me, Leaving, Linking
<1>10. FinalChannels' = FinalChannels
  BY <1>2, <1>7 DEF FinalChannels, OnChannel, BlocksWriting, BlocksReading, Linking
<1> QED BY <1>2, <1>5, <1>6, <1>8, <1>9, <1>10, Carries DEF Words, Rest

-----------------------------------------------------------------------------
\* Between the last statement that changes anything and the next call, the final
\* state is the present one, but for the value that a suspended receive reads.
Over == {"switchTask", "program", "return", "readValue", "dead"}

FinalIsNow ==
    /\ FinalNext = next /\ FinalPrev = prev /\ FinalState = state
    /\ FinalId = id /\ FinalMaxId = maxId /\ FinalList = processesList
    /\ FinalFlag = preventTaskSwitch /\ FinalChannels = channels
    /\ Target = IF At("switchTask") THEN Me.nextTask ELSE onCpu

\* Between these points a call changes nothing more.
LEMMA NothingIsLeft == Before(Over) => FinalIsNow
<1> SUFFICES ASSUME Before(Over) PROVE FinalIsNow
  OBVIOUS
<1> USE DEF Before, At, Over
<1>1. /\ FinalNext = next /\ FinalPrev = prev /\ FinalState = state
      /\ FinalId = id /\ FinalMaxId = maxId /\ FinalList = processesList
      /\ FinalFlag = preventTaskSwitch
  BY DEF FinalNext, FinalPrev, FinalState, FinalId, FinalMaxId, FinalList, FinalFlag,
         Leaving, Linking, BlocksWriting, BlocksReading, Wakes, Creating
<1>2. FinalChannels = channels
  BY DEF FinalChannels, OnChannel, BlocksWriting, BlocksReading, Linking
<1>3. Target = IF At("switchTask") THEN Me.nextTask ELSE onCpu
  BY DEF Target, Leaving, Linking
<1> QED BY <1>1, <1>2, <1>3 DEF FinalIsNow

\* In its program the final state is the present one.
LEMMA ProgramIsFinal == Inv /\ InProgram(onCpu) => Final = Now
<1> SUFFICES ASSUME Inv, InProgram(onCpu) PROVE Final = Now
  OBVIOUS
<1>1. TypeInv /\ CodeInv /\ onCpu \in Procs /\ Point(onCpu) = "program" /\ currentProcess = onCpu
  BY DEF Inv, TypeInv, CpuInv, InProgram, At
<1>2. local[onCpu].op = "none" /\ code[onCpu] = <<>>
  BY <1>1, PointOf
<1>3. Target = onCpu
  BY <1>1, NothingIsLeft DEF Before, Over, At, FinalIsNow
<1>4. Reads(Target, FinalChannels) = received
  BY <1>2, <1>3 DEF Reads
<1>5. CallsBut(Target) = [p \in Procs |-> Suspended(p)]
  BY <1>2, <1>3 DEF CallsBut, Suspended, Idle
<1> QED BY <1>1, <1>3, <1>4, <1>5, NothingIsLeft DEF Final, Now, Before, Over, FinalIsNow

\* switchTask: the next process has the CPU.
LEMMA SwitchTaskStep ==
    ASSUME Inv, Resting, NEW c \in Procs, c = onCpu, SwitchTask
    PROVE  /\ onCpu' = Me.nextTask /\ Me.nextTask \in Procs
           /\ code'[c] # <<>> /\ code[c] # <<>> /\ \A p \in Procs \ {c} : code'[p] = code[p]
           /\ Point(c)' \in {"return", "readValue", "dead"}
           /\ Point(onCpu)' \in {"program", "return", "readValue", "dead"}
<1>1. TypeInv /\ CodeInv /\ CpuInv /\ Queue \subseteq Procs
  BY OnCpu DEF Inv
<1>2. /\ Point(c) = "switchTask" /\ Load(Me.prevProcess, Me.nextTask) /\ UNCHANGED local
      /\ code' = [code EXCEPT ![c] = Tail(@)]
  BY DEF SwitchTask, At, Advance
<1>3. Me.prevProcess = c /\ Me.nextTask \in Procs
  BY <1>1, <1>2 DEF CpuInv, At
<1>4. onCpu' = Me.nextTask
  BY <1>1, <1>2, <1>3 DEF Load, TypeInv, CpuInv
<1>5. /\ code'[c] # <<>> /\ Point(c)' \in After("switchTask")
      /\ \A p \in Procs \ {c} : code'[p] = code[p] /\ Point(p)' = Point(p)
  BY <1>1, <1>2, NextStatement DEF Onward, Words, Rest
<1>6. Point(c)' \in {"return", "readValue", "dead"}
  BY <1>5 DEF After
<1>7. code[c] # <<>>
  BY <1>2 DEF Point
<1> QED BY <1>3, <1>4, <1>5, <1>6, <1>7 DEF Resting

\* The switch leaves the final state as it is,
LEMMA SwitchTaskCarries ==
    ASSUME Inv, Resting, NEW c \in Procs, c = onCpu, SwitchTask
    PROVE  Final' = Final
<1>1. /\ At("switchTask")
      /\ UNCHANGED <<next, prev, state, id, processesList, maxId, preventTaskSwitch,
                     channels, received, local>>
  BY DEF SwitchTask, linkVars, procVars
<1>2. Before(Over)
  BY <1>1 DEF Before, At, Over
<1>3. Before(Over)' /\ ~At("switchTask")'
  BY SwitchTaskStep DEF Before, At, Over
<1>4. FinalIsNow'
  BY <1>3, NothingIsLeft, PTL
<1>5. FinalIsNow
  BY <1>2, NothingIsLeft
<1>6. onCpu' = Me.nextTask
  BY SwitchTaskStep
<1>7. Target' = Target
  BY <1>1, <1>3, <1>4, <1>5, <1>6 DEF FinalIsNow
<1>8. \A p \in Procs : Suspended(p)' = Suspended(p)
  BY <1>1, SwitchTaskStep DEF Suspended
<1>9. CallsBut(Target)' = CallsBut(Target)
  BY <1>7, <1>8 DEF CallsBut, Idle
<1>10. Reads(Target, FinalChannels)' = Reads(Target, FinalChannels)
  BY <1>1, <1>4, <1>5, <1>7 DEF Reads, FinalIsNow
<1> QED BY <1>1, <1>4, <1>5, <1>7, <1>9, <1>10 DEF Final, FinalIsNow

\* The end of a call that is not a switch.
LEMMA ReturnStep ==
    ASSUME Inv, NEW c \in Procs, c = onCpu, Return \/ ReadValue
    PROVE  /\ onCpu' = c /\ Point(c)' = "program" /\ local' = [local EXCEPT ![c] = NoLocal]
           /\ \A p \in Procs \ {c} : code'[p] = code[p] /\ Point(p)' = Point(p)
<1>1. /\ Point(c) \in {"return", "readValue"} /\ code' = [code EXCEPT ![c] = Tail(@)]
      /\ onCpu' = onCpu /\ local' = [local EXCEPT ![c] = NoLocal]
  BY DEF Return, ReadValue, At, Advance, Let, cpuVars
<1>2. TypeInv /\ CodeInv
  BY DEF Inv
<1>3. local'[c].op = "none"
  BY <1>1, <1>2 DEF TypeInv, NoLocal
<1> QED BY <1>1, <1>2, <1>3, LastStatement

\* Only a receive reads, and a call that returns without reading is none.
LEMMA ReturnOfCall ==
    ASSUME TypeInv, CodeInv, NEW p \in Procs, Point(p) = "return"
    PROVE  local[p].op # "receive"
<1>1. PICK C \in Calls : \E i \in 1 .. Len(C) :
         code[p] = SubSeq(C, i, Len(C)) /\ Fits(C, local[p])
  BY PointOf DEF CodeInv, CodeOf
<1>2. PICK i \in 1 .. Len(C) : code[p] = SubSeq(C, i, Len(C)) /\ Fits(C, local[p])
  BY <1>1
<1>3. C[i] = "return"
  BY <1>2, RestOfCall DEF Point
<1>4. C \in {NewProcess, Yield, SendUnused, SendReceiver, SendSender}
  <2>1. CASE C = ReceiveUnused
    BY <1>3, <2>1 DEF ReceiveUnused
  <2>2. CASE C = ReceiveSender
    BY <1>3, <2>2 DEF ReceiveSender
  <2>3. CASE C = ReceiveQueued
    BY <1>3, <2>3 DEF ReceiveQueued
  <2>4. CASE C = Exit
    BY <1>3, <2>4 DEF Exit
  <2> QED BY <2>1, <2>2, <2>3, <2>4 DEF Calls
<1> QED BY <1>2, <1>4 DEF Fits

\* and so does the end of a call.
LEMMA ReturnCarries ==
    ASSUME Inv, NEW c \in Procs, c = onCpu, Return \/ ReadValue
    PROVE  Final' = Final
<1> PICK s : s = Point(c)
  OBVIOUS
<1>1. TypeInv /\ CodeInv
  BY DEF Inv
<1>2. /\ s \in {"return", "readValue"}
      /\ UNCHANGED <<next, prev, state, id, processesList, maxId, preventTaskSwitch, channels>>
      /\ s = "return" => received' = received
      /\ s = "readValue" => received' = [received EXCEPT ![c] = Chan.value]
  BY DEF Return, ReadValue, At, linkVars, procVars
<1>3. /\ onCpu' = c /\ Point(c)' = "program" /\ local' = [local EXCEPT ![c] = NoLocal]
      /\ \A p \in Procs \ {c} : code'[p] = code[p] /\ Point(p)' = Point(p)
  BY ReturnStep
<1>4. FinalIsNow /\ Target = c
  <2>1. Before(Over) /\ ~At("switchTask")
    BY <1>2 DEF Before, Over, At
  <2> QED BY <2>1, NothingIsLeft DEF FinalIsNow
<1>5. FinalIsNow' /\ Target' = c
  <2>1. Before(Over)' /\ ~At("switchTask")'
    BY <1>3 DEF Before, Over, At
  <2>2. FinalIsNow'
    BY <2>1, NothingIsLeft, PTL
  <2> QED BY <1>3, <2>1, <2>2 DEF FinalIsNow
<1>6. CallsBut(Target)' = CallsBut(Target)
  <2>1. \A p \in Procs \ {c} : Suspended(p)' = Suspended(p)
    BY <1>3 DEF Suspended
  <2> QED BY <1>4, <1>5, <2>1 DEF CallsBut, Idle
<1>7. local'[c].op = "none"
  BY <1>1, <1>3 DEF TypeInv, NoLocal
<1>8. CASE s = "return"
  <2>1. local[c].op # "receive"
    BY <1>1, <1>8, ReturnOfCall
  <2>2. Reads(Target, FinalChannels)' = Reads(Target, FinalChannels)
    BY <1>2, <1>4, <1>5, <1>7, <1>8, <2>1 DEF Reads
  <2> QED BY <1>2, <1>4, <1>5, <1>6, <2>2 DEF Final, FinalIsNow
<1>9. CASE s = "readValue"
  <2>1. local[c].op = "receive"
    BY <1>1, <1>9, PointOf DEF Receiving
  <2>2. Reads(Target, FinalChannels)' = received'
    BY <1>5, <1>7 DEF Reads
  <2>3. Reads(Target, FinalChannels) = [received EXCEPT ![c] = channels[local[c].ch].value]
    BY <1>4, <2>1 DEF Reads, FinalIsNow
  <2>4. Reads(Target, FinalChannels)' = Reads(Target, FinalChannels)
    BY <1>2, <1>9, <2>2, <2>3 DEF Chan, Me
  <2> QED BY <1>2, <1>4, <1>5, <1>6, <2>4 DEF Final, FinalIsNow
<1> QED BY <1>2, <1>8, <1>9

\* No statement of a call changes what the call will have done.
StatementStep ==
    \/ MarkSender \/ OfferValue \/ PassValue \/ MarkReceiver \/ NewList
    \/ AppendWaiter \/ PopWaiter \/ MarkUnused
    \/ TestEmpty \/ ResetChannel \/ FreeList
    \/ BlockWriting \/ BlockReading \/ Wake
    \/ LinkOut \/ LinkBack \/ LinkIn \/ UnlinkBack \/ UnlinkForward \/ Prevent \/ Permit
    \/ NumberIt \/ AppendIt
    \/ ReadNext \/ SetCurrent \/ SwitchTask \/ Return \/ ReadValue

\* The final state is the same before and after every statement of a call.
LEMMA StatementsCarry ==
    ASSUME Inv, Resting, StatementStep
    PROVE  Final' = Final
<1> PICK c \in Procs : c = onCpu
  BY DEF Inv, TypeInv
<1>1. CASE \/ MarkSender \/ OfferValue \/ PassValue \/ MarkReceiver \/ NewList
           \/ AppendWaiter \/ ResetChannel
  BY <1>1, ChannelStatementsCarry
<1>2. CASE PopWaiter \/ MarkUnused
  BY <1>2, FindCarries
<1>3. CASE BlockWriting \/ BlockReading
  BY <1>3, BlockCarries
<1>4. CASE Wake
  BY <1>4, WakeCarries
<1>5. CASE LinkOut \/ LinkBack \/ LinkIn
  BY <1>5, LinkCarries
<1>6. CASE UnlinkBack \/ UnlinkForward \/ Prevent \/ Permit
  BY <1>6, UnlinkCarries
<1>7. CASE NumberIt \/ AppendIt
  BY <1>7, CreateCarries
<1>8. CASE ReadNext \/ SetCurrent
  BY <1>8, ChooseCarries
<1>9. CASE SwitchTask
  BY <1>9, SwitchTaskCarries
<1>10. CASE Return \/ ReadValue
  BY <1>10, ReturnCarries
<1>11. CASE TestEmpty \/ FreeList
  BY <1>11, EmptyListCarries
<1> QED
  BY <1>1, <1>2, <1>3, <1>4, <1>5, <1>6, <1>7, <1>8, <1>9, <1>10, <1>11 DEF StatementStep

-----------------------------------------------------------------------------
\* Where the processes are from one step to the next.
LEMMA RestingNext ==
    ASSUME TickPoints = {}, Inv, Resting, [Next]_vars
    PROVE  Resting'
<1> PICK c \in Procs : c = onCpu
  BY DEF Inv, TypeInv
<1>1. TypeInv /\ CodeInv /\ CpuInv /\ Queue \subseteq Procs
  BY OnCpu DEF Inv
<1>2. local \in [Procs -> LocalType] /\ code \in [Procs -> Seq(Words)]
  BY <1>1 DEF TypeInv
<1>3. CASE UNCHANGED vars \/ EnableTaskSwitch
  BY <1>3 DEF vars, EnableTaskSwitch, cpuVars, Resting, Point
<1>4. CASE \/ \E p \in Procs : CallNewProcess(p)
           \/ \E ch \in Channels : CallReceive(ch) \/ \E v \in Values : CallSend(ch, v)
           \/ CallSwitch \/ CallExit
  <2> DEFINE Made == \E C, lo : Call(C, lo) /\ (lo.op \in {"none", "exit"} => lo.ch = NoChannel)
  <2>3. ASSUME NEW p \in Procs, CallNewProcess(p) PROVE Made
    <3>1. PICK C, lo : /\ C = NewProcess
                       /\ lo = [NoLocal EXCEPT !.who = p]
      OBVIOUS
    <3>2. Call(C, lo)
      BY <2>3, <3>1 DEF CallNewProcess
    <3>3. lo.op \in {"none", "exit"} => lo.ch = NoChannel
      BY <3>1 DEF NoLocal
    <3> QED BY <3>2, <3>3
  <2>4. ASSUME NEW ch \in Channels, CallReceive(ch) PROVE Made
    <3>1. PICK C, lo : /\ C = CASE channels[ch].state = "Unused"   -> ReceiveUnused
                              [] channels[ch].state = "Sender"   -> ReceiveSender
                              [] channels[ch].state = "Receiver" -> ReceiveQueued
                       /\ lo = [NoLocal EXCEPT !.op = "receive", !.ch = ch]
      OBVIOUS
    <3>2. Call(C, lo)
      BY <2>4, <3>1 DEF CallReceive
    <3>3. lo.op \in {"none", "exit"} => lo.ch = NoChannel
      BY <3>1 DEF NoLocal
    <3> QED BY <3>2, <3>3
  <2>5. ASSUME NEW ch \in Channels, NEW v \in Values, CallSend(ch, v) PROVE Made
    <3>1. PICK C, lo : /\ C = CASE channels[ch].state = "Unused"   -> SendUnused
                              [] channels[ch].state = "Receiver" -> SendReceiver
                              [] channels[ch].state = "Sender"   -> SendSender
                       /\ lo = [NoLocal EXCEPT !.op = "send", !.ch = ch, !.val = v]
      OBVIOUS
    <3>2. Call(C, lo)
      BY <2>5, <3>1 DEF CallSend
    <3>3. lo.op \in {"none", "exit"} => lo.ch = NoChannel
      BY <3>1 DEF NoLocal
    <3> QED BY <3>2, <3>3
  <2>6. ASSUME CallSwitch PROVE Made
    <3>1. PICK C, lo : /\ C = Yield
                       /\ lo = NoLocal
      OBVIOUS
    <3>2. Call(C, lo)
      BY <2>6, <3>1 DEF CallSwitch
    <3>3. lo.op \in {"none", "exit"} => lo.ch = NoChannel
      BY <3>1 DEF NoLocal
    <3> QED BY <3>2, <3>3
  <2>8. ASSUME CallExit PROVE Made
    <3>1. PICK C, lo : /\ C = Exit
                       /\ lo = [NoLocal EXCEPT !.op = "exit"]
      OBVIOUS
    <3>2. Call(C, lo)
      BY <2>8, <3>1 DEF CallExit
    <3>3. lo.op \in {"none", "exit"} => lo.ch = NoChannel
      BY <3>1 DEF NoLocal
    <3> QED BY <3>2, <3>3
  <2>7. Made
    BY <1>4, <2>3, <2>4, <2>5, <2>6, <2>8
  <2>1. PICK C, lo : Call(C, lo) /\ (lo.op \in {"none", "exit"} => lo.ch = NoChannel)
    BY <2>7
  <2>2. /\ onCpu' = c /\ local' = [local EXCEPT ![c] = lo]
        /\ \A p \in Procs \ {c} : code'[p] = code[p]
    BY <1>2, <2>1 DEF Call, cpuVars
  <2> QED BY <1>2, <2>1, <2>2 DEF Resting, Point
<1>5. CASE TimerSwitch
  <2>1. /\ Point(c) = "program" /\ UNCHANGED <<code, local>>
    BY <1>5 DEF TimerSwitch
  <2> QED BY <2>1 DEF Resting, Point
<1>6. CASE SwitchTask
  <2>1. UNCHANGED local
    BY <1>6 DEF SwitchTask
  <2>2. \A p \in Procs \ {c} : Point(p)' = Point(p)
    BY <1>6, SwitchTaskStep DEF Point
  <2> QED BY <1>6, <2>1, <2>2, SwitchTaskStep DEF Resting
<1>7. CASE Return \/ ReadValue
  BY <1>2, <1>7, ReturnStep DEF Resting, NoLocal
<1>8. CASE StatementStep /\ ~SwitchTask /\ ~Return /\ ~ReadValue
  <2>1. onCpu' = c /\ (Advance \/ PassBy)
    BY <1>8 DEF StatementStep, TestEmpty, FreeList, MarkSender, OfferValue, PassValue, MarkReceiver, NewList,
         AppendWaiter, ResetChannel, PopWaiter, MarkUnused, BlockWriting, BlockReading, Wake,
         LinkOut, LinkBack, LinkIn, UnlinkBack, UnlinkForward, Prevent, Permit, NumberIt,
         AppendIt, ReadNext, SetCurrent, ChannelStatement, StateStatement, LinkStatement,
         FlagStatement, cpuVars
  <2>2. \A p \in Procs : local'[p].op = local[p].op /\ local'[p].ch = local[p].ch
    <3>1. CASE PopWaiter \/ MarkUnused
      BY <3>1, FindStep
    <3>3. CASE ReadNext \/ SetCurrent
      <4>1. \/ local' = [local EXCEPT ![c] = [local[c] EXCEPT !.nextTask = next[currentProcess]]]
            \/ local' = [local EXCEPT ![c] = [local[c] EXCEPT !.prevProcess = currentProcess]]
        BY <3>3 DEF ReadNext, SetCurrent, Let, Me
      <4>2. local[c] \in LocalType
        BY <1>2
      <4>3. local'[c].op = local[c].op /\ local'[c].ch = local[c].ch
        BY <1>2, <4>1, <4>2 DEF LocalType
      <4> QED BY <1>2, <4>1, <4>3
    <3>2. CASE ~(PopWaiter \/ MarkUnused \/ ReadNext \/ SetCurrent)
      BY <1>8, <3>2 DEF StatementStep, TestEmpty, FreeList, MarkSender, OfferValue, PassValue, MarkReceiver, NewList,
         AppendWaiter, ResetChannel, BlockWriting, BlockReading, Wake,
         LinkOut, LinkBack, LinkIn, UnlinkBack, UnlinkForward, Prevent, Permit, NumberIt,
         AppendIt, StateStatement, LinkStatement, FlagStatement
    <3> QED BY <3>1, <3>2, <3>3
  <2>3. \A p \in Procs \ {c} : Point(p)' = Point(p)
    BY <1>2, <2>1 DEF Point, Advance, PassBy
  <2> QED BY <2>1, <2>2, <2>3 DEF Resting
<1> QED BY <1>3, <1>4, <1>5, <1>6, <1>7, <1>8 DEF Next, StatementStep


-----------------------------------------------------------------------------
\* The same fact as an implication, for use in the next state.
LEMMA TargetInv == Inv => Target \in Procs
<1> QED BY TargetIsProcess

\* A call begins: nothing has changed but that the process is in it.
LEMMA CallBegins ==
    ASSUME Inv, Inv', NEW c \in Procs, c = onCpu, NEW C \in Calls, NEW lo \in LocalType,
           Call(C, lo),
           NEW suspended,
           suspended = [Now.call EXCEPT ![c] = [op |-> lo.op, on |-> lo.ch]]
    PROVE  /\ Point(c) = "program" /\ ~preventTaskSwitch /\ currentProcess = c /\ c \in Queue
           /\ onCpu' = c /\ Point(c)' = C[1] /\ Me' = lo
           /\ UNCHANGED <<next, prev, state, id, processesList, maxId, currentProcess,
                          preventTaskSwitch, channels, received>>
           /\ Now.call[c] = Idle /\ Now.call = [p \in Procs |-> Now.call[p]]
           /\ \A p \in Procs \ Allocated : Now.call[p] = Idle
           /\ \A t \in Procs : CallsBut(t)' = [suspended EXCEPT ![t] = Idle]
           /\ \A t \in Procs : local'[t].op = "receive" <=> suspended[t].op = "receive"
           /\ \A t \in Procs : suspended[t].op = "receive" => suspended[t].on = local'[t].ch
<1>1. TypeInv /\ CodeInv /\ TypeInv' /\ CodeInv'
  BY DEF Inv
<1>2. /\ Point(c) = "program" /\ code' = [code EXCEPT ![c] = C] /\ ~preventTaskSwitch
      /\ local' = [local EXCEPT ![c] = lo] /\ onCpu' = c
      /\ UNCHANGED <<next, prev, state, id, processesList, maxId, currentProcess,
                     preventTaskSwitch, channels, received>>
  BY DEF Call, InProgram, linkVars, procVars, cpuVars
<1>3. currentProcess = c /\ c \in Queue
  BY <1>2, OnCpu DEF Inv, CpuInv, At
<1>4. C # <<>> /\ Head(C) = C[1]
  <2>1. C \in Seq(Words) /\ Len(C) \in 1 .. 13
    BY CallsAreCode
  <2>2. SubSeq(C, 1, Len(C)) = C
    BY <2>1, SubSeqFull
  <2>3. 1 \in 1 .. Len(C)
    <3>1. \A n \in 1 .. 13 : 1 \in 1 .. n
      OBVIOUS
    <3> QED BY <2>1, <3>1
  <2> QED BY <2>2, <2>3, RestOfCall
<1>5. /\ code'[c] = C /\ local'[c] = lo
      /\ \A p \in Procs \ {c} : code'[p] = code[p] /\ local'[p] = local[p]
  BY <1>1, <1>2 DEF TypeInv
<1>6. Point(c)' = C[1] /\ Me' = lo
  BY <1>2, <1>4, <1>5 DEF Point, Me
<1>7. Now.call = [p \in Procs |-> Suspended(p)] /\ \A p \in Procs : Now.call[p] = Suspended(p)
  BY DEF Now
<1>8. \A p \in Procs : code[p] = <<>> => Suspended(p) = Idle
  BY DEF Suspended, Idle
<1>9. code[c] = <<>> /\ \A p \in Procs \ Allocated : code[p] = <<>>
  BY <1>1, <1>2, PointOf DEF CodeInv
<1>10. suspended = [p \in Procs |-> Suspended(p)']
  <2>1. Suspended(c)' = [op |-> lo.op, on |-> lo.ch]
    BY <1>4, <1>5 DEF Suspended
  <2>2. \A p \in Procs \ {c} : Suspended(p)' = Suspended(p)
    BY <1>5 DEF Suspended
  <2> QED BY <1>7, <2>1, <2>2
<1>11. ASSUME NEW t \in Procs
       PROVE  /\ local'[t].op = "receive" <=> suspended[t].op = "receive"
              /\ suspended[t].op = "receive" => suspended[t].on = local'[t].ch
  <2>0. (Point(t) = "program" <=> code[t] = <<>>) /\ (Point(t) = "program" => local[t].op = "none")
    BY <1>1, PointOf
  <2>1. suspended[t].op = IF code'[t] = <<>> THEN "none" ELSE local'[t].op
    BY <1>10 DEF Suspended
  <2>2. code'[t] # <<>> => suspended[t].on = local'[t].ch
    BY <1>10 DEF Suspended
  <2>3. code'[t] = <<>> => local'[t].op = "none"
    BY <1>4, <1>5, <2>0
  <2> QED BY <2>1, <2>2, <2>3
<1>12. \A t \in Procs : CallsBut(t)' = [suspended EXCEPT ![t] = Idle]
  BY <1>10 DEF CallsBut, Idle
<1>13. Now.call[c] = Idle /\ Now.call = [p \in Procs |-> Now.call[p]]
  BY <1>7, <1>8, <1>9
<1>14. \A p \in Procs \ Allocated : Now.call[p] = Idle
  BY <1>7, <1>8, <1>9
<1> QED BY <1>2, <1>3, <1>6, <1>11, <1>12, <1>13, <1>14

\* What the call will have done about suspended processes: the one that gets the CPU
\* resumes; when the caller keeps it, nobody is suspended.
LEMMA CallSwitches ==
    ASSUME Inv, Inv', NEW c \in Procs, c = onCpu, NEW C \in Calls, NEW lo \in LocalType,
           Call(C, lo),
           NEW suspended,
           suspended = [Now.call EXCEPT ![c] = [op |-> lo.op, on |-> lo.ch]]
    PROVE  /\ SwitchesTo(Target', Now, Final', suspended)
           /\ Target' = c => /\ Final'.call = Now.call
                             /\ Final'.received = IF lo.op = "receive"
                                THEN [received EXCEPT ![c] = Final'.channels[lo.ch].value]
                                ELSE received
<1>0. (Target \in Procs)'
  BY TargetInv, PTL
<1>1. Target' \in Procs
  BY <1>0
<1>8. /\ Now.call[c] = Idle /\ Now.call = [p \in Procs |-> Now.call[p]]
      /\ UNCHANGED received /\ Me' = lo /\ onCpu' = c
      /\ \A q \in Procs : local'[q].op = "receive" <=> suspended[q].op = "receive"
      /\ \A q \in Procs : suspended[q].op = "receive" => suspended[q].on = local'[q].ch
  BY CallBegins
<1>9. \A q \in Procs : CallsBut(q)' = [suspended EXCEPT ![q] = Idle]
  BY CallBegins
<1>2. PICK a, b, t : a = Now /\ b = Final' /\ t = Target'
  OBVIOUS
<1>3. /\ a.received = received /\ a.call = Now.call
      /\ b.currentProcess = t /\ b.channels = FinalChannels' /\ b.call = CallsBut(t)'
      /\ b.received = Reads(t, FinalChannels)'
  BY <1>2 DEF Now, Final
<1>4. /\ CallsBut(t)' = [suspended EXCEPT ![t] = Idle]
      /\ local'[t].op = "receive" <=> suspended[t].op = "receive"
      /\ suspended[t].op = "receive" => suspended[t].on = local'[t].ch
      /\ Now.call[c] = Idle /\ Now.call = [p \in Procs |-> Now.call[p]]
      /\ UNCHANGED received /\ Me' = lo /\ onCpu' = c
  BY <1>1, <1>2, <1>8, <1>9
<1>5. b.received = IF suspended[t].op = "receive"
                   THEN [received EXCEPT ![t] = b.channels[suspended[t].on].value] ELSE received
  BY <1>3, <1>4 DEF Reads
<1>6. SwitchesTo(t, a, b, suspended)
  BY <1>3, <1>4, <1>5 DEF SwitchesTo
<1>7. ASSUME t = c
      PROVE  /\ b.call = Now.call
             /\ b.received = IF lo.op = "receive"
                             THEN [received EXCEPT ![c] = b.channels[lo.ch].value] ELSE received
  <2>1. local'[c] = lo
    BY <1>4 DEF Me
  <2>2. b.received = IF lo.op = "receive"
                     THEN [received EXCEPT ![c] = b.channels[lo.ch].value] ELSE received
    BY <1>3, <1>4, <1>7, <2>1 DEF Reads
  <2>3. b.call = Now.call
    BY <1>3, <1>4, <1>7
  <2> QED BY <2>2, <2>3
<1> QED BY <1>2, <1>6, <1>7

\* The states before and after, field by field.
LEMMA Fields ==
    /\ Now.next = next /\ Now.prev = prev /\ Now.state = state /\ Now.id = id
    /\ Now.processesList = processesList /\ Now.maxId = maxId
    /\ Now.currentProcess = currentProcess /\ Now.preventTaskSwitch = preventTaskSwitch
    /\ Now.channels = channels /\ Now.received = received
    /\ Final.next = FinalNext /\ Final.prev = FinalPrev /\ Final.state = FinalState
    /\ Final.id = FinalId /\ Final.processesList = FinalList /\ Final.maxId = FinalMaxId
    /\ Final.currentProcess = Target /\ Final.preventTaskSwitch = FinalFlag
    /\ Final.channels = FinalChannels
<1> QED BY DEF Now, Final

\* send and receive on a channel that is not ready, and exit: the caller leaves the ring.
LEMMA LeavingCall ==
    ASSUME Inv, Inv', NEW c \in Procs, c = onCpu, NEW C \in Calls, NEW lo \in LocalType,
           Call(C, lo), ~Alone, C[1] \in {"markSender", "markReceiver", "appendWaiter", "prevent"},
           lo.op \in {"send", "receive", "exit"}
    PROVE  /\ LeavesFor(Now, Final', SuspendedIn(Now, lo.op, lo.ch))
           /\ Same(Now, Final', {"id", "processesList", "maxId"})
<1> PICK suspended : suspended = [Now.call EXCEPT ![c] = [op |-> lo.op, on |-> lo.ch]]
  OBVIOUS
<1>1. /\ currentProcess = c /\ onCpu' = c /\ Point(c)' = C[1]
      /\ UNCHANGED <<next, prev, id, processesList, maxId, currentProcess>>
  BY CallBegins
<1>2. Before(Leaving)'
  BY <1>1 DEF Before, Leaving
<1>3. /\ FinalNext' = UnlinkNext(next, prev, c) /\ FinalPrev' = UnlinkPrev(next, prev, c)
      /\ FinalFlag' = FALSE /\ Target' = FinalNext'[c]
      /\ FinalId' = id /\ FinalMaxId' = maxId /\ FinalList' = processesList
  BY <1>1, <1>2 DEF FinalNext, FinalPrev, FinalFlag, Target, FinalId, FinalMaxId, FinalList,
                    Before, At, Leaving, Creating
<1>4. PICK a, b : a = Now /\ b = Final'
  OBVIOUS
<1>5. /\ a.next = next /\ a.prev = prev /\ a.id = id /\ a.processesList = processesList
      /\ a.maxId = maxId /\ a.currentProcess = c /\ a.call = Now.call
      /\ b.next = FinalNext' /\ b.prev = FinalPrev' /\ b.id = FinalId'
      /\ b.processesList = FinalList' /\ b.maxId = FinalMaxId' /\ b.preventTaskSwitch = FinalFlag'
  BY <1>1, <1>4, Fields DEF Final
<1>6. SwitchesTo(b.next[c], a, b, suspended)
  BY <1>3, <1>4, <1>5, CallSwitches
<1>7. suspended = SuspendedIn(a, lo.op, lo.ch)
  BY <1>5 DEF SuspendedIn
<1>8. LeavesFor(a, b, suspended)
  BY <1>1, <1>3, <1>5, <1>6 DEF LeavesFor, Alone
<1>9. Same(a, b, {"id", "processesList", "maxId"})
  BY <1>3, <1>5 DEF Same
<1> QED BY <1>4, <1>7, <1>8, <1>9

\* A channel is its four fields.
LEMMA SameFields ==
    ASSUME NEW k \in ChannelType, NEW l \in ChannelType, k.state = l.state,
           k.sendId = l.sendId, k.value = l.value, k.receive = l.receive
    PROVE  k = l
<1> QED BY DEF ChannelType

\* Assigning the fields of a channel one after the other is assigning them at once.
LEMMA OfferedChannel ==
    ASSUME NEW f \in [Channels -> ChannelType], NEW h \in Channels, NEW n \in Nat, NEW v \in Values,
           NEW k, k = f[h]
    PROVE  Offered(f, h, n, v)
             = [f EXCEPT ![h] = [state |-> "Sender", sendId |-> n, value |-> v,
                                 receive |-> k.receive]]
<1>1. k \in ChannelType /\ k = f[h]
  OBVIOUS
<1>2. PICK l : l = [k EXCEPT !.state = "Sender", !.sendId = n, !.value = v]
  OBVIOUS
<1>3. PICK m : m = [state |-> "Sender", sendId |-> n, value |-> v, receive |-> k.receive]
  OBVIOUS
<1>4. l = m
  <2>1. l \in ChannelType /\ m \in ChannelType
    BY <1>2, <1>3 DEF ChannelType
  <2>2. l.state = m.state /\ l.sendId = m.sendId /\ l.value = m.value /\ l.receive = m.receive
    BY <1>2, <1>3 DEF ChannelType
  <2> QED BY <2>1, <2>2, SameFields
<1>5. Offered(f, h, n, v) = [f EXCEPT ![h] = l]
  BY <1>1, <1>2 DEF Offered
<1> QED BY <1>1, <1>3, <1>4, <1>5

\* A channel that is given the value of a send.
LEMMA GivenChannel ==
    ASSUME NEW f \in [Channels -> ChannelType], NEW h \in Channels, NEW v \in Values,
           NEW left \in Seq(Nat), NEW k, k = f[h], NEW s,
           left = <<>> => s = "Unused", left # <<>> => s = k.state
    PROVE  Given(f, h, v, left)
             = [f EXCEPT ![h] = [state |-> s,
                                 sendId |-> k.sendId, value |-> v, receive |-> left]]
<1>1. k \in ChannelType /\ k = f[h]
  OBVIOUS
<1>2. s = IF left = <<>> THEN "Unused" ELSE k.state
  BY <1>1
<1>3. PICK l : l = [k EXCEPT !.value = v, !.receive = left, !.state = s]
  OBVIOUS
<1>4. PICK m : m = [state |-> s, sendId |-> k.sendId, value |-> v, receive |-> left]
  OBVIOUS
<1>5. l = m
  <2>1. s \in {"Unused", "Sender", "Receiver"}
    BY <1>2 DEF ChannelType
  <2>2. l \in ChannelType /\ m \in ChannelType
    BY <1>3, <1>4, <2>1 DEF ChannelType
  <2>3. l.state = m.state /\ l.sendId = m.sendId /\ l.value = m.value /\ l.receive = m.receive
    BY <1>3, <1>4 DEF ChannelType
  <2> QED BY <2>2, <2>3, SameFields
<1>6. Given(f, h, v, left) = [f EXCEPT ![h] = l]
  BY <1>1, <1>2, <1>3 DEF Given
<1> QED BY <1>1, <1>2, <1>4, <1>5, <1>6

\* A channel that a receiver waits on.
LEMMA AwaitedChannel ==
    ASSUME NEW f \in [Channels -> ChannelType], NEW h \in Channels, NEW w \in Seq(Nat),
           NEW k, k = f[h]
    PROVE  Awaited(f, h, w)
             = [f EXCEPT ![h] = [state |-> "Receiver", sendId |-> k.sendId,
                                 value |-> k.value, receive |-> w]]
<1>1. k \in ChannelType /\ k = f[h]
  OBVIOUS
<1>2. PICK l : l = [k EXCEPT !.state = "Receiver", !.receive = w]
  OBVIOUS
<1>3. PICK m : m = [state |-> "Receiver", sendId |-> k.sendId, value |-> k.value, receive |-> w]
  OBVIOUS
<1>4. l = m
  <2>1. l \in ChannelType /\ m \in ChannelType
    BY <1>2, <1>3 DEF ChannelType
  <2>2. l.state = m.state /\ l.sendId = m.sendId /\ l.value = m.value /\ l.receive = m.receive
    BY <1>2, <1>3 DEF ChannelType
  <2> QED BY <2>1, <2>2, SameFields
<1>5. Awaited(f, h, w) = [f EXCEPT ![h] = l]
  BY <1>1, <1>2 DEF Awaited
<1> QED BY <1>1, <1>3, <1>4, <1>5

\* A channel whose offer is taken.
LEMMA TakenChannel ==
    ASSUME NEW f \in [Channels -> ChannelType], NEW h \in Channels, NEW k, k = f[h]
    PROVE  Taken(f, h)
             = [f EXCEPT ![h] = [state |-> "Unused", sendId |-> k.sendId,
                                 value |-> k.value, receive |-> k.receive]]
<1>1. k \in ChannelType /\ k = f[h]
  OBVIOUS
<1>2. PICK l : l = [k EXCEPT !.state = "Unused"]
  OBVIOUS
<1>3. PICK m : m = [state |-> "Unused", sendId |-> k.sendId, value |-> k.value,
                    receive |-> k.receive]
  OBVIOUS
<1>4. l = m
  <2>1. l \in ChannelType /\ m \in ChannelType
    BY <1>1, <1>2, <1>3 DEF ChannelType
  <2>2. l.state = m.state /\ l.sendId = m.sendId /\ l.value = m.value /\ l.receive = m.receive
    BY <1>1, <1>2, <1>3 DEF ChannelType
  <2> QED BY <2>1, <2>2, SameFields
<1>5. Taken(f, h) = [f EXCEPT ![h] = l]
  BY <1>1, <1>2 DEF Taken
<1> QED BY <1>1, <1>3, <1>4, <1>5

\* send: an offer, a value that is passed on, or nothing.
LEMMA SendStarts ==
    ASSUME Inv, Inv', NEW ch \in Channels, NEW v \in Values, CallSend(ch, v)
    PROVE  Steps(Now, Final')
<1> PICK c \in Procs : c = onCpu
  BY DEF Inv, TypeInv
<1>11. PICK lo : lo = [NoLocal EXCEPT !.op = "send", !.ch = ch, !.val = v]
  OBVIOUS
<1> PICK a, b, k : a = Now /\ b = Final' /\ k = channels[ch]
  OBVIOUS
<1>1. TypeInv
  BY DEF Inv
<1>2. /\ lo \in LocalType /\ lo.op = "send" /\ lo.ch = ch /\ lo.val = v /\ lo.who = NULL
  BY <1>11 DEF NoLocal, LocalType
<1>3. k \in ChannelType /\ k.state \in {"Unused", "Sender", "Receiver"}
  BY <1>1 DEF TypeInv, ChannelType
<1>4. PICK C \in Calls :
         /\ Call(C, lo)
         /\ k.state = "Unused" => C = SendUnused /\ ~Alone
         /\ k.state = "Receiver" => C = SendReceiver
         /\ k.state = "Sender" => C = SendSender
  BY <1>3, <1>11 DEF CallSend, Calls
<1>12. PICK suspended : suspended = [Now.call EXCEPT ![c] = [op |-> lo.op, on |-> lo.ch]]
  OBVIOUS
<1>5. /\ Point(c) = "program" /\ ~preventTaskSwitch /\ currentProcess = c /\ c \in Queue
      /\ onCpu' = c /\ Point(c)' = C[1] /\ Me' = lo
      /\ UNCHANGED <<next, prev, state, id, processesList, maxId, currentProcess,
                     preventTaskSwitch, channels, received>>
  BY <1>2, <1>4, <1>12, CallBegins
<1>6. Chan' = k
  BY <1>2, <1>5 DEF Chan
<1>7. /\ a.next = next /\ a.prev = prev /\ a.state = state /\ a.id = id
      /\ a.processesList = processesList /\ a.maxId = maxId /\ a.currentProcess = c
      /\ a.preventTaskSwitch = FALSE /\ a.channels = channels /\ a.received = received
      /\ b.next = FinalNext' /\ b.prev = FinalPrev' /\ b.state = FinalState' /\ b.id = FinalId'
      /\ b.processesList = FinalList' /\ b.maxId = FinalMaxId' /\ b.currentProcess = Target'
      /\ b.preventTaskSwitch = FinalFlag' /\ b.channels = FinalChannels'
  BY <1>5, Fields DEF Final
<1> USE DEF Before, At
<1>8. CASE k.state = "Unused"
  <2>1. Point(c)' = "markSender"
    BY <1>4, <1>5, <1>8, FirstStatements
  <2>2. /\ LeavesFor(a, b, SuspendedIn(a, "send", ch))
        /\ Same(a, b, {"id", "processesList", "maxId"})
    <3>1. C[1] = "markSender"
      BY <1>5, <2>1
    <3> QED BY <1>2, <1>4, <1>8, <3>1, LeavingCall
  <2>3. b.state = [a.state EXCEPT ![c] = "BlockedWriting"]
    BY <1>5, <1>7, <2>1 DEF FinalState, BlocksWriting
  <2>4. FinalChannels' = [channels EXCEPT ![ch] = [state |-> "Sender", sendId |-> id[c],
                                                   value |-> v, receive |-> k.receive]]
    <3>1. OnChannel' /\ Me'.ch = ch
      BY <1>2, <1>5, <2>1 DEF OnChannel, BlocksWriting
    <3>2. /\ FinalChanState' = "Sender" /\ FinalSendId' = id[c]
          /\ FinalValue' = v /\ FinalReceive' = k.receive
      BY <1>2, <1>5, <1>6, <2>1 DEF FinalChanState, FinalSendId, FinalValue, FinalReceive
    <3> QED BY <1>5, <3>1, <3>2 DEF FinalChannels
  <2>5. id[c] \in Nat /\ channels \in [Channels -> ChannelType]
    BY <1>1 DEF TypeInv
  <2>6. b.channels = Offered(a.channels, ch, a.id[c], v)
    <3>1. PICK n \in Nat : n = id[c]
      BY <2>5
    <3>2. Offered(channels, ch, n, v)
            = [channels EXCEPT ![ch] = [state |-> "Sender", sendId |-> n, value |-> v,
                                        receive |-> k.receive]]
      BY <2>5, OfferedChannel
    <3> QED BY <1>7, <2>4, <3>1, <3>2
  <2>7. Offers(ch, v, a, b)
    BY <1>7, <1>8, <2>2, <2>3, <2>6 DEF Offers
  <2> QED BY <1>7, <2>7 DEF Steps
<1>9. CASE k.state = "Receiver"
  <2>10. PICK waiters, left, r :
            /\ waiters = k.receive /\ left = SubSeq(waiters, 1, Len(waiters) - 1)
            /\ r = processesList[waiters[Len(waiters)] + 1]
    OBVIOUS
  <2>1. Point(c)' = "passValue"
    BY <1>4, <1>5, <1>9, FirstStatements
  <2>2. Woken' = r
    BY <1>5, <1>6, <2>1, <2>10 DEF Woken, Process, Last_
  <2>3. /\ FinalNext' = InsertNext(next, prev, c, r) /\ FinalPrev' = InsertPrev(next, prev, c, r)
        /\ FinalState' = [state EXCEPT ![r] = "Runnable"] /\ Target' = FinalNext'[c]
        /\ FinalId' = id /\ FinalMaxId' = maxId /\ FinalList' = processesList
        /\ FinalFlag' = preventTaskSwitch
    <3>1. /\ FinalNext' = InsertNext(next, prev, c, r) /\ FinalPrev' = InsertPrev(next, prev, c, r)
          /\ FinalState' = [state EXCEPT ![r] = "Runnable"]
      BY <1>5, <2>1, <2>2
         DEF FinalNext, FinalPrev, FinalState, Leaving, Linking, BlocksWriting, BlocksReading, Wakes
    <3>2. /\ FinalId' = id /\ FinalMaxId' = maxId /\ FinalList' = processesList
          /\ FinalFlag' = preventTaskSwitch
      BY <1>5, <2>1 DEF FinalId, FinalMaxId, FinalList, FinalFlag, Leaving, Creating
    <3>3. Target' = FinalNext'[c]
      BY <1>2, <1>5, <2>1 DEF Target, Linking
    <3> QED BY <3>1, <3>2, <3>3
  <2>4. FinalChannels' = [channels EXCEPT ![ch] =
                            [state |-> IF left = <<>> THEN "Unused" ELSE k.state,
                             sendId |-> k.sendId, value |-> v, receive |-> left]]
    <3>1. OnChannel' /\ Me'.ch = ch
      BY <1>2, <1>5, <2>1 DEF OnChannel, Linking, Creating
    <3>2. /\ FinalChanState' = IF left = <<>> THEN "Unused" ELSE k.state
          /\ FinalSendId' = k.sendId /\ FinalValue' = v /\ FinalReceive' = left
      BY <1>2, <1>5, <1>6, <2>1, <2>10 DEF FinalChanState, FinalSendId, FinalValue, FinalReceive
    <3> QED BY <1>5, <3>1, <3>2 DEF FinalChannels
  <2>5. left \in Seq(Nat) /\ channels \in [Channels -> ChannelType]
    <3>1. waiters \in Seq(Nat)
      BY <1>3, <2>10 DEF ChannelType
    <3>2. Len(waiters) \in Nat /\ \A i \in 1 .. Len(waiters) : waiters[i] \in Nat
      BY <3>1, LenProperties, ElementOfSeq
    <3>3. Len(waiters) - 1 \in Int /\ \A i \in 1 .. Len(waiters) - 1 : waiters[i] \in Nat
      BY <3>2
    <3>4. left \in Seq(Nat)
      BY <2>10, <3>3, SubSeqProperties
    <3> QED BY <1>1, <3>4 DEF TypeInv
  <2>6. b.channels = Given(a.channels, ch, v, left)
    <3>1. PICK s : s = IF left = <<>> THEN "Unused" ELSE k.state
      OBVIOUS
    <3>2. Given(channels, ch, v, left)
            = [channels EXCEPT ![ch] = [state |-> s, sendId |-> k.sendId,
                                        value |-> v, receive |-> left]]
      <4>1. left = <<>> => s = "Unused"
        BY <3>1
      <4>2. left # <<>> => s = k.state
        BY <3>1
      <4> QED BY <2>5, <4>1, <4>2, GivenChannel
    <3> QED BY <1>7, <2>4, <3>1, <3>2
  <2>7. SwitchesTo(b.next[c], a, b, SuspendedIn(a, "send", ch))
    <3>1. suspended = SuspendedIn(a, "send", ch)
      BY <1>2, <1>7, <1>12 DEF SuspendedIn
    <3>2. SwitchesTo(Target', a, b, suspended)
      BY <1>2, <1>4, <1>12, CallSwitches
    <3> QED BY <1>7, <2>3, <3>1, <3>2
  <2>8. Inserts(r, a, b) /\ Same(a, b, {"id", "processesList", "maxId", "preventTaskSwitch"})
    BY <1>7, <2>3, <1>5, Fields DEF Inserts, Same
  <2>9. Passes(ch, v, a, b)
    BY <1>7, <1>9, <2>3, <2>6, <2>7, <2>8, <2>10 DEF Passes
  <2> QED BY <1>7, <2>9 DEF Steps
<1>10. CASE k.state = "Sender"
  <2>1. Point(c)' = "return"
    BY <1>4, <1>5, <1>10, FirstStatements
  <2>2. FinalIsNow' /\ Target' = c
    <3>1. Before(Over)' /\ ~At("switchTask")'
      BY <1>5, <2>1 DEF Over
    <3>2. FinalIsNow'
      BY <3>1, NothingIsLeft, PTL
    <3> QED BY <1>5, <3>1, <3>2 DEF FinalIsNow
  <2>3. b.call = Now.call /\ b.received = received
    BY <1>2, <1>4, <1>12, <2>2, CallSwitches
  <2>4. a = b
    BY <1>5, <2>2, <2>3 DEF Now, Final, FinalIsNow
  <2> QED BY <2>4 DEF Steps
<1> QED BY <1>3, <1>8, <1>9, <1>10

\* receive: the caller waits, or takes the offer of the sender it finds.
LEMMA ReceiveStarts ==
    ASSUME Inv, Inv', NEW ch \in Channels, CallReceive(ch)
    PROVE  Steps(Now, Final')
<1> PICK c \in Procs : c = onCpu
  BY DEF Inv, TypeInv
<1>11. PICK lo : lo = [NoLocal EXCEPT !.op = "receive", !.ch = ch]
  OBVIOUS
<1> PICK a, b, k : a = Now /\ b = Final' /\ k = channels[ch]
  OBVIOUS
<1>1. TypeInv
  BY DEF Inv
<1>2. lo \in LocalType /\ lo.op = "receive" /\ lo.ch = ch
  BY <1>11 DEF NoLocal, LocalType
<1>3. k \in ChannelType /\ k.state \in {"Unused", "Sender", "Receiver"} /\ k.receive \in Seq(Nat)
  BY <1>1 DEF TypeInv, ChannelType
<1>4. PICK C \in Calls :
         /\ Call(C, lo)
         /\ k.state = "Unused" => C = ReceiveUnused /\ ~Alone
         /\ k.state = "Receiver" => C = ReceiveQueued /\ ~Alone
         /\ k.state = "Sender" => C = ReceiveSender
  BY <1>3, <1>11 DEF CallReceive, Calls
<1>12. PICK suspended : suspended = [Now.call EXCEPT ![c] = [op |-> lo.op, on |-> lo.ch]]
  OBVIOUS
<1>5. /\ Point(c) = "program" /\ ~preventTaskSwitch /\ currentProcess = c /\ c \in Queue
      /\ onCpu' = c /\ Point(c)' = C[1] /\ Me' = lo
      /\ UNCHANGED <<next, prev, state, id, processesList, maxId, currentProcess,
                     preventTaskSwitch, channels, received>>
  BY <1>2, <1>4, <1>12, CallBegins
<1>6. Chan' = k
  BY <1>2, <1>5 DEF Chan
<1>7. /\ a.next = next /\ a.prev = prev /\ a.state = state /\ a.id = id
      /\ a.processesList = processesList /\ a.maxId = maxId /\ a.currentProcess = c
      /\ a.preventTaskSwitch = FALSE /\ a.channels = channels /\ a.received = received
      /\ b.next = FinalNext' /\ b.prev = FinalPrev' /\ b.state = FinalState' /\ b.id = FinalId'
      /\ b.processesList = FinalList' /\ b.maxId = FinalMaxId' /\ b.currentProcess = Target'
      /\ b.preventTaskSwitch = FinalFlag' /\ b.channels = FinalChannels'
  BY <1>5, Fields DEF Final
<1> USE DEF Before, At
<1>8. CASE k.state \in {"Unused", "Receiver"}
  <2>1. C[1] = IF k.state = "Unused" THEN "markReceiver" ELSE "appendWaiter"
    BY <1>4, <1>8, FirstStatements
  <2>2. /\ LeavesFor(a, b, SuspendedIn(a, "receive", ch))
        /\ Same(a, b, {"id", "processesList", "maxId"})
    BY <1>2, <1>4, <1>8, <2>1, LeavingCall
  <2>3. Point(c)' = IF k.state = "Unused" THEN "markReceiver" ELSE "appendWaiter"
    BY <1>5, <2>1
  <2>4. b.state = [a.state EXCEPT ![c] = "BlockedReading"]
    BY <1>5, <1>7, <2>3 DEF FinalState, BlocksWriting, BlocksReading
  <2>5. PICK w, n : /\ w = Append(IF k.state = "Unused" THEN <<>> ELSE k.receive, n) /\ n = id[c]
    OBVIOUS
  <2>6. FinalChannels' = [channels EXCEPT ![ch] = [state |-> "Receiver", sendId |-> k.sendId,
                                                   value |-> k.value, receive |-> w]]
    <3>1. OnChannel' /\ Me'.ch = ch
      BY <1>2, <1>5, <2>3 DEF OnChannel, BlocksReading
    <3>2. FinalChanState' = "Receiver"
      BY <1>2, <1>5, <1>6, <1>8, <2>3 DEF FinalChanState
    <3>3. FinalSendId' = k.sendId /\ FinalValue' = k.value
      BY <1>2, <1>5, <1>6, <2>3 DEF FinalSendId, FinalValue
    <3>4. FinalReceive' = w
      <4>1. CASE k.state = "Unused"
        BY <1>5, <2>3, <2>5, <4>1 DEF FinalReceive
      <4>2. CASE k.state = "Receiver"
        BY <1>5, <1>6, <2>3, <2>5, <4>2 DEF FinalReceive
      <4> QED BY <1>8, <4>1, <4>2
    <3> QED BY <1>5, <3>1, <3>2, <3>3, <3>4 DEF FinalChannels
  <2>7. w \in Seq(Nat) /\ channels \in [Channels -> ChannelType]
    <3>1. id[c] \in Nat /\ (IF k.state = "Unused" THEN <<>> ELSE k.receive) \in Seq(Nat)
      BY <1>1, <1>3, EmptySeq DEF TypeInv
    <3>2. w \in Seq(Nat)
      BY <2>5, <3>1, AppendProperties
    <3> QED BY <1>1, <3>2 DEF TypeInv
  <2>8. b.channels = Awaited(channels, ch, w)
    BY <1>7, <2>6, <2>7, AwaitedChannel
  <2>9. Waits_(ch, a, b)
    BY <1>7, <1>8, <2>2, <2>4, <2>5, <2>8 DEF Waits_
  <2> QED BY <1>7, <2>9 DEF Steps
<1>9. CASE k.state = "Sender"
  <2>10. PICK s : s = processesList[k.sendId + 1]
    OBVIOUS
  <2>1. Point(c)' = "markUnused"
    BY <1>4, <1>5, <1>9, FirstStatements
  <2>2. Woken' = s
    BY <1>5, <1>6, <2>1, <2>10 DEF Woken, Process
  <2>3. /\ FinalNext' = InsertNext(next, prev, c, s) /\ FinalPrev' = InsertPrev(next, prev, c, s)
        /\ FinalState' = [state EXCEPT ![s] = "Runnable"]
    BY <1>5, <2>1, <2>2
       DEF FinalNext, FinalPrev, FinalState, Leaving, Linking, BlocksWriting, BlocksReading, Wakes
  <2>4. /\ FinalId' = id /\ FinalMaxId' = maxId /\ FinalList' = processesList
        /\ FinalFlag' = preventTaskSwitch
    BY <1>5, <2>1 DEF FinalId, FinalMaxId, FinalList, FinalFlag, Leaving, Creating
  <2>5. Target' = c
    BY <1>2, <1>5, <2>1 DEF Target, Linking, Leaving
  <2>6. FinalChannels' = [channels EXCEPT ![ch] = [state |-> "Unused", sendId |-> k.sendId,
                                                   value |-> k.value, receive |-> k.receive]]
    <3>1. OnChannel' /\ Me'.ch = ch
      BY <1>2, <1>5, <2>1 DEF OnChannel, Linking, Creating
    <3>2. FinalChanState' = "Unused"
      BY <1>2, <1>5, <1>6, <2>1 DEF FinalChanState
    <3>3. FinalSendId' = k.sendId /\ FinalValue' = k.value /\ FinalReceive' = k.receive
      BY <1>2, <1>5, <1>6, <2>1 DEF FinalSendId, FinalValue, FinalReceive
    <3> QED BY <1>5, <3>1, <3>2, <3>3 DEF FinalChannels
  <2>7. b.channels = Taken(channels, ch)
    <3>1. channels \in [Channels -> ChannelType]
      BY <1>1 DEF TypeInv
    <3> QED BY <1>7, <2>6, <3>1, TakenChannel
  <2>8. b.call = a.call /\ b.received = [received EXCEPT ![c] = b.channels[ch].value]
    BY <1>2, <1>4, <1>12, <2>5, CallSwitches
  <2>9. b.channels[ch].value = k.value
    BY <1>1, <1>7, <2>6 DEF TypeInv
  <2>11. Takes(ch, a, b)
    <3>1. Inserts(s, a, b)
      BY <1>7, <2>3 DEF Inserts
    <3>2. Same(a, b, {"id", "processesList", "maxId", "currentProcess", "preventTaskSwitch", "call"})
      <4>1. a.preventTaskSwitch = preventTaskSwitch
        BY Fields
      <4> QED BY <1>7, <2>4, <2>5, <2>8, <4>1 DEF Same
    <3> QED BY <1>7, <1>9, <2>3, <2>7, <2>8, <2>9, <2>10, <3>1, <3>2 DEF Takes
  <2> QED BY <1>7, <2>11 DEF Steps
<1> QED BY <1>3, <1>8, <1>9

\* newProcess.
LEMMA CreateStarts ==
    ASSUME Inv, Inv', NEW p \in Procs, CallNewProcess(p)
    PROVE  Steps(Now, Final')
<1> PICK c \in Procs : c = onCpu
  BY DEF Inv, TypeInv
<1>1. PICK lo : lo = [NoLocal EXCEPT !.who = p]
  OBVIOUS
<1> PICK a, b, C : a = Now /\ b = Final' /\ C = NewProcess
  OBVIOUS
<1>2. lo \in LocalType /\ lo.op = "none" /\ lo.who = p /\ C \in Calls
  BY <1>1 DEF NoLocal, LocalType, Calls
<1>3. Call(C, lo) /\ maxId < MaxId /\ p \notin Allocated
  BY <1>1 DEF CallNewProcess
<1>4. PICK suspended : suspended = [Now.call EXCEPT ![c] = [op |-> lo.op, on |-> lo.ch]]
  OBVIOUS
<1>5. /\ Point(c) = "program" /\ ~preventTaskSwitch /\ currentProcess = c /\ c \in Queue
      /\ onCpu' = c /\ Point(c)' = C[1] /\ Me' = lo
      /\ UNCHANGED <<next, prev, state, id, processesList, maxId, currentProcess,
                     preventTaskSwitch, channels, received>>
      /\ Now.call = [q \in Procs |-> Now.call[q]] /\ Now.call[p] = Idle
  BY <1>2, <1>3, <1>4, CallBegins
<1>6. Point(c)' = "numberIt"
  BY <1>5, FirstStatements
<1>7. /\ a.next = next /\ a.prev = prev /\ a.state = state /\ a.id = id
      /\ a.processesList = processesList /\ a.maxId = maxId /\ a.currentProcess = c
      /\ a.preventTaskSwitch = preventTaskSwitch /\ a.channels = channels /\ a.received = received
      /\ b.next = FinalNext' /\ b.prev = FinalPrev' /\ b.state = FinalState' /\ b.id = FinalId'
      /\ b.processesList = FinalList' /\ b.maxId = FinalMaxId' /\ b.currentProcess = Target'
      /\ b.preventTaskSwitch = FinalFlag' /\ b.channels = FinalChannels'
  BY <1>5, Fields DEF Final
<1> USE DEF Before, At
<1>8. Woken' = p
  BY <1>2, <1>5, <1>6 DEF Woken
<1>9. /\ FinalNext' = InsertNext(next, prev, c, p) /\ FinalPrev' = InsertPrev(next, prev, c, p)
      /\ FinalState' = [state EXCEPT ![p] = "Runnable"]
  BY <1>5, <1>6, <1>8
     DEF FinalNext, FinalPrev, FinalState, Leaving, Linking, BlocksWriting, BlocksReading, Wakes
<1>10. /\ FinalId' = [id EXCEPT ![p] = maxId + 1] /\ FinalMaxId' = maxId + 1
       /\ FinalList' = Append(processesList, p) /\ FinalFlag' = preventTaskSwitch
  BY <1>2, <1>5, <1>6 DEF FinalId, FinalMaxId, FinalList, FinalFlag, Leaving, Creating
<1>11. Target' = c /\ FinalChannels' = channels
  BY <1>2, <1>5, <1>6
     DEF Target, Linking, Leaving, FinalChannels, OnChannel, BlocksWriting, BlocksReading, Creating
<1>12. b.call = a.call /\ b.received = received
  BY <1>2, <1>3, <1>4, <1>11, CallSwitches
<1>13. [a.call EXCEPT ![p] = Idle] = a.call
  BY <1>5
<1>14. \A i \in DOMAIN a.processesList : a.processesList[i] # p
  BY <1>3, <1>7 DEF Allocated
<1>15. Inserts(p, a, b)
  BY <1>7, <1>9 DEF Inserts
<1>16. Same(a, b, {"currentProcess", "preventTaskSwitch", "channels", "received"})
  BY <1>7, <1>10, <1>11, <1>12 DEF Same
<1>17. Creates(p, a, b)
  BY <1>3, <1>7, <1>9, <1>10, <1>12, <1>13, <1>14, <1>15, <1>16 DEF Creates
<1> QED BY <1>5, <1>7, <1>17 DEF Steps

\* exit.
LEMMA ExitStarts ==
    ASSUME Inv, Inv', CallExit
    PROVE  Steps(Now, Final')
<1> PICK c \in Procs : c = onCpu
  BY DEF Inv, TypeInv
<1>1. PICK lo : lo = [NoLocal EXCEPT !.op = "exit"]
  OBVIOUS
<1> PICK a, b, C : a = Now /\ b = Final' /\ C = Exit
  OBVIOUS
<1>2. lo \in LocalType /\ lo.op = "exit" /\ lo.ch = NoChannel /\ C \in Calls
  BY <1>1 DEF NoLocal, LocalType, Calls
<1>3. Call(C, lo) /\ c # Main /\ ~Alone
  BY <1>1 DEF CallExit
<1>4. PICK suspended : suspended = [Now.call EXCEPT ![c] = [op |-> lo.op, on |-> lo.ch]]
  OBVIOUS
<1>5. /\ ~preventTaskSwitch /\ currentProcess = c /\ onCpu' = c /\ Point(c)' = C[1]
      /\ UNCHANGED <<state, channels>>
  BY <1>2, <1>3, <1>4, CallBegins
<1>6. C[1] = "prevent"
  BY FirstStatements
<1>7. LeavesFor(a, b, SuspendedIn(a, "exit", NoChannel)) /\ Same(a, b, {"id", "processesList", "maxId"})
  BY <1>2, <1>3, <1>6, LeavingCall
<1>8. /\ a.state = state /\ a.channels = channels /\ a.currentProcess = c
      /\ a.preventTaskSwitch = preventTaskSwitch
      /\ b.state = FinalState' /\ b.channels = FinalChannels'
  BY <1>5, Fields DEF Final
<1>9. FinalState' = state /\ FinalChannels' = channels
  BY <1>5, <1>6 DEF FinalState, FinalChannels, OnChannel, BlocksWriting, BlocksReading, Wakes,
                    Linking, Creating, Before, At
<1>10. Exits(a, b)
  BY <1>3, <1>7, <1>8, <1>9 DEF Exits, Same
<1> QED BY <1>5, <1>8, <1>10 DEF Steps

\* switchToNextTask, called by a program.
LEMMA SwitchStarts ==
    ASSUME Inv, Inv', CallSwitch
    PROVE  Steps(Now, Final')
<1> PICK c \in Procs : c = onCpu
  BY DEF Inv, TypeInv
<1>1. PICK lo : lo = NoLocal
  OBVIOUS
<1> PICK a, b, C : a = Now /\ b = Final' /\ C = Yield
  OBVIOUS
<1>2. lo \in LocalType /\ lo.op = "none" /\ lo.ch = NoChannel /\ C \in Calls
  BY <1>1 DEF NoLocal, LocalType, Calls
<1>3. Call(C, lo)
  BY <1>1 DEF CallSwitch
<1>4. PICK suspended : suspended = [Now.call EXCEPT ![c] = [op |-> lo.op, on |-> lo.ch]]
  OBVIOUS
<1>5. /\ ~preventTaskSwitch /\ currentProcess = c /\ onCpu' = c /\ Point(c)' = C[1] /\ Me' = lo
      /\ UNCHANGED <<next, prev, state, id, processesList, maxId, currentProcess,
                     preventTaskSwitch, channels, received>>
      /\ Now.call = [q \in Procs |-> Now.call[q]] /\ Now.call[c] = Idle
  BY <1>2, <1>3, <1>4, CallBegins
<1>6. Point(c)' = "readNext"
  BY <1>5, FirstStatements
<1>7. /\ a.next = next /\ a.prev = prev /\ a.state = state /\ a.id = id
      /\ a.processesList = processesList /\ a.maxId = maxId /\ a.currentProcess = c
      /\ a.preventTaskSwitch = preventTaskSwitch /\ a.channels = channels /\ a.received = received
      /\ b.next = FinalNext' /\ b.prev = FinalPrev' /\ b.state = FinalState' /\ b.id = FinalId'
      /\ b.processesList = FinalList' /\ b.maxId = FinalMaxId' /\ b.currentProcess = Target'
      /\ b.preventTaskSwitch = FinalFlag' /\ b.channels = FinalChannels'
  BY <1>5, Fields DEF Final
<1> USE DEF Before, At
<1>8. /\ FinalNext' = next /\ FinalPrev' = prev /\ FinalState' = state /\ FinalId' = id
      /\ FinalMaxId' = maxId /\ FinalList' = processesList /\ FinalFlag' = preventTaskSwitch
  BY <1>5, <1>6
     DEF FinalNext, FinalPrev, FinalState, FinalId, FinalMaxId, FinalList, FinalFlag,
         Leaving, Linking, BlocksWriting, BlocksReading, Wakes, Creating
<1>9. Target' = next[c]
  BY <1>5, <1>6, <1>8 DEF Target
<1>10. FinalChannels' = channels
  BY <1>2, <1>5, <1>6
     DEF FinalChannels, OnChannel, BlocksWriting, BlocksReading, Linking, Creating
<1>11. suspended = a.call
  BY <1>2, <1>4, <1>5 DEF Idle
<1>12. SwitchesTo(next[c], a, b, a.call)
  BY <1>2, <1>3, <1>4, <1>9, <1>11, CallSwitches
<1>13. Same(a, b, {"next", "prev", "state", "id", "processesList", "maxId",
                   "preventTaskSwitch", "channels"})
  BY <1>7, <1>8, <1>10 DEF Same
<1>14. Yields(a, b)
  BY <1>7, <1>12, <1>13 DEF Yields
<1> QED BY <1>5, <1>7, <1>14 DEF Steps

\* A timer interrupt in a program: the next process goes on where it was.
LEMMA TimerStarts ==
    ASSUME TickPoints = {}, Inv, Inv', Resting, TimerSwitch
    PROVE  Steps(Now, Final')
<1> PICK c \in Procs : c = onCpu
  BY DEF Inv, TypeInv
<1> PICK a, b, q : a = Now /\ b = Final' /\ q = next[c]
  OBVIOUS
<1>1. TypeInv /\ CodeInv /\ CpuInv /\ Queue \subseteq Procs
  BY OnCpu DEF Inv
<1>2. /\ Point(c) = "program" /\ ~preventTaskSwitch /\ Load(currentProcess, next[currentProcess])
      /\ UNCHANGED <<next, prev, state, id, processesList, maxId, preventTaskSwitch, channels,
                     received, code, local>>
  BY DEF TimerSwitch, linkVars, procVars
<1>3. currentProcess = c /\ q \in Queue /\ q \in Procs
  BY <1>1, <1>2, OnCpu DEF Inv, CpuInv, At, Leaving
<1>4. onCpu' = q
  BY <1>1, <1>2, <1>3 DEF Load, TypeInv, CpuInv
<1>5. Point(q) \in Over \ {"switchTask"}
  BY <1>2, <1>3 DEF Resting, Over
<1>6. Before(Over)' /\ ~At("switchTask")'
  BY <1>2, <1>4, <1>5 DEF Before, At, Point
<1>7. FinalIsNow' /\ Target' = q
  <2>1. FinalIsNow'
    BY <1>6, NothingIsLeft, PTL
  <2> QED BY <1>4, <1>6, <2>1 DEF FinalIsNow
<1>8. /\ a.next = next /\ a.prev = prev /\ a.state = state /\ a.id = id
      /\ a.processesList = processesList /\ a.maxId = maxId /\ a.currentProcess = c
      /\ a.preventTaskSwitch = preventTaskSwitch /\ a.channels = channels /\ a.received = received
      /\ b.next = FinalNext' /\ b.prev = FinalPrev' /\ b.state = FinalState' /\ b.id = FinalId'
      /\ b.processesList = FinalList' /\ b.maxId = FinalMaxId' /\ b.currentProcess = Target'
      /\ b.preventTaskSwitch = FinalFlag' /\ b.channels = FinalChannels'
  BY <1>3, Fields DEF Final
<1>9. Same(a, b, {"next", "prev", "state", "id", "processesList", "maxId",
                  "preventTaskSwitch", "channels"})
  BY <1>2, <1>7, <1>8 DEF Same, FinalIsNow
<1>10. a.call = [p \in Procs |-> Suspended(p)] /\ b.call = CallsBut(q)'
  BY <1>7 DEF Now, Final
<1>11. b.call = [a.call EXCEPT ![q] = Idle]
  <2>1. \A p \in Procs : Suspended(p)' = Suspended(p)
    BY <1>2 DEF Suspended
  <2>2. CallsBut(q)' = [p \in Procs |-> IF p = q THEN Idle ELSE Suspended(p)]
    BY <2>1 DEF CallsBut, Idle
  <2> QED BY <1>10, <2>2
<1>12. b.received = IF a.call[q].op = "receive"
                    THEN [received EXCEPT ![q] = b.channels[a.call[q].on].value] ELSE received
  <2>1. b.received = IF local[q].op = "receive"
                     THEN [received EXCEPT ![q] = channels[local[q].ch].value] ELSE received
    BY <1>2, <1>7 DEF Final, Reads, FinalIsNow
  <2>2. (Point(q) = "program" <=> code[q] = <<>>) /\ (Point(q) = "program" => local[q].op = "none")
    BY <1>1, <1>3, PointOf
  <2>3. a.call[q] = Suspended(q)
    BY <1>3, <1>10
  <2>4. a.call[q].op = "receive" <=> local[q].op = "receive"
    BY <2>2, <2>3 DEF Suspended
  <2>5. a.call[q].op = "receive" => a.call[q].on = local[q].ch
    BY <2>3 DEF Suspended
  <2>6. b.channels = channels
    BY <1>2, <1>7, <1>8 DEF FinalIsNow
  <2> QED BY <2>1, <2>4, <2>5, <2>6
<1>13. SwitchesTo(q, a, b, a.call)
  BY <1>7, <1>8, <1>11, <1>12 DEF SwitchesTo
<1>14. Yields(a, b)
  BY <1>8, <1>9, <1>13 DEF Yields
<1> QED BY <1>2, <1>8, <1>14 DEF Steps

\* kernel_main lets tasks switch.
LEMMA EnableStarts ==
    ASSUME Inv, Inv', EnableTaskSwitch
    PROVE  Steps(Now, Final')
<1>1. /\ preventTaskSwitch /\ preventTaskSwitch' = FALSE /\ InProgram(onCpu)
      /\ UNCHANGED <<next, prev, state, id, processesList, maxId, currentProcess, channels,
                     received, onCpu, code, local>>
  BY DEF EnableTaskSwitch, linkVars, procVars, cpuVars
<1>2. InProgram(onCpu)'
  BY <1>1 DEF InProgram, Point
<1>3. Final' = Now'
  <2>1. (Final = Now)'
    BY <1>2, ProgramIsFinal, PTL
  <2> QED BY <2>1
<1>4. \A p \in Procs : Suspended(p)' = Suspended(p)
  BY <1>1 DEF Suspended
<1>5. Now'.call = Now.call
  BY <1>4 DEF Now
<1>6. Enables(Now, Now')
  <2>1. PICK a, b : a = Now /\ b = Now'
    OBVIOUS
  <2>2. /\ a.next = b.next /\ a.prev = b.prev /\ a.state = b.state /\ a.id = b.id
        /\ a.processesList = b.processesList /\ a.maxId = b.maxId
        /\ a.currentProcess = b.currentProcess /\ a.channels = b.channels
        /\ a.call = b.call /\ a.received = b.received
        /\ a.preventTaskSwitch = preventTaskSwitch /\ b.preventTaskSwitch = FALSE
    BY <1>1, <1>5, <2>1, Fields DEF Now
  <2>3. Enables(a, b)
    BY <1>1, <2>2 DEF Enables, Same
  <2> QED BY <2>1, <2>3
<1> QED BY <1>3, <1>6 DEF Steps

\* A step of KernelPreempt is a step of what calls will end in, or none.
LEMMA RestNextInv ==
    ASSUME TickPoints = {}, RestInv, [RestNext]_<<vars, rest>>
    PROVE  RestInv' /\ Steps(rest, rest')
<1>1. Inv /\ Resting /\ [Next]_vars
  BY DEF RestInv, RestNext
<1>2. TickPoints \subseteq SafeWindows
  OBVIOUS
<1>3. Inv' /\ Resting'
  BY <1>1, <1>2, NextInv, RestingNext
<1>4. InProgram(onCpu)' => Final' = Now'
  <2>1. (InProgram(onCpu) => Final = Now)'
    BY <1>3, ProgramIsFinal, PTL
  <2> QED BY <2>1
<1>7. (rest' = Now' => rest'.maxId \in Nat) /\ rest.maxId \in Nat
  <2>1. Now'.maxId = maxId'
    BY DEF Now
  <2> QED BY <1>3, <2>1 DEF Inv, TypeInv, RestInv
<1>5. CASE UNCHANGED <<vars, rest>>
  <2>1. Final' = Final
    BY <1>5 DEF vars, linkVars, procVars, cpuVars, Final, FinalNext, FinalPrev, FinalState, FinalId,
                FinalMaxId, FinalList, FinalFlag, FinalChannels, OnChannel, FinalChanState,
                FinalSendId, FinalValue, FinalReceive, Target, Woken, Chan, Me, Before, At,
                Point, Process, Reads, CallsBut, Suspended
  <2>2. rest' = rest /\ Now' = Now /\ (InProgram(onCpu)' <=> InProgram(onCpu))
    BY <1>5 DEF vars, linkVars, procVars, cpuVars, Now, Suspended, InProgram, Point
  <2>3. RestInv'
    BY <1>3, <1>7, <2>1, <2>2 DEF RestInv
  <2> QED BY <2>2, <2>3 DEF Steps
<1>6. CASE RestNext
  <2>1. rest' = IF InProgram(onCpu)' THEN Now' ELSE rest
    BY <1>6 DEF RestNext
  <2>2. Steps(rest, Final')
    <3>1. CASE StatementStep
      <4>1. Final' = Final
        BY <1>1, <3>1, StatementsCarry
      <4> QED BY <4>1 DEF RestInv
    <3>2. CASE ~StatementStep
      <4>1. \/ EnableTaskSwitch
            \/ \E p \in Procs : CallNewProcess(p)
            \/ \E ch \in Channels : CallReceive(ch) \/ \E v \in Values : CallSend(ch, v)
            \/ CallSwitch \/ CallExit \/ TimerSwitch
        BY <1>6, <3>2 DEF RestNext, Next, StatementStep
      <4>2. InProgram(onCpu)
        BY <4>1 DEF EnableTaskSwitch, CallNewProcess, CallReceive, CallSend, CallSwitch, CallExit,
                    Call, TimerSwitch, InProgram
      <4>3. rest = Now
        BY <4>2 DEF RestInv
      <4>4. Steps(Now, Final')
        BY <1>1, <1>3, <4>1, CreateStarts, ReceiveStarts, SendStarts, SwitchStarts, ExitStarts,
           TimerStarts, EnableStarts
      <4> QED BY <4>3, <4>4
    <3> QED BY <3>1, <3>2
  <2>3. CASE InProgram(onCpu)'
    <3>1. rest' = Now' /\ rest' = Final'
      BY <1>4, <2>1, <2>3
    <3>2. Steps(rest', Final')
      BY <3>1 DEF Steps
    <3>3. RestInv'
      BY <1>3, <1>7, <3>1, <3>2 DEF RestInv
    <3> QED BY <2>2, <3>1, <3>3
  <2>4. CASE ~InProgram(onCpu)'
    <3>1. rest' = rest
      BY <2>1, <2>4
    <3>2. RestInv'
      BY <1>3, <1>7, <2>2, <2>4, <3>1 DEF RestInv
    <3> QED BY <3>1, <3>2 DEF Steps
  <2> QED BY <2>3, <2>4
<1> QED BY <1>5, <1>6

-----------------------------------------------------------------------------
\* The parts of Kernel's actions.
LEMMA KernelSwitches ==
    ASSUME NEW calls, NEW q, NEW chans, SwitchesTo(q, rest, rest', calls), rest'.channels = chans
    PROVE  K!SwitchTo(q, calls, chans)
<1> QED BY DEF SwitchesTo, K!SwitchTo, K!NoCall, Idle

\* Leaving the ring and switching to the next process.
LEMMA KernelLeaves ==
    ASSUME NEW calls, NEW chans, LeavesFor(rest, rest', calls), rest'.channels = chans
    PROVE  K!LeaveRing(calls, chans) /\ rest.next[rest.currentProcess] # rest.currentProcess
<1>1. /\ rest'.next = UnlinkNext(rest.next, rest.prev, rest.currentProcess)
      /\ rest'.prev = UnlinkPrev(rest.next, rest.prev, rest.currentProcess)
      /\ rest'.preventTaskSwitch = FALSE
      /\ rest.next[rest.currentProcess] # rest.currentProcess
      /\ SwitchesTo(rest'.next[rest.currentProcess], rest, rest', calls)
  BY DEF LeavesFor
<1>2. K!SwitchTo(rest'.next[rest.currentProcess], calls, chans)
  BY <1>1, KernelSwitches
<1> QED BY <1>1, <1>2 DEF K!LeaveRing, K!SwitchToNext, K!UnlinkNext, K!UnlinkPrev,
                          UnlinkNext, UnlinkPrev

\* Inserting a process behind the current one.
LEMMA KernelInserts ==
    ASSUME NEW p, Inserts(p, rest, rest')
    PROVE  K!Insert(p)
<1> QED BY DEF Inserts, K!Insert, K!InsertNext, K!InsertPrev, InsertNext, InsertPrev

\* A step of what calls will end in is an action of Kernel, or none.
LEMMA KernelNext ==
    ASSUME MaxId \in 0 .. 127, rest.maxId \in Nat, Steps(rest, rest')
    PROVE  [K!Next]_(K!vars)
<1> PICK a, b : a = rest /\ b = rest'
  OBVIOUS
<1>1. CASE a = b
  BY <1>1 DEF K!vars, K!ringVars, K!procVars
<1>2. CASE Enables(a, b)
  <2>1. K!EnableTaskSwitch
    BY <1>2 DEF Enables, Same, K!EnableTaskSwitch, K!ringVars, K!procVars
  <2> QED BY <2>1 DEF K!Next
<1>3. CASE ~a.preventTaskSwitch /\ \E p \in Procs : Creates(p, a, b)
  <2>1. PICK p \in Procs : Creates(p, a, b)
    BY <1>3
  <2>2. K!ToChar(a.maxId + 1) = a.maxId + 1
    <3>1. a.maxId < MaxId
      BY <2>1 DEF Creates
    <3>2. a.maxId + 1 \in 0 .. 127
      BY <3>1
    <3> QED BY <3>2 DEF K!ToChar
  <2>3. K!Insert(p)
    BY <2>1, KernelInserts DEF Creates
  <2>4. K!NewProcess(p)
    BY <1>3, <2>1, <2>2, <2>3
       DEF Creates, Same, Idle, K!NewProcess, K!MayCall, K!Allocated, K!NoCall
  <2> QED BY <2>4 DEF K!Next
<1>4. CASE ~a.preventTaskSwitch /\ \E ch \in Channels, v \in Values : Offers(ch, v, a, b)
  <2>1. PICK ch \in Channels, v \in Values : Offers(ch, v, a, b)
    BY <1>4
  <2>2. K!LeaveRing([a.call EXCEPT ![a.currentProcess] = K!In("send", ch)],
                    Offered(a.channels, ch, a.id[a.currentProcess], v))
    BY <2>1, KernelLeaves DEF Offers, SuspendedIn, K!In
  <2>3. a.next[a.currentProcess] # a.currentProcess
    BY <2>1 DEF Offers, LeavesFor
  <2>4. K!SendBlocks(ch, v)
    BY <1>4, <2>1, <2>2, <2>3
       DEF Offers, Same, Offered, K!SendBlocks, K!MayBlock, K!MayCall, K!procVars
  <2> QED BY <2>4 DEF K!Next
<1>5. CASE ~a.preventTaskSwitch /\ \E ch \in Channels, v \in Values : Passes(ch, v, a, b)
  <2>1. PICK ch \in Channels, v \in Values : Passes(ch, v, a, b)
    BY <1>5
  <2>2. PICK w, left, r : /\ w = a.channels[ch].receive /\ left = SubSeq(w, 1, Len(w) - 1)
                          /\ r = a.processesList[w[Len(w)] + 1]
    OBVIOUS
  <2>3. left = K!Front(w) /\ r = K!Process(K!Last(w))
    BY <2>2 DEF K!Front, K!Last, K!Process
  <2>4. K!Insert(r)
    BY <2>1, <2>2, KernelInserts DEF Passes
  <2>5. K!SwitchTo(b.next[a.currentProcess],
                   [a.call EXCEPT ![a.currentProcess] = K!In("send", ch)], b.channels)
    BY <2>1, KernelSwitches DEF Passes, SuspendedIn, K!In
  <2>6. /\ a.channels[ch].state = "Receiver" /\ b.channels = Given(a.channels, ch, v, left)
        /\ b.state = [a.state EXCEPT ![r] = "Runnable"]
        /\ b.id = a.id /\ b.processesList = a.processesList /\ b.maxId = a.maxId
        /\ b.preventTaskSwitch = a.preventTaskSwitch
    BY <2>1, <2>2 DEF Passes, Same
  <2>7. K!SendWakes(ch, v)
    BY <1>5, <2>2, <2>3, <2>4, <2>5, <2>6
       DEF Given, K!SendWakes, K!SwitchToNext, K!MayCall, K!procVars
  <2> QED BY <2>7 DEF K!Next
<1>6. CASE ~a.preventTaskSwitch /\ \E ch \in Channels : Waits_(ch, a, b)
  <2>1. PICK ch \in Channels : Waits_(ch, a, b)
    BY <1>6
  <2>2. /\ LeavesFor(a, b, SuspendedIn(a, "receive", ch))
        /\ a.next[a.currentProcess] # a.currentProcess
        /\ Same(a, b, {"id", "processesList", "maxId"})
        /\ a.channels[ch].state \in {"Unused", "Receiver"}
        /\ b.state = [a.state EXCEPT ![a.currentProcess] = "BlockedReading"]
        /\ b.channels = Awaited(a.channels, ch,
              Append(IF a.channels[ch].state = "Unused" THEN <<>> ELSE a.channels[ch].receive,
                     a.id[a.currentProcess]))
    BY <2>1 DEF Waits_, LeavesFor
  <2>3. K!LeaveRing([a.call EXCEPT ![a.currentProcess] = K!In("receive", ch)], b.channels)
    BY <2>2, KernelLeaves DEF SuspendedIn, K!In
  <2>4. K!ReceiveBlocks(ch)
    BY <1>6, <2>2, <2>3
       DEF Same, Awaited, K!ReceiveBlocks, K!MayBlock, K!MayCall, K!procVars
  <2> QED BY <2>4 DEF K!Next
<1>7. CASE ~a.preventTaskSwitch /\ \E ch \in Channels : Takes(ch, a, b)
  <2>1. PICK ch \in Channels : Takes(ch, a, b)
    BY <1>7
  <2>2. K!Insert(K!Process(a.channels[ch].sendId))
    BY <2>1, KernelInserts DEF Takes, K!Process
  <2>3. K!ReceiveTakes(ch)
    BY <1>7, <2>1, <2>2 DEF Takes, Same, Taken, K!ReceiveTakes, K!MayCall, K!procVars, K!Process
  <2> QED BY <2>3 DEF K!Next
<1>8. CASE ~a.preventTaskSwitch /\ Exits(a, b)
  <2>1. K!LeaveRing([a.call EXCEPT ![a.currentProcess] = K!Exited], a.channels)
    BY <1>8, KernelLeaves DEF Exits, Same, SuspendedIn, K!Exited, K!In
  <2>2. K!Exit
    BY <1>8, <2>1 DEF Exits, LeavesFor, Same, K!Exit, K!MayCall, K!procVars
  <2> QED BY <2>2 DEF K!Next
<1>9. CASE ~a.preventTaskSwitch /\ Yields(a, b)
  <2>1. K!SwitchTo(a.next[a.currentProcess], a.call, a.channels)
    BY <1>9, KernelSwitches DEF Yields, Same
  <2>2. K!Yield
    BY <1>9, <2>1 DEF Yields, Same, K!Yield, K!SwitchToNext, K!MayCall, K!ringVars, K!procVars
  <2> QED BY <2>2 DEF K!Next
<1> QED BY <1>1, <1>2, <1>3, <1>4, <1>5, <1>6, <1>7, <1>8, <1>9 DEF Steps

-----------------------------------------------------------------------------
\* The boot process in its program: nothing has been called yet.
LEMMA RestInitInv ==
    ASSUME RestInit
    PROVE  RestInv /\ K!Init
<1>1. Init /\ rest = Now
  BY DEF RestInit
<1>2. Inv /\ InProgram(onCpu)
  <2>1. onCpu = Main /\ code = [p \in Procs |-> <<>>] /\ Main \in Procs
    BY <1>1, PreemptAssumption DEF Init
  <2> QED BY <1>1, <2>1, InitInv DEF InProgram, Point
<1>3. Resting
  BY <1>1 DEF Init, NoLocal, Resting, Point
<1>4. Final = Now /\ rest.maxId \in Nat
  <2>1. rest.maxId = 0
    BY <1>1, Fields DEF Init
  <2> QED BY <1>2, <2>1, ProgramIsFinal
<1>5. RestInv
  BY <1>1, <1>2, <1>3, <1>4 DEF RestInv, Steps
<1>6. Now.call = [p \in Procs |-> K!NoCall]
  <2>1. \A p \in Procs : Suspended(p) = K!NoCall
    BY <1>1 DEF Init, Suspended, K!NoCall
  <2> QED BY <2>1 DEF Now
<1>7. K!Init
  BY <1>1, <1>6, Fields DEF Init, K!Init
<1> QED BY <1>5, <1>7

\* When no timer interrupt falls inside a call, the statements of send, receive,
\* newProcess, exit and switchToNextTask implement the actions of Kernel.
THEOREM CallsAreAtomic ==
    ASSUME CallsAreUninterrupted
    PROVE  RestSpec => KernelSpec
<1>1. TickPoints = {} /\ MaxId \in 0 .. 127
  BY DEF CallsAreUninterrupted
<1>2. RestInit => RestInv /\ K!Init
  BY RestInitInv
<1>3. RestInv /\ [RestNext]_<<vars, rest>> => RestInv'
  BY <1>1, RestNextInv
<1>4. RestInv /\ [RestNext]_<<vars, rest>> => [K!Next]_(K!vars)
  <2> SUFFICES ASSUME RestInv, [RestNext]_<<vars, rest>> PROVE [K!Next]_(K!vars)
    OBVIOUS
  <2>1. Steps(rest, rest') /\ rest.maxId \in Nat
    BY <1>1, RestNextInv DEF RestInv
  <2> QED BY <1>1, <2>1, KernelNext
<1> QED BY <1>2, <1>3, <1>4, PTL DEF RestSpec, KernelSpec, K!Spec
=============================================================================
