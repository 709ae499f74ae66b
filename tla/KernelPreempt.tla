---------------------------- MODULE KernelPreempt ----------------------------
(***************************************************************************)
(* The calls of kernel/kernel/kernel.c statement by statement, with timer  *)
(* interrupts between the statements.  A process is the list of statements *)
(* it has still to execute (code[p]); the process whose stack is in the    *)
(* CPU's stack pointer (onCpu) executes the next one.  The interrupt gate  *)
(* and the cli of switchTaskWrapper make onTimerInterrupt and switchTask   *)
(* one step each; everything else can be interrupted.                      *)
(*                                                                         *)
(* TickPoints are the statements before which a timer interrupt that ends  *)
(* a quantum may fall, besides the instructions of the programs.  The code *)
(* excludes none of them: each instance says which windows it opens.       *)
(* Ticks that do not end a quantum change nothing that is modelled here.   *)
(***************************************************************************)
EXTENDS Integers, Sequences, Ring

CONSTANTS Procs, Main, NULL, Channels, NoChannel, Values, NoValue, MaxId,
          TickPoints

VARIABLES
    next, prev, state, id, processesList, maxId,    \* as in Kernel
    currentProcess, preventTaskSwitch, channels, received,
    stackTop,   \* struct process: whose stack the saved pointer points into
    onCpu,      \* whose stack is in the stack pointer
    code,       \* code[p]: the statements p has still to execute
    local       \* local[p]: arguments and local variables of p's call

linkVars == <<next, prev>>
procVars == <<state, id, processesList, maxId>>
cpuVars  == <<currentProcess, stackTop, onCpu>>
vars == <<linkVars, procVars, cpuVars, preventTaskSwitch, channels, received,
          code, local>>

-----------------------------------------------------------------------------
\* The statements of the calls, in the order of the source.  switchToNextTask is
\* readNext, setCurrent, switchTask; delCurrentProcess is prevent, unlinkBack,
\* unlinkForward, permit; insertProcess is linkOut, linkBack, linkIn.
NewProcess    == <<"numberIt", "appendIt", "linkOut", "linkBack", "linkIn", "return">>
Yield         == <<"readNext", "setCurrent", "switchTask", "return">>
SendUnused    == <<"markSender", "offerValue", "blockWriting",
                   "prevent", "unlinkBack", "unlinkForward", "permit",
                   "readNext", "setCurrent", "switchTask", "return">>
SendReceiver  == <<"passValue", "popWaiter", "wake", "linkOut", "linkBack", "linkIn",
                   "testEmpty", "resetChannel", "freeList",
                   "readNext", "setCurrent", "switchTask", "return">>
SendSender    == <<"return">>
ReceiveUnused == <<"markReceiver", "newList", "appendWaiter", "blockReading",
                   "prevent", "unlinkBack", "unlinkForward", "permit",
                   "readNext", "setCurrent", "switchTask", "readValue">>
ReceiveSender == <<"markUnused", "wake", "linkOut", "linkBack", "linkIn", "readValue">>
ReceiveQueued == <<"appendWaiter", "blockReading",
                   "prevent", "unlinkBack", "unlinkForward", "permit",
                   "readNext", "setCurrent", "switchTask", "readValue">>
Exit          == <<"prevent", "prevent", "unlinkBack", "unlinkForward", "permit",
                   "permit", "readNext", "setCurrent", "switchTask", "dead">>

Statements ==
    UNION {{s[i] : i \in DOMAIN s} :
              s \in {NewProcess, SendUnused, SendReceiver, ReceiveUnused,
                     ReceiveSender, Exit}}

ASSUME PreemptAssumption ==
    /\ Main \in Procs /\ NULL \notin Procs
    /\ TickPoints \subseteq Statements

NoLocal == [op |-> "none", ch |-> NoChannel, val |-> NoValue, who |-> NULL,
            nextTask |-> NULL, prevProcess |-> NULL, owed |-> NoValue]

Process(pid) == processesList[pid + 1]
Allocated    == {processesList[i] : i \in DOMAIN processesList}

\* Where p is: in its program, or before a statement of a call.
Point(p)     == IF code[p] = <<>> THEN "program" ELSE Head(code[p])
InProgram(p) == Point(p) = "program"

Init ==
    /\ next = [p \in Procs |-> IF p = Main THEN Main ELSE NULL]
    /\ prev = [p \in Procs |-> IF p = Main THEN Main ELSE NULL]
    /\ state = [p \in Procs |-> IF p = Main THEN "Running" ELSE "Free"]
    /\ id = [p \in Procs |-> 0]
    /\ processesList = <<Main>>
    /\ maxId = 0
    /\ currentProcess = Main
    /\ preventTaskSwitch = TRUE
    /\ channels = [ch \in Channels |-> [state |-> "Unused", sendId |-> 0,
                                        value |-> NoValue, receive |-> <<>>]]
    /\ received = [p \in Procs |-> NoValue]
    /\ stackTop = [p \in Procs |-> p]
    /\ onCpu = Main
    /\ code = [p \in Procs |-> <<>>]
    /\ local = [p \in Procs |-> NoLocal]

-----------------------------------------------------------------------------
\* A program makes a call: the statements it is going to execute and its locals.
Call(statements, lo) ==
    /\ ~preventTaskSwitch
    /\ InProgram(onCpu)
    /\ code' = [code EXCEPT ![onCpu] = statements]
    /\ local' = [local EXCEPT ![onCpu] = lo]
    /\ UNCHANGED <<linkVars, procVars, cpuVars, preventTaskSwitch, channels, received>>

\* As in Kernel: the last process of the ring makes no call that blocks it.
Alone == next[currentProcess] = currentProcess

\* newProcess up to the block kmalloc returns, which no other call has got.
CallNewProcess(p) ==
    /\ maxId < MaxId
    /\ p \notin Allocated
    /\ \A q \in Procs : local[q].who # p
    /\ Call(NewProcess, [NoLocal EXCEPT !.who = p])

\* switch (channels[id].state) in send; -1 when another sender waits.
CallSend(ch, v) ==
    LET s == channels[ch].state IN
    /\ s = "Unused" => ~Alone
    /\ Call(CASE s = "Unused"   -> SendUnused
              [] s = "Receiver" -> SendReceiver
              [] s = "Sender"   -> SendSender,
            [NoLocal EXCEPT !.op = "send", !.ch = ch, !.val = v])

\* switch (channels[id].state) in receive.
CallReceive(ch) ==
    LET s == channels[ch].state IN
    /\ s # "Sender" => ~Alone
    /\ Call(CASE s = "Unused"   -> ReceiveUnused
              [] s = "Sender"   -> ReceiveSender
              [] s = "Receiver" -> ReceiveQueued,
            [NoLocal EXCEPT !.op = "receive", !.ch = ch])

CallSwitch == Call(Yield, NoLocal)

CallExit ==
    /\ onCpu # Main /\ ~Alone
    /\ Call(Exit, [NoLocal EXCEPT !.op = "exit"])

\* kernel_main clears the flag once the kernel is initialised.
EnableTaskSwitch ==
    /\ preventTaskSwitch /\ InProgram(onCpu)
    /\ preventTaskSwitch' = FALSE
    /\ UNCHANGED <<linkVars, procVars, cpuVars, channels, received, code, local>>

-----------------------------------------------------------------------------
\* The process on the CPU executes statement s and goes on to the next one.
At(s)   == Point(onCpu) = s
Advance == code' = [code EXCEPT ![onCpu] = Tail(@)]
\* ... or to the one after the next two.
PassBy  == code' = [code EXCEPT ![onCpu] = Tail(Tail(Tail(@)))]
Me      == local[onCpu]
Let(lo) == local' = [local EXCEPT ![onCpu] = lo]

\* Statements that assign fields of the channel.
ChannelStatement(s, k) ==
    /\ At(s)
    /\ channels' = [channels EXCEPT ![Me.ch] = k]
    /\ Advance
    /\ UNCHANGED <<linkVars, procVars, cpuVars, preventTaskSwitch, received>>

Chan == channels[Me.ch]

MarkSender   == /\ ChannelStatement("markSender", [Chan EXCEPT !.state = "Sender"])
                /\ UNCHANGED local
OfferValue   == /\ ChannelStatement("offerValue",
                      [Chan EXCEPT !.sendId = id[currentProcess], !.value = Me.val])
                /\ UNCHANGED local
\* send that wakes its receiver without having stored the value.
PassValue_Lost == /\ ChannelStatement("passValue", Chan)
                  /\ UNCHANGED local
PassValue    == /\ ChannelStatement("passValue", [Chan EXCEPT !.value = Me.val])
                /\ UNCHANGED local
MarkReceiver == /\ ChannelStatement("markReceiver", [Chan EXCEPT !.state = "Receiver"])
                /\ UNCHANGED local
NewList      == /\ ChannelStatement("newList", [Chan EXCEPT !.receive = <<>>])
                /\ UNCHANGED local
\* receive that does not put its process on the waiting list.
AppendWaiter_Lost == /\ ChannelStatement("appendWaiter", Chan)
                     /\ UNCHANGED local
AppendWaiter == /\ ChannelStatement("appendWaiter",
                      [Chan EXCEPT !.receive = Append(@, id[currentProcess])])
                /\ UNCHANGED local
\* if (len(receive) == 0): the two statements of the block, or neither of them.
TestEmpty    == /\ At("testEmpty")
                /\ IF Chan.receive = <<>> THEN Advance ELSE PassBy
                /\ UNCHANGED <<linkVars, procVars, cpuVars, preventTaskSwitch,
                               channels, received, local>>
\* send that never gives the channel of its last receiver back.
ResetChannel_Lost == /\ ChannelStatement("resetChannel", Chan)
                     /\ UNCHANGED local
ResetChannel == /\ ChannelStatement("resetChannel", [Chan EXCEPT !.state = "Unused"])
                /\ UNCHANGED local
\* delList: what the list contained by now is gone.
FreeList     == /\ ChannelStatement("freeList", [Chan EXCEPT !.receive = <<>>])
                /\ UNCHANGED local

\* pop; the popped process is owed the value of this send.
PopWaiter ==
    /\ ChannelStatement("popWaiter",
          [Chan EXCEPT !.receive = SubSeq(@, 1, Len(@) - 1)])
    /\ Chan.receive # <<>>      \* pop of an empty list reads out of bounds
    /\ LET r == Process(Chan.receive[Len(Chan.receive)]) IN
       local' = [local EXCEPT ![onCpu].who = r, ![r].owed = Me.val]

\* The receiver takes the offer of the sender it finds on the channel.
MarkUnused ==
    /\ ChannelStatement("markUnused", [Chan EXCEPT !.state = "Unused"])
    /\ LET s == Process(Chan.sendId) IN
       Let([Me EXCEPT !.who = s, !.owed = local[s].val])

\* Statements that assign the state field of a process.
StateStatement(s, p, st) ==
    /\ At(s)
    /\ state' = [state EXCEPT ![p] = st]
    /\ Advance
    /\ UNCHANGED <<linkVars, id, processesList, maxId, cpuVars,
                   preventTaskSwitch, channels, received, local>>

BlockWriting == StateStatement("blockWriting", currentProcess, "BlockedWriting")
BlockReading == StateStatement("blockReading", currentProcess, "BlockedReading")
Wake         == StateStatement("wake", Me.who, "Runnable")

\* Statements that assign next and prev fields.
LinkStatement(s, nexts, prevs) ==
    /\ At(s)
    /\ next' = nexts /\ prev' = prevs
    /\ Advance
    /\ UNCHANGED <<procVars, cpuVars, preventTaskSwitch, channels, received, local>>

\* insertProcess: the new process's own links, then those of its neighbours.
LinkOut  == LinkStatement("linkOut",
                [next EXCEPT ![Me.who] = next[currentProcess]],
                [prev EXCEPT ![Me.who] = currentProcess])
\* insertProcess without the update of the successor.
LinkBack_Lost == LinkStatement("linkBack", next, prev)
LinkBack == LinkStatement("linkBack",
                next, [prev EXCEPT ![next[currentProcess]] = Me.who])
LinkIn   == LinkStatement("linkIn", [next EXCEPT ![currentProcess] = Me.who], prev)

\* delCurrentProcess: the neighbours of the current process are joined.
UnlinkBack == LinkStatement("unlinkBack",
                next, [prev EXCEPT ![next[currentProcess]] = prev[currentProcess]])
UnlinkForward == LinkStatement("unlinkForward",
                [next EXCEPT ![prev[currentProcess]] = next[currentProcess]], prev)

FlagStatement(s, flags) ==
    /\ At(s)
    /\ preventTaskSwitch' \in flags
    /\ Advance
    /\ UNCHANGED <<linkVars, procVars, cpuVars, channels, received, local>>

\* preventTaskSwitch = true.  The flag is no volatile object, nothing reads it
\* before the store of false that follows, and the compiler may drop this store
\* (the kernel image of the repository does not contain it).
Prevent == FlagStatement("prevent", {TRUE, preventTaskSwitch})
Permit  == FlagStatement("permit", {FALSE})

\* newProcess: the id, then (after initTask) the entry of processesList.
NumberIt ==
    /\ At("numberIt")
    /\ maxId' = maxId + 1
    /\ id' = [id EXCEPT ![Me.who] = maxId']
    /\ state' = [state EXCEPT ![Me.who] = "Runnable"]
    /\ Advance
    /\ UNCHANGED <<linkVars, processesList, cpuVars, preventTaskSwitch, channels,
                   received, local>>

AppendIt ==
    /\ At("appendIt")
    /\ processesList' = Append(processesList, Me.who)
    /\ Advance
    /\ UNCHANGED <<linkVars, state, id, maxId, cpuVars, preventTaskSwitch,
                   channels, received, local>>

-----------------------------------------------------------------------------
\* switchToNextTask reads its argument, switchTaskWrapper stores it.
ReadNext ==
    /\ At("readNext")
    /\ Let([Me EXCEPT !.nextTask = next[currentProcess]])
    /\ Advance
    /\ UNCHANGED <<linkVars, procVars, cpuVars, preventTaskSwitch, channels, received>>

\* switchTaskWrapper that does not store the new current process.
SetCurrent_Lost ==
    /\ At("setCurrent")
    /\ Let([Me EXCEPT !.prevProcess = currentProcess])
    /\ Advance
    /\ UNCHANGED <<linkVars, procVars, cpuVars, preventTaskSwitch, channels, received>>

SetCurrent ==
    /\ At("setCurrent")
    /\ Let([Me EXCEPT !.prevProcess = currentProcess])
    /\ currentProcess' = Me.nextTask
    /\ Advance
    /\ UNCHANGED <<linkVars, procVars, stackTop, onCpu, preventTaskSwitch,
                   channels, received>>

\* switchTask(from, to): the stack pointer is saved in from's control block and
\* loaded from to's, in that order.
Load(from, to) ==
    LET saved == [stackTop EXCEPT ![from] = onCpu] IN
    /\ stackTop' = saved
    /\ onCpu' = saved[to]

SwitchTask ==
    /\ At("switchTask")
    /\ Load(Me.prevProcess, Me.nextTask)
    /\ Advance
    /\ UNCHANGED <<linkVars, procVars, currentProcess, preventTaskSwitch, channels,
                   received, local>>

\* The end of a call; receive reads the value field of the channel.
Return ==
    /\ At("return")
    /\ Let(NoLocal)
    /\ Advance
    /\ UNCHANGED <<linkVars, procVars, cpuVars, preventTaskSwitch, channels, received>>

ReadValue ==
    /\ At("readValue")
    /\ received' = [received EXCEPT ![onCpu] = Chan.value]
    /\ Let(NoLocal)
    /\ Advance
    /\ UNCHANGED <<linkVars, procVars, cpuVars, preventTaskSwitch, channels>>

\* onTimerInterrupt at the end of a quantum.  The handler runs on the stack of
\* the interrupted process, which resumes where it was.
TimerSwitch ==
    /\ ~preventTaskSwitch
    /\ Point(onCpu) \in TickPoints \cup {"program"}
    /\ currentProcess' = next[currentProcess]
    /\ Load(currentProcess, next[currentProcess])
    /\ UNCHANGED <<linkVars, procVars, preventTaskSwitch, channels, received,
                   code, local>>

Next ==
    \/ EnableTaskSwitch
    \/ \E p \in Procs : CallNewProcess(p)
    \/ \E ch \in Channels : CallReceive(ch) \/ \E v \in Values : CallSend(ch, v)
    \/ CallSwitch \/ CallExit
    \/ MarkSender \/ OfferValue \/ PassValue \/ MarkReceiver \/ NewList
    \/ AppendWaiter \/ PopWaiter \/ MarkUnused
    \/ TestEmpty \/ ResetChannel \/ FreeList
    \/ BlockWriting \/ BlockReading \/ Wake
    \/ LinkOut \/ LinkBack \/ LinkIn \/ UnlinkBack \/ UnlinkForward \/ Prevent \/ Permit
    \/ NumberIt \/ AppendIt
    \/ ReadNext \/ SetCurrent \/ SwitchTask \/ Return \/ ReadValue
    \/ TimerSwitch

Spec == Init /\ [][Next]_vars

-----------------------------------------------------------------------------
Entries(s) == {s[i] : i \in DOMAIN s}
HasYetTo(p, s) == s \in Entries(code[p])

\* Processes that a call is about to insert, and those that have left the ring.
Pending == {local[p].who : p \in {q \in Procs : HasYetTo(q, "linkIn")}}
Left    == {p \in Procs :
              /\ ~HasYetTo(p, "unlinkForward")
              /\ \/ state[p] \in {"BlockedWriting", "BlockedReading"}
                 \/ local[p].op = "exit"}
InRing  == Allocated \ (Pending \cup Left)

\* No process is in the middle of changing links.
LinksAtRest == \A p \in Procs :
    Point(p) \notin {"linkBack", "linkIn", "unlinkForward"}

\* Whenever no process is in the middle of changing links, the processes that
\* are not waiting or gone form one ring.
RingIntact == LinksAtRest => IsRing(InRing, next, prev)

\* A process that waits is known to a channel, or in the hands of the process
\* that is waking it up.
NobodyIsLost ==
    \A p \in Allocated \cap Left :
        \/ local[p].op = "exit"
        \/ \E ch \in Channels :
              \/ channels[ch].state = "Sender" /\ channels[ch].sendId = id[p]
              \/ channels[ch].state = "Receiver" /\ id[p] \in Entries(channels[ch].receive)
        \/ p \in Pending

\* A process is resumed on its own stack: the stack pointer saved in a control
\* block points into the stack of that process, and a program runs on the stack
\* of the current process.
OwnStack ==
    /\ \A p \in Procs \ {onCpu} : stackTop[p] = p
    /\ InProgram(onCpu) => currentProcess = onCpu

\* receive returns the value that the send which met it was given.
ReceiverReadsItsValue == At("readValue") => Chan.value = Me.owed

\* exit does not return, a process in its program is in the ring, and the list
\* of a channel in state Receiver has a waiter to pop.
CallsAreSane ==
    /\ Point(onCpu) # "dead"
    /\ InProgram(onCpu) => onCpu \in InRing
    /\ At("popWaiter") => Chan.receive # <<>>

\* Process ids index processesList.
IdsIndexTheList ==
    \A i \in DOMAIN processesList : id[processesList[i]] = i - 1
=============================================================================
