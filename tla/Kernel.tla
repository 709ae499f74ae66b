------------------------------- MODULE Kernel -------------------------------
(***************************************************************************)
(* The process scheduler and the channels of kernel/kernel/kernel.c.  One  *)
(* action is one kernel call of the process on the CPU, run to its end, or *)
(* one timer interrupt taken between two calls; interrupts inside a call   *)
(* are the subject of KernelPreempt.                                       *)
(*                                                                         *)
(* A process that calls switchTask is suspended inside the call it made;   *)
(* call[p] is that part of its stack.  When it is switched to again the    *)
(* call returns, which for receive means reading the channel's value       *)
(* field at that moment.                                                   *)
(***************************************************************************)
EXTENDS Integers, SequencesExt, Ring

CONSTANTS
    Procs,          \* the process control blocks that kmalloc can return
    Main,           \* the block of the boot process (kernel_main)
    NULL,           \* a pointer field that was never assigned
    Channels,       \* the channel numbers, 0 .. num_channels - 1
    NoChannel,
    Values,         \* the values programs send
    NoValue,        \* the value field of a channel nobody sent on (zero memory)
    MaxTimeSlices,  \* max_time_slices of kernel.h
    MaxId,          \* bound: the last process id the model creates
    BootTicks,      \* bound: timer interrupts before multitasking starts
    LastMayBlock    \* may the only process of the ring make a blocking call?

ASSUME KernelAssumption ==
    /\ Main \in Procs /\ NULL \notin Procs
    /\ NoChannel \notin Channels
    /\ MaxTimeSlices \in Nat \ {0}
    /\ MaxId \in 0 .. 127      \* ids are signed chars; see ToChar
    /\ BootTicks \in Nat
    /\ LastMayBlock \in BOOLEAN

VARIABLES
    next, prev,         \* struct process: the links of the ring
    state,              \* struct process: process_state_enum
    id,                 \* struct process: a signed char
    slicesLeft,         \* struct process
    processesList,      \* all processes ever created, indexed by id
    maxId,
    currentProcess,
    preventTaskSwitch,
    channels,           \* [state, sendId, value, receive] per channel
    call,               \* the kernel call a process is suspended in
    received            \* the value the last receive of a process returned

ringVars == <<next, prev, state>>
procVars == <<id, processesList, maxId>>
vars == <<ringVars, procVars, slicesLeft, currentProcess, preventTaskSwitch,
          channels, call, received>>

-----------------------------------------------------------------------------
\* Conversion of an int to the char of struct process.
ToChar(n) == ((n + 128) % 256) - 128

\* get(processesList, pid) for a pid that is in the list.
Process(pid) == processesList[pid + 1]

NoCall      == [op |-> "none", on |-> NoChannel]
In(op, ch)  == [op |-> op, on |-> ch]
Exited      == In("exit", NoChannel)

Allocated == {processesList[i] : i \in DOMAIN processesList}
Blocked   == {p \in Allocated : state[p] \in {"BlockedWriting", "BlockedReading"}}
Dead      == {p \in Allocated : call[p] = Exited}
Live      == Allocated \ (Blocked \cup Dead)

-----------------------------------------------------------------------------
\* initMultitasking and initChannels: the boot process alone in the ring, all
\* channels unused.  The channel table is fresh heap memory, still zero.
Init ==
    /\ next = [p \in Procs |-> IF p = Main THEN Main ELSE NULL]
    /\ prev = [p \in Procs |-> IF p = Main THEN Main ELSE NULL]
    /\ state = [p \in Procs |-> IF p = Main THEN "Running" ELSE "Free"]
    /\ id = [p \in Procs |-> 0]
    /\ slicesLeft = [p \in Procs |-> MaxTimeSlices]
    /\ processesList = <<Main>>
    /\ maxId = 0
    /\ currentProcess = Main
    /\ preventTaskSwitch = TRUE
    /\ channels = [ch \in Channels |-> [state |-> "Unused", sendId |-> 0,
                                        value |-> NoValue, receive |-> <<>>]]
    /\ call = [p \in Procs |-> NoCall]
    /\ received = [p \in Procs |-> NoValue]

-----------------------------------------------------------------------------
\* switchTaskWrapper: q gets the CPU and the call it was suspended in returns.
\* calls and chans are the suspended calls and the channels at that moment.
SwitchTo(q, calls, chans) ==
    /\ currentProcess' = q
    /\ call' = [calls EXCEPT ![q] = NoCall]
    /\ received' = IF calls[q].op = "receive"
                   THEN [received EXCEPT ![q] = chans[calls[q].on].value]
                   ELSE received

\* switchToNextTask
SwitchToNext(nexts, calls, chans) ==
    SwitchTo(nexts[currentProcess], calls, chans)

\* delCurrentProcess(); switchToNextTask(), the end of every path that gives
\* up the CPU for good or until somebody inserts the process again.
LeaveRing(calls, chans) ==
    LET c == currentProcess IN
    /\ next' = UnlinkNext(next, prev, c)
    /\ prev' = UnlinkPrev(next, prev, c)
    /\ preventTaskSwitch' = FALSE
    /\ SwitchToNext(UnlinkNext(next, prev, c), calls, chans)

\* insertProcess
Insert(p) ==
    /\ next' = InsertNext(next, prev, currentProcess, p)
    /\ prev' = InsertPrev(next, prev, currentProcess, p)

\* Programs run once kernel_main has set preventTaskSwitch to false.
MayCall  == ~preventTaskSwitch
MayBlock == MayCall /\ (LastMayBlock \/ next[currentProcess] # currentProcess)

\* kernel_main clears the flag after initKernel and freeze.
EnableTaskSwitch ==
    /\ preventTaskSwitch
    /\ preventTaskSwitch' = FALSE
    /\ UNCHANGED <<ringVars, procVars, slicesLeft, currentProcess, channels,
                   call, received>>

\* newProcess with task->id = maxId++.
NewProcess_PostIncrement(p) ==
    /\ MayCall
    /\ maxId < MaxId
    /\ p \notin Allocated
    /\ maxId' = maxId + 1
    /\ id' = [id EXCEPT ![p] = ToChar(maxId)]
    /\ state' = [state EXCEPT ![p] = "Runnable"]
    /\ slicesLeft' = [slicesLeft EXCEPT ![p] = MaxTimeSlices]
    /\ processesList' = Append(processesList, p)
    /\ call' = [call EXCEPT ![p] = NoCall]
    /\ Insert(p)
    /\ UNCHANGED <<currentProcess, preventTaskSwitch, channels, received>>

\* newProcess: p is the block kmalloc returned.  initTask prepares a stack that
\* enters the process's function; the creator keeps the CPU.
NewProcess(p) ==
    /\ MayCall
    /\ maxId < MaxId
    /\ p \notin Allocated
    /\ maxId' = maxId + 1
    /\ id' = [id EXCEPT ![p] = ToChar(maxId')]
    /\ state' = [state EXCEPT ![p] = "Runnable"]
    /\ slicesLeft' = [slicesLeft EXCEPT ![p] = MaxTimeSlices]
    /\ processesList' = Append(processesList, p)
    /\ call' = [call EXCEPT ![p] = NoCall]
    /\ Insert(p)
    /\ UNCHANGED <<currentProcess, preventTaskSwitch, channels, received>>

-----------------------------------------------------------------------------
\* send that forgets to record its value when it blocks.
SendBlocks_NoValue(ch, v) ==
    LET c == currentProcess
        chans == [channels EXCEPT ![ch].state = "Sender", ![ch].sendId = id[c]]
    IN  /\ MayBlock
        /\ channels[ch].state = "Unused"
        /\ channels' = chans
        /\ state' = [state EXCEPT ![c] = "BlockedWriting"]
        /\ LeaveRing([call EXCEPT ![c] = In("send", ch)], chans)
        /\ UNCHANGED <<procVars, slicesLeft>>

\* send, case Unused: the sender waits.
SendBlocks(ch, v) ==
    LET c == currentProcess
        chans == [channels EXCEPT ![ch].state = "Sender",
                                  ![ch].sendId = id[c], ![ch].value = v]
    IN  /\ MayBlock
        /\ channels[ch].state = "Unused"
        /\ channels' = chans
        /\ state' = [state EXCEPT ![c] = "BlockedWriting"]
        /\ LeaveRing([call EXCEPT ![c] = In("send", ch)], chans)
        /\ UNCHANGED <<procVars, slicesLeft>>

\* send that leaves the channel in state Receiver when the last waiter left.
SendWakes_NoReset(ch, v) ==
    LET c     == currentProcess
        left  == Front(channels[ch].receive)
        r     == Process(Last(channels[ch].receive))
        chans == [channels EXCEPT ![ch].value = v, ![ch].receive = left]
    IN  /\ MayCall
        /\ channels[ch].state = "Receiver"
        /\ channels' = chans
        /\ state' = [state EXCEPT ![r] = "Runnable"]
        /\ Insert(r)
        /\ SwitchToNext(next', [call EXCEPT ![c] = In("send", ch)], chans)
        /\ UNCHANGED <<procVars, slicesLeft, preventTaskSwitch>>

\* send that returns without switching to the receiver it has woken.
SendWakes_NoSwitch(ch, v) ==
    LET left  == Front(channels[ch].receive)
        r     == Process(Last(channels[ch].receive))
    IN  /\ MayCall
        /\ channels[ch].state = "Receiver"
        /\ channels' = [channels EXCEPT ![ch].value = v, ![ch].receive = left,
                              ![ch].state = IF left = <<>> THEN "Unused" ELSE @]
        /\ state' = [state EXCEPT ![r] = "Runnable"]
        /\ Insert(r)
        /\ UNCHANGED <<procVars, slicesLeft, currentProcess, preventTaskSwitch,
                       call, received>>

\* send, case Receiver: the last waiter of the list is popped, inserted behind
\* the sender and switched to; the list is freed when it is empty.
SendWakes(ch, v) ==
    LET c     == currentProcess
        left  == Front(channels[ch].receive)
        r     == Process(Last(channels[ch].receive))
        chans == [channels EXCEPT ![ch].value = v, ![ch].receive = left,
                                  ![ch].state = IF left = <<>> THEN "Unused" ELSE @]
    IN  /\ MayCall
        /\ channels[ch].state = "Receiver"
        /\ channels' = chans
        /\ state' = [state EXCEPT ![r] = "Runnable"]
        /\ Insert(r)
        /\ SwitchToNext(next', [call EXCEPT ![c] = In("send", ch)], chans)
        /\ UNCHANGED <<procVars, slicesLeft, preventTaskSwitch>>

\* send, default: another sender is waiting; returns -1 and does nothing.
SendRefused(ch, v) ==
    /\ MayCall
    /\ channels[ch].state = "Sender"
    /\ UNCHANGED vars

\* receive that starts a new list although others are waiting.
ReceiveBlocks_NewList(ch) ==
    LET c == currentProcess
        chans == [channels EXCEPT ![ch].state = "Receiver",
                                  ![ch].receive = <<id[c]>>]
    IN  /\ MayBlock
        /\ channels[ch].state \in {"Unused", "Receiver"}
        /\ channels' = chans
        /\ state' = [state EXCEPT ![c] = "BlockedReading"]
        /\ LeaveRing([call EXCEPT ![c] = In("receive", ch)], chans)
        /\ UNCHANGED <<procVars, slicesLeft>>

\* receive, cases Unused and Receiver: the receiver joins the waiting list.
ReceiveBlocks(ch) ==
    LET c == currentProcess
        waiters == IF channels[ch].state = "Unused" THEN <<>>
                                                    ELSE channels[ch].receive
        chans == [channels EXCEPT ![ch].state = "Receiver",
                                  ![ch].receive = Append(waiters, id[c])]
    IN  /\ MayBlock
        /\ channels[ch].state \in {"Unused", "Receiver"}
        /\ channels' = chans
        /\ state' = [state EXCEPT ![c] = "BlockedReading"]
        /\ LeaveRing([call EXCEPT ![c] = In("receive", ch)], chans)
        /\ UNCHANGED <<procVars, slicesLeft>>

\* receive, case Sender: the sender is inserted behind the receiver, which
\* keeps the CPU.
ReceiveTakes(ch) ==
    LET s == Process(channels[ch].sendId)
    IN  /\ MayCall
        /\ channels[ch].state = "Sender"
        /\ channels' = [channels EXCEPT ![ch].state = "Unused"]
        /\ state' = [state EXCEPT ![s] = "Runnable"]
        /\ Insert(s)
        /\ received' = [received EXCEPT ![currentProcess] = channels[ch].value]
        /\ UNCHANGED <<procVars, slicesLeft, currentProcess, preventTaskSwitch,
                       call>>

\* exit: the process leaves the ring; its block and stack are not freed and its
\* state field keeps the value Runnable.
Exit ==
    /\ MayCall
    /\ currentProcess # Main
    /\ next[currentProcess] # currentProcess
    /\ LeaveRing([call EXCEPT ![currentProcess] = Exited], channels)
    /\ UNCHANGED <<state, procVars, slicesLeft, channels>>

\* A program calls switchToNextTask (the polling loops of the shells, of sleep
\* and of kernel_main).
Yield ==
    /\ MayCall
    /\ SwitchToNext(next, call, channels)
    /\ UNCHANGED <<ringVars, procVars, slicesLeft, preventTaskSwitch, channels>>

\* onTimerInterrupt: the quantum of the current process shrinks; once it is
\* used up, and tasks may switch, it is refilled and the next process runs.
TimerTick ==
    LET c == currentProcess IN
    /\ slicesLeft[c] - 1 > 0 \/ preventTaskSwitch
    /\ slicesLeft[c] > -BootTicks
    /\ slicesLeft' = [slicesLeft EXCEPT ![c] = @ - 1]
    /\ UNCHANGED <<ringVars, procVars, currentProcess, preventTaskSwitch,
                   channels, call, received>>

\* onTimerInterrupt that does not refill the quantum it ends.
TimerSwitch_NoRefill ==
    LET c == currentProcess IN
    /\ slicesLeft[c] - 1 <= 0 /\ ~preventTaskSwitch
    /\ slicesLeft' = [slicesLeft EXCEPT ![c] = @ - 1]
    /\ SwitchToNext(next, call, channels)
    /\ UNCHANGED <<ringVars, procVars, preventTaskSwitch, channels>>

\* onTimerInterrupt that refills the quantum and lets the process go on.
TimerSwitch_Stays ==
    LET c == currentProcess IN
    /\ slicesLeft[c] - 1 <= 0 /\ ~preventTaskSwitch
    /\ slicesLeft' = [slicesLeft EXCEPT ![c] = MaxTimeSlices]
    /\ UNCHANGED <<ringVars, procVars, currentProcess, preventTaskSwitch,
                   channels, call, received>>

TimerSwitch ==
    LET c == currentProcess IN
    /\ slicesLeft[c] - 1 <= 0 /\ ~preventTaskSwitch
    /\ slicesLeft' = [slicesLeft EXCEPT ![c] = MaxTimeSlices]
    /\ SwitchToNext(next, call, channels)
    /\ UNCHANGED <<ringVars, procVars, preventTaskSwitch, channels>>

OnTimerInterrupt == TimerTick \/ TimerSwitch

Next ==
    \/ EnableTaskSwitch
    \/ \E p \in Procs : NewProcess(p)
    \/ \E ch \in Channels, v \in Values :
          SendBlocks(ch, v) \/ SendWakes(ch, v) \/ SendRefused(ch, v)
    \/ \E ch \in Channels : ReceiveBlocks(ch) \/ ReceiveTakes(ch)
    \/ Exit
    \/ Yield
    \/ OnTimerInterrupt

Spec == Init /\ [][Next]_vars

\* The programmable interval timer never stops and programs run with
\* interrupts enabled: a tick that can be taken is eventually taken.
FairSpec == Spec /\ WF_vars(OnTimerInterrupt)

-----------------------------------------------------------------------------
ChannelStates == {"Unused", "Sender", "Receiver"}
ProcessStates == {"Running", "Free", "BlockedWriting", "BlockedReading", "Runnable"}
Calls == {NoCall, Exited} \cup [op : {"send", "receive"}, on : Channels]
Ids   == -128 .. 127

\* Types: every variable stays in its C type, and the process on the CPU is an
\* allocated one that is suspended in no call.
TypeOK ==
    /\ next \in [Procs -> Procs \cup {NULL}]
    /\ prev \in [Procs -> Procs \cup {NULL}]
    /\ state \in [Procs -> ProcessStates]
    /\ id \in [Procs -> Ids]
    /\ slicesLeft \in [Procs -> -BootTicks .. MaxTimeSlices]
    /\ processesList \in Seq(Procs)
    /\ maxId \in 0 .. MaxId
    /\ currentProcess \in Procs
    /\ preventTaskSwitch \in BOOLEAN
    /\ channels \in [Channels -> [state : ChannelStates, sendId : Ids,
                                  value : Values \cup {NoValue}, receive : Seq(Ids)]]
    /\ call \in [Procs -> Calls]
    /\ received \in [Procs -> Values \cup {NoValue}]

\* newProcess appends to processesList in the order it numbers processes, so
\* that get(processesList, pid) is the process whose id field is pid.  send and
\* receive wake a process by that lookup.
IdsIndexTheList ==
    /\ Len(processesList) = maxId + 1
    /\ \A i \in 1 .. Len(processesList) : id[processesList[i]] = i - 1

\* The processes that can run form one ring, and the process on the CPU is one
\* of them: insertProcess and delCurrentProcess never cut a process off the
\* ring, never leave a blocked or exited process in it, and never insert one
\* that is already there.
RunQueueIsOneRing ==
    /\ currentProcess \in Live
    /\ IsRing(Live, next, prev)

\* The process with this id is suspended in call op on channel ch.
Waits(pid, ch, op, st) ==
    /\ pid \in 0 .. maxId
    /\ state[Process(pid)] = st
    /\ call[Process(pid)] = In(op, ch)

ChannelKnowsItsWaiters(ch) ==
    LET k == channels[ch] IN
    /\ k.state = "Sender" => Waits(k.sendId, ch, "send", "BlockedWriting")
    /\ k.state = "Receiver" <=> k.receive # <<>>
    /\ \A i \in 1 .. Len(k.receive) :
          Waits(k.receive[i], ch, "receive", "BlockedReading")
    /\ \A i, j \in 1 .. Len(k.receive) : k.receive[i] = k.receive[j] => i = j

\* A channel and the processes it suspends agree: a sender's id is the id of a
\* process blocked in send on that channel, the waiting list holds the ids of
\* processes blocked in receive on it, each once, and a list exists exactly
\* while the channel is in state Receiver.
ChannelsKnowTheirWaiters == \A ch \in Channels : ChannelKnowsItsWaiters(ch)

\* Channel ch holds the id of p, which is blocked on it.
CanWake(ch, p) ==
    /\ state[p] = "BlockedWriting" =>
          channels[ch].state = "Sender" /\ channels[ch].sendId = id[p]
    /\ state[p] = "BlockedReading" =>
          \E i \in 1 .. Len(channels[ch].receive) : channels[ch].receive[i] = id[p]

\* No blocked process is forgotten: the channel its call names can still wake
\* it, because it holds the process's id.
BlockedCanBeWoken ==
    \A p \in Blocked : call[p].on \in Channels /\ CanWake(call[p].on, p)

\* A receiver that has been woken is not left in the ring with its call
\* unfinished: send switches to it at once ("il est execute ensuite"), before
\* anybody can overwrite the value field it is going to read.
WokenReceiverRunsAtOnce == \A p \in Live : call[p].op # "receive"

\* What kernel.c says of both calls, "le processus est place en attente": a
\* process that was put to wait does not have the CPU.
WaitingProcessDoesNotRun ==
    state[currentProcess] \notin {"BlockedWriting", "BlockedReading"}

\* Every process of the ring gets the CPU: ping-pong on channels, which inserts
\* the partner just behind the process on the CPU, cannot keep the others off
\* it for ever.  A process keeps what is left of its quantum over the switches of
\* send and receive, and only a timer switch refills it.  (Only the process on
\* the CPU leaves the ring, so "again and again p runs or is not in the ring" is
\* "whenever p is in the ring, it runs later".)
EveryRunnableProcessRuns ==
    \A p \in Procs : []<>(p \in Live => currentProcess = p)

\* The channels implement rendezvous.
OfferOn(ch) ==
    IF channels[ch].state = "Sender"
    THEN {<<Process(channels[ch].sendId), channels[ch].value>>}
    ELSE {}
WaitingOn(ch) ==
    {Process(channels[ch].receive[i]) : i \in 1 .. Len(channels[ch].receive)}

RV == INSTANCE Rendezvous WITH
        offer   <- [ch \in Channels |-> OfferOn(ch)],
        waiting <- [ch \in Channels |-> WaitingOn(ch)]
RendezvousSpec == RV!Spec
=============================================================================
