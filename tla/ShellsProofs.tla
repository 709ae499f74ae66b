---------------------------- MODULE ShellsProofs ----------------------------
(***************************************************************************)
(* The programs of Shells, for any number of processes, commands and       *)
(* functions, provided the last process of the ring makes no call that     *)
(* would block it, or nobody asks for the games: then it makes none.       *)
(*                                                                         *)
(* Of the kernel the programs see who waits on which channel, the value    *)
(* field of each channel and what each process has received.  The first    *)
(* part states what a call does to these; the second part is about the     *)
(* programs only; the third shows that without games a process that would  *)
(* be left alone in the ring always finds the message or the receiver its  *)
(* call is for.                                                            *)
(***************************************************************************)
EXTENDS Shells, KernelProofs

\* The channel on which a process is suspended in send, or in receive.
sends == [p \in Procs |-> IF p \in Allocated /\ state[p] = "BlockedWriting"
                          THEN call[p].on ELSE NoChannel]
reads == [p \in Procs |-> IF p \in Allocated /\ state[p] = "BlockedReading"
                          THEN call[p].on ELSE NoChannel]
value == [ch \in Channels |-> channels[ch].value]

\* Processes are numbered in the order of creation, which is that of their blocks.
Numbered == \A i \in 1 .. Len(processesList) : processesList[i] = i - 1

KInv == RInv /\ Numbered

\* What every call finds: the processes that exist are 0 .. maxId.
LEMMA NumberedProcesses ==
    ASSUME KInv
    PROVE  /\ IInv /\ TypeOK /\ maxId \in Nat /\ maxId \in 0 .. MaxId
           /\ Allocated = 0 .. maxId /\ 0 .. maxId \subseteq Procs
           /\ \A p \in 0 .. maxId : Process(p) = p /\ id[p] = p
           /\ currentProcess \in 0 .. maxId /\ currentProcess \in Procs
<1>1. IInv /\ TypeOK /\ maxId \in 0 .. MaxId /\ maxId \in Nat
  BY KernelAssumption DEF KInv, RInv, IInv, TypeOK
<1>2. Len(processesList) = maxId + 1 /\ processesList \in Seq(Procs)
  BY <1>1 DEF IInv, IdsIndexTheList, TypeOK
<1>3. \A p \in 0 .. maxId : p + 1 \in 1 .. Len(processesList) /\ processesList[p + 1] = p
  <2> SUFFICES ASSUME NEW p \in 0 .. maxId
               PROVE  p + 1 \in 1 .. Len(processesList) /\ processesList[p + 1] = p
    OBVIOUS
  <2>1. p + 1 \in 1 .. Len(processesList) /\ (p + 1) - 1 = p
    BY <1>1, <1>2
  <2> QED BY <2>1 DEF KInv, Numbered
<1>4. Allocated = 0 .. maxId
  <2>1. ASSUME NEW p \in 0 .. maxId PROVE p \in Allocated
    BY <1>2, <1>3 DEF Allocated
  <2>2. ASSUME NEW p \in Allocated PROVE p \in 0 .. maxId
    <3>1. PICK i \in 1 .. Len(processesList) : p = processesList[i]
      BY <1>2 DEF Allocated
    <3>2. p = i - 1 /\ i \in 1 .. maxId + 1
      BY <1>2, <3>1 DEF KInv, Numbered
    <3> QED BY <1>1, <3>2
  <2> QED BY <2>1, <2>2
<1>5. \A p \in 0 .. maxId : Process(p) = p
  BY <1>3 DEF Process
<1>6. \A pid \in 0 .. maxId : id[Process(pid)] = pid
  BY <1>1, ProcessOfId DEF IInv
<1>7. currentProcess \in Allocated /\ Allocated \subseteq Procs
  BY <1>1, CurrentIsLive
<1> QED BY <1>1, <1>4, <1>5, <1>6, <1>7

\* Channels and processes agree on who waits where.
LEMMA Links ==
    ASSUME KInv
    PROVE  /\ sends \in [Procs -> Channels \cup {NoChannel}]
           /\ reads \in [Procs -> Channels \cup {NoChannel}]
           /\ value \in [Channels -> Values \cup {NoValue}]
           /\ \A p \in Procs : sends[p] = NoChannel \/ reads[p] = NoChannel
           /\ \A p \in Procs : p \notin 0 .. maxId => sends[p] = NoChannel /\ reads[p] = NoChannel
           /\ sends[currentProcess] = NoChannel /\ reads[currentProcess] = NoChannel
           /\ \A p \in Procs : sends[p] # NoChannel =>
                 /\ channels[sends[p]].state = "Sender" /\ channels[sends[p]].sendId = p
                 /\ call[p] = In("send", sends[p])
           /\ \A p \in Procs : reads[p] # NoChannel =>
                 /\ channels[reads[p]].state = "Receiver"
                 /\ call[p] = In("receive", reads[p])
           /\ \A ch \in Channels : channels[ch].state = "Sender" =>
                 /\ channels[ch].sendId \in 0 .. maxId
                 /\ sends[channels[ch].sendId] = ch
           /\ \A p, q \in Procs : sends[p] = sends[q] => p = q \/ sends[p] = NoChannel
<1>1. /\ IInv /\ TypeOK /\ Allocated = 0 .. maxId /\ 0 .. maxId \subseteq Procs
      /\ \A p \in 0 .. maxId : Process(p) = p /\ id[p] = p
      /\ currentProcess \in 0 .. maxId
  BY NumberedProcesses
<1>2. \A ch \in Channels : ChannelKnowsItsWaiters(ch)
  BY <1>1 DEF IInv, ChannelsKnowTheirWaiters
<1>3. /\ channels \in [Channels -> ChannelType] /\ call \in [Procs -> CallType]
      /\ NoChannel \notin Channels
  BY <1>1, KernelAssumption DEF TypeOK, ChannelType, Calls, CallType
<1>4. ASSUME NEW p \in 0 .. maxId, state[p] = "BlockedWriting"
      PROVE  /\ call[p].on \in Channels
             /\ channels[call[p].on].state = "Sender" /\ channels[call[p].on].sendId = p
             /\ call[p] = In("send", call[p].on)
             /\ sends[p] = call[p].on /\ reads[p] = NoChannel
  <2>1. call[p].on \in Channels /\ CanWake(call[p].on, p)
    BY <1>1, <1>4 DEF IInv, BlockedCanBeWoken, Blocked
  <2>2. channels[call[p].on].state = "Sender" /\ channels[call[p].on].sendId = p
    BY <1>1, <1>4, <2>1 DEF CanWake
  <2>3. Waits(p, call[p].on, "send", "BlockedWriting")
    BY <1>2, <2>1, <2>2 DEF ChannelKnowsItsWaiters
  <2> QED BY <1>1, <1>4, <2>1, <2>2, <2>3 DEF sends, reads, Waits
<1>5. ASSUME NEW p \in 0 .. maxId, state[p] = "BlockedReading"
      PROVE  /\ call[p].on \in Channels
             /\ channels[call[p].on].state = "Receiver"
             /\ call[p] = In("receive", call[p].on)
             /\ reads[p] = call[p].on /\ sends[p] = NoChannel
  <2>1. call[p].on \in Channels /\ CanWake(call[p].on, p)
    BY <1>1, <1>5 DEF IInv, BlockedCanBeWoken, Blocked
  <2>2. PICK i \in 1 .. Len(channels[call[p].on].receive) : channels[call[p].on].receive[i] = p
    BY <1>1, <1>5, <2>1 DEF CanWake
  <2>3. /\ Waits(p, call[p].on, "receive", "BlockedReading")
        /\ channels[call[p].on].state = "Receiver" <=> channels[call[p].on].receive # <<>>
    BY <1>2, <2>1, <2>2 DEF ChannelKnowsItsWaiters
  <2>4. channels[call[p].on].receive # <<>>
    BY <2>2
  <2> QED BY <1>1, <1>5, <2>1, <2>3, <2>4 DEF sends, reads, Waits
<1>6. ASSUME NEW p \in Procs, p \notin 0 .. maxId \/ state[p] \notin BlockedStates
      PROVE  sends[p] = NoChannel /\ reads[p] = NoChannel
  BY <1>1, <1>6 DEF sends, reads, BlockedStates
<1>7. \A p \in Procs : sends[p] # NoChannel => p \in 0 .. maxId /\ state[p] = "BlockedWriting"
  BY <1>1 DEF sends
<1>8. \A p \in Procs : reads[p] # NoChannel => p \in 0 .. maxId /\ state[p] = "BlockedReading"
  BY <1>1 DEF reads
<1>9. sends \in [Procs -> Channels \cup {NoChannel}] /\ reads \in [Procs -> Channels \cup {NoChannel}]
  BY <1>1, <1>4, <1>5 DEF sends, reads
<1>10. value \in [Channels -> Values \cup {NoValue}]
  BY <1>3 DEF value, ChannelType
<1>11. sends[currentProcess] = NoChannel /\ reads[currentProcess] = NoChannel
  BY <1>1, <1>6, CurrentIsLive
<1>12. ASSUME NEW ch \in Channels, channels[ch].state = "Sender"
       PROVE  channels[ch].sendId \in 0 .. maxId /\ sends[channels[ch].sendId] = ch
  <2>1. Waits(channels[ch].sendId, ch, "send", "BlockedWriting")
    BY <1>2, <1>12 DEF ChannelKnowsItsWaiters
  <2>2. /\ channels[ch].sendId \in 0 .. maxId /\ state[channels[ch].sendId] = "BlockedWriting"
        /\ call[channels[ch].sendId] = In("send", ch)
    BY <1>1, <2>1 DEF Waits
  <2> QED BY <1>4, <2>2 DEF In
<1>13. \A p \in Procs : sends[p] # NoChannel =>
                 /\ channels[sends[p]].state = "Sender" /\ channels[sends[p]].sendId = p
                 /\ call[p] = In("send", sends[p])
  BY <1>4, <1>7
<1>14. \A p \in Procs : reads[p] # NoChannel =>
                 /\ channels[reads[p]].state = "Receiver"
                 /\ call[p] = In("receive", reads[p])
  BY <1>5, <1>8
<1>15. \A p \in Procs : sends[p] = NoChannel \/ reads[p] = NoChannel
  BY <1>7, <1>8
<1> QED BY <1>6, <1>9, <1>10, <1>11, <1>12, <1>13, <1>14, <1>15

-----------------------------------------------------------------------------
\* What a call of the process on the CPU does to what programs see.
Quiet == UNCHANGED <<sends, reads, value, received, maxId>>

\* send that waits; send that hands its value to r; send that is refused.
Offered(ch, v) ==
    /\ \A p \in Procs : sends[p] # ch /\ reads[p] # ch
    /\ sends' = [sends EXCEPT ![c0] = ch]
    /\ value' = [value EXCEPT ![ch] = v]
    /\ UNCHANGED <<reads, received, maxId>>
Passed(ch, v, r) ==
    /\ reads[r] = ch /\ r # c0
    /\ \A p \in Procs : sends[p] # ch
    /\ reads' = [reads EXCEPT ![r] = NoChannel]
    /\ value' = [value EXCEPT ![ch] = v]
    /\ received' = [received EXCEPT ![r] = v]
    /\ UNCHANGED <<sends, maxId>>
Sent(ch, v) ==
    \/ Offered(ch, v)
    \/ \E r \in Procs : Passed(ch, v, r)
    \/ Quiet /\ \E s \in Procs : sends[s] = ch

\* receive that waits; receive that takes what s has on offer.
Awaited(ch) ==
    /\ \A p \in Procs : sends[p] # ch
    /\ reads' = [reads EXCEPT ![c0] = ch]
    /\ UNCHANGED <<sends, value, received, maxId>>
Taken(ch, s) ==
    /\ sends[s] = ch /\ s # c0
    /\ \A p \in Procs : reads[p] # ch
    /\ sends' = [sends EXCEPT ![s] = NoChannel]
    /\ received' = [received EXCEPT ![c0] = value[ch]]
    /\ UNCHANGED <<reads, value, maxId>>
Got(ch) == Awaited(ch) \/ \E s \in Procs : Taken(ch, s)

\* The processes stay numbered if the list keeps its entries.
LEMMA NumberedKept ==
    ASSUME KInv, RInv', UNCHANGED processesList
    PROVE  KInv'
  BY DEF KInv, Numbered

\* The functions sends and reads, process by process.
SendsReads ==
    /\ sends \in [Procs -> Channels \cup {NoChannel}]
    /\ reads \in [Procs -> Channels \cup {NoChannel}]
    /\ \A p \in Procs :
          /\ sends[p] = IF p \in 0 .. maxId /\ state[p] = "BlockedWriting"
                        THEN call[p].on ELSE NoChannel
          /\ reads[p] = IF p \in 0 .. maxId /\ state[p] = "BlockedReading"
                        THEN call[p].on ELSE NoChannel

\* sends and reads are the links of the channels, before a step and after it.
LEMMA SendsReadsNow == KInv => SendsReads
  BY NumberedProcesses, Links DEF sends, reads, SendsReads

\* And in the next state.
LEMMA SendsReadsThen == KInv' => SendsReads'
  BY SendsReadsNow, PTL

\* send without a receiver: the caller is suspended with its value.
LEMMA SendBlocksEffect ==
    ASSUME KInv, Accompanied, NEW ch \in Channels, NEW v \in Values, SendBlocks(ch, v)
    PROVE  KInv' /\ Offered(ch, v)
<1> DEFINE c == currentProcess
<1>1. RInv /\ IInv /\ Accompanied
  BY DEF KInv, RInv
<1>2. RInv' /\ RV!Offer(c, ch, v) /\ UNCHANGED procVars
  BY <1>1, SendBlocksRefines DEF SendBlocks
<1>3. KInv' /\ KInv
  BY <1>2, NumberedKept DEF procVars
<1>4. received' = received /\ maxId' = maxId
  BY <1>2 DEF RV!Offer, procVars
<1>5. /\ MayBlock /\ "send" \in {"send", "receive"} /\ "BlockedWriting" \in BlockedStates
      /\ channels' = [channels EXCEPT ![ch].state = "Sender", ![ch].sendId = id[c], ![ch].value = v]
      /\ channels[ch].state = "Unused"
      /\ state' = [state EXCEPT ![c] = "BlockedWriting"]
      /\ LeaveRing([call EXCEPT ![c] = In("send", ch)], channels')
      /\ UNCHANGED <<procVars, slicesLeft>>
  BY DEF SendBlocks, BlockedStates
<1>6. /\ channels \in [Channels -> ChannelType] /\ channels' \in [Channels -> ChannelType]
      /\ state \in [Procs -> ProcessStates] /\ NoChannel \notin Channels
  BY <1>1, <1>3, NumberedProcesses, KernelAssumption DEF KInv, RInv, IInv, TypeOK, ChannelType
<1>7. /\ call'[c] = In("send", ch)
      /\ \A p \in Procs : state[p] \in BlockedStates =>
                 p # c /\ state'[p] = state[p] /\ call'[p] = call[p]
      /\ \A p \in Procs : p # c => state'[p] = state[p]
  BY <1>1, <1>5, <1>6, BlockStep
<1>8. c \in Procs /\ c \in 0 .. maxId /\ sends[c] = NoChannel /\ reads[c] = NoChannel
  BY <1>3, NumberedProcesses, Links
<1>11. SendsReads /\ SendsReads'
  BY <1>3, SendsReadsNow, SendsReadsThen
<1>9. \A p \in Procs : sends'[p] = IF p = c THEN ch ELSE sends[p]
  <2>1. ASSUME NEW p \in Procs, p # c PROVE sends'[p] = sends[p]
    BY <1>3, <1>4, <1>7, <1>11, <2>1 DEF BlockedStates, SendsReads
  <2>2. state'[c] = "BlockedWriting" /\ call'[c].on = ch
    BY <1>5, <1>6, <1>7, <1>8 DEF In
  <2>3. sends'[c] = ch
    BY <1>4, <1>8, <1>11, <2>2 DEF SendsReads
  <2> QED BY <2>1, <2>3
<1>10. \A p \in Procs : reads'[p] = reads[p]
  <2>1. ASSUME NEW p \in Procs, p # c PROVE reads'[p] = reads[p]
    BY <1>3, <1>4, <1>7, <1>11, <2>1 DEF BlockedStates, SendsReads
  <2>2. reads'[c] = NoChannel
    BY <1>4, <1>5, <1>6, <1>8, <1>11 DEF SendsReads
  <2> QED BY <1>8, <2>1, <2>2
<1>12. sends' = [sends EXCEPT ![c] = ch] /\ reads' = reads
  <2>1. /\ sends \in [Procs -> Channels \cup {NoChannel}]
        /\ sends' \in [Procs -> Channels \cup {NoChannel}]
        /\ reads \in [Procs -> Channels \cup {NoChannel}]
        /\ reads' \in [Procs -> Channels \cup {NoChannel}]
    BY <1>11 DEF SendsReads
  <2>2. reads' = reads
    BY <1>10, <2>1
  <2>3. sends' = [sends EXCEPT ![c] = ch]
    BY <1>9, <2>1
  <2> QED BY <2>2, <2>3
<1>13. value' = [value EXCEPT ![ch] = v]
  BY <1>5, <1>6 DEF value, ChannelType
<1>14. \A p \in Procs : sends[p] # ch /\ reads[p] # ch
  BY <1>3, <1>5, <1>6, Links
<1> QED BY <1>3, <1>4, <1>12, <1>13, <1>14 DEF Offered, c0

\* receive without a sender: the caller is suspended.
LEMMA ReceiveBlocksEffect ==
    ASSUME KInv, Accompanied, NEW ch \in Channels, ReceiveBlocks(ch)
    PROVE  KInv' /\ Awaited(ch)
<1> DEFINE c == currentProcess
<1>1. RInv /\ IInv /\ Accompanied
  BY DEF KInv, RInv
<1>2. RInv' /\ RV!Await(c, ch) /\ UNCHANGED procVars
  BY <1>1, ReceiveBlocksRefines DEF ReceiveBlocks
<1>3. KInv' /\ KInv
  BY <1>2, NumberedKept DEF procVars
<1>4. received' = received /\ maxId' = maxId
  BY <1>2 DEF RV!Await, procVars
<1>5. /\ MayBlock /\ "receive" \in {"send", "receive"} /\ "BlockedReading" \in BlockedStates
      /\ channels[ch].state \in {"Unused", "Receiver"}
      /\ state' = [state EXCEPT ![c] = "BlockedReading"]
      /\ LeaveRing([call EXCEPT ![c] = In("receive", ch)], channels')
      /\ UNCHANGED <<procVars, slicesLeft>>
  BY DEF ReceiveBlocks, BlockedStates
<1>6. /\ channels \in [Channels -> ChannelType] /\ channels' \in [Channels -> ChannelType]
      /\ state \in [Procs -> ProcessStates] /\ NoChannel \notin Channels
  BY <1>1, <1>3, NumberedProcesses, KernelAssumption DEF KInv, RInv, IInv, TypeOK, ChannelType
<1>7. /\ call'[c] = In("receive", ch)
      /\ \A p \in Procs : state[p] \in BlockedStates =>
                 p # c /\ state'[p] = state[p] /\ call'[p] = call[p]
      /\ \A p \in Procs : p # c => state'[p] = state[p]
  BY <1>1, <1>5, <1>6, BlockStep
<1>8. c \in Procs /\ c \in 0 .. maxId /\ sends[c] = NoChannel /\ reads[c] = NoChannel
  BY <1>3, NumberedProcesses, Links
<1>9. SendsReads /\ SendsReads'
  BY <1>3, SendsReadsNow, SendsReadsThen
<1>10. \A p \in Procs : reads'[p] = IF p = c THEN ch ELSE reads[p]
  <2>1. ASSUME NEW p \in Procs, p # c PROVE reads'[p] = reads[p]
    BY <1>4, <1>7, <1>9, <2>1 DEF BlockedStates, SendsReads
  <2>2. state'[c] = "BlockedReading" /\ call'[c].on = ch
    BY <1>5, <1>6, <1>7, <1>8 DEF In
  <2>3. reads'[c] = ch
    BY <1>4, <1>8, <1>9, <2>2 DEF SendsReads
  <2> QED BY <2>1, <2>3
<1>11. \A p \in Procs : sends'[p] = sends[p]
  <2>1. ASSUME NEW p \in Procs, p # c PROVE sends'[p] = sends[p]
    BY <1>4, <1>7, <1>9, <2>1 DEF BlockedStates, SendsReads
  <2>2. sends'[c] = NoChannel
    BY <1>4, <1>5, <1>6, <1>8, <1>9 DEF SendsReads
  <2> QED BY <1>8, <2>1, <2>2
<1>12. sends' = sends /\ reads' = [reads EXCEPT ![c] = ch]
  <2>1. /\ sends \in [Procs -> Channels \cup {NoChannel}]
        /\ sends' \in [Procs -> Channels \cup {NoChannel}]
        /\ reads \in [Procs -> Channels \cup {NoChannel}]
        /\ reads' \in [Procs -> Channels \cup {NoChannel}]
    BY <1>9 DEF SendsReads
  <2>2. sends' = sends
    BY <1>11, <2>1
  <2>3. reads' = [reads EXCEPT ![c] = ch]
    BY <1>10, <2>1
  <2> QED BY <2>2, <2>3
<1>13. value' = value
  <2>1. \A x \in Channels : channels'[x].value = channels[x].value
    BY <1>6 DEF ReceiveBlocks, ChannelType
  <2> QED BY <2>1 DEF value
<1>14. \A p \in Procs : sends[p] # ch
  BY <1>3, <1>5, <1>6, Links
<1> QED BY <1>3, <1>4, <1>12, <1>13, <1>14 DEF Awaited, c0

\* send with a receiver: the receiver goes on with the value.
LEMMA SendWakesEffect ==
    ASSUME KInv, NEW ch \in Channels, NEW v \in Values, SendWakes(ch, v)
    PROVE  KInv' /\ \E r \in Procs : Passed(ch, v, r)
<1> DEFINE c == currentProcess
           old == channels[ch].receive
           r == Process(Last(old))
           calls == [call EXCEPT ![c] = In("send", ch)]
<1>1. RInv /\ IInv /\ KInv
  BY DEF KInv, RInv
<1>2. /\ channels[ch].state = "Receiver"
      /\ UNCHANGED procVars
      /\ Insert(r) /\ state' = [state EXCEPT ![r] = "Runnable"]
      /\ channels' = [channels EXCEPT ![ch].value = v, ![ch].receive = Front(old),
                          ![ch].state = IF Front(old) = <<>> THEN "Unused" ELSE @]
      /\ SwitchTo(next'[c], calls, channels')
  BY DEF SendWakes, SwitchToNext
<1>3. RInv' /\ KInv'
  BY <1>1, <1>2, SendWakesRefines, NumberedKept DEF procVars
<1>4. /\ r \in WaitingOn(ch) /\ r \in Procs /\ r \notin Live /\ call[r] = In("receive", ch)
  BY <1>1, <1>2, PoppedWaiter
<1>5. /\ channels \in [Channels -> ChannelType] /\ NoChannel \notin Channels
      /\ state \in [Procs -> ProcessStates] /\ call \in [Procs -> CallType]
  BY <1>1, KernelAssumption DEF IInv, TypeOK, ChannelType, Calls, CallType
<1>6. c \in Procs /\ c \in 0 .. maxId /\ sends[c] = NoChannel /\ reads[c] = NoChannel
  BY <1>3, NumberedProcesses, Links
<1>7. next'[c] = r
  BY <1>1, <1>2, <1>4, InsertStep
<1>8. call' = [calls EXCEPT ![r] = NoCall]
  BY <1>2, <1>7 DEF SwitchTo
<1>9. \A p \in Procs : /\ call'[p] = IF p = r THEN NoCall
                                     ELSE IF p = c THEN In("send", ch) ELSE call[p]
                       /\ state'[p] = IF p = r THEN "Runnable" ELSE state[p]
  BY <1>2, <1>4, <1>5, <1>6, <1>8
<1>10. received' = [received EXCEPT ![r] = v]
  <2>0. r # c
    BY <1>1, <1>4, CurrentIsLive
  <2>1. calls[r].op = "receive" /\ calls[r].on = ch
    BY <1>4, <1>5, <1>6, <2>0 DEF In
  <2>2. channels'[ch].value = v
    BY <1>2, <1>5 DEF ChannelType
  <2> QED BY <1>2, <1>7, <2>1, <2>2 DEF SwitchTo
<1>11. SendsReads /\ SendsReads' /\ maxId' = maxId
  BY <1>2, <1>3, SendsReadsNow, SendsReadsThen DEF procVars
<1>12. reads[r] = ch /\ r # c
  <2>1. PICK i \in 1 .. Len(old) : r = Process(old[i])
    BY <1>4 DEF WaitingOn
  <2>2. Waits(old[i], ch, "receive", "BlockedReading")
    BY <1>1 DEF IInv, ChannelsKnowTheirWaiters, ChannelKnowsItsWaiters
  <2>3. old[i] \in 0 .. maxId /\ r = old[i] /\ state[r] = "BlockedReading"
    BY <1>1, <2>1, <2>2, NumberedProcesses DEF Waits
  <2>4. reads[r] = ch
    BY <1>4, <1>11, <2>3 DEF SendsReads, In
  <2> QED BY <1>5, <1>6, <2>4
<1>13. c \notin Blocked /\ state[c] \notin BlockedStates
  BY <1>1, CurrentIsLive DEF Blocked, BlockedStates
<1>14. \A p \in Procs : sends'[p] = sends[p] /\ reads'[p] = IF p = r THEN NoChannel ELSE reads[p]
  <2>1. ASSUME NEW p \in Procs, p # r, p # c PROVE sends'[p] = sends[p] /\ reads'[p] = reads[p]
    BY <1>9, <1>11, <2>1 DEF SendsReads
  <2>2. sends'[c] = NoChannel /\ reads'[c] = NoChannel
    BY <1>6, <1>9, <1>11, <1>12, <1>13 DEF SendsReads, BlockedStates
  <2>3. sends'[r] = NoChannel /\ reads'[r] = NoChannel
    BY <1>4, <1>9, <1>11 DEF SendsReads
  <2>4. sends[r] = NoChannel
    BY <1>1, <1>4, <1>5, <1>12, Links
  <2> QED BY <1>6, <2>1, <2>2, <2>3, <2>4
<1>15. sends' = sends /\ reads' = [reads EXCEPT ![r] = NoChannel]
  <2>1. /\ sends \in [Procs -> Channels \cup {NoChannel}]
        /\ sends' \in [Procs -> Channels \cup {NoChannel}]
        /\ reads \in [Procs -> Channels \cup {NoChannel}]
        /\ reads' \in [Procs -> Channels \cup {NoChannel}]
    BY <1>11 DEF SendsReads
  <2>2. sends' = sends
    BY <1>14, <2>1
  <2>3. reads' = [reads EXCEPT ![r] = NoChannel]
    BY <1>14, <2>1
  <2> QED BY <2>2, <2>3
<1>16. value' = [value EXCEPT ![ch] = v]
  BY <1>2, <1>5 DEF value, ChannelType
<1>17. \A p \in Procs : sends[p] # ch
  BY <1>1, <1>2, <1>5, Links
<1> QED BY <1>3, <1>4, <1>10, <1>11, <1>12, <1>15, <1>16, <1>17 DEF Passed, c0

\* receive with a sender: the sender goes on.
LEMMA ReceiveTakesEffect ==
    ASSUME KInv, NEW ch \in Channels, ReceiveTakes(ch)
    PROVE  KInv' /\ \E s \in Procs : Taken(ch, s)
<1> DEFINE c == currentProcess
           s == channels[ch].sendId
<1>1. RInv /\ IInv /\ KInv
  BY DEF KInv, RInv
<1>2. /\ channels[ch].state = "Sender"
      /\ channels' = [channels EXCEPT ![ch].state = "Unused"]
      /\ state' = [state EXCEPT ![Process(s)] = "Runnable"]
      /\ received' = [received EXCEPT ![c] = channels[ch].value]
      /\ UNCHANGED <<procVars, call>>
  BY DEF ReceiveTakes
<1>3. RInv' /\ KInv'
  BY <1>1, <1>2, ReceiveTakesRefines, NumberedKept DEF procVars
<1>4. /\ s \in 0 .. maxId /\ s \in Procs /\ Process(s) = s /\ sends[s] = ch
      /\ \A p \in Procs : reads[p] # ch
      /\ c \in Procs /\ sends[c] = NoChannel
  BY <1>1, <1>2, NumberedProcesses, Links, KernelAssumption
<1>5. /\ channels \in [Channels -> ChannelType] /\ NoChannel \notin Channels
      /\ state \in [Procs -> ProcessStates]
  BY <1>1, KernelAssumption DEF IInv, TypeOK, ChannelType
<1>6. SendsReads /\ SendsReads' /\ maxId' = maxId
  BY <1>2, <1>3, SendsReadsNow, SendsReadsThen DEF procVars
<1>7. \A p \in Procs : state'[p] = IF p = s THEN "Runnable" ELSE state[p]
  BY <1>2, <1>4, <1>5
<1>8. \A p \in Procs : reads'[p] = reads[p] /\ sends'[p] = IF p = s THEN NoChannel ELSE sends[p]
  <2>1. ASSUME NEW p \in Procs, p # s PROVE sends'[p] = sends[p] /\ reads'[p] = reads[p]
    BY <1>2, <1>6, <1>7, <2>1 DEF SendsReads
  <2>2. sends'[s] = NoChannel /\ reads'[s] = NoChannel
    BY <1>4, <1>6, <1>7 DEF SendsReads
  <2>3. reads[s] = NoChannel
    BY <1>1, <1>4, <1>5, Links
  <2> QED BY <2>1, <2>2, <2>3
<1>9. reads' = reads /\ sends' = [sends EXCEPT ![s] = NoChannel]
  <2>1. /\ sends \in [Procs -> Channels \cup {NoChannel}]
        /\ sends' \in [Procs -> Channels \cup {NoChannel}]
        /\ reads \in [Procs -> Channels \cup {NoChannel}]
        /\ reads' \in [Procs -> Channels \cup {NoChannel}]
    BY <1>6 DEF SendsReads
  <2>2. reads' = reads
    BY <1>8, <2>1
  <2>3. sends' = [sends EXCEPT ![s] = NoChannel]
    BY <1>8, <2>1
  <2> QED BY <2>2, <2>3
<1>10. value' = value /\ received' = [received EXCEPT ![c] = value[ch]]
  <2>1. \A x \in Channels : channels'[x].value = channels[x].value
    BY <1>2, <1>5 DEF ChannelType
  <2> QED BY <1>2, <2>1 DEF value
<1> QED BY <1>3, <1>4, <1>5, <1>6, <1>9, <1>10 DEF Taken, c0

\* A step that Kernel allows.
KStep == [Next]_vars /\ KInv'

\* Switches, ticks and exit: nobody begins or ends to wait.
LEMMA QuietEffect ==
    ASSUME KInv, Accompanied,
           EnableTaskSwitch \/ Yield \/ OnTimerInterrupt \/ Exit \/ UNCHANGED vars
    PROVE  KStep /\ Quiet
<1> DEFINE c == currentProcess
<1>1. RInv /\ IInv /\ KInv /\ Accompanied
  BY DEF KInv, RInv
<1>2. [Next]_vars
  BY DEF Next
<1>3. RInv' /\ UNCHANGED procVars /\ channels' = channels
  BY <1>1, <1>2, NextRefines DEF EnableTaskSwitch, Yield, OnTimerInterrupt, TimerTick,
     TimerSwitch, Exit, vars
<1>4. KInv'
  BY <1>1, <1>3, NumberedKept DEF procVars
<1>5. /\ c \in Procs /\ next[c] \in Live /\ Live \subseteq Procs /\ c \in Live
      /\ call \in [Procs -> CallType] /\ state \in [Procs -> ProcessStates]
      /\ \A p \in Live : state[p] \notin BlockedStates /\ call[p].op # "receive"
  BY <1>1, CurrentIsLive, LiveMember
     DEF IInv, TypeOK, RInv, WokenReceiverRunsAtOnce, BlockedStates, Calls, CallType
<1>6. /\ received' = received /\ state' = state
      /\ \A p \in Procs : state[p] \in BlockedStates => call'[p] = call[p]
  <2>1. CASE EnableTaskSwitch \/ TimerTick \/ UNCHANGED vars
    BY <2>1 DEF EnableTaskSwitch, TimerTick, vars, ringVars
  <2>2. CASE Yield \/ TimerSwitch
    <3>1. SwitchTo(next[c], call, channels) /\ state' = state
      BY <2>2 DEF Yield, TimerSwitch, SwitchToNext, ringVars
    <3> QED BY <1>5, <3>1 DEF SwitchTo
  <2>3. CASE Exit
    <3>1. /\ next[c] # c /\ state' = state /\ channels' = channels /\ UNCHANGED processesList
          /\ LeaveRing([call EXCEPT ![c] = Exited], channels)
      BY <2>3 DEF Exit, procVars
    <3>2. Exited \in CallType /\ channels \in [Channels -> ChannelType]
      BY <1>1 DEF CallType, IInv, TypeOK, ChannelType
    <3>3. UNCHANGED received
      BY <1>1, <3>1, <3>2, LeaveRingReceivesNothing
    <3>4. /\ currentProcess' \in Live
          /\ call' = [call EXCEPT ![c] = Exited, ![currentProcess'] = NoCall]
      BY <1>1, <3>1, <3>2, LeaveRingStep
    <3> QED BY <1>5, <3>1, <3>3, <3>4
  <2> QED BY <2>1, <2>2, <2>3 DEF OnTimerInterrupt
<1>7. SendsReads /\ SendsReads' /\ maxId' = maxId
  BY <1>1, <1>3, <1>4, SendsReadsNow, SendsReadsThen DEF procVars
<1>8. \A p \in Procs : reads'[p] = reads[p] /\ sends'[p] = sends[p]
  BY <1>6, <1>7 DEF SendsReads, BlockedStates
<1>9. reads' = reads /\ sends' = sends
  <2>1. /\ sends \in [Procs -> Channels \cup {NoChannel}]
        /\ sends' \in [Procs -> Channels \cup {NoChannel}]
        /\ reads \in [Procs -> Channels \cup {NoChannel}]
        /\ reads' \in [Procs -> Channels \cup {NoChannel}]
    BY <1>7 DEF SendsReads
  <2> QED BY <1>8, <2>1
<1>10. value' = value
  BY <1>3 DEF value
<1> QED BY <1>2, <1>4, <1>6, <1>7, <1>9, <1>10 DEF Quiet, KStep

\* newProcess: one more process, which waits on nothing.
LEMMA CreateEffect ==
    ASSUME KInv, Accompanied, maxId + 1 \in Procs, NewProcess(maxId + 1)
    PROVE  /\ KStep /\ maxId' = maxId + 1
           /\ UNCHANGED <<sends, reads, value, received>>
<1> DEFINE p == maxId + 1
<1>1. /\ RInv /\ IInv /\ KInv /\ maxId \in Nat
      /\ Allocated = 0 .. maxId /\ 0 .. maxId \subseteq Procs
  BY NumberedProcesses DEF KInv, RInv
<1>2. /\ maxId' = maxId + 1 /\ state' = [state EXCEPT ![p] = "Runnable"]
      /\ call' = [call EXCEPT ![p] = NoCall]
      /\ processesList' = Append(processesList, p)
      /\ UNCHANGED <<channels, received>>
  BY DEF NewProcess
<1>3. RInv'
  BY <1>1, NewProcessIsQuiet
<1>4. KInv'
  <2>1. Len(processesList) = maxId + 1 /\ processesList \in Seq(Procs)
    BY <1>1 DEF IInv, IdsIndexTheList, TypeOK
  <2>2. /\ Len(processesList') = maxId + 2
        /\ \A i \in 1 .. maxId + 1 : processesList'[i] = processesList[i]
        /\ processesList'[maxId + 2] = maxId + 1
    BY <1>1, <1>2, <2>1
  <2>3. ASSUME NEW i \in 1 .. maxId + 2 PROVE processesList'[i] = i - 1
    <3>1. CASE i \in 1 .. maxId + 1
      BY <1>1, <2>1, <2>2, <3>1 DEF KInv, Numbered
    <3>2. CASE i = maxId + 2
      BY <1>1, <2>2, <3>2
    <3> QED BY <1>1, <3>1, <3>2
  <2> QED BY <1>3, <2>2, <2>3 DEF KInv, Numbered
<1>5. SendsReads /\ SendsReads'
  BY <1>1, <1>4, SendsReadsNow, SendsReadsThen
<1>6. call \in [Procs -> CallType] /\ state \in [Procs -> ProcessStates]
  BY <1>1 DEF IInv, TypeOK, Calls, CallType
<1>7. \A q \in Procs : reads'[q] = reads[q] /\ sends'[q] = sends[q]
  <2>1. ASSUME NEW q \in Procs, q # p PROVE reads'[q] = reads[q] /\ sends'[q] = sends[q]
    <3>1. state'[q] = state[q] /\ call'[q] = call[q]
      BY <1>2, <1>6, <2>1
    <3>2. q \in 0 .. maxId' <=> q \in 0 .. maxId
      BY <1>1, <1>2, <2>1
    <3> QED BY <1>5, <3>1, <3>2 DEF SendsReads
  <2>2. state'[p] = "Runnable" /\ p \notin 0 .. maxId /\ p \in Procs
    BY <1>1, <1>2, <1>6
  <2> QED BY <1>5, <2>1, <2>2 DEF SendsReads
<1>8. reads' = reads /\ sends' = sends
  <2>1. /\ sends \in [Procs -> Channels \cup {NoChannel}]
        /\ sends' \in [Procs -> Channels \cup {NoChannel}]
        /\ reads \in [Procs -> Channels \cup {NoChannel}]
        /\ reads' \in [Procs -> Channels \cup {NoChannel}]
    BY <1>5 DEF SendsReads
  <2> QED BY <1>7, <2>1
<1>9. [Next]_vars
  BY DEF Next
<1> QED BY <1>2, <1>4, <1>8, <1>9 DEF value, KStep

\* What send may do, to a program.
LEMMA SendEffect ==
    ASSUME KInv, Accompanied, NEW ch \in Channels, NEW v \in Values, Send(ch, v)
    PROVE  KStep /\ Sent(ch, v)
<1>0. [Next]_vars
  BY DEF Send, Next
<1>1. CASE SendBlocks(ch, v)
  BY <1>0, <1>1, SendBlocksEffect DEF Sent, KStep
<1>2. CASE SendWakes(ch, v)
  BY <1>0, <1>2, SendWakesEffect DEF Sent, KStep
<1>3. CASE SendRefused(ch, v)
  <2>1. KStep /\ Quiet /\ channels[ch].state = "Sender"
    BY <1>3, QuietEffect DEF SendRefused
  <2>2. channels[ch].sendId \in Procs /\ sends[channels[ch].sendId] = ch
    BY <2>1, Links, NumberedProcesses
  <2> QED BY <2>1, <2>2 DEF Sent
<1> QED BY <1>1, <1>2, <1>3 DEF Send

\* What receive may do, to a program.
LEMMA ReceiveEffect ==
    ASSUME KInv, Accompanied, NEW ch \in Channels, Receive(ch)
    PROVE  KStep /\ Got(ch)
<1>1. [Next]_vars
  BY DEF Receive, Next
<1> QED BY <1>1, ReceiveBlocksEffect, ReceiveTakesEffect DEF Receive, Got, KStep

\* probe: a channel is in state Sender when a process is suspended in send on it.
LEMMA ProbeSender ==
    ASSUME KInv, NEW ch \in Channels
    PROVE  Probe(ch) = "Sender" <=> \E s \in Procs : sends[s] = ch
<1>1. channels[ch].state = "Sender" => channels[ch].sendId \in Procs /\ sends[channels[ch].sendId] = ch
  BY Links, NumberedProcesses
<1> QED BY <1>1, Links, KernelAssumption DEF Probe

-----------------------------------------------------------------------------
\* The processes by the order of their creation: kernel_main, the shells, the
\* process of the games, and the commands.
IsShell(p)   == p \in 1 .. NumShells
Screen       == NumShells + 1
IsCommand(p) == p \in Procs /\ p > NumShells + 1

BootAt   == {"boot", "create", "number", "shellReady", "firstShell"}
MainAt   == BootAt \cup {"idle", "keys", "stopped", "start"}
StartAt  == {"shellStart", "shellNumbered"}
ActiveAt == {"sendFunction", "sendArgs", "sendId", "wait", "waitTake", "waitTaken",
             "waitKeys", "pollDone", "takeDone", "pollStop", "takeStop", "tookStop"}
ShellAt  == StartAt \cup {"shellOff", "line"} \cup ActiveAt
ScreenAt == {"screen", "snake", "play", "snakeTake", "snakeTook", "gameOver"}

ShellIds == 2 .. NumShells + 1
ReportCh == 12 .. NumShells + 11

Free(p) == sends[p] = NoChannel /\ reads[p] = NoChannel
InBoot  == pc[Main] \in BootAt

\* Every process is in its own program, and a command knows who asked for it.
KindOf(p) ==
    /\ p > maxId => pc[p] = "none"
    /\ p <= maxId /\ IsShell(p) => pc[p] \in ShellAt
    /\ p <= maxId /\ p = Screen => pc[p] \in ScreenAt
    /\ p <= maxId /\ IsCommand(p) =>
          pc[p] \in CommandAt /\ asked[p].sh \in ShellIds /\ asked[p].fn \in Functions
    /\ ~(IsCommand(p) /\ p <= maxId) => asked[p] = NoJob
Kinds == \A p \in Procs : KindOf(p)

\* How far kernel_main is tells how many processes there are.
MainIsAt ==
    /\ pc[Main] \in MainAt
    /\ pc[Main] = "boot" => maxId = 0
    /\ pc[Main] = "create" => maxId <= NumShells
    /\ pc[Main] = "create" /\ reads[Main] # NoChannel => maxId # 0
    /\ pc[Main] \in {"number", "shellReady"} => maxId \in 1 .. NumShells
    /\ pc[Main] = "firstShell" => maxId = NumShells + 1
    /\ ~InBoot => maxId > NumShells /\ currentId \in ShellIds \cup {Game}

\* The places of the programs at which a process may be suspended in send, and
\* in receive, and on which channel.
SendsAt(p, ch, l) ==
    \/ ch = NoChannel
    \/ ch = 0 /\ p = Main /\ l = "stopped"
    \/ ch = 1 /\ p = Main /\ l = "shellReady"
    \/ ch = 1 /\ IsShell(p) /\ l \in {"shellOff", "sendArgs", "sendId", "wait", "pollDone"}
    \/ ch = 1 /\ p = Screen /\ l = "snake"
    \/ ch \in ShellIds \cup {43} /\ p = Main /\ l = "idle"
    \/ ch = 42 /\ p = Screen /\ l = "screen"
    \/ ch = 42 /\ IsCommand(p) /\ l = "playing"
    \/ ch \in ReportCh /\ IsCommand(p) /\ ch = 10 + asked[p].sh /\ l \in {"printed", "exit"}
ReadsAt(p, ch, l) ==
    \/ ch = NoChannel
    \/ ch = 1 /\ p = Main /\ l \in {"create", "start"}
    \/ ch = 1 /\ IsShell(p) /\ l = "shellNumbered"
    \/ ch = 1 /\ IsCommand(p) /\ l \in {"cmdArgs", "cmdId", "cmdNumbered"}
    \/ ch \in ShellIds /\ p = ch - 1 /\ l = "line"
    \/ ch = 42 /\ p = Screen /\ l = "snake"
    \/ ch = 42 /\ IsCommand(p) /\ l = "ended"
    \/ ch = 43 /\ p = Screen /\ l = "play"
Places == \A p \in Procs : SendsAt(p, sends[p], pc[p]) /\ ReadsAt(p, reads[p], pc[p])

\* The right to use the keyboard, the screen and channel 1: kernel_main has it
\* while it creates the shells and while it starts a console; the console has it
\* from the message that starts it to the answer with which it stops.
Holds(p) ==
    \/ p = Main /\ InBoot
    \/ p = Main /\ pc[p] = "idle" /\ ~Free(p)
    \/ p = Main /\ pc[p] = "start" /\ Free(p)
    \/ IsShell(p) /\ pc[p] \in ActiveAt
    \/ IsShell(p) /\ pc[p] = "line" /\ Free(p)
    \/ IsShell(p) /\ pc[p] = "shellOff" /\ sends[p] = 1 /\ ~InBoot
    \/ p = Screen /\ pc[p] \in {"snakeTake", "snakeTook"}
    \/ p = Screen /\ pc[p] = "play" /\ Free(p)
    \/ p = Screen /\ pc[p] = "snake" /\ sends[p] = 1
OneHolder == \A p, q \in Procs : Holds(p) /\ Holds(q) => p = q

\* From the moment the stop signal is taken to the answer, the console that
\* holds the right does nothing else.
Stopping == \/ pc[Main] = "stopped" /\ Free(Main)
            \/ pc[Main] = "start" /\ ~Free(Main)
StopsFirst == Stopping => \A p \in Procs :
                 Holds(p) => pc[p] \in {"tookStop", "snakeTook", "shellOff", "snake"}

\* A console that is about to take the stop signal finds it.
StopIsThere == \A p \in Procs : pc[p] \in {"takeStop", "snakeTake"} => sends[Main] = 0

\* A shell and the command it is starting: the three messages one by one.
LastOf(q) == \A r \in Procs : asked[r].sh = asked[q].sh => r <= q
Fresh(q)  == \/ pc[q] \in {"cmdStart", "cmdArgs", "cmdId"}
             \/ pc[q] = "cmdNumbered" /\ ~Free(q)
Hands(p, q) ==
    \/ pc[p] = "sendFunction" /\ Free(p) /\ pc[q] = "cmdStart" /\ Free(q)
    \/ pc[p] = "sendFunction" /\ Free(p) /\ pc[q] = "cmdArgs" /\ reads[q] = 1
    \/ pc[p] = "sendArgs" /\ sends[p] = 1 /\ value[1] = asked[q].fn
          /\ pc[q] = "cmdStart" /\ Free(q)
    \/ pc[p] = "sendArgs" /\ Free(p)
          /\ pc[q] = "cmdArgs" /\ Free(q) /\ received[q] = asked[q].fn
    \/ pc[p] = "sendArgs" /\ Free(p)
          /\ pc[q] = "cmdId" /\ reads[q] = 1 /\ job[q] = asked[q].fn
    \/ pc[p] = "sendId" /\ sends[p] = 1
          /\ pc[q] = "cmdArgs" /\ Free(q) /\ received[q] = asked[q].fn
    \/ pc[p] = "sendId" /\ Free(p)
          /\ pc[q] = "cmdId" /\ Free(q) /\ job[q] = asked[q].fn
    \/ pc[p] = "sendId" /\ Free(p)
          /\ pc[q] = "cmdNumbered" /\ reads[q] = 1 /\ job[q] = asked[q].fn
    \/ pc[p] \in {"wait", "pollDone"} /\ sends[p] = 1 /\ value[1] = p + 1
          /\ pc[q] = "cmdId" /\ Free(q) /\ job[q] = asked[q].fn
Handshakes == \A q \in Procs : Fresh(q) => LastOf(q) /\ Hands(asked[q].sh - 1, q)

\* A shell that sends the messages has created a command to receive them.
HasCommand == \A p \in Procs :
    pc[p] \in {"sendFunction", "sendArgs", "sendId"} =>
        \E q \in Procs : asked[q].sh = p + 1 /\ LastOf(q)

\* A command that has received its messages has the right ones.
Informed == \A q \in Procs :
    /\ pc[q] = "cmdNumbered" /\ Free(q) => job[q] = asked[q].fn /\ received[q] = asked[q].sh
    /\ pc[q] \in {"run", "playing", "ended", "printed", "exit"} =>
          job[q] = asked[q].fn /\ myId[q] = asked[q].sh

\* Only the last report of a command is 0xDEAD, and a shell finds the report it has
\* seen with probe.
LastReport == \A q \in Procs : pc[q] = "printed" /\ ~Free(q) => value[sends[q]] = Zero
ReportIsThere == \A p \in Procs :
    pc[p] \in {"waitTake", "takeDone"} => \E q \in Procs : sends[q] = 11 + p

\* While kernel_main creates the shells, the newest one and kernel_main are in
\* the middle of their two messages; the others wait to be started.
Resting(p) == \/ pc[p] = "shellOff" /\ Free(p)
              \/ pc[p] = "line" /\ reads[p] = p + 1
Booting(p) ==
    \/ pc[Main] = "number" /\ pc[p] = "shellStart" /\ Free(p)
    \/ pc[Main] = "number" /\ pc[p] = "shellNumbered" /\ reads[p] = 1
    \/ pc[Main] = "shellReady" /\ sends[Main] = 1 /\ value[1] = p + 1
          /\ pc[p] = "shellStart" /\ Free(p)
    \/ pc[Main] = "shellReady" /\ Free(Main)
          /\ pc[p] = "shellNumbered" /\ Free(p) /\ received[p] = p + 1
    \/ pc[Main] = "shellReady" /\ Free(Main) /\ pc[p] = "shellOff" /\ sends[p] = 1
    \/ pc[Main] = "create" /\ reads[Main] = 1
          /\ pc[p] = "shellNumbered" /\ Free(p) /\ received[p] = p + 1
NewShell == \/ pc[Main] \in {"number", "shellReady"}
            \/ pc[Main] = "create" /\ ~Free(Main)
Boots(p) ==
    /\ InBoot /\ NewShell /\ p = maxId => Booting(p)
    /\ InBoot /\ ~(NewShell /\ p = maxId) => Resting(p)
    /\ ~InBoot => pc[p] \notin StartAt
    /\ pc[p] \notin StartAt => myId[p] = p + 1
ShellsBoot == \A p \in Procs : IsShell(p) /\ p <= maxId => Boots(p)

Labels == MainAt \cup ShellAt \cup ScreenAt \cup CommandAt \cup {"none"}
Typed ==
    /\ pc \in [Procs -> Labels]
    /\ myId \in [Procs -> Values \cup {NoValue, 0}]
    /\ job \in [Procs -> Values \cup {NoValue}]
    /\ asked \in [Procs -> [fn : Functions \cup {NoValue}, sh : ShellIds \cup {0}, bg : BOOLEAN]]

\* The inductive invariant.
SInv == /\ Typed /\ Kinds /\ MainIsAt /\ Places /\ ShellsBoot
        /\ OneHolder /\ StopsFirst /\ StopIsThere
        /\ Handshakes /\ HasCommand /\ Informed
        /\ LastReport /\ ReportIsThere

\* Whose step it is can be told from the place in the program.
LEMMA Who ==
    ASSUME KInv, SInv
    PROVE  /\ c0 \in Procs /\ c0 \in 0 .. maxId /\ Free(c0) /\ Main \in Procs /\ Main = 0
           /\ pc[c0] \in MainAt => c0 = Main
           /\ pc[c0] \in ShellAt => IsShell(c0) /\ c0 # Main /\ c0 # Screen /\ ~IsCommand(c0)
           /\ pc[c0] \in ScreenAt => c0 = Screen /\ c0 # Main /\ ~IsShell(c0) /\ ~IsCommand(c0)
           /\ pc[c0] \in CommandAt => IsCommand(c0) /\ c0 # Main /\ c0 # Screen /\ ~IsShell(c0)
<1>1. c0 \in Procs /\ c0 \in 0 .. maxId /\ Free(c0) /\ maxId \in Nat
  BY NumberedProcesses, Links DEF c0, Free
<1>2. NumShells \in Nat /\ Main = 0 /\ Main \in Procs
  BY ShellsAssumption, KernelAssumption
<1>3. \/ c0 = Main \/ IsShell(c0) \/ c0 = Screen \/ IsCommand(c0)
  BY <1>1, <1>2 DEF IsShell, Screen, IsCommand
<1>4. KindOf(c0) /\ c0 <= maxId /\ pc[Main] \in MainAt
  BY <1>1 DEF SInv, Kinds, MainIsAt
<1>5. CASE c0 = Main
  BY <1>1, <1>2, <1>4, <1>5 DEF MainAt, BootAt, ShellAt, StartAt, ActiveAt, ScreenAt, CommandAt
<1>6. CASE IsShell(c0)
  BY <1>1, <1>2, <1>4, <1>6 DEF KindOf, IsShell, Screen, IsCommand,
     MainAt, BootAt, ShellAt, StartAt, ActiveAt, ScreenAt, CommandAt
<1>7. CASE c0 = Screen
  BY <1>1, <1>2, <1>4, <1>7 DEF KindOf, IsShell, Screen, IsCommand,
     MainAt, BootAt, ShellAt, StartAt, ActiveAt, ScreenAt, CommandAt
<1>8. CASE IsCommand(c0)
  BY <1>1, <1>2, <1>4, <1>8 DEF KindOf, IsShell, Screen, IsCommand,
     MainAt, BootAt, ShellAt, StartAt, ActiveAt, ScreenAt, CommandAt
<1> QED BY <1>1, <1>2, <1>3, <1>5, <1>6, <1>7, <1>8

\* The channels the programs use, and the numbers of the shells.
LEMMA Numbers ==
    /\ NumShells \in 1 .. 9 /\ Main = 0 /\ Main \in Procs /\ Procs \subseteq Nat
    /\ NoChannel \notin Channels /\ Channels # {}
    /\ {0, 1, 42, 43} \subseteq Channels /\ ShellIds \subseteq Channels /\ ReportCh \subseteq Channels
  BY ShellsAssumption, KernelAssumption DEF ShellIds, ReportCh

\* A handshake stays as it is while nothing happens to its two processes.
LEMMA HandsKept ==
    ASSUME NEW p \in Procs, NEW q \in Procs, Hands(p, q), value'[1] = value[1],
           pc'[p] = pc[p], sends'[p] = sends[p], reads'[p] = reads[p],
           pc'[q] = pc[q], sends'[q] = sends[q], reads'[q] = reads[q],
           received'[q] = received[q], job'[q] = job[q], asked'[q] = asked[q]
    PROVE  Hands(p, q)'
<1>1. (Free(p)' <=> Free(p)) /\ (Free(q)' <=> Free(q))
  BY DEF Free
<1> QED BY <1>1 DEF Hands

\* A command that has not got all its messages, and the shell that sends them.
LEMMA FreshCommand ==
    ASSUME KInv, SInv, NEW q \in Procs, Fresh(q)
    PROVE  /\ IsCommand(q) /\ q \in 0 .. maxId
           /\ asked[q].sh \in ShellIds /\ asked[q].sh - 1 \in Procs
           /\ asked[q].sh - 1 \in 1 .. NumShells
           /\ Hands(asked[q].sh - 1, q) /\ LastOf(q) /\ Holds(asked[q].sh - 1)
<1>1. maxId \in Nat /\ q \in Nat /\ NumShells \in Nat /\ 0 .. maxId \subseteq Procs
  BY NumberedProcesses, Numbers
<1>2. KindOf(q) /\ pc[Main] \in MainAt /\ Main = 0
  BY Numbers DEF SInv, Kinds, MainIsAt
<1>3. pc[q] \in {"cmdStart", "cmdArgs", "cmdId", "cmdNumbered"}
  BY DEF Fresh
<1>4. IsCommand(q) /\ q <= maxId
  BY <1>1, <1>2, <1>3 DEF KindOf, IsShell, Screen, IsCommand, MainAt, BootAt, ShellAt,
     StartAt, ActiveAt, ScreenAt
<1>5. asked[q].sh \in ShellIds
  BY <1>2, <1>4 DEF KindOf
<1>6. asked[q].sh - 1 \in 1 .. NumShells
  BY <1>1, <1>5 DEF ShellIds
<1>7. Hands(asked[q].sh - 1, q) /\ LastOf(q)
  BY DEF SInv, Handshakes
<1>8. Holds(asked[q].sh - 1)
  BY <1>6, <1>7 DEF Hands, Holds, IsShell, ActiveAt
<1> QED BY <1>1, <1>4, <1>5, <1>6, <1>7, <1>8 DEF IsCommand

\* The shell on the screen has the right to be there.
LEMMA ShellHolds ==
    ASSUME KInv, SInv, pc[c0] \in ActiveAt \cup {"line"}
    PROVE  /\ c0 \in Procs /\ c0 \in 0 .. maxId /\ Free(c0) /\ IsShell(c0)
           /\ c0 # Main /\ c0 # Screen /\ ~IsCommand(c0)
           /\ Holds(c0) /\ \A p \in Procs : Holds(p) => p = c0
           /\ ~InBoot /\ maxId > NumShells /\ myId[c0] = c0 + 1
<1>1. /\ c0 \in Procs /\ c0 \in 0 .. maxId /\ Free(c0) /\ IsShell(c0) /\ Main \in Procs
      /\ c0 # Main /\ c0 # Screen /\ ~IsCommand(c0)
  BY Who DEF ShellAt
<1>2. Holds(c0)
  BY <1>1 DEF Holds
<1>3. \A p \in Procs : Holds(p) => p = c0
  BY <1>1, <1>2 DEF SInv, OneHolder
<1>4. ~InBoot
  BY <1>1, <1>3 DEF Holds
<1>5. maxId > NumShells /\ Boots(c0)
  BY <1>1, <1>4 DEF SInv, MainIsAt, ShellsBoot
<1> QED BY <1>1, <1>2, <1>3, <1>4, <1>5 DEF Boots, StartAt, ActiveAt

PollAt == {"line", "wait", "waitTaken", "waitKeys", "pollDone", "pollStop"}

\* A shell looks at its keyboard and its channels.
LEMMA ShellPolls ==
    ASSUME KInv, SInv, Quiet, NEW l2, Goto(l2), UNCHANGED Locals,
           pc[c0] \in PollAt, l2 \in PollAt \cup {"waitTake", "takeDone", "takeStop"},
           l2 = "takeStop" => sends[Main] = 0,
           l2 \in {"waitTake", "takeDone"} => \E q \in Procs : sends[q] = 11 + c0
    PROVE  SInv'
<1>1. /\ c0 \in Procs /\ c0 \in 0 .. maxId /\ Free(c0) /\ IsShell(c0)
      /\ c0 # Main /\ c0 # Screen /\ ~IsCommand(c0)
      /\ \A p \in Procs : Holds(p) => p = c0
      /\ ~InBoot
  BY ShellHolds DEF PollAt, ActiveAt
<1>2. /\ \A p \in Procs : pc'[p] = IF p = c0 THEN l2 ELSE pc[p]
      /\ sends' = sends /\ reads' = reads /\ value' = value /\ received' = received
      /\ maxId' = maxId /\ currentId' = currentId
      /\ myId' = myId /\ job' = job /\ asked' = asked
  BY <1>1 DEF SInv, Typed, Goto, Quiet, Locals
<1>3. Typed'
  BY <1>1, <1>2 DEF SInv, Typed, Goto, PollAt, Labels, ShellAt, ActiveAt
<1>4. Kinds'
  BY <1>1, <1>2 DEF SInv, Kinds, KindOf, ShellAt, ActiveAt, PollAt
<1>5. MainIsAt'
  BY <1>1, <1>2, Numbers DEF SInv, MainIsAt, InBoot
<1>6. Places'
  BY <1>1, <1>2, Numbers DEF SInv, Places, SendsAt, ReadsAt, Free
<1>7. ShellsBoot'
  BY <1>1, <1>2, Numbers DEF SInv, ShellsBoot, Boots, Booting, Resting, NewShell, InBoot,
     Free, PollAt, StartAt
<1>8. OneHolder'
  BY <1>1, <1>2, Numbers DEF SInv, OneHolder, Holds, InBoot, Free, PollAt, ActiveAt
<1>9. StopsFirst'
  BY <1>1, <1>2, Numbers DEF SInv, StopsFirst, Stopping, Holds, InBoot, Free, PollAt, ActiveAt
<1>10. StopIsThere'
  BY <1>1, <1>2 DEF SInv, StopIsThere, PollAt
<1>11. ASSUME NEW q \in Procs, Fresh(q)' PROVE LastOf(q)' /\ Hands(asked[q].sh - 1, q)'
  <2>1. Fresh(q) /\ q # c0
    BY <1>1, <1>2, <1>11 DEF Fresh, Free, PollAt
  <2>2. /\ Hands(asked[q].sh - 1, q) /\ LastOf(q)
        /\ asked[q].sh - 1 \in Procs /\ asked[q].sh - 1 # c0
    BY <1>1, <2>1, FreshCommand, Numbers DEF Hands, PollAt, Free
  <2> QED BY <1>2, <2>1, <2>2 DEF Hands, Free, LastOf
<1>12. HasCommand'
  BY <1>1, <1>2 DEF SInv, HasCommand, LastOf, PollAt
<1>13. Informed'
  BY <1>1, <1>2 DEF SInv, Informed, Free, PollAt
<1>14. LastReport'
  BY <1>1, <1>2 DEF SInv, LastReport, Free, PollAt
<1>15. ReportIsThere'
  BY <1>1, <1>2 DEF SInv, ReportIsThere, PollAt
<1> QED BY <1>3, <1>4, <1>5, <1>6, <1>7, <1>8, <1>9, <1>10, <1>11, <1>12, <1>13,
   <1>14, <1>15 DEF SInv, Handshakes

\* The place in its program tells what a process is.
LEMMA Whose ==
    ASSUME KInv, SInv, NEW p \in Procs
    PROVE  /\ pc[p] \in MainAt => p = Main
           /\ pc[p] \in ShellAt => IsShell(p) /\ p <= maxId /\ p # Main /\ p # Screen /\ ~IsCommand(p)
           /\ pc[p] \in ScreenAt => p = Screen /\ p <= maxId /\ p # Main /\ ~IsShell(p) /\ ~IsCommand(p)
           /\ pc[p] \in CommandAt => IsCommand(p) /\ p <= maxId /\ p # Main /\ p # Screen /\ ~IsShell(p)
           /\ p = Main \/ IsShell(p) \/ p = Screen \/ IsCommand(p)
           /\ p \in Nat /\ p <= maxId => p \in 0 .. maxId
           /\ IsShell(p) => p + 1 \in ShellIds /\ 11 + p \in ReportCh
<1>1. maxId \in Nat /\ p \in Nat /\ NumShells \in Nat /\ Main = 0
  BY NumberedProcesses, Numbers
<1>2. p = Main \/ IsShell(p) \/ p = Screen \/ IsCommand(p)
  BY <1>1 DEF IsShell, Screen, IsCommand
<1>3. KindOf(p) /\ pc[Main] \in MainAt
  BY DEF SInv, Kinds, MainIsAt
<1>4. CASE p = Main
  BY <1>1, <1>3, <1>4 DEF MainAt, BootAt, ShellAt, StartAt, ActiveAt, ScreenAt, CommandAt, IsShell
<1>5. CASE IsShell(p)
  BY <1>1, <1>3, <1>5 DEF KindOf, IsShell, Screen, IsCommand, ShellIds, ReportCh,
     MainAt, BootAt, ShellAt, StartAt, ActiveAt, ScreenAt, CommandAt
<1>6. CASE p = Screen
  BY <1>1, <1>3, <1>6 DEF KindOf, IsShell, Screen, IsCommand,
     MainAt, BootAt, ShellAt, StartAt, ActiveAt, ScreenAt, CommandAt
<1>7. CASE IsCommand(p)
  BY <1>1, <1>3, <1>7 DEF KindOf, IsShell, Screen, IsCommand,
     MainAt, BootAt, ShellAt, StartAt, ActiveAt, ScreenAt, CommandAt
<1> QED BY <1>1, <1>2, <1>4, <1>5, <1>6, <1>7

\* A shell takes the report that it has seen.
LEMMA ShellTakesReport ==
    ASSUME KInv, SInv, NEW l2 \in {"waitTaken", "pollStop"}, Goto(l2), UNCHANGED Locals,
           pc[c0] \in {"waitTake", "takeDone"}, NEW s \in Procs, Taken(11 + c0, s)
    PROVE  SInv'
<1>1. /\ c0 \in Procs /\ c0 \in 0 .. maxId /\ Free(c0) /\ IsShell(c0)
      /\ c0 # Main /\ c0 # Screen /\ ~IsCommand(c0)
      /\ \A p \in Procs : Holds(p) => p = c0
      /\ ~InBoot
  BY ShellHolds DEF ActiveAt
<1>2. /\ \A p \in Procs : pc'[p] = IF p = c0 THEN l2 ELSE pc[p]
      /\ \A p \in Procs : sends'[p] = IF p = s THEN NoChannel ELSE sends[p]
      /\ \A p \in Procs : received'[p] = IF p = c0 THEN value[11 + c0] ELSE received[p]
      /\ reads' = reads /\ value' = value
      /\ maxId' = maxId /\ currentId' = currentId
      /\ myId' = myId /\ job' = job /\ asked' = asked
      /\ IsCommand(s) /\ s # c0 /\ s # Main /\ s # Screen /\ ~IsShell(s)
      /\ sends[s] = 11 + c0 /\ asked[s].sh = c0 + 1 /\ pc[s] \in {"printed", "exit"}
      /\ pc[s] = "printed" => value[11 + c0] = Zero
      /\ reads[s] = NoChannel
  <2>1. sends \in [Procs -> Channels \cup {NoChannel}] /\ received \in [Procs -> Values \cup {NoValue}]
    BY Links, NumberedProcesses DEF TypeOK
  <2>2. SendsAt(s, 11 + c0, pc[s]) /\ sends[s] = 11 + c0
    BY DEF SInv, Places, Taken
  <2>3. 11 + c0 \in ReportCh
    BY <1>1, Numbers DEF IsShell, ReportCh
  <2>4. IsCommand(s) /\ asked[s].sh \in Int /\ 11 + c0 = 10 + asked[s].sh /\ pc[s] \in {"printed", "exit"}
    BY <1>1, <2>2, <2>3, Numbers DEF SendsAt, IsShell, ReportCh, ShellIds, SInv, Typed
  <2>5. pc[s] = "printed" => value[11 + c0] = Zero
    BY <2>2, <2>3, Numbers DEF SInv, LastReport, Free
  <2>6. reads[s] = NoChannel
    BY <2>2, <2>3, Links, Numbers
  <2> QED BY <1>1, <2>1, <2>2, <2>4, <2>5, <2>6, Numbers DEF SInv, Typed, Goto, Taken, Locals,
     IsCommand, IsShell, Screen
<1>3. Typed'
  BY <1>1, <1>2, Numbers DEF SInv, Typed, Labels, ShellAt, ActiveAt, ScreenAt,
     CommandAt, MainAt, BootAt, Goto
<1>4. Kinds'
  BY <1>1, <1>2, Numbers DEF SInv, Kinds, KindOf, ShellAt, StartAt, ActiveAt,
     ScreenAt, CommandAt, IsShell, IsCommand, Screen
<1>5. MainIsAt'
  BY <1>1, <1>2, Numbers DEF SInv, MainIsAt, InBoot, MainAt, BootAt
<1>6. Places'
  BY <1>1, <1>2, Numbers DEF SInv, Places, SendsAt, ReadsAt, Free, IsShell, IsCommand,
     Screen, ShellIds, ReportCh
<1>7. ShellsBoot'
  BY <1>1, <1>2, Numbers DEF SInv, ShellsBoot, Boots, Booting, Resting, NewShell,
     InBoot, Free, StartAt, ActiveAt
<1>8. OneHolder'
  BY <1>1, <1>2, Numbers DEF SInv, OneHolder, Holds, InBoot, Free, ActiveAt
<1>9. StopsFirst'
  BY <1>1, <1>2, Numbers DEF SInv, StopsFirst, Stopping, Holds, InBoot, Free, ActiveAt
<1>10. StopIsThere'
  BY <1>1, <1>2, Numbers DEF SInv, StopIsThere
<1>11. ASSUME NEW q \in Procs, Fresh(q)' PROVE LastOf(q)' /\ Hands(asked[q].sh - 1, q)'
  <2>1. Fresh(q) /\ q # c0
    BY <1>1, <1>2, Numbers, <1>11 DEF Fresh, Free
  <2>2. /\ Hands(asked[q].sh - 1, q) /\ LastOf(q) /\ IsCommand(q)
        /\ asked[q].sh - 1 \in Procs /\ asked[q].sh - 1 # c0
    BY <1>1, <1>2, Numbers, <2>1, FreshCommand DEF Hands, Free
  <2> QED BY <1>1, <1>2, Numbers, <2>1, <2>2 DEF Hands, Free, LastOf
<1>12. HasCommand'
  BY <1>1, <1>2, Numbers DEF SInv, HasCommand, LastOf
<1>13. Informed'
  BY <1>1, <1>2, Numbers DEF SInv, Informed, Free
<1>14. ASSUME NEW q \in Procs, (pc[q] = "printed" /\ ~Free(q))' PROVE (value[sends[q]] = Zero)'
  BY <1>1, <1>2, <1>14, Numbers DEF SInv, LastReport, Free
<1>15. ReportIsThere'
  BY <1>1, <1>2, Numbers DEF SInv, ReportIsThere
<1> QED BY <1>3, <1>4, <1>5, <1>6, <1>7, <1>8, <1>9, <1>10, <1>11, <1>12, <1>13,
   <1>14, <1>15 DEF SInv, Handshakes, LastReport

\* A command that runs has no right to the keyboard and comes after the boot.
LEMMA CommandFacts ==
    ASSUME KInv, SInv, pc[c0] \in CommandAt
    PROVE  /\ c0 \in Procs /\ c0 \in 0 .. maxId /\ Free(c0) /\ IsCommand(c0)
           /\ c0 # Main /\ c0 # Screen /\ ~IsShell(c0) /\ ~Holds(c0) /\ ~InBoot
           /\ asked[c0].sh \in ShellIds /\ asked[c0].fn \in Functions
           /\ maxId > NumShells + 1
<1>1. /\ c0 \in Procs /\ c0 \in 0 .. maxId /\ Free(c0) /\ IsCommand(c0)
      /\ c0 # Main /\ c0 # Screen /\ ~IsShell(c0)
  BY Who
<1>2. ~Holds(c0)
  BY <1>1 DEF Holds
<1>3. maxId > NumShells + 1 /\ maxId \in Nat /\ NumShells \in Nat
  BY <1>1, NumberedProcesses, Numbers DEF IsCommand
<1>4. ~InBoot
  BY <1>3 DEF SInv, MainIsAt, InBoot, BootAt
<1>5. asked[c0].sh \in ShellIds /\ asked[c0].fn \in Functions
  BY <1>1 DEF SInv, Kinds, KindOf
<1> QED BY <1>1, <1>2, <1>3, <1>4, <1>5

\* A command computes, or sends in vain to a channel that has an offer already.
LEMMA CommandRuns ==
    ASSUME KInv, SInv, Quiet, NEW l2, Goto(l2), UNCHANGED <<currentId, job, asked>>,
           \/ At("cmdNumbered") /\ l2 = "run" /\ myId' = [myId EXCEPT ![c0] = received[c0]]
           \/ At("run") /\ l2 \in {"run", "playing", "ended", "dead"} /\ myId' = myId
           \/ At("ended") /\ l2 = "printed" /\ myId' = myId
           \/ At("printed") /\ l2 = "exit" /\ myId' = myId
           \/ At("exit") /\ l2 = "dead" /\ myId' = myId
    PROVE  SInv'
<1>1. /\ c0 \in Procs /\ c0 \in 0 .. maxId /\ Free(c0) /\ IsCommand(c0)
      /\ c0 # Main /\ c0 # Screen /\ ~IsShell(c0) /\ ~Holds(c0) /\ ~InBoot
      /\ asked[c0].sh \in ShellIds /\ asked[c0].fn \in Functions
  BY CommandFacts DEF CommandAt, At
<1>2. /\ \A p \in Procs : pc'[p] = IF p = c0 THEN l2 ELSE pc[p]
      /\ \A p \in Procs : p # c0 => myId'[p] = myId[p]
      /\ sends' = sends /\ reads' = reads /\ value' = value /\ received' = received
      /\ maxId' = maxId /\ currentId' = currentId /\ job' = job /\ asked' = asked
      /\ \/ pc[c0] = "cmdNumbered" /\ l2 = "run" /\ myId'[c0] = received[c0]
         \/ pc[c0] = "run" /\ l2 \in {"run", "playing", "ended", "dead"} /\ myId'[c0] = myId[c0]
         \/ pc[c0] = "ended" /\ l2 = "printed" /\ myId'[c0] = myId[c0]
         \/ pc[c0] = "printed" /\ l2 = "exit" /\ myId'[c0] = myId[c0]
         \/ pc[c0] = "exit" /\ l2 = "dead" /\ myId'[c0] = myId[c0]
      /\ myId' \in [Procs -> Values \cup {NoValue, 0}]
  <2>1. /\ received \in [Procs -> Values \cup {NoValue}] /\ pc \in [Procs -> Labels]
        /\ myId \in [Procs -> Values \cup {NoValue, 0}]
    BY NumberedProcesses DEF SInv, Typed, TypeOK
  <2>2. myId' = myId \/ myId' = [myId EXCEPT ![c0] = received[c0]]
    OBVIOUS
  <2>3. myId' \in [Procs -> Values \cup {NoValue, 0}] /\ \A p \in Procs : p # c0 => myId'[p] = myId[p]
    BY <1>1, <2>1, <2>2
  <2>4. \A p \in Procs : pc'[p] = IF p = c0 THEN l2 ELSE pc[p]
    BY <1>1, <2>1 DEF Goto
  <2> QED BY <1>1, <2>1, <2>3, <2>4 DEF Quiet, At
<1>3. Typed'
  BY <1>1, <1>2, Numbers DEF SInv, Typed, Labels, ShellAt, ActiveAt, ScreenAt,
     CommandAt, MainAt, BootAt, Goto
<1>4. Kinds'
  BY <1>1, <1>2, Numbers DEF SInv, Kinds, KindOf, ShellAt, StartAt, ActiveAt,
     ScreenAt, CommandAt, IsShell, IsCommand, Screen
<1>5. MainIsAt'
  BY <1>1, <1>2, Numbers DEF SInv, MainIsAt, InBoot, MainAt, BootAt
<1>6. Places'
  BY <1>1, <1>2, Numbers DEF SInv, Places, SendsAt, ReadsAt, Free, IsShell, IsCommand,
     Screen, ShellIds, ReportCh
<1>7. ShellsBoot'
  BY <1>1, <1>2, Numbers DEF SInv, ShellsBoot, Boots, Booting, Resting, NewShell,
     InBoot, Free, StartAt, ActiveAt
<1>8. OneHolder'
  BY <1>1, <1>2, Numbers DEF SInv, OneHolder, Holds, InBoot, Free, ActiveAt
<1>9. StopsFirst'
  <2> SUFFICES ASSUME Stopping', NEW p \in Procs, Holds(p)'
               PROVE  (pc[p] \in {"tookStop", "snakeTook", "shellOff", "snake"})'
    BY DEF StopsFirst
  <2>1. Stopping
    BY <1>1, <1>2, Numbers DEF Stopping, Free
  <2>2. p # c0
    BY <1>1, <1>2, Numbers DEF Holds, ActiveAt
  <2>3. Holds(p)
    BY <1>1, <1>2, <2>2, Numbers DEF Holds, InBoot, Free
  <2> QED BY <1>2, <2>1, <2>2, <2>3 DEF SInv, StopsFirst
<1>10. StopIsThere'
  BY <1>1, <1>2, Numbers DEF SInv, StopIsThere
<1>11. ASSUME NEW q \in Procs, Fresh(q)' PROVE LastOf(q)' /\ Hands(asked[q].sh - 1, q)'
  <2>1. Fresh(q) /\ q # c0
    BY <1>1, <1>2, Numbers, <1>11 DEF Fresh, Free
  <2>2. /\ Hands(asked[q].sh - 1, q) /\ LastOf(q) /\ IsCommand(q)
        /\ asked[q].sh - 1 \in Procs /\ asked[q].sh - 1 # c0
    BY <1>1, <1>2, Numbers, <2>1, FreshCommand DEF Hands, Free
  <2> QED BY <1>1, <1>2, Numbers, <2>1, <2>2 DEF Hands, Free, LastOf
<1>12. HasCommand'
  BY <1>1, <1>2, Numbers DEF SInv, HasCommand, LastOf
<1>13. Informed'
  BY <1>1, <1>2, Numbers DEF SInv, Informed, Free
<1>14. LastReport'
  BY <1>1, <1>2, Numbers DEF SInv, LastReport, Free
<1>15. ReportIsThere'
  BY <1>1, <1>2, Numbers DEF SInv, ReportIsThere
<1> QED BY <1>3, <1>4, <1>5, <1>6, <1>7, <1>8, <1>9, <1>10, <1>11, <1>12, <1>13,
   <1>14, <1>15 DEF SInv, Handshakes

\* A command waits for its message to be taken.
LEMMA CommandOffers ==
    ASSUME KInv, SInv, NEW l2, Goto(l2), UNCHANGED Locals, NEW ch, NEW v \in {Zero, DEAD}, Offered(ch, v),
           \/ At("run") /\ l2 = "playing" /\ ch = 42
           \/ At("ended") /\ l2 = "printed" /\ ch = 10 + asked[c0].sh /\ v = Zero
           \/ At("printed") /\ l2 = "exit" /\ ch = 10 + asked[c0].sh
    PROVE  SInv'
<1>1. /\ c0 \in Procs /\ c0 \in 0 .. maxId /\ Free(c0) /\ IsCommand(c0)
      /\ c0 # Main /\ c0 # Screen /\ ~IsShell(c0) /\ ~Holds(c0) /\ ~InBoot
      /\ asked[c0].sh \in ShellIds /\ asked[c0].fn \in Functions
  BY CommandFacts DEF CommandAt, At
<1>2. /\ \A p \in Procs : pc'[p] = IF p = c0 THEN l2 ELSE pc[p]
      /\ \A p \in Procs : sends'[p] = IF p = c0 THEN ch ELSE sends[p]
      /\ value'[1] = value[1] /\ value'[ch] = v
      /\ \A k \in Channels : k # ch => value'[k] = value[k]
      /\ \A p \in Procs : sends[p] # ch /\ reads[p] # ch
      /\ reads' = reads /\ received' = received
      /\ maxId' = maxId /\ currentId' = currentId
      /\ myId' = myId /\ job' = job /\ asked' = asked
      /\ \/ pc[c0] = "run" /\ l2 = "playing" /\ ch = 42
         \/ pc[c0] = "ended" /\ l2 = "printed" /\ ch = 10 + asked[c0].sh /\ v = Zero
         \/ pc[c0] = "printed" /\ l2 = "exit" /\ ch = 10 + asked[c0].sh
      /\ ch \in {42} \cup ReportCh /\ ch \notin {0, 1, 43} \cup ShellIds /\ ch \in Channels
      /\ \A p \in Procs : sends[p] \in Channels \cup {NoChannel}
  <2>1. /\ sends \in [Procs -> Channels \cup {NoChannel}]
        /\ value \in [Channels -> Values \cup {NoValue}]
    BY Links
  <2>2. ch \in {42} \cup ReportCh /\ ch \notin {0, 1, 43} \cup ShellIds /\ ch \in Channels
    BY <1>1, Numbers DEF ReportCh, ShellIds
  <2> QED BY <1>1, <2>1, <2>2, Numbers DEF SInv, Typed, Goto, Offered, Locals, At
<1>3. Typed'
  BY <1>1, <1>2, Numbers DEF SInv, Typed, Labels, ShellAt, ActiveAt, ScreenAt,
     CommandAt, MainAt, BootAt, Goto
<1>4. Kinds'
  BY <1>1, <1>2, Numbers DEF SInv, Kinds, KindOf, ShellAt, StartAt, ActiveAt,
     ScreenAt, CommandAt, IsShell, IsCommand, Screen
<1>5. MainIsAt'
  BY <1>1, <1>2, Numbers DEF SInv, MainIsAt, InBoot, MainAt, BootAt
<1>6. Places'
  BY <1>1, <1>2, Numbers DEF SInv, Places, SendsAt, ReadsAt, Free, IsShell, IsCommand,
     Screen, ShellIds, ReportCh
<1>7. ShellsBoot'
  BY <1>1, <1>2, Numbers DEF SInv, ShellsBoot, Boots, Booting, Resting, NewShell,
     InBoot, Free, StartAt, ActiveAt
<1>8. OneHolder'
  BY <1>1, <1>2, Numbers DEF SInv, OneHolder, Holds, InBoot, Free, ActiveAt
<1>9. StopsFirst'
  <2> SUFFICES ASSUME Stopping', NEW p \in Procs, Holds(p)'
               PROVE  (pc[p] \in {"tookStop", "snakeTook", "shellOff", "snake"})'
    BY DEF StopsFirst
  <2>1. Stopping
    BY <1>1, <1>2, Numbers DEF Stopping, Free
  <2>2. p # c0
    BY <1>1, <1>2, Numbers DEF Holds, ActiveAt
  <2>3. Holds(p)
    BY <1>1, <1>2, <2>2, Numbers DEF Holds, InBoot, Free
  <2> QED BY <1>2, <2>1, <2>2, <2>3 DEF SInv, StopsFirst
<1>10. StopIsThere'
  BY <1>1, <1>2, Numbers DEF SInv, StopIsThere
<1>11. ASSUME NEW q \in Procs, Fresh(q)' PROVE LastOf(q)' /\ Hands(asked[q].sh - 1, q)'
  <2>1. Fresh(q) /\ q # c0
    BY <1>1, <1>2, Numbers, <1>11 DEF Fresh, Free
  <2>2. /\ Hands(asked[q].sh - 1, q) /\ LastOf(q) /\ IsCommand(q)
        /\ asked[q].sh - 1 \in Procs /\ asked[q].sh - 1 # c0
    BY <1>1, <1>2, Numbers, <2>1, FreshCommand DEF Hands, Free
  <2> QED BY <1>1, <1>2, Numbers, <2>1, <2>2 DEF Hands, Free, LastOf
<1>12. HasCommand'
  BY <1>1, <1>2, Numbers DEF SInv, HasCommand, LastOf
<1>13. Informed'
  BY <1>1, <1>2, Numbers DEF SInv, Informed, Free
<1>14. ASSUME NEW q \in Procs, (pc[q] = "printed" /\ ~Free(q))' PROVE (value[sends[q]] = Zero)'
  <2>1. CASE q = c0
    BY <1>1, <1>2, <1>14, <2>1, Numbers DEF Free
  <2>2. CASE q # c0
    <3>1. pc[q] = "printed" /\ ~Free(q) /\ value[sends[q]] = Zero /\ sends[q] # ch
      BY <1>1, <1>2, <1>14, <2>2 DEF SInv, LastReport, Free
    <3>2. sends[q] \in Channels
      BY <1>2, <3>1, Numbers DEF SInv, Places, ReadsAt, Free
    <3> QED BY <1>2, <2>2, <3>1, <3>2
  <2> QED BY <2>1, <2>2
<1>15. ASSUME NEW p \in Procs, pc'[p] \in {"waitTake", "takeDone"}
       PROVE  \E q \in Procs : sends'[q] = 11 + p
  <2>1. PICK q \in Procs : sends[q] = 11 + p
    BY <1>1, <1>2, <1>15 DEF SInv, ReportIsThere
  <2>2. p \in Nat /\ 11 + p # NoChannel
    BY <1>15, <1>2, <2>1, Numbers, Whose DEF ShellAt, ActiveAt
  <2> QED BY <1>1, <1>2, <2>1, <2>2 DEF Free
<1> QED BY <1>3, <1>4, <1>5, <1>6, <1>7, <1>8, <1>9, <1>10, <1>11, <1>12, <1>13,
   <1>14, <1>15 DEF SInv, Handshakes, LastReport, ReportIsThere

\* A command asks snake for a game, and snake gets the message.
LEMMA CommandPasses ==
    ASSUME KInv, SInv, Goto("playing"), UNCHANGED Locals, NEW v \in {Zero, DEAD},
           At("run"), NEW r \in Procs, Passed(42, v, r)
    PROVE  SInv'
<1>1. /\ c0 \in Procs /\ c0 \in 0 .. maxId /\ Free(c0) /\ IsCommand(c0)
      /\ c0 # Main /\ c0 # Screen /\ ~IsShell(c0) /\ ~Holds(c0) /\ ~InBoot
      /\ asked[c0].sh \in ShellIds /\ asked[c0].fn \in Functions
  BY CommandFacts DEF CommandAt, At
<1>2. /\ \A p \in Procs : pc'[p] = IF p = c0 THEN "playing" ELSE pc[p]
      /\ \A p \in Procs : reads'[p] = IF p = r THEN NoChannel ELSE reads[p]
      /\ \A p \in Procs : received'[p] = IF p = r THEN v ELSE received[p]
      /\ \A k \in Channels : k # 42 => value'[k] = value[k]
      /\ sends' = sends
      /\ maxId' = maxId /\ currentId' = currentId
      /\ myId' = myId /\ job' = job /\ asked' = asked
      /\ pc[c0] = "run"
      /\ \A p \in Procs : sends[p] \in Channels \cup {NoChannel} /\ sends[p] # 42
      /\ r # c0 /\ reads[r] = 42 /\ sends[r] = NoChannel
      /\ \/ r = Screen /\ pc[r] = "snake" /\ r # Main /\ ~IsShell(r) /\ ~IsCommand(r)
         \/ pc[r] = "ended" /\ IsCommand(r) /\ r # Main /\ ~IsShell(r) /\ r # Screen
  <2>1. /\ sends \in [Procs -> Channels \cup {NoChannel}]
        /\ value \in [Channels -> Values \cup {NoValue}]
        /\ reads \in [Procs -> Channels \cup {NoChannel}]
        /\ received \in [Procs -> Values \cup {NoValue}]
        /\ reads[r] = 42 /\ sends[r] = NoChannel /\ r # c0
    BY Links, NumberedProcesses, Numbers DEF TypeOK, Passed
  <2>2. \/ r = Screen /\ pc[r] = "snake" /\ r # Main /\ ~IsShell(r) /\ ~IsCommand(r)
        \/ pc[r] = "ended" /\ IsCommand(r) /\ r # Main /\ ~IsShell(r) /\ r # Screen
    <3>1. ReadsAt(r, 42, pc[r])
      BY <2>1 DEF SInv, Places
    <3> QED BY <3>1, Whose, Numbers DEF ReadsAt, ScreenAt, CommandAt, ShellIds
  <2> QED BY <1>1, <2>1, <2>2, Numbers DEF SInv, Typed, Goto, Passed, Locals, At
<1>3. Typed'
  BY <1>1, <1>2, Numbers DEF SInv, Typed, Labels, ShellAt, ActiveAt, ScreenAt,
     CommandAt, MainAt, BootAt, Goto
<1>4. Kinds'
  BY <1>1, <1>2, Numbers DEF SInv, Kinds, KindOf, ShellAt, StartAt, ActiveAt,
     ScreenAt, CommandAt, IsShell, IsCommand, Screen
<1>5. MainIsAt'
  BY <1>1, <1>2, Numbers DEF SInv, MainIsAt, InBoot, MainAt, BootAt
<1>6. Places'
  BY <1>1, <1>2, Numbers DEF SInv, Places, SendsAt, ReadsAt, Free, IsShell, IsCommand,
     Screen, ShellIds, ReportCh
<1>7. ShellsBoot'
  BY <1>1, <1>2, Numbers DEF SInv, ShellsBoot, Boots, Booting, Resting, NewShell,
     InBoot, Free, StartAt, ActiveAt
<1>8. OneHolder'
  BY <1>1, <1>2, Numbers DEF SInv, OneHolder, Holds, InBoot, Free, ActiveAt
<1>9. ASSUME Stopping', NEW p \in Procs, Holds(p)'
      PROVE  pc'[p] \in {"tookStop", "snakeTook", "shellOff", "snake"}
  <2>1. Stopping
    BY <1>1, <1>2, <1>9, Numbers DEF Stopping, Free
  <2>2. Holds(p)
    BY <1>1, <1>2, <1>9, Numbers DEF Holds, Free, InBoot, ActiveAt
  <2> QED BY <1>1, <1>2, <2>1, <2>2, Numbers DEF SInv, StopsFirst, ActiveAt
<1>10. StopIsThere'
  BY <1>1, <1>2, Numbers DEF SInv, StopIsThere
<1>11. ASSUME NEW q \in Procs, Fresh(q)' PROVE LastOf(q)' /\ Hands(asked[q].sh - 1, q)'
  <2>1. Fresh(q) /\ q # c0
    BY <1>1, <1>2, Numbers, <1>11 DEF Fresh, Free
  <2>2. /\ Hands(asked[q].sh - 1, q) /\ LastOf(q) /\ IsCommand(q)
        /\ asked[q].sh - 1 \in Procs /\ asked[q].sh - 1 # c0 /\ asked[q].sh - 1 # r
    BY <1>1, <1>2, Numbers, <2>1, FreshCommand DEF Hands, Free, IsShell
  <2>3. q # r /\ value'[1] = value[1]
    BY <1>2, <2>1, <2>2, Numbers DEF Fresh, Free
  <2> QED BY <1>1, <1>2, Numbers, <2>1, <2>2, <2>3 DEF Hands, Free, LastOf
<1>12. HasCommand'
  BY <1>1, <1>2, Numbers DEF SInv, HasCommand, LastOf
<1>13. Informed'
  BY <1>1, <1>2, Numbers DEF SInv, Informed, Free
<1>14. ASSUME NEW q \in Procs, (pc[q] = "printed" /\ ~Free(q))' PROVE (value[sends[q]] = Zero)'
  <2>1. q # c0 /\ q # r /\ pc[q] = "printed" /\ ~Free(q) /\ value[sends[q]] = Zero
    BY <1>1, <1>2, <1>14 DEF SInv, LastReport, Free
  <2>2. sends[q] \in Channels
    BY <1>2, <2>1, Numbers DEF SInv, Places, ReadsAt, Free
  <2> QED BY <1>2, <2>1, <2>2
<1>15. ReportIsThere'
  BY <1>1, <1>2, Numbers DEF SInv, ReportIsThere
<1> QED BY <1>3, <1>4, <1>5, <1>6, <1>7, <1>8, <1>9, <1>10, <1>11, <1>12, <1>13,
   <1>14, <1>15 DEF SInv, StopsFirst, Handshakes, LastReport

\* A command waits for the end of its game.
LEMMA CommandAwaitsGame ==
    ASSUME KInv, SInv, Goto("ended"), UNCHANGED Locals, At("playing"), Awaited(42)
    PROVE  SInv'
<1>1. /\ c0 \in Procs /\ c0 \in 0 .. maxId /\ Free(c0) /\ IsCommand(c0)
      /\ c0 # Main /\ c0 # Screen /\ ~IsShell(c0) /\ ~Holds(c0) /\ ~InBoot
      /\ asked[c0].sh \in ShellIds /\ asked[c0].fn \in Functions
  BY CommandFacts DEF CommandAt, At
<1>2. /\ \A p \in Procs : pc'[p] = IF p = c0 THEN "ended" ELSE pc[p]
      /\ \A p \in Procs : reads'[p] = IF p = c0 THEN 42 ELSE reads[p]
      /\ \A p \in Procs : sends[p] # 42
      /\ sends' = sends /\ received' = received /\ value' = value
      /\ maxId' = maxId /\ currentId' = currentId
      /\ myId' = myId /\ job' = job /\ asked' = asked
      /\ pc[c0] = "playing"
  BY <1>1, Links DEF SInv, Typed, Goto, Awaited, Locals, At
<1>3. Typed'
  BY <1>1, <1>2, Numbers DEF SInv, Typed, Labels, ShellAt, ActiveAt, ScreenAt,
     CommandAt, MainAt, BootAt, Goto
<1>4. Kinds'
  BY <1>1, <1>2, Numbers DEF SInv, Kinds, KindOf, ShellAt, StartAt, ActiveAt,
     ScreenAt, CommandAt, IsShell, IsCommand, Screen
<1>5. MainIsAt'
  BY <1>1, <1>2, Numbers DEF SInv, MainIsAt, InBoot, MainAt, BootAt
<1>6. Places'
  BY <1>1, <1>2, Numbers DEF SInv, Places, SendsAt, ReadsAt, Free, IsShell, IsCommand,
     Screen, ShellIds, ReportCh
<1>7. ShellsBoot'
  BY <1>1, <1>2, Numbers DEF SInv, ShellsBoot, Boots, Booting, Resting, NewShell,
     InBoot, Free, StartAt, ActiveAt
<1>8. OneHolder'
  BY <1>1, <1>2, Numbers DEF SInv, OneHolder, Holds, InBoot, Free, ActiveAt
<1>9. StopsFirst'
  BY <1>1, <1>2, Numbers DEF SInv, StopsFirst, Stopping, Holds, InBoot, Free, ActiveAt
<1>10. StopIsThere'
  BY <1>1, <1>2, Numbers DEF SInv, StopIsThere
<1>11. ASSUME NEW q \in Procs, Fresh(q)' PROVE LastOf(q)' /\ Hands(asked[q].sh - 1, q)'
  <2>1. Fresh(q) /\ q # c0
    BY <1>1, <1>2, Numbers, <1>11 DEF Fresh, Free
  <2>2. /\ Hands(asked[q].sh - 1, q) /\ LastOf(q) /\ IsCommand(q)
        /\ asked[q].sh - 1 \in Procs /\ asked[q].sh - 1 # c0
    BY <1>1, <1>2, Numbers, <2>1, FreshCommand DEF Hands, Free
  <2> QED BY <1>1, <1>2, Numbers, <2>1, <2>2 DEF Hands, Free, LastOf
<1>12. HasCommand'
  BY <1>1, <1>2, Numbers DEF SInv, HasCommand, LastOf
<1>13. Informed'
  BY <1>1, <1>2, Numbers DEF SInv, Informed, Free
<1>14. LastReport'
  BY <1>1, <1>2, Numbers DEF SInv, LastReport, Free
<1>15. ReportIsThere'
  BY <1>1, <1>2, Numbers DEF SInv, ReportIsThere
<1> QED BY <1>3, <1>4, <1>5, <1>6, <1>7, <1>8, <1>9, <1>10, <1>11, <1>12, <1>13,
   <1>14, <1>15 DEF SInv, Handshakes

\* A command that waits for the end of its game takes what another process sends to snake.
LEMMA CommandTakesGame ==
    ASSUME KInv, SInv, Goto("ended"), UNCHANGED Locals, At("playing"), NEW s \in Procs, Taken(42, s)
    PROVE  SInv'
<1>1. /\ c0 \in Procs /\ c0 \in 0 .. maxId /\ Free(c0) /\ IsCommand(c0)
      /\ c0 # Main /\ c0 # Screen /\ ~IsShell(c0) /\ ~Holds(c0) /\ ~InBoot
      /\ asked[c0].sh \in ShellIds /\ asked[c0].fn \in Functions
  BY CommandFacts DEF CommandAt, At
<1>2. /\ \A p \in Procs : pc'[p] = IF p = c0 THEN "ended" ELSE pc[p]
      /\ \A p \in Procs : sends'[p] = IF p = s THEN NoChannel ELSE sends[p]
      /\ \A p \in Procs : p # c0 => received'[p] = received[p]
      /\ reads' = reads /\ value' = value
      /\ maxId' = maxId /\ currentId' = currentId
      /\ myId' = myId /\ job' = job /\ asked' = asked
      /\ pc[c0] = "playing"
      /\ s # c0 /\ sends[s] = 42 /\ reads[s] = NoChannel
      /\ \/ s = Screen /\ pc[s] = "screen" /\ s # Main /\ ~IsShell(s) /\ ~IsCommand(s)
         \/ pc[s] = "playing" /\ IsCommand(s) /\ s # Main /\ ~IsShell(s) /\ s # Screen
  <2>1. /\ sends \in [Procs -> Channels \cup {NoChannel}]
        /\ value \in [Channels -> Values \cup {NoValue}]
        /\ received \in [Procs -> Values \cup {NoValue}]
        /\ sends[s] = 42 /\ reads[s] = NoChannel /\ s # c0
    BY Links, NumberedProcesses, Numbers DEF TypeOK, Taken
  <2>2. \/ s = Screen /\ pc[s] = "screen" /\ s # Main /\ ~IsShell(s) /\ ~IsCommand(s)
        \/ pc[s] = "playing" /\ IsCommand(s) /\ s # Main /\ ~IsShell(s) /\ s # Screen
    <3>1. SendsAt(s, 42, pc[s])
      BY <2>1 DEF SInv, Places
    <3> QED BY <3>1, Whose, Numbers DEF SendsAt, ScreenAt, CommandAt, ShellIds, ReportCh
  <2> QED BY <1>1, <2>1, <2>2, Numbers DEF SInv, Typed, Goto, Taken, Locals, At
<1>3. Typed'
  BY <1>1, <1>2, Numbers DEF SInv, Typed, Labels, ShellAt, ActiveAt, ScreenAt,
     CommandAt, MainAt, BootAt, Goto
<1>4. Kinds'
  BY <1>1, <1>2, Numbers DEF SInv, Kinds, KindOf, ShellAt, StartAt, ActiveAt,
     ScreenAt, CommandAt, IsShell, IsCommand, Screen
<1>5. MainIsAt'
  BY <1>1, <1>2, Numbers DEF SInv, MainIsAt, InBoot, MainAt, BootAt
<1>6. Places'
  BY <1>1, <1>2, Numbers DEF SInv, Places, SendsAt, ReadsAt, Free, IsShell, IsCommand,
     Screen, ShellIds, ReportCh
<1>7. ShellsBoot'
  BY <1>1, <1>2, Numbers DEF SInv, ShellsBoot, Boots, Booting, Resting, NewShell,
     InBoot, Free, StartAt, ActiveAt
<1>8. OneHolder'
  BY <1>1, <1>2, Numbers DEF SInv, OneHolder, Holds, InBoot, Free, ActiveAt
<1>9. StopsFirst'
  BY <1>1, <1>2, Numbers DEF SInv, StopsFirst, Stopping, Holds, InBoot, Free, ActiveAt
<1>10. StopIsThere'
  BY <1>1, <1>2, Numbers DEF SInv, StopIsThere
<1>11. ASSUME NEW q \in Procs, Fresh(q)' PROVE LastOf(q)' /\ Hands(asked[q].sh - 1, q)'
  <2>1. Fresh(q) /\ q # c0
    BY <1>1, <1>2, Numbers, <1>11 DEF Fresh, Free
  <2>2. /\ Hands(asked[q].sh - 1, q) /\ LastOf(q) /\ IsCommand(q)
        /\ asked[q].sh - 1 \in Procs /\ asked[q].sh - 1 # c0
    BY <1>1, <1>2, Numbers, <2>1, FreshCommand DEF Hands, Free
  <2> QED BY <1>1, <1>2, Numbers, <2>1, <2>2 DEF Hands, Free, LastOf
<1>12. HasCommand'
  BY <1>1, <1>2, Numbers DEF SInv, HasCommand, LastOf
<1>13. Informed'
  BY <1>1, <1>2, Numbers DEF SInv, Informed, Free
<1>14. LastReport'
  BY <1>1, <1>2, Numbers DEF SInv, LastReport, Free
<1>15. ASSUME NEW p \in Procs, pc'[p] \in {"waitTake", "takeDone"}
       PROVE  \E q \in Procs : sends'[q] = 11 + p
  <2>1. PICK q \in Procs : sends[q] = 11 + p
    BY <1>1, <1>2, <1>15 DEF SInv, ReportIsThere
  <2>2. 11 + p # 42
    BY <1>15, <1>1, <1>2, <2>1, Numbers, Whose DEF ShellAt, ActiveAt, ReportCh
  <2> QED BY <1>1, <1>2, <2>1, <2>2
<1> QED BY <1>3, <1>4, <1>5, <1>6, <1>7, <1>8, <1>9, <1>10, <1>11, <1>12, <1>13,
   <1>14, <1>15 DEF SInv, Handshakes, ReportIsThere

\* A new command waits for its next message.
LEMMA CommandAwaits ==
    ASSUME KInv, SInv, NEW l2, Goto(l2), UNCHANGED <<currentId, myId, asked>>, Awaited(1),
           \/ At("cmdStart") /\ l2 = "cmdArgs" /\ job' = job
           \/ At("cmdArgs") /\ l2 = "cmdId" /\ job' = [job EXCEPT ![c0] = received[c0]]
           \/ At("cmdId") /\ l2 = "cmdNumbered" /\ job' = job
    PROVE  SInv'
<1>1. /\ c0 \in Procs /\ c0 \in 0 .. maxId /\ Free(c0) /\ IsCommand(c0)
      /\ c0 # Main /\ c0 # Screen /\ ~IsShell(c0) /\ ~Holds(c0) /\ ~InBoot
      /\ asked[c0].sh \in ShellIds /\ asked[c0].fn \in Functions
  BY CommandFacts DEF CommandAt, At
<1>2. /\ \A p \in Procs : pc'[p] = IF p = c0 THEN l2 ELSE pc[p]
      /\ \A p \in Procs : reads'[p] = IF p = c0 THEN 1 ELSE reads[p]
      /\ \A p \in Procs : sends[p] # 1
      /\ sends' = sends /\ received' = received /\ value' = value
      /\ maxId' = maxId /\ currentId' = currentId
      /\ myId' = myId /\ asked' = asked
      /\ \/ pc[c0] = "cmdStart" /\ l2 = "cmdArgs" /\ job'[c0] = job[c0]
         \/ pc[c0] = "cmdArgs" /\ l2 = "cmdId" /\ job'[c0] = received[c0]
         \/ pc[c0] = "cmdId" /\ l2 = "cmdNumbered" /\ job'[c0] = job[c0]
      /\ \A p \in Procs : p # c0 => job'[p] = job[p]
      /\ job' \in [Procs -> Values \cup {NoValue}]
      /\ IsShell(asked[c0].sh - 1) /\ asked[c0].sh - 1 \in Procs
      /\ asked[c0].sh - 1 # Main /\ asked[c0].sh - 1 # c0
      /\ Hands(asked[c0].sh - 1, c0) /\ LastOf(c0) /\ Holds(asked[c0].sh - 1)
      /\ asked[c0].sh \in Nat
  <2>2. job' = job \/ job' = [job EXCEPT ![c0] = received[c0]]
    OBVIOUS
  <2>3. /\ received \in [Procs -> Values \cup {NoValue}]
        /\ job' \in [Procs -> Values \cup {NoValue}] /\ \A p \in Procs : p # c0 => job'[p] = job[p]
        /\ \/ pc[c0] = "cmdStart" /\ l2 = "cmdArgs" /\ job'[c0] = job[c0]
           \/ pc[c0] = "cmdArgs" /\ l2 = "cmdId" /\ job'[c0] = received[c0]
           \/ pc[c0] = "cmdId" /\ l2 = "cmdNumbered" /\ job'[c0] = job[c0]
    <3>1. job \in [Procs -> Values \cup {NoValue}] /\ received \in [Procs -> Values \cup {NoValue}]
      BY NumberedProcesses DEF SInv, Typed, TypeOK
    <3> QED BY <1>1, <2>2, <3>1 DEF At
  <2>4. /\ IsShell(asked[c0].sh - 1) /\ asked[c0].sh - 1 \in Procs
        /\ asked[c0].sh - 1 # Main /\ asked[c0].sh - 1 # c0
        /\ Hands(asked[c0].sh - 1, c0) /\ LastOf(c0) /\ Holds(asked[c0].sh - 1)
        /\ asked[c0].sh \in Nat
    <3>1. Fresh(c0)
      BY DEF Fresh, At
    <3>2. /\ asked[c0].sh - 1 \in Procs /\ asked[c0].sh - 1 \in 1 .. NumShells
          /\ Hands(asked[c0].sh - 1, c0) /\ LastOf(c0) /\ Holds(asked[c0].sh - 1)
      BY <1>1, <3>1, FreshCommand
    <3>3. asked[c0].sh \in Nat
      BY <1>1, Numbers DEF ShellIds
    <3>4. asked[c0].sh - 1 # Main /\ asked[c0].sh - 1 # c0
      BY <1>1, <3>2, Numbers DEF IsShell
    <3> QED BY <3>2, <3>3, <3>4 DEF IsShell
  <2> QED BY <1>1, <2>3, <2>4, Links DEF SInv, Typed, Goto, Awaited
<1>3. Typed'
  BY <1>1, <1>2, Numbers DEF SInv, Typed, Labels, ShellAt, ActiveAt, ScreenAt,
     CommandAt, MainAt, BootAt, Goto
<1>4. Kinds'
  BY <1>1, <1>2, Numbers DEF SInv, Kinds, KindOf, ShellAt, StartAt, ActiveAt,
     ScreenAt, CommandAt, IsShell, IsCommand, Screen
<1>5. MainIsAt'
  BY <1>1, <1>2, Numbers DEF SInv, MainIsAt, InBoot, MainAt, BootAt
<1>6. Places'
  BY <1>1, <1>2, Numbers DEF SInv, Places, SendsAt, ReadsAt, Free, IsShell, IsCommand,
     Screen, ShellIds, ReportCh
<1>7. ShellsBoot'
  BY <1>1, <1>2, Numbers DEF SInv, ShellsBoot, Boots, Booting, Resting, NewShell,
     InBoot, Free, StartAt, ActiveAt
<1>8. OneHolder'
  BY <1>1, <1>2, Numbers DEF SInv, OneHolder, Holds, InBoot, Free, ActiveAt
<1>9. StopsFirst'
  <2> SUFFICES ASSUME Stopping', NEW p \in Procs, Holds(p)'
               PROVE  (pc[p] \in {"tookStop", "snakeTook", "shellOff", "snake"})'
    BY DEF StopsFirst
  <2>1. Stopping
    BY <1>1, <1>2, Numbers DEF Stopping, Free
  <2>2. p # c0
    BY <1>1, <1>2, Numbers DEF Holds, ActiveAt
  <2>3. Holds(p)
    BY <1>1, <1>2, <2>2, Numbers DEF Holds, InBoot, Free
  <2> QED BY <1>2, <2>1, <2>2, <2>3 DEF SInv, StopsFirst
<1>10. StopIsThere'
  BY <1>1, <1>2, Numbers DEF SInv, StopIsThere
<1>11. ASSUME NEW q \in Procs, Fresh(q)' PROVE LastOf(q)' /\ Hands(asked[q].sh - 1, q)'
  <2>1. CASE q = c0
    BY <1>1, <1>2, <2>1, Numbers DEF Hands, Free, LastOf
  <2>2. CASE q # c0
    <3>1. Fresh(q)
      BY <1>1, <1>2, <1>11, <2>2 DEF Fresh, Free
    <3>2. /\ Hands(asked[q].sh - 1, q) /\ LastOf(q) /\ Holds(asked[q].sh - 1)
          /\ asked[q].sh - 1 \in Procs /\ asked[q].sh \in Nat
      BY <3>1, FreshCommand, Numbers DEF ShellIds
    <3>3. asked[q].sh - 1 = asked[c0].sh - 1
      BY <1>2, <3>2 DEF SInv, OneHolder
    <3>4. q \in Nat /\ c0 \in Nat /\ asked[q].sh = asked[c0].sh
      BY <1>1, <1>2, <3>2, <3>3, Numbers
    <3> QED BY <1>1, <1>2, <2>2, <3>2, <3>4 DEF LastOf
  <2> QED BY <2>1, <2>2
<1>12. HasCommand'
  BY <1>1, <1>2, Numbers DEF SInv, HasCommand, LastOf
<1>13. Informed'
  BY <1>1, <1>2, Numbers DEF SInv, Informed, Free
<1>14. LastReport'
  BY <1>1, <1>2, Numbers DEF SInv, LastReport, Free
<1>15. ReportIsThere'
  BY <1>1, <1>2, Numbers DEF SInv, ReportIsThere
<1> QED BY <1>3, <1>4, <1>5, <1>6, <1>7, <1>8, <1>9, <1>10, <1>11, <1>12, <1>13,
   <1>14, <1>15 DEF SInv, Handshakes

\* A new command takes its next message from its shell.
LEMMA CommandTakes ==
    ASSUME KInv, SInv, NEW l2, Goto(l2), UNCHANGED <<currentId, myId, asked>>, NEW s \in Procs, Taken(1, s),
           \/ At("cmdStart") /\ l2 = "cmdArgs" /\ job' = job
           \/ At("cmdArgs") /\ l2 = "cmdId" /\ job' = [job EXCEPT ![c0] = received[c0]]
           \/ At("cmdId") /\ l2 = "cmdNumbered" /\ job' = job
    PROVE  SInv'
<1>1. /\ c0 \in Procs /\ c0 \in 0 .. maxId /\ Free(c0) /\ IsCommand(c0)
      /\ c0 # Main /\ c0 # Screen /\ ~IsShell(c0) /\ ~Holds(c0) /\ ~InBoot
      /\ asked[c0].sh \in ShellIds /\ asked[c0].fn \in Functions
  BY CommandFacts DEF CommandAt, At
<1>2. /\ \A p \in Procs : pc'[p] = IF p = c0 THEN l2 ELSE pc[p]
      /\ \A p \in Procs : sends'[p] = IF p = s THEN NoChannel ELSE sends[p]
      /\ \A p \in Procs : received'[p] = IF p = c0 THEN value[1] ELSE received[p]
      /\ reads' = reads /\ value' = value
      /\ maxId' = maxId /\ currentId' = currentId
      /\ myId' = myId /\ asked' = asked
      /\ sends[s] = 1 /\ reads[s] = NoChannel /\ s # c0
      /\ s = asked[c0].sh - 1 /\ pc[s] \in {"sendArgs", "sendId", "wait", "pollDone"} /\ s # Screen
      /\ \/ pc[c0] = "cmdStart" /\ l2 = "cmdArgs" /\ job'[c0] = job[c0]
         \/ pc[c0] = "cmdArgs" /\ l2 = "cmdId" /\ job'[c0] = received[c0]
         \/ pc[c0] = "cmdId" /\ l2 = "cmdNumbered" /\ job'[c0] = job[c0]
      /\ \A p \in Procs : p # c0 => job'[p] = job[p]
      /\ job' \in [Procs -> Values \cup {NoValue}]
      /\ IsShell(asked[c0].sh - 1) /\ asked[c0].sh - 1 \in Procs
      /\ asked[c0].sh - 1 # Main /\ asked[c0].sh - 1 # c0
      /\ Hands(asked[c0].sh - 1, c0) /\ LastOf(c0) /\ Holds(asked[c0].sh - 1)
      /\ asked[c0].sh \in Nat
  <2>1. /\ sends \in [Procs -> Channels \cup {NoChannel}]
        /\ value \in [Channels -> Values \cup {NoValue}]
        /\ received \in [Procs -> Values \cup {NoValue}]
        /\ sends[s] = 1 /\ reads[s] = NoChannel /\ s # c0
    BY Links, NumberedProcesses, Numbers DEF TypeOK, Taken
  <2>2. job' = job \/ job' = [job EXCEPT ![c0] = received[c0]]
    OBVIOUS
  <2>3. /\ received \in [Procs -> Values \cup {NoValue}]
        /\ job' \in [Procs -> Values \cup {NoValue}] /\ \A p \in Procs : p # c0 => job'[p] = job[p]
        /\ \/ pc[c0] = "cmdStart" /\ l2 = "cmdArgs" /\ job'[c0] = job[c0]
           \/ pc[c0] = "cmdArgs" /\ l2 = "cmdId" /\ job'[c0] = received[c0]
           \/ pc[c0] = "cmdId" /\ l2 = "cmdNumbered" /\ job'[c0] = job[c0]
    <3>1. job \in [Procs -> Values \cup {NoValue}] /\ received \in [Procs -> Values \cup {NoValue}]
      BY NumberedProcesses DEF SInv, Typed, TypeOK
    <3> QED BY <1>1, <2>2, <3>1 DEF At
  <2>4. /\ IsShell(asked[c0].sh - 1) /\ asked[c0].sh - 1 \in Procs
        /\ asked[c0].sh - 1 # Main /\ asked[c0].sh - 1 # c0
        /\ Hands(asked[c0].sh - 1, c0) /\ LastOf(c0) /\ Holds(asked[c0].sh - 1)
        /\ asked[c0].sh \in Nat
    <3>1. Fresh(c0)
      BY DEF Fresh, At
    <3>2. /\ asked[c0].sh - 1 \in Procs /\ asked[c0].sh - 1 \in 1 .. NumShells
          /\ Hands(asked[c0].sh - 1, c0) /\ LastOf(c0) /\ Holds(asked[c0].sh - 1)
      BY <1>1, <3>1, FreshCommand
    <3>3. asked[c0].sh \in Nat
      BY <1>1, Numbers DEF ShellIds
    <3>4. asked[c0].sh - 1 # Main /\ asked[c0].sh - 1 # c0
      BY <1>1, <3>2, Numbers DEF IsShell
    <3> QED BY <3>2, <3>3, <3>4 DEF IsShell
  <2>5. s = asked[c0].sh - 1 /\ pc[s] \in {"sendArgs", "sendId", "wait", "pollDone"} /\ s # Screen
    <3>1. SendsAt(s, 1, pc[s])
      BY <2>1 DEF SInv, Places
    <3>2. Holds(s)
      BY <1>1, <2>1, <3>1, Numbers DEF SendsAt, Holds, InBoot, BootAt, ActiveAt, ShellIds, ReportCh
    <3>3. s = asked[c0].sh - 1
      BY <2>4, <3>2 DEF SInv, OneHolder
    <3>4. s # Screen
      BY <2>4, <3>3, Numbers DEF IsShell, Screen
    <3> QED BY <2>1, <2>4, <3>3, <3>4, Numbers DEF Hands, Free
  <2> QED BY <1>1, <2>1, <2>3, <2>4, <2>5 DEF SInv, Typed, Goto, Taken
<1>3. Typed'
  BY <1>1, <1>2, Numbers DEF SInv, Typed, Labels, ShellAt, ActiveAt, ScreenAt,
     CommandAt, MainAt, BootAt, Goto
<1>4. Kinds'
  BY <1>1, <1>2, Numbers DEF SInv, Kinds, KindOf, ShellAt, StartAt, ActiveAt,
     ScreenAt, CommandAt, IsShell, IsCommand, Screen
<1>5. MainIsAt'
  BY <1>1, <1>2, Numbers DEF SInv, MainIsAt, InBoot, MainAt, BootAt
<1>6. ASSUME NEW p \in Procs
      PROVE  SendsAt(p, sends[p], pc[p])' /\ ReadsAt(p, reads[p], pc[p])'
  <2>1. SendsAt(p, sends[p], pc[p]) /\ ReadsAt(p, reads[p], pc[p])
    BY DEF SInv, Places
  <2>2. CASE p = c0
    BY <1>1, <1>2, <2>1, <2>2, Numbers DEF SendsAt, ReadsAt, Free, IsShell, IsCommand,
       Screen, ShellIds, ReportCh
  <2>3. CASE p # c0
    BY <1>1, <1>2, <2>1, <2>3, Numbers DEF SendsAt, ReadsAt, IsShell, IsCommand,
       Screen, ShellIds, ReportCh
  <2> QED BY <2>2, <2>3
<1>7. ShellsBoot'
  BY <1>1, <1>2, Numbers DEF SInv, ShellsBoot, Boots, Booting, Resting, NewShell,
     InBoot, Free, StartAt, ActiveAt
<1>8. OneHolder'
  BY <1>1, <1>2, Numbers DEF SInv, OneHolder, Holds, InBoot, Free, ActiveAt
<1>9. StopsFirst'
  BY <1>1, <1>2, Numbers DEF SInv, StopsFirst, Stopping, Holds, InBoot, Free, ActiveAt
<1>10. StopIsThere'
  BY <1>1, <1>2, Numbers DEF SInv, StopIsThere
<1>11. ASSUME NEW q \in Procs, Fresh(q)' PROVE LastOf(q)' /\ Hands(asked[q].sh - 1, q)'
  <2>1. CASE q = c0
    BY <1>1, <1>2, <1>11, <2>1, Numbers DEF Hands, Free, LastOf, Fresh
  <2>2. CASE q # c0
    <3>1. Fresh(q)
      BY <1>1, <1>2, <1>11, <2>2 DEF Fresh, Free
    <3>2. /\ Hands(asked[q].sh - 1, q) /\ LastOf(q) /\ Holds(asked[q].sh - 1)
          /\ asked[q].sh - 1 \in Procs /\ asked[q].sh \in Nat
      BY <3>1, FreshCommand, Numbers DEF ShellIds
    <3>3. asked[q].sh - 1 = asked[c0].sh - 1
      BY <1>2, <3>2 DEF SInv, OneHolder
    <3>4. q \in Nat /\ c0 \in Nat /\ asked[q].sh = asked[c0].sh
      BY <1>1, <1>2, <3>2, <3>3, Numbers
    <3> QED BY <1>1, <1>2, <2>2, <3>2, <3>4 DEF LastOf
  <2> QED BY <2>1, <2>2
<1>12. HasCommand'
  BY <1>1, <1>2, Numbers DEF SInv, HasCommand, LastOf
<1>13. ASSUME NEW q \in Procs
      PROVE  /\ (pc[q] = "cmdNumbered" /\ Free(q))' => (job[q] = asked[q].fn /\ received[q] = asked[q].sh)'
             /\ pc'[q] \in {"run", "playing", "ended", "printed", "exit"} =>
                    (job[q] = asked[q].fn /\ myId[q] = asked[q].sh)'
  <2>1. CASE q = c0
    BY <1>1, <1>2, <2>1, Numbers DEF Hands, Free
  <2>2. CASE q # c0
    BY <1>1, <1>2, <2>2, Numbers DEF SInv, Informed, Free
  <2> QED BY <2>1, <2>2
<1>14. LastReport'
  BY <1>1, <1>2, Numbers DEF SInv, LastReport, Free
<1>15. ReportIsThere'
  BY <1>1, <1>2, Numbers DEF SInv, ReportIsThere
<1> QED BY <1>3, <1>4, <1>5, <1>6, <1>7, <1>8, <1>9, <1>10, <1>11, <1>12, <1>13,
   <1>14, <1>15 DEF SInv, Places, Handshakes, Informed

\* Snake plays, or sends in vain to a channel that has an offer already.
LEMMA SnakeRuns ==
    ASSUME KInv, SInv, Quiet, NEW l2, Goto(l2), UNCHANGED Locals,
           \/ At("play") /\ l2 \in {"play", "gameOver"}
           \/ At("play") /\ l2 = "snakeTake" /\ sends[Main] = 0
           \/ At("gameOver") /\ l2 = "screen"
    PROVE  SInv'
<1>1. /\ c0 = Screen /\ c0 \in Procs /\ c0 \in 0 .. maxId /\ Free(c0)
      /\ c0 # Main /\ ~IsShell(c0) /\ ~IsCommand(c0) /\ pc[c0] \in ScreenAt
  BY Who DEF ScreenAt, At
<1>2. /\ \A p \in Procs : pc'[p] = IF p = c0 THEN l2 ELSE pc[p]
      /\ sends' = sends /\ reads' = reads /\ value' = value /\ received' = received
      /\ maxId' = maxId /\ currentId' = currentId
      /\ myId' = myId /\ job' = job /\ asked' = asked
      /\ \/ pc[c0] = "play" /\ l2 \in {"play", "gameOver"}
         \/ pc[c0] = "play" /\ l2 = "snakeTake" /\ sends[Main] = 0
         \/ pc[c0] = "gameOver" /\ l2 = "screen"
  BY <1>1 DEF SInv, Typed, Goto, Quiet, Locals, At
<1>3. Typed'
  BY <1>1, <1>2, Numbers DEF SInv, Typed, Labels, ShellAt, ActiveAt, ScreenAt,
     CommandAt, MainAt, BootAt, Goto
<1>4. Kinds'
  BY <1>1, <1>2, Numbers DEF SInv, Kinds, KindOf, ShellAt, StartAt, ActiveAt,
     ScreenAt, CommandAt, IsShell, IsCommand, Screen
<1>5. MainIsAt'
  BY <1>1, <1>2, Numbers DEF SInv, MainIsAt, InBoot, MainAt, BootAt
<1>6. Places'
  BY <1>1, <1>2, Numbers DEF SInv, Places, SendsAt, ReadsAt, Free, IsShell, IsCommand,
     Screen, ShellIds, ReportCh
<1>7. ShellsBoot'
  BY <1>1, <1>2, Numbers DEF SInv, ShellsBoot, Boots, Booting, Resting, NewShell,
     InBoot, Free, StartAt, ActiveAt
<1>8. OneHolder'
  BY <1>1, <1>2, Numbers DEF SInv, OneHolder, Holds, InBoot, Free, ActiveAt
<1>9. StopsFirst'
  BY <1>1, <1>2, Numbers DEF SInv, StopsFirst, Stopping, Holds, InBoot, Free, ActiveAt
<1>10. StopIsThere'
  BY <1>1, <1>2, Numbers DEF SInv, StopIsThere
<1>11. ASSUME NEW q \in Procs, Fresh(q)' PROVE LastOf(q)' /\ Hands(asked[q].sh - 1, q)'
  <2>1. Fresh(q) /\ q # c0
    BY <1>1, <1>2, Numbers, <1>11 DEF Fresh, Free
  <2>2. /\ Hands(asked[q].sh - 1, q) /\ LastOf(q) /\ IsCommand(q)
        /\ asked[q].sh - 1 \in Procs /\ asked[q].sh - 1 # c0
    BY <1>1, <1>2, Numbers, <2>1, FreshCommand DEF Hands, Free
  <2> QED BY <1>1, <1>2, Numbers, <2>1, <2>2 DEF Hands, Free, LastOf
<1>12. HasCommand'
  BY <1>1, <1>2, Numbers DEF SInv, HasCommand, LastOf
<1>13. Informed'
  BY <1>1, <1>2, Numbers DEF SInv, Informed, Free
<1>14. LastReport'
  BY <1>1, <1>2, Numbers DEF SInv, LastReport, Free
<1>15. ReportIsThere'
  BY <1>1, <1>2, Numbers DEF SInv, ReportIsThere
<1> QED BY <1>3, <1>4, <1>5, <1>6, <1>7, <1>8, <1>9, <1>10, <1>11, <1>12, <1>13,
   <1>14, <1>15 DEF SInv, Handshakes

\* Snake waits to be asked for a game, and to be put on the screen.
LEMMA SnakeAwaits ==
    ASSUME KInv, SInv, NEW l2, NEW ch, Goto(l2), UNCHANGED Locals, Awaited(ch),
           \/ At("screen") /\ l2 = "snake" /\ ch = 42
           \/ At("snake") /\ l2 = "play" /\ ch = 43
    PROVE  SInv'
<1>1. /\ c0 = Screen /\ c0 \in Procs /\ c0 \in 0 .. maxId /\ Free(c0)
      /\ c0 # Main /\ ~IsShell(c0) /\ ~IsCommand(c0) /\ pc[c0] \in ScreenAt
  BY Who DEF ScreenAt, At
<1>2. /\ \A p \in Procs : pc'[p] = IF p = c0 THEN l2 ELSE pc[p]
      /\ \A p \in Procs : reads'[p] = IF p = c0 THEN ch ELSE reads[p]
      /\ \A p \in Procs : sends[p] # ch
      /\ sends' = sends /\ received' = received /\ value' = value
      /\ maxId' = maxId /\ currentId' = currentId
      /\ myId' = myId /\ job' = job /\ asked' = asked
      /\ \/ pc[c0] = "screen" /\ l2 = "snake" /\ ch = 42
         \/ pc[c0] = "snake" /\ l2 = "play" /\ ch = 43
  BY <1>1, Links DEF SInv, Typed, Goto, Awaited, Locals, At
<1>3. Typed'
  BY <1>1, <1>2, Numbers DEF SInv, Typed, Labels, ShellAt, ActiveAt, ScreenAt,
     CommandAt, MainAt, BootAt, Goto
<1>4. Kinds'
  BY <1>1, <1>2, Numbers DEF SInv, Kinds, KindOf, ShellAt, StartAt, ActiveAt,
     ScreenAt, CommandAt, IsShell, IsCommand, Screen
<1>5. MainIsAt'
  BY <1>1, <1>2, Numbers DEF SInv, MainIsAt, InBoot, MainAt, BootAt
<1>6. Places'
  BY <1>1, <1>2, Numbers DEF SInv, Places, SendsAt, ReadsAt, Free, IsShell, IsCommand,
     Screen, ShellIds, ReportCh
<1>7. ShellsBoot'
  BY <1>1, <1>2, Numbers DEF SInv, ShellsBoot, Boots, Booting, Resting, NewShell,
     InBoot, Free, StartAt, ActiveAt
<1>8. OneHolder'
  BY <1>1, <1>2, Numbers DEF SInv, OneHolder, Holds, InBoot, Free, ActiveAt
<1>9. StopsFirst'
  BY <1>1, <1>2, Numbers DEF SInv, StopsFirst, Stopping, Holds, InBoot, Free, ActiveAt
<1>10. StopIsThere'
  BY <1>1, <1>2, Numbers DEF SInv, StopIsThere
<1>11. ASSUME NEW q \in Procs, Fresh(q)' PROVE LastOf(q)' /\ Hands(asked[q].sh - 1, q)'
  <2>1. Fresh(q) /\ q # c0
    BY <1>1, <1>2, Numbers, <1>11 DEF Fresh, Free
  <2>2. /\ Hands(asked[q].sh - 1, q) /\ LastOf(q) /\ IsCommand(q)
        /\ asked[q].sh - 1 \in Procs /\ asked[q].sh - 1 # c0
    BY <1>1, <1>2, Numbers, <2>1, FreshCommand DEF Hands, Free
  <2> QED BY <1>1, <1>2, Numbers, <2>1, <2>2 DEF Hands, Free, LastOf
<1>12. HasCommand'
  BY <1>1, <1>2, Numbers DEF SInv, HasCommand, LastOf
<1>13. Informed'
  BY <1>1, <1>2, Numbers DEF SInv, Informed, Free
<1>14. LastReport'
  BY <1>1, <1>2, Numbers DEF SInv, LastReport, Free
<1>15. ReportIsThere'
  BY <1>1, <1>2, Numbers DEF SInv, ReportIsThere
<1> QED BY <1>3, <1>4, <1>5, <1>6, <1>7, <1>8, <1>9, <1>10, <1>11, <1>12, <1>13,
   <1>14, <1>15 DEF SInv, Handshakes

\* Snake is asked for a game by a command, and put on the screen by kernel_main.
LEMMA SnakeTakes ==
    ASSUME KInv, SInv, NEW l2, NEW ch, Goto(l2), UNCHANGED Locals, NEW s \in Procs, Taken(ch, s),
           \/ At("screen") /\ l2 = "snake" /\ ch = 42
           \/ At("snake") /\ l2 = "play" /\ ch = 43
    PROVE  SInv'
<1>1. /\ c0 = Screen /\ c0 \in Procs /\ c0 \in 0 .. maxId /\ Free(c0)
      /\ c0 # Main /\ ~IsShell(c0) /\ ~IsCommand(c0) /\ pc[c0] \in ScreenAt
  BY Who DEF ScreenAt, At
<1>2. /\ \A p \in Procs : pc'[p] = IF p = c0 THEN l2 ELSE pc[p]
      /\ \A p \in Procs : sends'[p] = IF p = s THEN NoChannel ELSE sends[p]
      /\ \A p \in Procs : p # c0 => received'[p] = received[p]
      /\ reads' = reads /\ value' = value
      /\ maxId' = maxId /\ currentId' = currentId
      /\ myId' = myId /\ job' = job /\ asked' = asked
      /\ s # c0 /\ sends[s] = ch /\ reads[s] = NoChannel
      /\ \/ /\ pc[c0] = "screen" /\ l2 = "snake" /\ ch = 42
            /\ pc[s] = "playing" /\ IsCommand(s) /\ s # Main /\ ~IsShell(s) /\ s # Screen
         \/ /\ pc[c0] = "snake" /\ l2 = "play" /\ ch = 43
            /\ s = Main /\ pc[s] = "idle"
  <2>1. /\ sends \in [Procs -> Channels \cup {NoChannel}]
        /\ value \in [Channels -> Values \cup {NoValue}]
        /\ received \in [Procs -> Values \cup {NoValue}]
        /\ sends[s] = ch /\ reads[s] = NoChannel /\ s # c0
    BY Links, NumberedProcesses, Numbers DEF TypeOK, Taken
  <2>2. SendsAt(s, ch, pc[s]) /\ ch \in Channels /\ ch # NoChannel
    BY <2>1, Numbers DEF SInv, Places
  <2>3. \/ /\ pc[c0] = "screen" /\ l2 = "snake" /\ ch = 42
           /\ pc[s] = "playing" /\ IsCommand(s) /\ s # Main /\ ~IsShell(s) /\ s # Screen
        \/ /\ pc[c0] = "snake" /\ l2 = "play" /\ ch = 43
           /\ s = Main /\ pc[s] = "idle"
    BY <1>1, <2>1, <2>2, Whose, Numbers DEF SendsAt, At, CommandAt, ShellIds, ReportCh
  <2> QED BY <1>1, <2>1, <2>3, Numbers DEF SInv, Typed, Goto, Taken, Locals
<1>3. Typed'
  BY <1>1, <1>2, Numbers DEF SInv, Typed, Labels, ShellAt, ActiveAt, ScreenAt,
     CommandAt, MainAt, BootAt, Goto
<1>4. Kinds'
  BY <1>1, <1>2, Numbers DEF SInv, Kinds, KindOf, ShellAt, StartAt, ActiveAt,
     ScreenAt, CommandAt, IsShell, IsCommand, Screen
<1>5. MainIsAt'
  BY <1>1, <1>2, Numbers DEF SInv, MainIsAt, InBoot, MainAt, BootAt
<1>6. ASSUME NEW p \in Procs
      PROVE  SendsAt(p, sends[p], pc[p])' /\ ReadsAt(p, reads[p], pc[p])'
  <2>1. SendsAt(p, sends[p], pc[p]) /\ ReadsAt(p, reads[p], pc[p])
    BY DEF SInv, Places
  <2>2. CASE p = c0
    BY <1>1, <1>2, <2>1, <2>2, Numbers DEF SendsAt, ReadsAt, Free
  <2>3. CASE p # c0
    BY <1>1, <1>2, <2>1, <2>3, Numbers DEF SendsAt, ReadsAt
  <2> QED BY <2>2, <2>3
<1>7. ShellsBoot'
  BY <1>1, <1>2, Numbers DEF SInv, ShellsBoot, Boots, Booting, Resting, NewShell,
     InBoot, Free, StartAt, ActiveAt
<1>8. ASSUME NEW p \in Procs, NEW q \in Procs, Holds(p)', Holds(q)' PROVE p = q
  <2>1. CASE ch = 42
    <3>1. \A x \in Procs : Holds(x)' => Holds(x)
      <4> SUFFICES ASSUME NEW x \in Procs, Holds(x)' PROVE Holds(x)
        OBVIOUS
      <4>1. pc'[c0] = "snake" /\ sends'[c0] = NoChannel /\ pc[s] = "playing" /\ s # c0
        BY <1>1, <1>2, <2>1, Numbers DEF Free
      <4>2. x # c0 /\ pc'[x] = pc[x] /\ pc'[Main] = pc[Main] /\ pc[s] = "playing"
        <5>1. x # c0
          BY <1>1, <4>1, Numbers DEF Holds
        <5> QED BY <1>1, <1>2, <4>1, <5>1, Numbers
      <4>3. x # s
        BY <1>2, <4>2, <2>1, Numbers DEF Holds, ActiveAt
      <4>4. Free(x)' = Free(x) /\ sends'[x] = sends[x] /\ InBoot' = InBoot
        BY <1>2, <4>2, <4>3, Numbers DEF Free, InBoot
      <4> QED BY <4>2, <4>4 DEF Holds
    <3>2. Holds(p) /\ Holds(q)
      BY <1>8, <3>1
    <3> QED BY <3>2 DEF SInv, OneHolder
  <2>2. CASE ch = 43
    <3>1. Holds(Main)
      BY <1>2, <2>2, Numbers DEF Holds, Free
    <3>2. ASSUME NEW x \in Procs, Holds(x)', x # c0 PROVE Holds(x) /\ x # Main
      <4>0. s = Main /\ pc[Main] = "idle" /\ Main \in Procs /\ Main # c0
            /\ sends'[Main] = NoChannel /\ reads'[Main] = NoChannel
        BY <1>1, <1>2, <2>2, Numbers
      <4>1. /\ pc'[x] = pc[x] /\ pc'[Main] = "idle" /\ pc[Main] = "idle" /\ s = Main
            /\ InBoot' = InBoot
        BY <1>2, <3>2, <4>0 DEF InBoot
      <4>2. x # Main
        <5>1. SUFFICES ASSUME x = Main PROVE FALSE
          OBVIOUS
        <5>2. ~IsShell(Main) /\ Main # Screen /\ ~InBoot'
          BY <4>1, Numbers DEF IsShell, Screen, InBoot, BootAt
        <5>3. Free(Main)'
          BY <4>0 DEF Free
        <5> QED BY <3>2, <4>1, <5>1, <5>2, <5>3 DEF Holds
      <4>3. sends'[x] = sends[x] /\ reads' = reads
        BY <1>2, <4>1, <4>2
      <4> QED BY <3>2, <4>1, <4>2, <4>3 DEF Holds, Free
    <3> QED BY <1>8, <3>1, <3>2, Numbers DEF SInv, OneHolder
  <2> QED BY <1>2, <2>1, <2>2
<1>9. StopsFirst'
  BY <1>1, <1>2, Numbers DEF SInv, StopsFirst, Stopping, Holds, InBoot, Free, ActiveAt
<1>10. StopIsThere'
  BY <1>1, <1>2, Numbers DEF SInv, StopIsThere
<1>11. ASSUME NEW q \in Procs, Fresh(q)' PROVE LastOf(q)' /\ Hands(asked[q].sh - 1, q)'
  <2>1. Fresh(q) /\ q # c0
    BY <1>1, <1>2, Numbers, <1>11 DEF Fresh, Free
  <2>2. /\ Hands(asked[q].sh - 1, q) /\ LastOf(q) /\ IsCommand(q)
        /\ asked[q].sh - 1 \in Procs /\ asked[q].sh - 1 # c0
    BY <1>1, <1>2, Numbers, <2>1, FreshCommand DEF Hands, Free
  <2> QED BY <1>1, <1>2, Numbers, <2>1, <2>2 DEF Hands, Free, LastOf
<1>12. HasCommand'
  BY <1>1, <1>2, Numbers DEF SInv, HasCommand, LastOf
<1>13. Informed'
  BY <1>1, <1>2, Numbers DEF SInv, Informed, Free
<1>14. LastReport'
  BY <1>1, <1>2, Numbers DEF SInv, LastReport, Free
<1>15. ASSUME NEW p \in Procs, pc'[p] \in {"waitTake", "takeDone"}
       PROVE  \E q \in Procs : sends'[q] = 11 + p
  <2>1. PICK q \in Procs : sends[q] = 11 + p
    BY <1>1, <1>2, <1>15 DEF SInv, ReportIsThere
  <2>2. 11 + p # ch
    BY <1>15, <1>1, <1>2, <2>1, Numbers, Whose DEF ShellAt, ActiveAt, ReportCh
  <2> QED BY <1>1, <1>2, <2>1, <2>2
<1> QED BY <1>3, <1>4, <1>5, <1>6, <1>7, <1>8, <1>9, <1>10, <1>11, <1>12, <1>13,
   <1>14, <1>15 DEF SInv, Places, OneHolder, Handshakes, ReportIsThere

\* Snake waits for a command to take the end of its game.
LEMMA SnakeOffers ==
    ASSUME KInv, SInv, Goto("screen"), UNCHANGED Locals, NEW v, Offered(42, v), At("gameOver")
    PROVE  SInv'
<1>1. /\ c0 = Screen /\ c0 \in Procs /\ c0 \in 0 .. maxId /\ Free(c0)
      /\ c0 # Main /\ ~IsShell(c0) /\ ~IsCommand(c0) /\ pc[c0] \in ScreenAt
  BY Who DEF ScreenAt, At
<1>2. /\ \A p \in Procs : pc'[p] = IF p = c0 THEN "screen" ELSE pc[p]
      /\ \A p \in Procs : sends'[p] = IF p = c0 THEN 42 ELSE sends[p]
      /\ \A k \in Channels : k # 42 => value'[k] = value[k]
      /\ \A p \in Procs : sends[p] # 42 /\ reads[p] # 42
      /\ reads' = reads /\ received' = received
      /\ maxId' = maxId /\ currentId' = currentId
      /\ myId' = myId /\ job' = job /\ asked' = asked
      /\ pc[c0] = "gameOver"
      /\ \A p \in Procs : sends[p] \in Channels \cup {NoChannel}
  <2>1. /\ sends \in [Procs -> Channels \cup {NoChannel}]
        /\ value \in [Channels -> Values \cup {NoValue}]
    BY Links
  <2> QED BY <1>1, <2>1, Numbers DEF SInv, Typed, Goto, Offered, Locals, At
<1>3. Typed'
  BY <1>1, <1>2, Numbers DEF SInv, Typed, Labels, ShellAt, ActiveAt, ScreenAt,
     CommandAt, MainAt, BootAt, Goto
<1>4. Kinds'
  BY <1>1, <1>2, Numbers DEF SInv, Kinds, KindOf, ShellAt, StartAt, ActiveAt,
     ScreenAt, CommandAt, IsShell, IsCommand, Screen
<1>5. MainIsAt'
  BY <1>1, <1>2, Numbers DEF SInv, MainIsAt, InBoot, MainAt, BootAt
<1>6. ASSUME NEW p \in Procs
      PROVE  SendsAt(p, sends[p], pc[p])' /\ ReadsAt(p, reads[p], pc[p])'
  <2>1. SendsAt(p, sends[p], pc[p]) /\ ReadsAt(p, reads[p], pc[p])
    BY DEF SInv, Places
  <2>2. CASE p = c0
    BY <1>1, <1>2, <2>1, <2>2, Numbers DEF SendsAt, ReadsAt, Free, IsShell, IsCommand,
       Screen, ShellIds, ReportCh
  <2>3. CASE p # c0
    BY <1>1, <1>2, <2>1, <2>3, Numbers DEF SendsAt, ReadsAt, IsShell, IsCommand,
       Screen, ShellIds, ReportCh
  <2> QED BY <2>2, <2>3
<1>7. ShellsBoot'
  BY <1>1, <1>2, Numbers DEF SInv, ShellsBoot, Boots, Booting, Resting, NewShell,
     InBoot, Free, StartAt, ActiveAt
<1>8. OneHolder'
  BY <1>1, <1>2, Numbers DEF SInv, OneHolder, Holds, InBoot, Free, ActiveAt
<1>9. StopsFirst'
  BY ZenonT(60), <1>1, <1>2, Numbers DEF SInv, StopsFirst, Stopping, Holds, InBoot, Free, ActiveAt
<1>10. StopIsThere'
  BY <1>1, <1>2, Numbers DEF SInv, StopIsThere
<1>11. ASSUME NEW q \in Procs, Fresh(q)' PROVE LastOf(q)' /\ Hands(asked[q].sh - 1, q)'
  <2>1. Fresh(q) /\ q # c0
    BY <1>1, <1>2, Numbers, <1>11 DEF Fresh, Free
  <2>2. /\ Hands(asked[q].sh - 1, q) /\ LastOf(q) /\ IsCommand(q)
        /\ asked[q].sh - 1 \in Procs /\ asked[q].sh - 1 # c0
    BY <1>1, <1>2, Numbers, <2>1, FreshCommand DEF Hands, Free
  <2>3. PICK p \in Procs : p = asked[q].sh - 1 /\ p # c0 /\ Hands(p, q)
    BY <2>2
  <2>4. /\ \A x \in {p, q} : pc'[x] = pc[x] /\ sends'[x] = sends[x]
        /\ reads' = reads /\ received' = received /\ job' = job /\ asked' = asked
        /\ value'[1] = value[1]
    BY <1>2, Numbers, <2>1, <2>3
  <2>5. Hands(p, q)'
    BY <2>3, <2>4, HandsKept
  <2>6. LastOf(q)'
    BY <1>2, <2>2 DEF LastOf
  <2> QED BY <1>2, <2>3, <2>5, <2>6
<1>12. HasCommand'
  BY <1>1, <1>2, Numbers DEF SInv, HasCommand, LastOf
<1>13. Informed'
  BY <1>1, <1>2, Numbers DEF SInv, Informed, Free
<1>14. ASSUME NEW q \in Procs, (pc[q] = "printed" /\ ~Free(q))' PROVE (value[sends[q]] = Zero)'
  <2>1. CASE q = c0
    BY <1>1, <1>2, <1>14, <2>1, Numbers DEF Free
  <2>2. CASE q # c0
    <3>1. pc[q] = "printed" /\ ~Free(q) /\ value[sends[q]] = Zero /\ sends[q] # 42
      BY <1>1, <1>2, <1>14, <2>2 DEF SInv, LastReport, Free
    <3>2. sends[q] \in Channels
      BY <1>2, <3>1, Numbers DEF SInv, Places, ReadsAt, Free
    <3> QED BY <1>2, <2>2, <3>1, <3>2
  <2> QED BY <2>1, <2>2
<1>15. ASSUME NEW p \in Procs, pc'[p] \in {"waitTake", "takeDone"}
       PROVE  \E q \in Procs : sends'[q] = 11 + p
  <2>1. PICK q \in Procs : sends[q] = 11 + p
    BY <1>1, <1>2, <1>15 DEF SInv, ReportIsThere
  <2>2. 11 + p \in Channels
    BY <1>15, <1>2, <2>1, Numbers, Whose DEF ShellAt, ActiveAt
  <2> QED BY <1>1, <1>2, <2>1, <2>2, Numbers DEF Free
<1> QED BY <1>3, <1>4, <1>5, <1>6, <1>7, <1>8, <1>9, <1>10, <1>11, <1>12, <1>13,
   <1>14, <1>15 DEF SInv, Places, Handshakes, LastReport, ReportIsThere

\* Snake tells a command that its game has ended.
LEMMA SnakePasses ==
    ASSUME KInv, SInv, Goto("screen"), UNCHANGED Locals,
           NEW v, NEW r \in Procs, Passed(42, v, r), At("gameOver")
    PROVE  SInv'
<1>1. /\ c0 = Screen /\ c0 \in Procs /\ c0 \in 0 .. maxId /\ Free(c0)
      /\ c0 # Main /\ ~IsShell(c0) /\ ~IsCommand(c0) /\ pc[c0] \in ScreenAt
  BY Who DEF ScreenAt, At
<1>2. /\ \A p \in Procs : pc'[p] = IF p = c0 THEN "screen" ELSE pc[p]
      /\ \A p \in Procs : reads'[p] = IF p = r THEN NoChannel ELSE reads[p]
      /\ \A p \in Procs : p # r => received'[p] = received[p]
      /\ \A k \in Channels : k # 42 => value'[k] = value[k]
      /\ sends' = sends
      /\ maxId' = maxId /\ currentId' = currentId
      /\ myId' = myId /\ job' = job /\ asked' = asked
      /\ pc[c0] = "gameOver"
      /\ \A p \in Procs : sends[p] \in Channels \cup {NoChannel} /\ sends[p] # 42
      /\ r # c0 /\ reads[r] = 42 /\ sends[r] = NoChannel
      /\ pc[r] = "ended" /\ IsCommand(r) /\ r # Main /\ ~IsShell(r) /\ r # Screen
  <2>1. /\ sends \in [Procs -> Channels \cup {NoChannel}]
        /\ value \in [Channels -> Values \cup {NoValue}]
        /\ reads \in [Procs -> Channels \cup {NoChannel}]
        /\ received \in [Procs -> Values \cup {NoValue}]
        /\ reads[r] = 42 /\ sends[r] = NoChannel /\ r # c0
    BY Links, NumberedProcesses, Numbers DEF TypeOK, Passed
  <2>2. ReadsAt(r, 42, pc[r]) /\ 42 # NoChannel
    BY <2>1, Numbers DEF SInv, Places
  <2>3. pc[r] = "ended" /\ IsCommand(r) /\ r # Main /\ ~IsShell(r) /\ r # Screen
    BY <1>1, <2>1, <2>2, Whose, Numbers DEF ReadsAt, CommandAt, ShellIds
  <2> QED BY <1>1, <2>1, <2>3, Numbers DEF SInv, Typed, Goto, Passed, Locals, At
<1>3. Typed'
  BY <1>1, <1>2, Numbers DEF SInv, Typed, Labels, ShellAt, ActiveAt, ScreenAt,
     CommandAt, MainAt, BootAt, Goto
<1>4. Kinds'
  BY <1>1, <1>2, Numbers DEF SInv, Kinds, KindOf, ShellAt, StartAt, ActiveAt,
     ScreenAt, CommandAt, IsShell, IsCommand, Screen
<1>5. MainIsAt'
  BY <1>1, <1>2, Numbers DEF SInv, MainIsAt, InBoot, MainAt, BootAt
<1>6. Places'
  BY <1>1, <1>2, Numbers DEF SInv, Places, SendsAt, ReadsAt, Free, IsShell, IsCommand,
     Screen, ShellIds, ReportCh
<1>7. ShellsBoot'
  BY <1>1, <1>2, Numbers DEF SInv, ShellsBoot, Boots, Booting, Resting, NewShell,
     InBoot, Free, StartAt, ActiveAt
<1>8. OneHolder'
  BY <1>1, <1>2, Numbers DEF SInv, OneHolder, Holds, InBoot, Free, ActiveAt
<1>9. ASSUME Stopping', NEW p \in Procs, Holds(p)'
      PROVE  pc'[p] \in {"tookStop", "snakeTook", "shellOff", "snake"}
  <2>1. Stopping
    BY <1>1, <1>2, <1>9, Numbers DEF Stopping, Free
  <2>2. Holds(p)
    BY <1>1, <1>2, <1>9, Numbers DEF Holds, Free, InBoot, ActiveAt
  <2> QED BY <1>1, <1>2, <2>1, <2>2, Numbers DEF SInv, StopsFirst, ActiveAt
<1>10. StopIsThere'
  BY <1>1, <1>2, Numbers DEF SInv, StopIsThere
<1>11. ASSUME NEW q \in Procs, Fresh(q)' PROVE LastOf(q)' /\ Hands(asked[q].sh - 1, q)'
  <2>1. Fresh(q) /\ q # c0
    BY <1>1, <1>2, Numbers, <1>11 DEF Fresh, Free
  <2>2. /\ Hands(asked[q].sh - 1, q) /\ LastOf(q) /\ IsCommand(q)
        /\ asked[q].sh - 1 \in Procs /\ asked[q].sh - 1 # c0 /\ asked[q].sh - 1 # r
    BY <1>1, <1>2, Numbers, <2>1, FreshCommand DEF Hands, Free, IsShell
  <2>3. q # r /\ value'[1] = value[1]
    BY <1>2, <2>1, <2>2, Numbers DEF Fresh, Free
  <2> QED BY <1>1, <1>2, Numbers, <2>1, <2>2, <2>3 DEF Hands, Free, LastOf
<1>12. HasCommand'
  BY <1>1, <1>2, Numbers DEF SInv, HasCommand, LastOf
<1>13. Informed'
  BY <1>1, <1>2, Numbers DEF SInv, Informed, Free
<1>14. ASSUME NEW q \in Procs, (pc[q] = "printed" /\ ~Free(q))' PROVE (value[sends[q]] = Zero)'
  <2>1. q # c0 /\ q # r /\ pc[q] = "printed" /\ ~Free(q) /\ value[sends[q]] = Zero
    BY <1>1, <1>2, <1>14, Numbers DEF SInv, LastReport, Free
  <2>2. sends[q] \in Channels
    BY <1>2, <2>1, Numbers DEF SInv, Places, ReadsAt, Free
  <2> QED BY <1>2, <2>1, <2>2
<1>15. ReportIsThere'
  BY <1>1, <1>2, Numbers DEF SInv, ReportIsThere
<1> QED BY <1>3, <1>4, <1>5, <1>6, <1>7, <1>8, <1>9, <1>10, <1>11, <1>12, <1>13,
   <1>14, <1>15 DEF SInv, StopsFirst, Handshakes, LastReport

\* The console that stops offers its answer.
LEMMA ConsoleOffersAnswer ==
    ASSUME KInv, SInv, NEW l, NEW l2, Goto(l2), UNCHANGED Locals, NEW v, Offered(1, v), At(l),
           \/ l = "tookStop" /\ l2 = "shellOff"
           \/ l = "snakeTook" /\ l2 = "snake"
    PROVE  SInv'
<1>1. /\ c0 \in Procs /\ c0 \in 0 .. maxId /\ Free(c0) /\ c0 # Main /\ ~IsCommand(c0)
      /\ \/ IsShell(c0) /\ c0 # Screen /\ l \in {"takeStop", "tookStop"}
         \/ c0 = Screen /\ ~IsShell(c0) /\ l \in {"snakeTake", "snakeTook"}
      /\ pc[c0] = l
      /\ Holds(c0) /\ \A p \in Procs : Holds(p) => p = c0
      /\ ~InBoot
  <2>1. /\ c0 \in Procs /\ c0 \in 0 .. maxId /\ Free(c0) /\ c0 # Main /\ ~IsCommand(c0)
        /\ \/ IsShell(c0) /\ c0 # Screen /\ l \in {"takeStop", "tookStop"}
           \/ c0 = Screen /\ ~IsShell(c0) /\ l \in {"snakeTake", "snakeTook"}
        /\ pc[c0] = l
    BY Who DEF ScreenAt, ShellAt, ActiveAt, At
  <2>2. Holds(c0)
    BY <2>1 DEF Holds, ActiveAt
  <2>3. \A p \in Procs : Holds(p) => p = c0
    BY <2>1, <2>2 DEF SInv, OneHolder
  <2>4. ~InBoot
    BY <2>1, <2>3, Numbers DEF Holds
  <2> QED BY <2>1, <2>2, <2>3, <2>4
<1>2. /\ \A p \in Procs : pc'[p] = IF p = c0 THEN l2 ELSE pc[p]
      /\ \A p \in Procs : sends'[p] = IF p = c0 THEN 1 ELSE sends[p]
      /\ \A k \in Channels : k # 1 => value'[k] = value[k]
      /\ \A p \in Procs : sends[p] # 1 /\ reads[p] # 1
      /\ reads' = reads /\ received' = received
      /\ maxId' = maxId /\ currentId' = currentId
      /\ myId' = myId /\ job' = job /\ asked' = asked
      /\ \A p \in Procs : sends[p] \in Channels \cup {NoChannel}
      /\ \/ l = "tookStop" /\ l2 = "shellOff"
         \/ l = "snakeTook" /\ l2 = "snake"
  <2>1. /\ sends \in [Procs -> Channels \cup {NoChannel}]
        /\ value \in [Channels -> Values \cup {NoValue}]
    BY Links
  <2> QED BY <1>1, <2>1, Numbers DEF SInv, Typed, Goto, Offered, Locals, At
<1>3. Typed'
  BY <1>1, <1>2, Numbers DEF SInv, Typed, Labels, ShellAt, ActiveAt, ScreenAt,
     CommandAt, MainAt, BootAt, Goto
<1>4. Kinds'
  BY <1>1, <1>2, Numbers DEF SInv, Kinds, KindOf, ShellAt, StartAt, ActiveAt,
     ScreenAt, CommandAt, IsShell, IsCommand, Screen
<1>5. MainIsAt'
  BY <1>1, <1>2, Numbers DEF SInv, MainIsAt, InBoot, MainAt, BootAt
<1>6. Places'
  BY <1>1, <1>2, Numbers DEF SInv, Places, SendsAt, ReadsAt, Free, IsShell, IsCommand,
     Screen, ShellIds, ReportCh
<1>7. ShellsBoot'
  BY <1>1, <1>2, Numbers DEF SInv, ShellsBoot, Boots, Booting, Resting, NewShell,
     InBoot, Free, StartAt, ActiveAt
<1>8. OneHolder'
  BY <1>1, <1>2, Numbers DEF SInv, OneHolder, Holds, InBoot, Free, ActiveAt
<1>9. StopsFirst'
  BY <1>1, <1>2, Numbers DEF SInv, StopsFirst, Stopping, Holds, InBoot, Free, ActiveAt
<1>10. StopIsThere'
  BY <1>1, <1>2, Numbers DEF SInv, StopIsThere
<1>11. ASSUME NEW q \in Procs, Fresh(q)' PROVE LastOf(q)' /\ Hands(asked[q].sh - 1, q)'
  <2>1. Fresh(q)
    BY <1>1, <1>2, Numbers, <1>11 DEF Fresh, Free
  <2>2. asked[q].sh - 1 = c0 /\ Hands(asked[q].sh - 1, q)
    BY <1>1, <2>1, FreshCommand
  <2> QED BY <1>1, <2>2 DEF Hands
<1>12. HasCommand'
  BY <1>1, <1>2, Numbers DEF SInv, HasCommand, LastOf
<1>13. Informed'
  BY <1>1, <1>2, Numbers DEF SInv, Informed, Free
<1>14. ASSUME NEW q \in Procs, (pc[q] = "printed" /\ ~Free(q))' PROVE (value[sends[q]] = Zero)'
  <2>1. CASE q = c0
    BY <1>1, <1>2, <1>14, <2>1, Numbers DEF Free
  <2>2. CASE q # c0
    <3>1. pc[q] = "printed" /\ ~Free(q) /\ value[sends[q]] = Zero /\ sends[q] # 1
      BY <1>1, <1>2, <1>14, <2>2 DEF SInv, LastReport, Free
    <3>2. sends[q] \in Channels
      BY <1>2, <3>1, Numbers DEF SInv, Places, ReadsAt, Free
    <3> QED BY <1>2, <2>2, <3>1, <3>2
  <2> QED BY <2>1, <2>2
<1>15. ASSUME NEW p \in Procs, pc'[p] \in {"waitTake", "takeDone"}
       PROVE  \E q \in Procs : sends'[q] = 11 + p
  <2>1. PICK q \in Procs : sends[q] = 11 + p
    BY <1>1, <1>2, <1>15 DEF SInv, ReportIsThere
  <2>2. 11 + p \in Channels
    BY <1>15, <1>2, <2>1, Numbers, Whose DEF ShellAt, ActiveAt
  <2> QED BY <1>1, <1>2, <2>1, <2>2, Numbers DEF Free
<1> QED BY <1>3, <1>4, <1>5, <1>6, <1>7, <1>8, <1>9, <1>10, <1>11, <1>12, <1>13,
   <1>14, <1>15 DEF SInv, Handshakes, LastReport, ReportIsThere

\* The console that stops gives its answer to kernel_main, which waits for it.
LEMMA ConsoleAnswers ==
    ASSUME KInv, SInv, NEW l, NEW l2, Goto(l2), UNCHANGED Locals,
           NEW v, NEW r \in Procs, Passed(1, v, r), At(l),
           \/ l = "tookStop" /\ l2 = "shellOff"
           \/ l = "snakeTook" /\ l2 = "snake"
    PROVE  SInv'
<1>1. /\ c0 \in Procs /\ c0 \in 0 .. maxId /\ Free(c0) /\ c0 # Main /\ ~IsCommand(c0)
      /\ \/ IsShell(c0) /\ c0 # Screen /\ l \in {"takeStop", "tookStop"}
         \/ c0 = Screen /\ ~IsShell(c0) /\ l \in {"snakeTake", "snakeTook"}
      /\ pc[c0] = l
      /\ Holds(c0) /\ \A p \in Procs : Holds(p) => p = c0
      /\ ~InBoot
  <2>1. /\ c0 \in Procs /\ c0 \in 0 .. maxId /\ Free(c0) /\ c0 # Main /\ ~IsCommand(c0)
        /\ \/ IsShell(c0) /\ c0 # Screen /\ l \in {"takeStop", "tookStop"}
           \/ c0 = Screen /\ ~IsShell(c0) /\ l \in {"snakeTake", "snakeTook"}
        /\ pc[c0] = l
    BY Who DEF ScreenAt, ShellAt, ActiveAt, At
  <2>2. Holds(c0)
    BY <2>1 DEF Holds, ActiveAt
  <2>3. \A p \in Procs : Holds(p) => p = c0
    BY <2>1, <2>2 DEF SInv, OneHolder
  <2>4. ~InBoot
    BY <2>1, <2>3, Numbers DEF Holds
  <2> QED BY <2>1, <2>2, <2>3, <2>4
<1>2. /\ \A p \in Procs : pc'[p] = IF p = c0 THEN l2 ELSE pc[p]
      /\ \A p \in Procs : reads'[p] = IF p = r THEN NoChannel ELSE reads[p]
      /\ \A p \in Procs : p # r => received'[p] = received[p]
      /\ \A k \in Channels : k # 1 => value'[k] = value[k]
      /\ sends' = sends
      /\ maxId' = maxId /\ currentId' = currentId
      /\ myId' = myId /\ job' = job /\ asked' = asked
      /\ \A p \in Procs : sends[p] \in Channels \cup {NoChannel} /\ sends[p] # 1
      /\ r # c0 /\ reads[r] = 1 /\ sends[r] = NoChannel
      /\ r = Main /\ pc[r] = "start"
      /\ \/ l = "tookStop" /\ l2 = "shellOff"
         \/ l = "snakeTook" /\ l2 = "snake"
  <2>1. /\ sends \in [Procs -> Channels \cup {NoChannel}]
        /\ value \in [Channels -> Values \cup {NoValue}]
        /\ reads \in [Procs -> Channels \cup {NoChannel}]
        /\ received \in [Procs -> Values \cup {NoValue}]
        /\ reads[r] = 1 /\ sends[r] = NoChannel /\ r # c0
    BY Links, NumberedProcesses, Numbers DEF TypeOK, Passed
  <2>2. ReadsAt(r, 1, pc[r]) /\ 1 # NoChannel
    BY <2>1, Numbers DEF SInv, Places
  <2>3. ~Fresh(r)
    <3> SUFFICES ASSUME Fresh(r) PROVE FALSE
      OBVIOUS
    <3>1. asked[r].sh - 1 = c0 /\ Hands(asked[r].sh - 1, r)
      BY <1>1, FreshCommand
    <3> QED BY <1>1, <3>1 DEF Hands
  <2>4. r = Main /\ pc[r] = "start"
    <3>1. pc[r] \notin {"shellNumbered", "create"}
      BY <1>1, Whose, Numbers DEF SInv, ShellsBoot, Boots, StartAt, ShellAt, MainAt, InBoot, BootAt
    <3> QED BY <1>1, <2>1, <2>2, <2>3, <3>1, Numbers DEF ReadsAt, Fresh, Free, ShellIds
  <2> QED BY <1>1, <2>1, <2>4, Numbers DEF SInv, Typed, Goto, Passed, Locals, At
<1>3. Typed'
  BY <1>1, <1>2, Numbers DEF SInv, Typed, Labels, ShellAt, ActiveAt, ScreenAt,
     CommandAt, MainAt, BootAt, Goto
<1>4. Kinds'
  BY <1>1, <1>2, Numbers DEF SInv, Kinds, KindOf, ShellAt, StartAt, ActiveAt,
     ScreenAt, CommandAt, IsShell, IsCommand, Screen
<1>5. MainIsAt'
  BY <1>1, <1>2, Numbers DEF SInv, MainIsAt, InBoot, MainAt, BootAt
<1>6. Places'
  BY <1>1, <1>2, Numbers DEF SInv, Places, SendsAt, ReadsAt, Free, IsShell, IsCommand,
     Screen, ShellIds, ReportCh
<1>7. ShellsBoot'
  BY <1>1, <1>2, Numbers DEF SInv, ShellsBoot, Boots, Booting, Resting, NewShell,
     InBoot, Free, StartAt, ActiveAt
<1>8. OneHolder'
  BY <1>1, <1>2, Numbers DEF SInv, OneHolder, Holds, InBoot, Free, ActiveAt
<1>9. StopsFirst'
  BY <1>1, <1>2, Numbers DEF SInv, StopsFirst, Stopping, Holds, InBoot, Free, ActiveAt
<1>10. StopIsThere'
  BY <1>1, <1>2, Numbers DEF SInv, StopIsThere
<1>11. ASSUME NEW q \in Procs, Fresh(q)' PROVE LastOf(q)' /\ Hands(asked[q].sh - 1, q)'
  <2>1. Fresh(q)
    BY <1>1, <1>2, Numbers, <1>11 DEF Fresh, Free
  <2>2. asked[q].sh - 1 = c0 /\ Hands(asked[q].sh - 1, q)
    BY <1>1, <2>1, FreshCommand
  <2> QED BY <1>1, <2>2 DEF Hands
<1>12. HasCommand'
  BY <1>1, <1>2, Numbers DEF SInv, HasCommand, LastOf
<1>13. Informed'
  BY <1>1, <1>2, Numbers DEF SInv, Informed, Free
<1>14. ASSUME NEW q \in Procs, (pc[q] = "printed" /\ ~Free(q))' PROVE (value[sends[q]] = Zero)'
  <2>1. q # c0 /\ q # r /\ pc[q] = "printed" /\ ~Free(q) /\ value[sends[q]] = Zero
    BY <1>1, <1>2, <1>14, Numbers DEF SInv, LastReport, Free
  <2>2. sends[q] \in Channels
    BY <1>2, <2>1, Numbers DEF SInv, Places, ReadsAt, Free
  <2> QED BY <1>2, <2>1, <2>2
<1>15. ReportIsThere'
  BY <1>1, <1>2, Numbers DEF SInv, ReportIsThere
<1> QED BY <1>3, <1>4, <1>5, <1>6, <1>7, <1>8, <1>9, <1>10, <1>11, <1>12, <1>13,
   <1>14, <1>15 DEF SInv, Handshakes, LastReport

\* The console on the screen takes the stop signal.
LEMMA ConsoleTakesStop ==
    ASSUME KInv, SInv, NEW l, NEW l2, Goto(l2), UNCHANGED Locals, NEW s \in Procs, Taken(0, s), At(l),
           \/ l = "takeStop" /\ l2 = "tookStop"
           \/ l = "snakeTake" /\ l2 = "snakeTook"
    PROVE  SInv'
<1>1. /\ c0 \in Procs /\ c0 \in 0 .. maxId /\ Free(c0) /\ c0 # Main /\ ~IsCommand(c0)
      /\ \/ IsShell(c0) /\ c0 # Screen /\ l \in {"takeStop", "tookStop"}
         \/ c0 = Screen /\ ~IsShell(c0) /\ l \in {"snakeTake", "snakeTook"}
      /\ pc[c0] = l
      /\ Holds(c0) /\ \A p \in Procs : Holds(p) => p = c0
      /\ ~InBoot
  <2>1. /\ c0 \in Procs /\ c0 \in 0 .. maxId /\ Free(c0) /\ c0 # Main /\ ~IsCommand(c0)
        /\ \/ IsShell(c0) /\ c0 # Screen /\ l \in {"takeStop", "tookStop"}
           \/ c0 = Screen /\ ~IsShell(c0) /\ l \in {"snakeTake", "snakeTook"}
        /\ pc[c0] = l
    BY Who DEF ScreenAt, ShellAt, ActiveAt, At
  <2>2. Holds(c0)
    BY <2>1 DEF Holds, ActiveAt
  <2>3. \A p \in Procs : Holds(p) => p = c0
    BY <2>1, <2>2 DEF SInv, OneHolder
  <2>4. ~InBoot
    BY <2>1, <2>3, Numbers DEF Holds
  <2> QED BY <2>1, <2>2, <2>3, <2>4
<1>2. /\ \A p \in Procs : pc'[p] = IF p = c0 THEN l2 ELSE pc[p]
      /\ \A p \in Procs : sends'[p] = IF p = s THEN NoChannel ELSE sends[p]
      /\ \A p \in Procs : p # c0 => received'[p] = received[p]
      /\ reads' = reads /\ value' = value
      /\ maxId' = maxId /\ currentId' = currentId
      /\ myId' = myId /\ job' = job /\ asked' = asked
      /\ s = Main /\ pc[Main] = "stopped" /\ sends[Main] = 0 /\ reads[Main] = NoChannel
      /\ \/ l = "takeStop" /\ l2 = "tookStop"
         \/ l = "snakeTake" /\ l2 = "snakeTook"
  <2>1. /\ sends \in [Procs -> Channels \cup {NoChannel}]
        /\ value \in [Channels -> Values \cup {NoValue}]
        /\ received \in [Procs -> Values \cup {NoValue}]
        /\ sends[s] = 0 /\ reads[s] = NoChannel /\ s # c0
    BY Links, NumberedProcesses, Numbers DEF TypeOK, Taken
  <2>2. SendsAt(s, 0, pc[s]) /\ 0 # NoChannel
    BY <2>1, Numbers DEF SInv, Places
  <2>3. s = Main /\ pc[Main] = "stopped" /\ sends[Main] = 0 /\ reads[Main] = NoChannel
    BY <1>1, <2>1, <2>2, Numbers DEF SendsAt, ShellIds, ReportCh
  <2> QED BY <1>1, <2>1, <2>3, Numbers DEF SInv, Typed, Goto, Taken, Locals
<1>3. Typed'
  BY <1>1, <1>2, Numbers DEF SInv, Typed, Labels, ShellAt, ActiveAt, ScreenAt,
     CommandAt, MainAt, BootAt, Goto
<1>4. Kinds'
  BY <1>1, <1>2, Numbers DEF SInv, Kinds, KindOf, ShellAt, StartAt, ActiveAt,
     ScreenAt, CommandAt, IsShell, IsCommand, Screen
<1>5. MainIsAt'
  BY <1>1, <1>2, Numbers DEF SInv, MainIsAt, InBoot, MainAt, BootAt
<1>6. Places'
  BY <1>1, <1>2, Numbers DEF SInv, Places, SendsAt, ReadsAt, Free, IsShell, IsCommand,
     Screen, ShellIds, ReportCh
<1>7. ShellsBoot'
  BY <1>1, <1>2, Numbers DEF SInv, ShellsBoot, Boots, Booting, Resting, NewShell,
     InBoot, Free, StartAt, ActiveAt
<1>8. OneHolder'
  BY <1>1, <1>2, Numbers DEF SInv, OneHolder, Holds, InBoot, Free, ActiveAt
<1>9. StopsFirst'
  BY <1>1, <1>2, Numbers DEF SInv, StopsFirst, Stopping, Holds, InBoot, Free, ActiveAt
<1>10. ASSUME NEW p \in Procs, pc'[p] \in {"takeStop", "snakeTake"} PROVE sends'[Main] = 0
  <2>1. p # c0 /\ pc[p] \in {"takeStop", "snakeTake"}
    BY <1>1, <1>2, <1>10
  <2>2. Holds(p)
    BY <2>1, Whose DEF Holds, ShellAt, ActiveAt, ScreenAt
  <2> QED BY <1>1, <2>1, <2>2
<1>11. ASSUME NEW q \in Procs, Fresh(q)' PROVE LastOf(q)' /\ Hands(asked[q].sh - 1, q)'
  <2>1. Fresh(q) /\ q # c0
    BY <1>1, <1>2, Numbers, <1>11 DEF Fresh, Free
  <2>2. /\ Hands(asked[q].sh - 1, q) /\ LastOf(q) /\ IsCommand(q)
        /\ asked[q].sh - 1 \in Procs /\ asked[q].sh - 1 # c0
    BY <1>1, <1>2, Numbers, <2>1, FreshCommand DEF Hands, Free
  <2> QED BY <1>1, <1>2, Numbers, <2>1, <2>2 DEF Hands, Free, LastOf
<1>12. HasCommand'
  BY <1>1, <1>2, Numbers DEF SInv, HasCommand, LastOf
<1>13. Informed'
  BY <1>1, <1>2, Numbers DEF SInv, Informed, Free
<1>14. LastReport'
  BY <1>1, <1>2, Numbers DEF SInv, LastReport, Free
<1>15. ASSUME NEW p \in Procs, pc'[p] \in {"waitTake", "takeDone"}
       PROVE  \E q \in Procs : sends'[q] = 11 + p
  <2>1. PICK q \in Procs : sends[q] = 11 + p
    BY <1>1, <1>2, <1>15 DEF SInv, ReportIsThere
  <2>2. 11 + p # 0
    BY <1>15, <1>1, <1>2, <2>1, Numbers, Whose DEF ShellAt, ActiveAt, ReportCh
  <2> QED BY <1>1, <1>2, <2>1, <2>2
<1> QED BY <1>3, <1>4, <1>5, <1>6, <1>7, <1>8, <1>9, <1>10, <1>11, <1>12, <1>13,
   <1>14, <1>15 DEF SInv, StopIsThere, Handshakes, ReportIsThere

\* A shell waits to be put on the screen.
LEMMA ShellAwaits ==
    ASSUME KInv, SInv, Goto("line"), UNCHANGED Locals, At("shellOff"), Awaited(c0 + 1)
    PROVE  SInv'
<1>1. /\ c0 \in Procs /\ c0 \in 0 .. maxId /\ Free(c0) /\ IsShell(c0)
      /\ c0 # Main /\ c0 # Screen /\ ~IsCommand(c0) /\ pc[c0] = "shellOff"
      /\ myId[c0] = c0 + 1 /\ c0 + 1 \in ShellIds
      /\ InBoot => Resting(c0) /\ ~(NewShell /\ c0 = maxId)
  <2>1. /\ c0 \in Procs /\ c0 \in 0 .. maxId /\ Free(c0) /\ IsShell(c0)
        /\ c0 # Main /\ c0 # Screen /\ ~IsCommand(c0) /\ pc[c0] = "shellOff" /\ maxId \in Nat
        /\ c0 + 1 \in ShellIds
    BY Who, Whose, NumberedProcesses DEF ShellAt, At
  <2>2. Boots(c0)
    BY <2>1 DEF SInv, ShellsBoot
  <2> QED BY <2>1, <2>2, Numbers DEF Boots, Booting, Resting, Free, StartAt
<1>2. /\ \A p \in Procs : pc'[p] = IF p = c0 THEN "line" ELSE pc[p]
      /\ \A p \in Procs : reads'[p] = IF p = c0 THEN c0 + 1 ELSE reads[p]
      /\ \A p \in Procs : sends[p] # c0 + 1
      /\ sends' = sends /\ received' = received /\ value' = value
      /\ maxId' = maxId /\ currentId' = currentId
      /\ myId' = myId /\ job' = job /\ asked' = asked

  BY <1>1, Links DEF SInv, Typed, Goto, Awaited, Locals, At
<1>3. Typed'
  BY <1>1, <1>2, Numbers DEF SInv, Typed, Labels, ShellAt, ActiveAt, ScreenAt,
     CommandAt, MainAt, BootAt, Goto
<1>4. Kinds'
  BY <1>1, <1>2, Numbers DEF SInv, Kinds, KindOf, ShellAt, StartAt, ActiveAt,
     ScreenAt, CommandAt, IsShell, IsCommand, Screen
<1>5. MainIsAt'
  BY <1>1, <1>2, Numbers DEF SInv, MainIsAt, InBoot, MainAt, BootAt
<1>6. Places'
  BY <1>1, <1>2, Numbers DEF SInv, Places, SendsAt, ReadsAt, Free, IsShell, IsCommand,
     Screen, ShellIds, ReportCh
<1>7. ShellsBoot'
  BY <1>1, <1>2, Numbers DEF SInv, ShellsBoot, Boots, Booting, Resting, NewShell,
     InBoot, Free, StartAt, ActiveAt
<1>8. OneHolder'
  BY <1>1, <1>2, Numbers DEF SInv, OneHolder, Holds, InBoot, Free, ActiveAt
<1>9. StopsFirst'
  BY <1>1, <1>2, Numbers DEF SInv, StopsFirst, Stopping, Holds, InBoot, Free, ActiveAt
<1>10. StopIsThere'
  BY <1>1, <1>2, Numbers DEF SInv, StopIsThere
<1>11. ASSUME NEW q \in Procs, Fresh(q)' PROVE LastOf(q)' /\ Hands(asked[q].sh - 1, q)'
  <2>1. Fresh(q) /\ q # c0
    BY <1>1, <1>2, Numbers, <1>11 DEF Fresh, Free
  <2>2. /\ Hands(asked[q].sh - 1, q) /\ LastOf(q) /\ IsCommand(q)
        /\ asked[q].sh - 1 \in Procs /\ asked[q].sh - 1 # c0
    BY <1>1, <1>2, Numbers, <2>1, FreshCommand DEF Hands, Free
  <2> QED BY <1>1, <1>2, Numbers, <2>1, <2>2 DEF Hands, Free, LastOf
<1>12. HasCommand'
  BY <1>1, <1>2, Numbers DEF SInv, HasCommand, LastOf
<1>13. Informed'
  BY <1>1, <1>2, Numbers DEF SInv, Informed, Free
<1>14. LastReport'
  BY <1>1, <1>2, Numbers DEF SInv, LastReport, Free
<1>15. ReportIsThere'
  BY <1>1, <1>2, Numbers DEF SInv, ReportIsThere
<1> QED BY <1>3, <1>4, <1>5, <1>6, <1>7, <1>8, <1>9, <1>10, <1>11, <1>12, <1>13,
   <1>14, <1>15 DEF SInv, Handshakes

\* A shell is put on the screen by kernel_main.
LEMMA ShellTakes ==
    ASSUME KInv, SInv, Goto("line"), UNCHANGED Locals, At("shellOff"), NEW s \in Procs, Taken(c0 + 1, s)
    PROVE  SInv'
<1>1. /\ c0 \in Procs /\ c0 \in 0 .. maxId /\ Free(c0) /\ IsShell(c0)
      /\ c0 # Main /\ c0 # Screen /\ ~IsCommand(c0) /\ pc[c0] = "shellOff"
      /\ myId[c0] = c0 + 1 /\ c0 + 1 \in ShellIds
      /\ InBoot => Resting(c0) /\ ~(NewShell /\ c0 = maxId)
  <2>1. /\ c0 \in Procs /\ c0 \in 0 .. maxId /\ Free(c0) /\ IsShell(c0)
        /\ c0 # Main /\ c0 # Screen /\ ~IsCommand(c0) /\ pc[c0] = "shellOff" /\ maxId \in Nat
        /\ c0 + 1 \in ShellIds
    BY Who, Whose, NumberedProcesses DEF ShellAt, At
  <2>2. Boots(c0)
    BY <2>1 DEF SInv, ShellsBoot
  <2> QED BY <2>1, <2>2, Numbers DEF Boots, Booting, Resting, Free, StartAt
<1>2. /\ \A p \in Procs : pc'[p] = IF p = c0 THEN "line" ELSE pc[p]
      /\ \A p \in Procs : sends'[p] = IF p = s THEN NoChannel ELSE sends[p]
      /\ \A p \in Procs : p # c0 => received'[p] = received[p]
      /\ reads' = reads /\ value' = value
      /\ maxId' = maxId /\ currentId' = currentId
      /\ myId' = myId /\ job' = job /\ asked' = asked
      /\ s = Main /\ pc[Main] = "idle" /\ sends[Main] = c0 + 1 /\ reads[Main] = NoChannel
      /\ ~InBoot
  <2>1. /\ sends \in [Procs -> Channels \cup {NoChannel}]
        /\ value \in [Channels -> Values \cup {NoValue}]
        /\ received \in [Procs -> Values \cup {NoValue}]
        /\ sends[s] = c0 + 1 /\ reads[s] = NoChannel /\ s # c0
    BY Links, NumberedProcesses, Numbers DEF TypeOK, Taken
  <2>2. SendsAt(s, c0 + 1, pc[s]) /\ c0 + 1 # NoChannel
    BY <1>1, <2>1, Numbers DEF SInv, Places
  <2>3. s = Main /\ pc[Main] = "idle" /\ sends[Main] = c0 + 1 /\ reads[Main] = NoChannel
    BY <1>1, <2>1, <2>2, Numbers DEF SendsAt, ShellIds, ReportCh
  <2> QED BY <1>1, <2>1, <2>3, Numbers DEF SInv, Typed, Goto, Taken, Locals, InBoot, BootAt
<1>3. Typed'
  BY <1>1, <1>2, Numbers DEF SInv, Typed, Labels, ShellAt, ActiveAt, ScreenAt,
     CommandAt, MainAt, BootAt, Goto
<1>4. Kinds'
  BY <1>1, <1>2, Numbers DEF SInv, Kinds, KindOf, ShellAt, StartAt, ActiveAt,
     ScreenAt, CommandAt, IsShell, IsCommand, Screen
<1>5. MainIsAt'
  BY <1>1, <1>2, Numbers DEF SInv, MainIsAt, InBoot, MainAt, BootAt
<1>6. Places'
  BY <1>1, <1>2, Numbers DEF SInv, Places, SendsAt, ReadsAt, Free, IsShell, IsCommand,
     Screen, ShellIds, ReportCh
<1>7. ShellsBoot'
  BY <1>1, <1>2, Numbers DEF SInv, ShellsBoot, Boots, Booting, Resting, NewShell,
     InBoot, Free, StartAt, ActiveAt
<1>8. ASSUME NEW p \in Procs, NEW q \in Procs, Holds(p)', Holds(q)' PROVE p = q
  <2>1. Holds(Main)
    BY <1>1, <1>2, Numbers DEF Holds, Free
  <2>2. \A x \in Procs : Holds(x)' /\ x # c0 => Holds(x) /\ x # Main
    BY <1>1, <1>2, Numbers DEF Holds, InBoot, Free, ActiveAt, BootAt
  <2> QED BY <1>8, <2>1, <2>2, Numbers DEF SInv, OneHolder
<1>9. StopsFirst'
  BY <1>1, <1>2, Numbers DEF SInv, StopsFirst, Stopping, Holds, InBoot, Free, ActiveAt
<1>10. StopIsThere'
  BY <1>1, <1>2, Numbers DEF SInv, StopIsThere
<1>11. ASSUME NEW q \in Procs, Fresh(q)' PROVE LastOf(q)' /\ Hands(asked[q].sh - 1, q)'
  <2>1. Fresh(q) /\ q # c0
    BY <1>1, <1>2, Numbers, <1>11 DEF Fresh, Free
  <2>2. /\ Hands(asked[q].sh - 1, q) /\ LastOf(q) /\ IsCommand(q)
        /\ asked[q].sh - 1 \in Procs /\ asked[q].sh - 1 # c0
    BY <1>1, <1>2, Numbers, <2>1, FreshCommand DEF Hands, Free
  <2> QED BY <1>1, <1>2, Numbers, <2>1, <2>2 DEF Hands, Free, LastOf
<1>12. HasCommand'
  BY <1>1, <1>2, Numbers DEF SInv, HasCommand, LastOf
<1>13. Informed'
  BY <1>1, <1>2, Numbers DEF SInv, Informed, Free
<1>14. LastReport'
  BY <1>1, <1>2, Numbers DEF SInv, LastReport, Free
<1>15. ASSUME NEW p \in Procs, pc'[p] \in {"waitTake", "takeDone"}
       PROVE  \E q \in Procs : sends'[q] = 11 + p
  <2>1. PICK q \in Procs : sends[q] = 11 + p
    BY <1>1, <1>2, <1>15 DEF SInv, ReportIsThere
  <2>2. 11 + p # c0 + 1
    BY <1>15, <1>1, <1>2, <2>1, Numbers, Whose DEF ShellAt, ActiveAt, ReportCh
  <2> QED BY <1>1, <1>2, <2>1, <2>2
<1> QED BY <1>3, <1>4, <1>5, <1>6, <1>7, <1>8, <1>9, <1>10, <1>11, <1>12, <1>13,
   <1>14, <1>15 DEF SInv, OneHolder, Handshakes, ReportIsThere

\* The command that a shell sends its messages to is the one it created last.
LEMMA MineIsLast ==
    ASSUME KInv, SInv, pc[c0] \in {"sendFunction", "sendArgs", "sendId"}
    PROVE  /\ Mine \in Procs /\ asked[Mine].sh = c0 + 1
           /\ \A q \in Procs : LastOf(q) /\ asked[q].sh = c0 + 1 => q = Mine
<1>1. c0 \in Procs /\ myId[c0] = c0 + 1 /\ Procs \subseteq Nat
  BY ShellHolds, Numbers DEF ActiveAt
<1>2. PICK q \in Procs : asked[q].sh = c0 + 1 /\ LastOf(q)
  BY <1>1 DEF SInv, HasCommand
<1>3. \E p \in Procs : asked[p].sh = myId[c0] /\ \A r \in Procs : asked[r].sh = myId[c0] => r <= p
  BY <1>1, <1>2 DEF LastOf
<1>4. /\ Mine \in Procs /\ asked[Mine].sh = myId[c0]
      /\ \A r \in Procs : asked[r].sh = myId[c0] => r <= Mine
  BY <1>3 DEF Mine, CommandOf
<1>5. ASSUME NEW p \in Procs, LastOf(p), asked[p].sh = c0 + 1 PROVE p = Mine
  <2>1. p <= Mine /\ Mine <= p /\ p \in Nat /\ Mine \in Nat
    BY <1>1, <1>4, <1>5 DEF LastOf
  <2> QED BY <2>1
<1> QED BY <1>1, <1>4, <1>5

\* Nobody but the process that has the right offers a message on channel 1, and
\* nobody waits on it but a new command and kernel_main.
LEMMA ChannelOne ==
    ASSUME KInv, SInv, Holds(c0), ~InBoot, NEW s \in Procs
    PROVE  /\ sends[s] # 1
           /\ reads[s] = 1 => \/ s = Main /\ pc[s] = "start"
                              \/ Fresh(s) /\ asked[s].sh - 1 = c0 /\ Hands(c0, s)
<1>1. c0 \in Procs /\ Free(c0)
  BY Who
<1>2. \A p \in Procs : Holds(p) => p = c0
  BY <1>1 DEF SInv, OneHolder
<1>3. sends[s] # 1
  <2> SUFFICES ASSUME sends[s] = 1 PROVE FALSE
    OBVIOUS
  <2>1. SendsAt(s, 1, pc[s])
    BY DEF SInv, Places
  <2>2. Holds(s)
    BY <2>1, Numbers DEF SendsAt, Holds, InBoot, BootAt, ActiveAt, ShellIds, ReportCh
  <2> QED BY <1>1, <1>2, <2>2, Numbers DEF Free
<1>4. ASSUME reads[s] = 1
      PROVE  \/ s = Main /\ pc[s] = "start"
             \/ Fresh(s) /\ asked[s].sh - 1 = c0 /\ Hands(c0, s)
  <2>1. ReadsAt(s, 1, pc[s])
    BY <1>4 DEF SInv, Places
  <2>2. pc[s] \notin {"create", "shellNumbered"}
    BY Whose, Numbers DEF SInv, ShellsBoot, Boots, StartAt, ShellAt, MainAt, InBoot, BootAt
  <2>3. (s = Main /\ pc[s] = "start") \/ Fresh(s)
    BY <1>4, <2>1, <2>2, Numbers DEF ReadsAt, ShellIds, Fresh, Free
  <2>4. CASE Fresh(s)
    <3>1. asked[s].sh - 1 = c0 /\ Hands(asked[s].sh - 1, s)
      BY <1>2, <2>4, FreshCommand
    <3> QED BY <2>4, <3>1
  <2> QED BY <2>3, <2>4
<1> QED BY <1>3, <1>4

\* A shell offers its command the next message.
LEMMA ShellOffers ==
    ASSUME KInv, SInv, NEW l2, NEW v, Goto(l2), UNCHANGED Locals, Offered(1, v),
           \/ At("sendFunction") /\ l2 = "sendArgs" /\ v = asked[Mine].fn
           \/ At("sendArgs") /\ l2 = "sendId"
           \/ At("sendId") /\ l2 \in {"wait", "pollDone"} /\ v = c0 + 1
    PROVE  SInv'
<1>1. /\ c0 \in Procs /\ c0 \in 0 .. maxId /\ Free(c0) /\ IsShell(c0)
      /\ c0 # Main /\ c0 # Screen /\ ~IsCommand(c0)
      /\ Holds(c0) /\ \A p \in Procs : Holds(p) => p = c0
      /\ ~InBoot
  BY ShellHolds DEF ActiveAt, At
<1>2. /\ \A p \in Procs : pc'[p] = IF p = c0 THEN l2 ELSE pc[p]
      /\ \A p \in Procs : sends'[p] = IF p = c0 THEN 1 ELSE sends[p]
      /\ \A k \in Channels : k # 1 => value'[k] = value[k]
      /\ value'[1] = v
      /\ \A p \in Procs : sends[p] # 1 /\ reads[p] # 1
      /\ reads' = reads /\ received' = received
      /\ maxId' = maxId /\ currentId' = currentId
      /\ myId' = myId /\ job' = job /\ asked' = asked
      /\ \A p \in Procs : sends[p] \in Channels \cup {NoChannel}
      /\ \/ pc[c0] = "sendFunction" /\ l2 = "sendArgs" /\ v = asked[Mine].fn
         \/ pc[c0] = "sendArgs" /\ l2 = "sendId"
         \/ pc[c0] = "sendId" /\ l2 \in {"wait", "pollDone"} /\ v = c0 + 1
      /\ \A q \in Procs : LastOf(q) /\ asked[q].sh = c0 + 1 => q = Mine
      /\ Procs \subseteq Nat
  <2>1. /\ sends \in [Procs -> Channels \cup {NoChannel}]
        /\ value \in [Channels -> Values \cup {NoValue}]
    BY Links
  <2>2. \A q \in Procs : LastOf(q) /\ asked[q].sh = c0 + 1 => q = Mine
    BY MineIsLast DEF At
  <2> QED BY <1>1, <2>1, <2>2, Numbers DEF SInv, Typed, Goto, Offered, Locals, At
<1>3. Typed'
  BY <1>1, <1>2, Numbers DEF SInv, Typed, Labels, ShellAt, ActiveAt, ScreenAt,
     CommandAt, MainAt, BootAt, Goto
<1>4. Kinds'
  BY <1>1, <1>2, Numbers DEF SInv, Kinds, KindOf, ShellAt, StartAt, ActiveAt,
     ScreenAt, CommandAt, IsShell, IsCommand, Screen
<1>5. MainIsAt'
  BY <1>1, <1>2, Numbers DEF SInv, MainIsAt, InBoot, MainAt, BootAt
<1>6. Places'
  BY <1>1, <1>2, Numbers DEF SInv, Places, SendsAt, ReadsAt, Free, IsShell, IsCommand,
     Screen, ShellIds, ReportCh
<1>7. ShellsBoot'
  BY <1>1, <1>2, Numbers DEF SInv, ShellsBoot, Boots, Booting, Resting, NewShell,
     InBoot, Free, StartAt, ActiveAt
<1>8. OneHolder'
  BY <1>1, <1>2, Numbers DEF SInv, OneHolder, Holds, InBoot, Free, ActiveAt
<1>9. StopsFirst'
  BY <1>1, <1>2, Numbers DEF SInv, StopsFirst, Stopping, Holds, InBoot, Free, ActiveAt
<1>10. StopIsThere'
  BY <1>1, <1>2, Numbers DEF SInv, StopIsThere
<1>11. ASSUME NEW q \in Procs, Fresh(q)' PROVE LastOf(q)' /\ Hands(asked[q].sh - 1, q)'
  <2>1. Fresh(q) /\ q # c0
    BY <1>1, <1>2, Numbers, <1>11 DEF Fresh, Free
  <2>2. /\ asked[q].sh - 1 = c0 /\ asked[q].sh \in Nat /\ LastOf(q)
        /\ Hands(asked[q].sh - 1, q) /\ IsCommand(q)
    BY <1>1, <2>1, FreshCommand, Numbers DEF ShellIds
  <2>3. asked[q].sh = c0 + 1 /\ q = Mine /\ Hands(c0, q)
    BY <1>1, <1>2, <2>2
  <2> QED BY <1>1, <1>2, Numbers, <2>1, <2>2, <2>3 DEF Hands, Free, LastOf
<1>12. HasCommand'
  BY <1>1, <1>2, Numbers DEF SInv, HasCommand, LastOf
<1>13. Informed'
  BY <1>1, <1>2, Numbers DEF SInv, Informed, Free
<1>14. ASSUME NEW q \in Procs, (pc[q] = "printed" /\ ~Free(q))' PROVE (value[sends[q]] = Zero)'
  <2>1. CASE q = c0
    BY <1>1, <1>2, <1>14, <2>1, Numbers DEF Free
  <2>2. CASE q # c0
    <3>1. pc[q] = "printed" /\ ~Free(q) /\ value[sends[q]] = Zero /\ sends[q] # 1
      BY <1>1, <1>2, <1>14, <2>2 DEF SInv, LastReport, Free
    <3>2. sends[q] \in Channels
      BY <1>2, <3>1, Numbers DEF SInv, Places, ReadsAt, Free
    <3> QED BY <1>2, <2>2, <3>1, <3>2
  <2> QED BY <2>1, <2>2
<1>15. ASSUME NEW p \in Procs, pc'[p] \in {"waitTake", "takeDone"}
       PROVE  \E q \in Procs : sends'[q] = 11 + p
  <2>1. PICK q \in Procs : sends[q] = 11 + p
    BY <1>1, <1>2, <1>15 DEF SInv, ReportIsThere
  <2>2. 11 + p \in Channels
    BY <1>15, <1>2, <2>1, Numbers, Whose DEF ShellAt, ActiveAt
  <2> QED BY <1>1, <1>2, <2>1, <2>2, Numbers DEF Free
<1> QED BY <1>3, <1>4, <1>5, <1>6, <1>7, <1>8, <1>9, <1>10, <1>11, <1>12, <1>13,
   <1>14, <1>15 DEF SInv, Handshakes, LastReport, ReportIsThere

\* A shell hands its command the next message.
LEMMA ShellPasses ==
    ASSUME KInv, SInv, NEW l2, NEW v, Goto(l2), UNCHANGED Locals, NEW r \in Procs, Passed(1, v, r),
           \/ At("sendFunction") /\ l2 = "sendArgs" /\ v = asked[Mine].fn
           \/ At("sendArgs") /\ l2 = "sendId"
           \/ At("sendId") /\ l2 \in {"wait", "pollDone"} /\ v = c0 + 1
    PROVE  SInv'
<1>1. /\ c0 \in Procs /\ c0 \in 0 .. maxId /\ Free(c0) /\ IsShell(c0)
      /\ c0 # Main /\ c0 # Screen /\ ~IsCommand(c0)
      /\ Holds(c0) /\ \A p \in Procs : Holds(p) => p = c0
      /\ ~InBoot
  BY ShellHolds DEF ActiveAt, At
<1>2. /\ \A p \in Procs : pc'[p] = IF p = c0 THEN l2 ELSE pc[p]
      /\ \A p \in Procs : reads'[p] = IF p = r THEN NoChannel ELSE reads[p]
      /\ \A p \in Procs : received'[p] = IF p = r THEN v ELSE received[p]
      /\ \A k \in Channels : k # 1 => value'[k] = value[k]
      /\ sends' = sends
      /\ maxId' = maxId /\ currentId' = currentId
      /\ myId' = myId /\ job' = job /\ asked' = asked
      /\ \A p \in Procs : sends[p] \in Channels \cup {NoChannel} /\ sends[p] # 1
      /\ r # c0 /\ reads[r] = 1 /\ sends[r] = NoChannel
      /\ Fresh(r) /\ asked[r].sh = c0 + 1 /\ r = Mine /\ Hands(c0, r)
      /\ IsCommand(r) /\ r # Main /\ r # Screen /\ ~IsShell(r)
      /\ \/ pc[c0] = "sendFunction" /\ l2 = "sendArgs" /\ v = asked[Mine].fn
         \/ pc[c0] = "sendArgs" /\ l2 = "sendId"
         \/ pc[c0] = "sendId" /\ l2 \in {"wait", "pollDone"} /\ v = c0 + 1
      /\ \A q \in Procs : LastOf(q) /\ asked[q].sh = c0 + 1 => q = Mine
      /\ Procs \subseteq Nat
  <2>1. /\ sends \in [Procs -> Channels \cup {NoChannel}]
        /\ value \in [Channels -> Values \cup {NoValue}]
        /\ reads \in [Procs -> Channels \cup {NoChannel}]
        /\ received \in [Procs -> Values \cup {NoValue}]
        /\ reads[r] = 1 /\ sends[r] = NoChannel /\ r # c0
    BY Links, NumberedProcesses, Numbers DEF TypeOK, Passed
  <2>2. ~(r = Main /\ pc[r] = "start")
    BY <1>1, <2>1, Numbers DEF SInv, StopsFirst, Stopping, Free, At
  <2>3. Fresh(r) /\ asked[r].sh - 1 = c0 /\ Hands(c0, r)
    BY <1>1, <2>1, <2>2, ChannelOne
  <2>4. IsCommand(r) /\ asked[r].sh = c0 + 1 /\ LastOf(r) /\ r # Main /\ r # Screen /\ ~IsShell(r)
    BY <1>1, <2>3, FreshCommand, Numbers DEF IsCommand, IsShell, Screen, ShellIds
  <2>5. \A q \in Procs : LastOf(q) /\ asked[q].sh = c0 + 1 => q = Mine
    BY MineIsLast DEF At
  <2> QED BY <1>1, <2>1, <2>3, <2>4, <2>5, Numbers DEF SInv, Typed, Goto, Passed, Locals, At
<1>3. Typed'
  BY <1>1, <1>2, Numbers DEF SInv, Typed, Labels, ShellAt, ActiveAt, ScreenAt,
     CommandAt, MainAt, BootAt, Goto
<1>4. Kinds'
  BY <1>1, <1>2, Numbers DEF SInv, Kinds, KindOf, ShellAt, StartAt, ActiveAt,
     ScreenAt, CommandAt, IsShell, IsCommand, Screen
<1>5. MainIsAt'
  BY <1>1, <1>2, Numbers DEF SInv, MainIsAt, InBoot, MainAt, BootAt
<1>6. Places'
  BY <1>1, <1>2, Numbers DEF SInv, Places, SendsAt, ReadsAt, Free, IsShell, IsCommand,
     Screen, ShellIds, ReportCh
<1>7. ShellsBoot'
  BY <1>1, <1>2, Numbers DEF SInv, ShellsBoot, Boots, Booting, Resting, NewShell,
     InBoot, Free, StartAt, ActiveAt
<1>8. OneHolder'
  BY <1>1, <1>2, Numbers DEF SInv, OneHolder, Holds, InBoot, Free, ActiveAt
<1>9. StopsFirst'
  BY <1>1, <1>2, Numbers DEF SInv, StopsFirst, Stopping, Holds, InBoot, Free, ActiveAt
<1>10. StopIsThere'
  BY <1>1, <1>2, Numbers DEF SInv, StopIsThere
<1>11. ASSUME NEW q \in Procs, Fresh(q)' PROVE LastOf(q)' /\ Hands(asked[q].sh - 1, q)'
  <2>1. Fresh(q) /\ q # c0
    BY <1>1, <1>2, Numbers, <1>11 DEF Fresh, Free
  <2>2. /\ asked[q].sh - 1 = c0 /\ asked[q].sh \in Nat /\ LastOf(q)
        /\ Hands(asked[q].sh - 1, q) /\ IsCommand(q)
    <3>1. /\ asked[q].sh - 1 \in Procs /\ Holds(asked[q].sh - 1) /\ LastOf(q) /\ IsCommand(q)
          /\ Hands(asked[q].sh - 1, q) /\ asked[q].sh \in Nat
      BY <2>1, FreshCommand, Numbers DEF ShellIds
    <3> QED BY <1>1, <3>1
  <2>3. asked[q].sh = c0 + 1 /\ q = Mine /\ q = r /\ Hands(c0, q)
    BY <1>1, <1>2, <2>2
  <2> QED BY <1>1, <1>2, <1>11, Numbers, <2>1, <2>2, <2>3 DEF Hands, Free, LastOf, Fresh
<1>12. HasCommand'
  BY <1>1, <1>2, Numbers DEF SInv, HasCommand, LastOf
<1>13. ASSUME NEW q \in Procs
      PROVE  /\ (pc[q] = "cmdNumbered" /\ Free(q))' => (job[q] = asked[q].fn /\ received[q] = asked[q].sh)'
             /\ pc'[q] \in {"run", "playing", "ended", "printed", "exit"} =>
                    (job[q] = asked[q].fn /\ myId[q] = asked[q].sh)'
  <2>1. CASE q = r
    BY <1>1, <1>2, <2>1, Numbers DEF Hands, Free, Fresh
  <2>2. CASE q # r
    BY <1>1, <1>2, <2>2, Numbers DEF SInv, Informed, Free
  <2> QED BY <2>1, <2>2
<1>14. ASSUME NEW q \in Procs, (pc[q] = "printed" /\ ~Free(q))' PROVE (value[sends[q]] = Zero)'
  <2>1. q # c0 /\ q # r /\ pc[q] = "printed" /\ ~Free(q) /\ value[sends[q]] = Zero
    BY <1>1, <1>2, <1>14, Numbers DEF SInv, LastReport, Free
  <2>2. sends[q] \in Channels
    BY <1>2, <2>1, Numbers DEF SInv, Places, ReadsAt, Free
  <2> QED BY <1>2, <2>1, <2>2
<1>15. ReportIsThere'
  BY <1>1, <1>2, Numbers DEF SInv, ReportIsThere
<1> QED BY <1>3, <1>4, <1>5, <1>6, <1>7, <1>8, <1>9, <1>10, <1>11, <1>12, <1>13,
   <1>14, <1>15 DEF SInv, Handshakes, Informed, LastReport

\* A shell creates a process for a command.
LEMMA ShellStarts ==
    ASSUME KInv, SInv, NEW n, n = maxId + 1, n \in Procs, At("line"), NEW f \in Functions, NEW bg \in BOOLEAN,
           maxId' = n, UNCHANGED <<sends, reads, value, received, currentId, myId, job>>,
           pc' = [pc EXCEPT ![c0] = "sendFunction", ![n] = "cmdStart"],
           asked' = [asked EXCEPT ![n] = [fn |-> f, sh |-> myId[c0], bg |-> bg]]
    PROVE  SInv'
<1>1. /\ c0 \in Procs /\ c0 \in 0 .. maxId /\ Free(c0) /\ IsShell(c0)
      /\ c0 # Main /\ c0 # Screen /\ ~IsCommand(c0) /\ pc[c0] = "line"
      /\ Holds(c0) /\ \A p \in Procs : Holds(p) => p = c0
      /\ ~InBoot /\ maxId > NumShells /\ myId[c0] = c0 + 1 /\ c0 + 1 \in ShellIds
  BY ShellHolds, Whose DEF At
<1>2. /\ \A p \in Procs : pc'[p] = IF p = n THEN "cmdStart" ELSE IF p = c0 THEN "sendFunction" ELSE pc[p]
      /\ \A p \in Procs : asked'[p] = IF p = n THEN [fn |-> f, sh |-> c0 + 1, bg |-> bg] ELSE asked[p]
      /\ sends' = sends /\ reads' = reads /\ value' = value /\ received' = received
      /\ maxId' = n /\ currentId' = currentId /\ myId' = myId /\ job' = job
      /\ n = maxId + 1 /\ n \in Procs /\ n # c0 /\ n \in Nat /\ maxId \in Nat
      /\ n # Main
      /\ sends[n] = NoChannel /\ reads[n] = NoChannel /\ pc[n] = "none" /\ asked[n] = NoJob
      /\ \A p \in Procs : asked[p].sh # 0 => p <= maxId
      /\ \A p \in Procs : p \in Nat
      /\ \A p \in Procs : p <= n <=> p <= maxId \/ p = n
      /\ IsCommand(n) /\ ~IsShell(n) /\ n # Screen
      /\ \A q \in Procs : ~Fresh(q)
      /\ asked' \in [Procs -> [fn : Functions \cup {NoValue}, sh : ShellIds \cup {0}, bg : BOOLEAN]]
      /\ pc' \in [Procs -> Labels]
  <2>1. n \in Procs /\ n \in Nat /\ maxId \in Nat /\ n # c0 /\ n \notin 0 .. maxId /\ n > maxId /\ n # Main
    BY <1>1, NumberedProcesses, Numbers DEF c0
  <2>2. sends[n] = NoChannel /\ reads[n] = NoChannel
    BY <2>1, Links
  <2>3. pc[n] = "none" /\ asked[n] = NoJob
    BY <2>1 DEF SInv, Kinds, KindOf
  <2>4. \A p \in Procs : asked[p].sh # 0 => p <= maxId
    <3>1. \A p \in Procs : asked[p] = NoJob \/ p <= maxId
      BY DEF SInv, Kinds, KindOf
    <3> QED BY <3>1 DEF NoJob
  <2>5. \A p \in Procs : p \in Nat
    BY Numbers
  <2>6. \A p \in Procs : p <= n <=> p <= maxId \/ p = n
    BY <2>1, <2>5
  <2>7. IsCommand(n) /\ ~IsShell(n) /\ n # Screen
    BY <1>1, <2>1, Numbers DEF IsCommand, IsShell, Screen
  <2>8. ASSUME NEW q \in Procs, Fresh(q) PROVE FALSE
    <3>1. asked[q].sh - 1 = c0 /\ Hands(asked[q].sh - 1, q)
      BY <1>1, <2>8, FreshCommand
    <3> QED BY <1>1, <3>1 DEF Hands
  <2>9. /\ asked' \in [Procs -> [fn : Functions \cup {NoValue}, sh : ShellIds \cup {0}, bg : BOOLEAN]]
        /\ pc' \in [Procs -> Labels]
        /\ \A p \in Procs : asked'[p] = IF p = n THEN [fn |-> f, sh |-> c0 + 1, bg |-> bg] ELSE asked[p]
        /\ \A p \in Procs : pc'[p] = IF p = n THEN "cmdStart" ELSE IF p = c0 THEN "sendFunction" ELSE pc[p]
    <3>1. "cmdStart" \in Labels /\ "sendFunction" \in Labels
      BY DEF Labels, CommandAt, ShellAt, ActiveAt
    <3> QED BY <1>1, <2>1, <3>1 DEF SInv, Typed
  <2> QED BY <1>1, <2>1, <2>2, <2>3, <2>4, <2>5, <2>6, <2>7, <2>8, <2>9, Zenon
<1>3. Typed'
  BY <1>1, <1>2, Numbers DEF SInv, Typed, Labels, ShellAt, ActiveAt, ScreenAt,
     CommandAt, MainAt, BootAt, Goto
<1>4. Kinds'
  BY <1>1, <1>2, Numbers DEF SInv, Kinds, KindOf, ShellAt, StartAt, ActiveAt,
     ScreenAt, CommandAt, IsShell, IsCommand, Screen
<1>5. MainIsAt'
  BY <1>1, <1>2, Numbers DEF SInv, MainIsAt, InBoot, MainAt, BootAt
<1>6. Places'
  BY <1>1, <1>2, Numbers DEF SInv, Places, SendsAt, ReadsAt, Free, IsShell, IsCommand,
     Screen, ShellIds, ReportCh
<1>7. ShellsBoot'
  BY ZenonT(60), <1>1, <1>2, Numbers DEF SInv, ShellsBoot, Boots, Booting, Resting, NewShell,
     InBoot, Free, StartAt, ActiveAt
<1>8. OneHolder'
  BY <1>1, <1>2, Numbers DEF SInv, OneHolder, Holds, InBoot, Free, ActiveAt
<1>9. StopsFirst'
  BY <1>1, <1>2, Numbers DEF SInv, StopsFirst, Stopping, Holds, InBoot, Free, ActiveAt
<1>10. StopIsThere'
  BY <1>1, <1>2, Numbers DEF SInv, StopIsThere
<1>11. ASSUME NEW q \in Procs, Fresh(q)' PROVE LastOf(q)' /\ Hands(asked[q].sh - 1, q)'
  <2>1. q = n
    BY <1>1, <1>2, <1>11 DEF Fresh, Free
  <2>2. \A r \in Procs : asked'[r].sh = c0 + 1 => r <= n
    BY <1>1, <1>2, Numbers DEF IsShell
  <2>3. asked'[n].sh = c0 + 1 /\ asked'[n].sh - 1 = c0
    BY <1>1, <1>2, Numbers
  <2> QED BY <1>1, <1>2, Numbers, <2>1, <2>2, <2>3 DEF Hands, Free, LastOf
<1>12. ASSUME NEW p \in Procs, pc'[p] \in {"sendFunction", "sendArgs", "sendId"}
      PROVE  (\E q \in Procs : asked[q].sh = p + 1 /\ LastOf(q))'
  <2>1. pc'[p] \in ActiveAt /\ p # n
    BY <1>2, <1>12 DEF ActiveAt
  <2>2. p = c0
    BY <1>1, <1>2, <2>1, <1>12, Whose DEF Holds, ShellAt
  <2>3. \A r \in Procs : asked'[r].sh = c0 + 1 => r <= n
    BY <1>1, <1>2, Numbers DEF IsShell
  <2>4. asked'[n].sh = c0 + 1
    BY <1>1, <1>2, Numbers
  <2> QED BY <1>2, <2>2, <2>3, <2>4 DEF LastOf
<1>13. ASSUME NEW q \in Procs
      PROVE  /\ (pc[q] = "cmdNumbered" /\ Free(q))' => (job[q] = asked[q].fn /\ received[q] = asked[q].sh)'
             /\ pc'[q] \in {"run", "playing", "ended", "printed", "exit"} =>
                    (job[q] = asked[q].fn /\ myId[q] = asked[q].sh)'
  <2>1. CASE q = n
    BY <1>1, <1>2, <2>1
  <2>2. CASE q # n
    BY <1>1, <1>2, <2>2 DEF SInv, Informed, Free
  <2> QED BY <2>1, <2>2
<1>14. LastReport'
  BY <1>1, <1>2, Numbers DEF SInv, LastReport, Free
<1>15. ReportIsThere'
  BY <1>1, <1>2, Numbers DEF SInv, ReportIsThere
<1> QED BY <1>3, <1>4, <1>5, <1>6, <1>7, <1>8, <1>9, <1>10, <1>11, <1>12, <1>13,
   <1>14, <1>15 DEF SInv, Handshakes, HasCommand, Informed

\* Until kernel_main starts the first shell it holds the right, there is no
\* command, and channel 1 is for kernel_main and the newest shell.
LEMMA BootFacts ==
    ASSUME KInv, SInv, InBoot
    PROVE  /\ maxId <= NumShells + 1 /\ maxId \in Nat
           /\ \A p \in Procs : Holds(p) => p = Main
           /\ \A p \in Procs : pc[p] \notin CommandAt /\ ~Fresh(p) /\ pc[p] \notin ActiveAt
           /\ \A s \in Procs : sends[s] = 1 =>
                 \/ s = Main /\ pc[s] = "shellReady"
                 \/ s = maxId /\ IsShell(s) /\ NewShell /\ pc[s] = "shellOff"
           /\ \A s \in Procs : reads[s] = 1 =>
                 \/ s = Main /\ pc[s] = "create"
                 \/ s = maxId /\ IsShell(s) /\ NewShell /\ pc[s] = "shellNumbered"
<1>1. maxId \in Nat /\ NumShells \in Nat /\ Main = 0 /\ Main \in Procs /\ Procs \subseteq Nat
  BY NumberedProcesses, Numbers
<1>2. maxId <= NumShells + 1
  BY <1>1, Numbers DEF SInv, MainIsAt, InBoot, BootAt
<1>3. \A p \in Procs : Holds(p) => p = Main
  BY <1>1 DEF SInv, OneHolder, Holds
<1>4. ASSUME NEW p \in Procs PROVE pc[p] \notin CommandAt /\ ~Fresh(p)
  BY <1>1, <1>2, Whose DEF IsCommand, Fresh, CommandAt
<1>5. ASSUME NEW p \in Procs PROVE pc[p] \notin ActiveAt
  BY <1>1, <1>3, Whose DEF Holds, ShellAt
<1>6. ASSUME NEW s \in Procs, IsShell(s), s <= maxId, pc[s] # "line", ~Free(s)
      PROVE  s = maxId /\ NewShell
  BY <1>6 DEF SInv, ShellsBoot, Boots, Resting, Free
<1>7. ASSUME NEW s \in Procs, sends[s] = 1
      PROVE  \/ s = Main /\ pc[s] = "shellReady"
             \/ s = maxId /\ IsShell(s) /\ NewShell /\ pc[s] = "shellOff"
  <2>1. SendsAt(s, 1, pc[s]) /\ ~Free(s)
    BY <1>7, Numbers DEF SInv, Places, Free
  <2>2. pc[s] \notin {"sendArgs", "sendId", "wait", "pollDone"}
    BY <1>5 DEF ActiveAt
  <2>3. ~(s = Screen /\ pc[s] = "snake")
    BY <1>1, <1>3, <1>7 DEF Holds, Screen
  <2>4. (s = Main /\ pc[s] = "shellReady") \/ (IsShell(s) /\ pc[s] = "shellOff")
    BY <2>1, <2>2, <2>3, Numbers DEF SendsAt, ShellIds, ReportCh
  <2> QED BY <1>6, <2>1, <2>4, Whose DEF ShellAt
<1>8. ASSUME NEW s \in Procs, reads[s] = 1
      PROVE  \/ s = Main /\ pc[s] = "create"
             \/ s = maxId /\ IsShell(s) /\ NewShell /\ pc[s] = "shellNumbered"
  <2>1. ReadsAt(s, 1, pc[s]) /\ ~Free(s)
    BY <1>8, Numbers DEF SInv, Places, Free
  <2>2. pc[s] \notin CommandAt /\ ~(s = Main /\ pc[s] = "start")
    BY <1>4 DEF InBoot, BootAt
  <2>3. (s = Main /\ pc[s] = "create") \/ (IsShell(s) /\ pc[s] = "shellNumbered")
    BY <2>1, <2>2, Numbers DEF ReadsAt, ShellIds, CommandAt
  <2> QED BY <1>6, <2>1, <2>3, Whose DEF ShellAt, StartAt
<1> QED BY <1>1, <1>2, <1>3, <1>4, <1>5, <1>7, <1>8

\* kernel_main leaves the initialisation, and looks at the keyboard.
LEMMA MainRuns ==
    ASSUME KInv, SInv, Quiet, NEW l2, Goto(l2), UNCHANGED Locals,
           \/ At("boot") /\ l2 = "create"
           \/ At("idle") /\ l2 = "keys"
           \/ At("keys") /\ l2 = "keys"
    PROVE  SInv'
<1>1. /\ c0 = Main /\ c0 \in Procs /\ c0 \in 0 .. maxId /\ Free(c0) /\ Main = 0
      /\ c0 # Screen /\ ~IsShell(c0) /\ ~IsCommand(c0)
  BY Who, Numbers DEF MainAt, BootAt, At, Screen, IsShell, IsCommand
<1>2. /\ \A p \in Procs : pc'[p] = IF p = c0 THEN l2 ELSE pc[p]
      /\ sends' = sends /\ reads' = reads /\ value' = value /\ received' = received
      /\ maxId' = maxId /\ currentId' = currentId
      /\ myId' = myId /\ job' = job /\ asked' = asked
      /\ \/ pc[c0] = "boot" /\ l2 = "create"
         \/ pc[c0] = "idle" /\ l2 = "keys"
         \/ pc[c0] = "keys" /\ l2 = "keys"
  BY <1>1 DEF SInv, Typed, Goto, Quiet, Locals, At
<1>3. Typed'
  BY <1>1, <1>2, Numbers DEF SInv, Typed, Labels, ShellAt, ActiveAt, ScreenAt,
     CommandAt, MainAt, BootAt, Goto
<1>4. Kinds'
  BY <1>1, <1>2, Numbers DEF SInv, Kinds, KindOf, ShellAt, StartAt, ActiveAt,
     ScreenAt, CommandAt, IsShell, IsCommand, Screen
<1>5. MainIsAt'
  BY <1>1, <1>2, Numbers DEF SInv, MainIsAt, InBoot, MainAt, BootAt, Free
<1>6. Places'
  BY <1>1, <1>2, Numbers DEF SInv, Places, SendsAt, ReadsAt, Free, IsShell, IsCommand,
     Screen, ShellIds, ReportCh
<1>7. ASSUME NEW p \in Procs, IsShell(p), p <= maxId' PROVE Boots(p)'
  <2>1. CASE pc[c0] = "boot"
    BY <1>1, <1>2, <1>7, <2>1, Numbers DEF SInv, MainIsAt, IsShell
  <2>2. CASE pc[c0] # "boot"
    <3>1. Boots(p) /\ ~InBoot /\ ~InBoot' /\ p # c0
      BY <1>1, <1>2, <1>7, <2>2 DEF SInv, ShellsBoot, InBoot, BootAt
    <3> QED BY <1>2, <3>1 DEF Boots
  <2> QED BY <2>1, <2>2
<1>8. ASSUME NEW p \in Procs, NEW q \in Procs, Holds(p)', Holds(q)' PROVE p = q
  <2>1. \A x \in Procs : Holds(x)' => Holds(x)
    BY <1>1, <1>2, Numbers DEF Holds, InBoot, Free, ActiveAt, BootAt
  <2> QED BY <1>8, <2>1 DEF SInv, OneHolder
<1>9. StopsFirst'
  BY <1>1, <1>2, Numbers DEF SInv, StopsFirst, Stopping, Holds, InBoot, Free, ActiveAt
<1>10. StopIsThere'
  BY <1>1, <1>2, Numbers DEF SInv, StopIsThere
<1>11. ASSUME NEW q \in Procs, Fresh(q)' PROVE LastOf(q)' /\ Hands(asked[q].sh - 1, q)'
  <2>1. Fresh(q) /\ q # c0
    BY <1>1, <1>2, Numbers, <1>11 DEF Fresh, Free
  <2>2. /\ Hands(asked[q].sh - 1, q) /\ LastOf(q) /\ IsCommand(q)
        /\ asked[q].sh - 1 \in Procs /\ asked[q].sh - 1 # c0
    BY <1>1, <1>2, Numbers, <2>1, FreshCommand DEF Hands, Free
  <2> QED BY <1>1, <1>2, Numbers, <2>1, <2>2 DEF Hands, Free, LastOf
<1>12. HasCommand'
  BY <1>1, <1>2, Numbers DEF SInv, HasCommand, LastOf
<1>13. Informed'
  BY <1>1, <1>2, Numbers DEF SInv, Informed, Free
<1>14. LastReport'
  BY <1>1, <1>2, Numbers DEF SInv, LastReport, Free
<1>15. ReportIsThere'
  BY <1>1, <1>2, Numbers DEF SInv, ReportIsThere
<1> QED BY <1>3, <1>4, <1>5, <1>6, <1>7, <1>8, <1>9, <1>10, <1>11, <1>12, <1>13,
   <1>14, <1>15 DEF SInv, ShellsBoot, OneHolder, Handshakes

\* kernel_main creates a shell.
LEMMA MainCreatesShell ==
    ASSUME KInv, SInv, NEW n, n = maxId + 1, n \in Procs, At("create"), maxId < NumShells,
           maxId' = n, UNCHANGED <<sends, reads, value, received, currentId, myId, job>>,
           pc' = [pc EXCEPT ![c0] = "number", ![n] = "shellStart"],
           asked' = [asked EXCEPT ![n] = NoJob]
    PROVE  SInv'
<1>1. /\ c0 = Main /\ c0 \in Procs /\ c0 \in 0 .. maxId /\ Free(c0) /\ Main = 0
      /\ c0 # Screen /\ ~IsShell(c0) /\ ~IsCommand(c0)
  BY Who, Numbers DEF MainAt, BootAt, At, Screen, IsShell, IsCommand
<1>2. /\ \A p \in Procs : pc'[p] = IF p = n THEN "shellStart" ELSE IF p = c0 THEN "number" ELSE pc[p]
      /\ \A p \in Procs : asked'[p] = IF p = n THEN NoJob ELSE asked[p]
      /\ sends' = sends /\ reads' = reads /\ value' = value /\ received' = received
      /\ maxId' = n /\ currentId' = currentId /\ myId' = myId /\ job' = job
      /\ n = maxId + 1 /\ n \in Procs /\ n # c0 /\ n \in Nat /\ maxId \in Nat
      /\ n # Main
      /\ sends[n] = NoChannel /\ reads[n] = NoChannel /\ pc[n] = "none" /\ asked[n] = NoJob
      /\ \A p \in Procs : asked[p].sh # 0 => p <= maxId
      /\ \A p \in Procs : p \in Nat
      /\ \A p \in Procs : p <= n <=> p <= maxId \/ p = n
      /\ IsShell(n) /\ ~IsCommand(n) /\ n # Screen
      /\ pc[Main] = "create" /\ n <= NumShells
      /\ asked' \in [Procs -> [fn : Functions \cup {NoValue}, sh : ShellIds \cup {0}, bg : BOOLEAN]]
      /\ pc' \in [Procs -> Labels]
  <2>1. n \in Procs /\ n \in Nat /\ maxId \in Nat /\ n # c0 /\ n \notin 0 .. maxId /\ n > maxId /\ n # Main
    BY <1>1, NumberedProcesses, Numbers DEF c0
  <2>2. sends[n] = NoChannel /\ reads[n] = NoChannel
    BY <2>1, Links
  <2>3. pc[n] = "none" /\ asked[n] = NoJob
    BY <2>1 DEF SInv, Kinds, KindOf
  <2>4. \A p \in Procs : asked[p].sh # 0 => p <= maxId
    BY <2>1, Numbers DEF SInv, Kinds, KindOf, NoJob
  <2>5. \A p \in Procs : p \in Nat
    BY Numbers
  <2>6. \A p \in Procs : p <= n <=> p <= maxId \/ p = n
    BY <2>1, <2>5
  <2>7. IsShell(n) /\ ~IsCommand(n) /\ n # Screen /\ n <= NumShells
    BY <2>1, Numbers DEF IsCommand, IsShell, Screen
  <2>9. /\ asked' \in [Procs -> [fn : Functions \cup {NoValue}, sh : ShellIds \cup {0}, bg : BOOLEAN]]
        /\ pc' \in [Procs -> Labels]
        /\ \A p \in Procs : asked'[p] = IF p = n THEN NoJob ELSE asked[p]
        /\ \A p \in Procs : pc'[p] = IF p = n THEN "shellStart" ELSE IF p = c0 THEN "number" ELSE pc[p]
    <3>1. "shellStart" \in Labels /\ "number" \in Labels
      BY DEF Labels, ShellAt, StartAt, MainAt, BootAt
    <3> QED BY <1>1, <2>1, <3>1 DEF SInv, Typed, NoJob
  <2>10. pc[Main] = "create"
    BY <1>1 DEF At
  <2> QED BY <1>1, <2>1, <2>2, <2>3, <2>4, <2>5, <2>6, <2>7, <2>9, <2>10, Zenon
<1>3. Typed'
  BY <1>1, <1>2, Numbers DEF SInv, Typed, Labels, ShellAt, ActiveAt, ScreenAt,
     CommandAt, MainAt, BootAt, Goto
<1>4. Kinds'
  BY <1>1, <1>2, Numbers DEF SInv, Kinds, KindOf, ShellAt, StartAt, ActiveAt,
     ScreenAt, CommandAt, IsShell, IsCommand, Screen
<1>5. MainIsAt'
  BY <1>1, <1>2, Numbers DEF SInv, MainIsAt, InBoot, MainAt, BootAt, Free
<1>6. Places'
  BY <1>1, <1>2, Numbers DEF SInv, Places, SendsAt, ReadsAt, Free, IsShell, IsCommand,
     Screen, ShellIds, ReportCh
<1>7. ASSUME NEW p \in Procs, IsShell(p), p <= maxId' PROVE Boots(p)'
  <2>1. CASE p = n
    BY <1>1, <1>2, <2>1 DEF Boots, Booting, Free, NewShell, InBoot, BootAt, StartAt, IsShell
  <2>2. CASE p # n
    <3>1. Boots(p) /\ p <= maxId /\ InBoot /\ ~NewShell
      BY <1>1, <1>2, <1>7, <2>2 DEF SInv, ShellsBoot, InBoot, BootAt, NewShell
    <3>2. Resting(p) /\ (pc[p] \notin StartAt => myId[p] = p + 1)
      BY <3>1 DEF Boots
    <3>3. Resting(p)' /\ p # c0
      BY <1>1, <1>2, <1>7, <2>2, <3>2 DEF Resting, Free
    <3>4. InBoot' /\ ~(NewShell' /\ p = maxId')
      BY <1>1, <1>2, <2>2 DEF InBoot, BootAt, NewShell, Free
    <3> QED BY <1>1, <1>2, <2>2, <3>2, <3>3, <3>4 DEF Boots
  <2> QED BY <2>1, <2>2
<1>8. ASSUME NEW p \in Procs, NEW q \in Procs, Holds(p)', Holds(q)' PROVE p = q
  <2>1. \A x \in Procs : Holds(x)' => Holds(x)
    BY <1>1, <1>2, Numbers DEF Holds, InBoot, Free, ActiveAt, BootAt
  <2> QED BY <1>8, <2>1 DEF SInv, OneHolder
<1>9. StopsFirst'
  BY <1>1, <1>2, Numbers DEF SInv, StopsFirst, Stopping, Holds, InBoot, Free, ActiveAt
<1>10. StopIsThere'
  BY <1>1, <1>2, Numbers DEF SInv, StopIsThere
<1>11. ASSUME NEW q \in Procs, Fresh(q)' PROVE LastOf(q)' /\ Hands(asked[q].sh - 1, q)'
  <2>1. Fresh(q) /\ q # c0
    BY <1>1, <1>2, Numbers, <1>11 DEF Fresh, Free
  <2>2. /\ Hands(asked[q].sh - 1, q) /\ LastOf(q) /\ IsCommand(q)
        /\ asked[q].sh - 1 \in Procs /\ asked[q].sh - 1 # c0
    BY <1>1, <1>2, Numbers, <2>1, FreshCommand DEF Hands, Free
  <2> QED BY <1>1, <1>2, Numbers, <2>1, <2>2 DEF Hands, Free, LastOf
<1>12. HasCommand'
  BY <1>1, <1>2, Numbers DEF SInv, HasCommand, LastOf
<1>13. Informed'
  BY <1>1, <1>2, Numbers DEF SInv, Informed, Free
<1>14. LastReport'
  BY <1>1, <1>2, Numbers DEF SInv, LastReport, Free
<1>15. ReportIsThere'
  BY <1>1, <1>2, Numbers DEF SInv, ReportIsThere
<1> QED BY <1>3, <1>4, <1>5, <1>6, <1>7, <1>8, <1>9, <1>10, <1>11, <1>12, <1>13,
   <1>14, <1>15 DEF SInv, ShellsBoot, OneHolder, Handshakes

\* kernel_main creates the process of the games.
LEMMA MainCreatesScreen ==
    ASSUME KInv, SInv, NEW n, n = maxId + 1, n \in Procs, At("create"), maxId = NumShells,
           maxId' = n, UNCHANGED <<sends, reads, value, received, currentId, myId, job>>,
           pc' = [pc EXCEPT ![c0] = "firstShell", ![n] = "screen"],
           asked' = [asked EXCEPT ![n] = NoJob]
    PROVE  SInv'
<1>1. /\ c0 = Main /\ c0 \in Procs /\ c0 \in 0 .. maxId /\ Free(c0) /\ Main = 0
      /\ c0 # Screen /\ ~IsShell(c0) /\ ~IsCommand(c0)
  BY Who, Numbers DEF MainAt, BootAt, At, Screen, IsShell, IsCommand
<1>2. /\ \A p \in Procs : pc'[p] = IF p = n THEN "screen" ELSE IF p = c0 THEN "firstShell" ELSE pc[p]
      /\ \A p \in Procs : asked'[p] = IF p = n THEN NoJob ELSE asked[p]
      /\ sends' = sends /\ reads' = reads /\ value' = value /\ received' = received
      /\ maxId' = n /\ currentId' = currentId /\ myId' = myId /\ job' = job
      /\ n = maxId + 1 /\ n \in Procs /\ n # c0 /\ n \in Nat /\ maxId \in Nat
      /\ n # Main
      /\ sends[n] = NoChannel /\ reads[n] = NoChannel /\ pc[n] = "none" /\ asked[n] = NoJob
      /\ \A p \in Procs : asked[p].sh # 0 => p <= maxId
      /\ \A p \in Procs : p \in Nat
      /\ \A p \in Procs : p <= n <=> p <= maxId \/ p = n
      /\ ~IsShell(n) /\ ~IsCommand(n) /\ n = Screen
      /\ pc[Main] = "create" /\ maxId = NumShells
      /\ asked' \in [Procs -> [fn : Functions \cup {NoValue}, sh : ShellIds \cup {0}, bg : BOOLEAN]]
      /\ pc' \in [Procs -> Labels]
  <2>1. n \in Procs /\ n \in Nat /\ maxId \in Nat /\ n # c0 /\ n \notin 0 .. maxId /\ n > maxId /\ n # Main
    BY <1>1, NumberedProcesses, Numbers DEF c0
  <2>2. sends[n] = NoChannel /\ reads[n] = NoChannel
    BY <2>1, Links
  <2>3. pc[n] = "none" /\ asked[n] = NoJob
    BY <2>1 DEF SInv, Kinds, KindOf
  <2>4. \A p \in Procs : asked[p].sh # 0 => p <= maxId
    BY <2>1, Numbers DEF SInv, Kinds, KindOf, NoJob
  <2>5. \A p \in Procs : p \in Nat
    BY Numbers
  <2>6. \A p \in Procs : p <= n <=> p <= maxId \/ p = n
    BY <2>1, <2>5
  <2>7. ~IsShell(n) /\ ~IsCommand(n) /\ n = Screen
    BY <2>1, Numbers DEF IsCommand, IsShell, Screen
  <2>9. /\ asked' \in [Procs -> [fn : Functions \cup {NoValue}, sh : ShellIds \cup {0}, bg : BOOLEAN]]
        /\ pc' \in [Procs -> Labels]
        /\ \A p \in Procs : asked'[p] = IF p = n THEN NoJob ELSE asked[p]
        /\ \A p \in Procs : pc'[p] = IF p = n THEN "screen" ELSE IF p = c0 THEN "firstShell" ELSE pc[p]
    <3>1. "screen" \in Labels /\ "firstShell" \in Labels
      BY DEF Labels, ScreenAt, MainAt, BootAt
    <3> QED BY <1>1, <2>1, <3>1 DEF SInv, Typed, NoJob
  <2>10. pc[Main] = "create"
    BY <1>1 DEF At
  <2> QED BY <1>1, <2>1, <2>2, <2>3, <2>4, <2>5, <2>6, <2>7, <2>9, <2>10, Zenon
<1>3. Typed'
  BY <1>1, <1>2, Numbers DEF SInv, Typed, Labels, ShellAt, ActiveAt, ScreenAt,
     CommandAt, MainAt, BootAt, Goto
<1>4. Kinds'
  BY <1>1, <1>2, Numbers DEF SInv, Kinds, KindOf, ShellAt, StartAt, ActiveAt,
     ScreenAt, CommandAt, IsShell, IsCommand, Screen
<1>5. MainIsAt'
  BY <1>1, <1>2, Numbers DEF SInv, MainIsAt, InBoot, MainAt, BootAt, Free
<1>6. Places'
  BY <1>1, <1>2, Numbers DEF SInv, Places, SendsAt, ReadsAt, Free, IsShell, IsCommand,
     Screen, ShellIds, ReportCh
<1>7. ASSUME NEW p \in Procs, IsShell(p), p <= maxId' PROVE Boots(p)'
  <2>1. CASE p = n
    BY <1>1, <1>2, <1>7, <2>1 DEF Boots, Booting, Free, NewShell, InBoot, BootAt, StartAt, IsShell
  <2>2. CASE p # n
    <3>1. p <= maxId /\ Boots(p)
      BY <1>2, <1>7, <2>2 DEF SInv, ShellsBoot
    <3>2. InBoot /\ ~NewShell
      BY <1>1, <1>2 DEF InBoot, BootAt, NewShell
    <3>3. Resting(p) /\ (pc[p] \notin StartAt => myId[p] = p + 1)
      BY <3>1, <3>2 DEF Boots
    <3>4. Resting(p)' /\ p # c0
      BY <1>1, <1>2, <1>7, <2>2, <3>3 DEF Resting, Free
    <3>5. InBoot' /\ ~(NewShell' /\ p = maxId')
      BY <1>1, <1>2, <2>2 DEF InBoot, BootAt, NewShell, Free
    <3> QED BY <1>1, <1>2, <2>2, <3>3, <3>4, <3>5 DEF Boots
  <2> QED BY <2>1, <2>2
<1>8. ASSUME NEW p \in Procs, NEW q \in Procs, Holds(p)', Holds(q)' PROVE p = q
  <2>1. \A x \in Procs : Holds(x)' => Holds(x)
    BY <1>1, <1>2, Numbers DEF Holds, InBoot, Free, ActiveAt, BootAt
  <2> QED BY <1>8, <2>1 DEF SInv, OneHolder
<1>9. StopsFirst'
  BY <1>1, <1>2, Numbers DEF SInv, StopsFirst, Stopping, Holds, InBoot, Free, ActiveAt
<1>10. StopIsThere'
  BY <1>1, <1>2, Numbers DEF SInv, StopIsThere
<1>11. ASSUME NEW q \in Procs, Fresh(q)' PROVE LastOf(q)' /\ Hands(asked[q].sh - 1, q)'
  <2>1. Fresh(q) /\ q # c0
    BY <1>1, <1>2, Numbers, <1>11 DEF Fresh, Free
  <2>2. /\ Hands(asked[q].sh - 1, q) /\ LastOf(q) /\ IsCommand(q)
        /\ asked[q].sh - 1 \in Procs /\ asked[q].sh - 1 # c0
    BY <1>1, <1>2, Numbers, <2>1, FreshCommand DEF Hands, Free
  <2> QED BY <1>1, <1>2, Numbers, <2>1, <2>2 DEF Hands, Free, LastOf
<1>12. HasCommand'
  BY <1>1, <1>2, Numbers DEF SInv, HasCommand, LastOf
<1>13. Informed'
  BY <1>1, <1>2, Numbers DEF SInv, Informed, Free
<1>14. LastReport'
  BY <1>1, <1>2, Numbers DEF SInv, LastReport, Free
<1>15. ReportIsThere'
  BY <1>1, <1>2, Numbers DEF SInv, ReportIsThere
<1> QED BY <1>3, <1>4, <1>5, <1>6, <1>7, <1>8, <1>9, <1>10, <1>11, <1>12, <1>13,
   <1>14, <1>15 DEF SInv, ShellsBoot, OneHolder, Handshakes

\* kernel_main gives a new shell its number.
LEMMA MainPassesNumber ==
    ASSUME KInv, SInv, Goto("shellReady"), UNCHANGED Locals, At("number"),
           NEW r \in Procs, Passed(1, maxId + 1, r)
    PROVE  SInv'
<1>1. /\ c0 = Main /\ c0 \in Procs /\ c0 \in 0 .. maxId /\ Free(c0) /\ Main = 0
      /\ pc[Main] = "number" /\ InBoot
      /\ c0 # Screen /\ ~IsShell(c0) /\ ~IsCommand(c0)
  BY Who, Numbers DEF MainAt, BootAt, InBoot, At, Screen, IsShell, IsCommand
<1>2. /\ \A p \in Procs : pc'[p] = IF p = c0 THEN "shellReady" ELSE pc[p]
      /\ \A p \in Procs : reads'[p] = IF p = r THEN NoChannel ELSE reads[p]
      /\ \A p \in Procs : received'[p] = IF p = r THEN maxId + 1 ELSE received[p]
      /\ \A k \in Channels : k # 1 => value'[k] = value[k]
      /\ sends' = sends
      /\ maxId' = maxId /\ currentId' = currentId
      /\ myId' = myId /\ job' = job /\ asked' = asked
      /\ \A p \in Procs : sends[p] \in Channels \cup {NoChannel} /\ sends[p] # 1
      /\ r # c0 /\ reads[r] = 1 /\ sends[r] = NoChannel
      /\ r = maxId /\ pc[r] = "shellNumbered" /\ r # Screen /\ ~IsCommand(r)
      /\ \A p \in Procs : Holds(p) => p = Main
      /\ \A p \in Procs : pc[p] \notin CommandAt /\ ~Fresh(p) /\ pc[p] \notin ActiveAt
      /\ maxId \in Nat /\ maxId \in 1 .. NumShells /\ maxId \in Procs /\ IsShell(maxId)
      /\ maxId # c0
      /\ \A p \in Procs : IsShell(p) /\ p < maxId => Resting(p)
      /\ \A p \in Procs : IsShell(p) /\ p <= maxId => Boots(p)
      /\ \A p \in Procs : p \in Nat
      /\ Booting(maxId)
  <2>1. /\ sends \in [Procs -> Channels \cup {NoChannel}]
        /\ value \in [Channels -> Values \cup {NoValue}]
        /\ reads \in [Procs -> Channels \cup {NoChannel}]
        /\ received \in [Procs -> Values \cup {NoValue}]
        /\ reads[r] = 1 /\ sends[r] = NoChannel /\ r # c0
    BY Links, NumberedProcesses, Numbers DEF TypeOK, Passed
  <2>2. \A p \in Procs : pc'[p] = IF p = c0 THEN "shellReady" ELSE pc[p]
    BY <1>1 DEF SInv, Typed, Goto
  <2>3. /\ \A p \in Procs : reads'[p] = IF p = r THEN NoChannel ELSE reads[p]
        /\ \A p \in Procs : received'[p] = IF p = r THEN maxId + 1 ELSE received[p]
        /\ \A k \in Channels : k # 1 => value'[k] = value[k]
        /\ sends' = sends
        /\ \A p \in Procs : sends[p] \in Channels \cup {NoChannel} /\ sends[p] # 1
        /\ r # c0 /\ reads[r] = 1 /\ sends[r] = NoChannel
    BY <1>1, <2>1, Numbers DEF Passed
  <2>4. /\ maxId' = maxId /\ currentId' = currentId
        /\ myId' = myId /\ job' = job /\ asked' = asked
    BY DEF Passed, Locals
  <2>5. /\ \A p \in Procs : Holds(p) => p = Main
        /\ \A p \in Procs : pc[p] \notin CommandAt /\ ~Fresh(p) /\ pc[p] \notin ActiveAt
    BY <1>1, BootFacts
  <2>6. /\ maxId \in Nat /\ maxId \in 1 .. NumShells /\ maxId \in Procs /\ IsShell(maxId)
        /\ maxId # c0 /\ NewShell
    BY <1>1, NumberedProcesses, Numbers DEF SInv, MainIsAt, IsShell, NewShell
  <2>7. /\ \A p \in Procs : IsShell(p) /\ p <= maxId => Boots(p)
        /\ \A p \in Procs : p \in Nat
    BY Numbers DEF SInv, ShellsBoot
  <2>8. Booting(maxId) /\ \A p \in Procs : IsShell(p) /\ p < maxId => Resting(p)
    BY <1>1, <2>6, <2>7 DEF Boots
  <2>9. r = maxId /\ pc[r] = "shellNumbered" /\ r # Screen /\ ~IsCommand(r)
    BY <1>1, <2>1, BootFacts, Whose DEF ShellAt, StartAt
  <2> QED BY <1>1, <2>1, <2>2, <2>3, <2>4, <2>5, <2>6, <2>7, <2>8, <2>9, Zenon
<1>3. Typed'
  BY <1>1, <1>2, Numbers DEF SInv, Typed, Labels, ShellAt, ActiveAt, ScreenAt,
     CommandAt, MainAt, BootAt, Goto
<1>4. Kinds'
  BY <1>1, <1>2, Numbers DEF SInv, Kinds, KindOf, ShellAt, StartAt, ActiveAt,
     ScreenAt, CommandAt, IsShell, IsCommand, Screen
<1>5. MainIsAt'
  BY <1>1, <1>2, Numbers DEF SInv, MainIsAt, InBoot, MainAt, BootAt, Free
<1>6. Places'
  BY <1>1, <1>2, Numbers DEF SInv, Places, SendsAt, ReadsAt, Free, IsShell, IsCommand,
     Screen, ShellIds, ReportCh
<1>7. ASSUME NEW p \in Procs, IsShell(p), p <= maxId' PROVE Boots(p)'
  <2>1. CASE p = maxId
    BY <1>1, <1>2, <2>1, Numbers DEF Boots, Booting, Resting, Free, NewShell, InBoot, BootAt, StartAt
  <2>2. CASE p # maxId
    <3>1. p < maxId /\ Resting(p) /\ Boots(p) /\ p # c0
      BY <1>1, <1>2, <1>7, <2>2 DEF IsShell
    <3>2. Resting(p)'
      BY <1>1, <1>2, <2>2, <3>1, Numbers DEF Resting, Free
    <3> QED BY <1>1, <1>2, <2>2, <3>1, <3>2 DEF Boots, Resting, StartAt
  <2> QED BY <2>1, <2>2
<1>8. ASSUME NEW p \in Procs, NEW q \in Procs, Holds(p)', Holds(q)' PROVE p = q
  <2>1. ASSUME NEW x \in Procs, Holds(x)' PROVE Holds(x)
    <3>1. x # c0 => pc'[x] = pc[x] /\ (Free(x)' <=> Free(x) \/ x = r)
      BY <1>1, <1>2 DEF Free
    <3> QED BY <1>1, <1>2, <2>1, <3>1, Numbers DEF Holds, InBoot, Free, ActiveAt, BootAt
  <2> QED BY <1>8, <2>1 DEF SInv, OneHolder
<1>9. StopsFirst'
  BY <1>1, <1>2, Numbers DEF SInv, StopsFirst, Stopping, Holds, InBoot, Free, ActiveAt
<1>10. StopIsThere'
  BY <1>1, <1>2, Numbers DEF SInv, StopIsThere
<1>11. ASSUME NEW q \in Procs, Fresh(q)' PROVE LastOf(q)' /\ Hands(asked[q].sh - 1, q)'
  BY <1>1, <1>2, <1>11, Numbers DEF Fresh, Free, IsCommand, CommandAt
<1>12. HasCommand'
  BY <1>1, <1>2, Numbers DEF SInv, HasCommand, LastOf
<1>13. Informed'
  BY <1>1, <1>2, Numbers DEF SInv, Informed, Free
<1>14. ASSUME NEW q \in Procs, (pc[q] = "printed" /\ ~Free(q))' PROVE (value[sends[q]] = Zero)'
  <2>1. q # c0 /\ q # r /\ pc[q] = "printed" /\ ~Free(q) /\ value[sends[q]] = Zero
    BY <1>1, <1>2, <1>14, Numbers DEF SInv, LastReport, Free
  <2>2. sends[q] \in Channels
    BY <1>2, <2>1, Numbers DEF SInv, Places, ReadsAt, Free
  <2> QED BY <1>2, <2>1, <2>2
<1>15. ReportIsThere'
  BY <1>1, <1>2, Numbers DEF SInv, ReportIsThere
<1> QED BY <1>3, <1>4, <1>5, <1>6, <1>7, <1>8, <1>9, <1>10, <1>11, <1>12, <1>13,
   <1>14, <1>15 DEF SInv, ShellsBoot, OneHolder, Handshakes, LastReport

\* kernel_main waits for the answer of a new shell.
LEMMA MainAwaitsShell ==
    ASSUME KInv, SInv, Goto("create"), UNCHANGED Locals, At("shellReady"), Awaited(1)
    PROVE  SInv'
<1>1. /\ c0 = Main /\ c0 \in Procs /\ c0 \in 0 .. maxId /\ Free(c0) /\ Main = 0
      /\ pc[Main] = "shellReady" /\ InBoot
      /\ c0 # Screen /\ ~IsShell(c0) /\ ~IsCommand(c0)
  BY Who, Numbers DEF MainAt, BootAt, InBoot, At, Screen, IsShell, IsCommand
<1>2. /\ \A p \in Procs : pc'[p] = IF p = c0 THEN "create" ELSE pc[p]
      /\ \A p \in Procs : reads'[p] = IF p = c0 THEN 1 ELSE reads[p]
      /\ \A p \in Procs : sends[p] # 1
      /\ sends' = sends /\ received' = received /\ value' = value
      /\ maxId' = maxId /\ currentId' = currentId
      /\ myId' = myId /\ job' = job /\ asked' = asked
      /\ \A p \in Procs : Holds(p) => p = Main
      /\ \A p \in Procs : pc[p] \notin CommandAt /\ ~Fresh(p) /\ pc[p] \notin ActiveAt
      /\ maxId \in Nat /\ maxId \in 1 .. NumShells /\ maxId \in Procs /\ IsShell(maxId)
      /\ maxId # c0
      /\ \A p \in Procs : IsShell(p) /\ p < maxId => Resting(p)
      /\ \A p \in Procs : IsShell(p) /\ p <= maxId => Boots(p)
      /\ \A p \in Procs : p \in Nat
      /\ Booting(maxId)
  <2>1. reads \in [Procs -> Channels \cup {NoChannel}]
    BY Links
  <2>2. \A p \in Procs : pc'[p] = IF p = c0 THEN "create" ELSE pc[p]
    BY <1>1 DEF SInv, Typed, Goto
  <2>3. /\ \A p \in Procs : reads'[p] = IF p = c0 THEN 1 ELSE reads[p]
        /\ \A p \in Procs : sends[p] # 1
        /\ sends' = sends /\ received' = received /\ value' = value
    BY <1>1, <2>1 DEF Awaited
  <2>4. /\ maxId' = maxId /\ currentId' = currentId
        /\ myId' = myId /\ job' = job /\ asked' = asked
    BY DEF Awaited, Locals
  <2>5. /\ \A p \in Procs : Holds(p) => p = Main
        /\ \A p \in Procs : pc[p] \notin CommandAt /\ ~Fresh(p) /\ pc[p] \notin ActiveAt
    BY <1>1, BootFacts
  <2>6. /\ maxId \in Nat /\ maxId \in 1 .. NumShells /\ maxId \in Procs /\ IsShell(maxId)
        /\ maxId # c0 /\ NewShell
    BY <1>1, NumberedProcesses, Numbers DEF SInv, MainIsAt, IsShell, NewShell
  <2>7. /\ \A p \in Procs : IsShell(p) /\ p <= maxId => Boots(p)
        /\ \A p \in Procs : p \in Nat
    BY Numbers DEF SInv, ShellsBoot
  <2>8. Booting(maxId) /\ \A p \in Procs : IsShell(p) /\ p < maxId => Resting(p)
    BY <1>1, <2>6, <2>7 DEF Boots
  <2> QED BY <1>1, <2>1, <2>2, <2>3, <2>4, <2>5, <2>6, <2>7, <2>8, Zenon
<1>3. Typed'
  BY <1>1, <1>2, Numbers DEF SInv, Typed, Labels, ShellAt, ActiveAt, ScreenAt,
     CommandAt, MainAt, BootAt, Goto
<1>4. Kinds'
  BY <1>1, <1>2, Numbers DEF SInv, Kinds, KindOf, ShellAt, StartAt, ActiveAt,
     ScreenAt, CommandAt, IsShell, IsCommand, Screen
<1>5. MainIsAt'
  BY <1>1, <1>2, Numbers DEF SInv, MainIsAt, InBoot, MainAt, BootAt, Free
<1>6. ASSUME NEW p \in Procs
      PROVE  SendsAt(p, sends[p], pc[p])' /\ ReadsAt(p, reads[p], pc[p])'
  <2>1. SendsAt(p, sends[p], pc[p]) /\ ReadsAt(p, reads[p], pc[p])
    BY DEF SInv, Places
  <2>2. CASE p = c0
    BY <1>1, <1>2, <2>1, <2>2, Numbers DEF SendsAt, ReadsAt, Free, IsShell, IsCommand,
       Screen, ShellIds, ReportCh
  <2>3. CASE p # c0
    BY <1>1, <1>2, <2>1, <2>3, Numbers DEF SendsAt, ReadsAt, IsShell, IsCommand,
       Screen, ShellIds, ReportCh
  <2> QED BY <2>2, <2>3
<1>7. ASSUME NEW p \in Procs, IsShell(p), p <= maxId' PROVE Boots(p)'
  <2>1. CASE p = maxId
    BY <1>1, <1>2, <2>1, Numbers DEF Boots, Booting, Resting, Free, NewShell, InBoot, BootAt, StartAt
  <2>2. CASE p # maxId
    <3>1. p < maxId /\ Resting(p) /\ Boots(p) /\ p # c0
      BY <1>1, <1>2, <1>7, <2>2 DEF IsShell
    <3>2. Resting(p)'
      BY <1>1, <1>2, <2>2, <3>1, Numbers DEF Resting, Free
    <3> QED BY <1>1, <1>2, <2>2, <3>1, <3>2 DEF Boots, Resting, StartAt
  <2> QED BY <2>1, <2>2
<1>8. ASSUME NEW p \in Procs, NEW q \in Procs, Holds(p)', Holds(q)' PROVE p = q
  <2>1. \A x \in Procs : Holds(x)' => Holds(x)
    BY <1>1, <1>2, Numbers DEF Holds, InBoot, Free, ActiveAt, BootAt
  <2> QED BY <1>8, <2>1 DEF SInv, OneHolder
<1>9. StopsFirst'
  BY <1>1, <1>2, Numbers DEF SInv, StopsFirst, Stopping, Holds, InBoot, Free, ActiveAt
<1>10. StopIsThere'
  BY <1>1, <1>2, Numbers DEF SInv, StopIsThere
<1>11. ASSUME NEW q \in Procs, Fresh(q)' PROVE LastOf(q)' /\ Hands(asked[q].sh - 1, q)'
  BY <1>1, <1>2, <1>11, Numbers DEF Fresh, Free, IsCommand, CommandAt
<1>12. HasCommand'
  BY <1>1, <1>2, Numbers DEF SInv, HasCommand, LastOf
<1>13. Informed'
  BY <1>1, <1>2, Numbers DEF SInv, Informed, Free
<1>14. LastReport'
  BY <1>1, <1>2, Numbers DEF SInv, LastReport, Free
<1>15. ReportIsThere'
  BY <1>1, <1>2, Numbers DEF SInv, ReportIsThere
<1> QED BY <1>3, <1>4, <1>5, <1>6, <1>7, <1>8, <1>9, <1>10, <1>11, <1>12, <1>13,
   <1>14, <1>15 DEF SInv, Places, ShellsBoot, OneHolder, Handshakes

\* kernel_main takes the answer of a new shell.
LEMMA MainTakesShell ==
    ASSUME KInv, SInv, Goto("create"), UNCHANGED Locals, At("shellReady"), NEW s \in Procs, Taken(1, s)
    PROVE  SInv'
<1>1. /\ c0 = Main /\ c0 \in Procs /\ c0 \in 0 .. maxId /\ Free(c0) /\ Main = 0
      /\ pc[Main] = "shellReady" /\ InBoot
      /\ c0 # Screen /\ ~IsShell(c0) /\ ~IsCommand(c0)
  BY Who, Numbers DEF MainAt, BootAt, InBoot, At, Screen, IsShell, IsCommand
<1>2. /\ \A p \in Procs : pc'[p] = IF p = c0 THEN "create" ELSE pc[p]
      /\ \A p \in Procs : sends'[p] = IF p = s THEN NoChannel ELSE sends[p]
      /\ \A p \in Procs : p # c0 => received'[p] = received[p]
      /\ reads' = reads /\ value' = value
      /\ maxId' = maxId /\ currentId' = currentId
      /\ myId' = myId /\ job' = job /\ asked' = asked
      /\ s # c0 /\ sends[s] = 1 /\ reads[s] = NoChannel
      /\ s = maxId /\ pc[s] = "shellOff"
      /\ \A p \in Procs : Holds(p) => p = Main
      /\ \A p \in Procs : pc[p] \notin CommandAt /\ ~Fresh(p) /\ pc[p] \notin ActiveAt
      /\ maxId \in Nat /\ maxId \in 1 .. NumShells /\ maxId \in Procs /\ IsShell(maxId)
      /\ maxId # c0
      /\ \A p \in Procs : IsShell(p) /\ p < maxId => Resting(p)
      /\ \A p \in Procs : IsShell(p) /\ p <= maxId => Boots(p)
      /\ \A p \in Procs : p \in Nat
      /\ Booting(maxId)
  <2>1. /\ sends \in [Procs -> Channels \cup {NoChannel}]
        /\ value \in [Channels -> Values \cup {NoValue}]
        /\ received \in [Procs -> Values \cup {NoValue}]
        /\ sends[s] = 1 /\ reads[s] = NoChannel /\ s # c0
    BY Links, NumberedProcesses, Numbers DEF TypeOK, Taken
  <2>2. \A p \in Procs : pc'[p] = IF p = c0 THEN "create" ELSE pc[p]
    BY <1>1 DEF SInv, Typed, Goto
  <2>3. /\ \A p \in Procs : sends'[p] = IF p = s THEN NoChannel ELSE sends[p]
        /\ \A p \in Procs : p # c0 => received'[p] = received[p]
        /\ reads' = reads /\ value' = value
    BY <1>1, <2>1 DEF Taken
  <2>4. /\ maxId' = maxId /\ currentId' = currentId
        /\ myId' = myId /\ job' = job /\ asked' = asked
    BY DEF Taken, Locals
  <2>5. /\ \A p \in Procs : Holds(p) => p = Main
        /\ \A p \in Procs : pc[p] \notin CommandAt /\ ~Fresh(p) /\ pc[p] \notin ActiveAt
    BY <1>1, BootFacts
  <2>6. /\ maxId \in Nat /\ maxId \in 1 .. NumShells /\ maxId \in Procs /\ IsShell(maxId)
        /\ maxId # c0 /\ NewShell
    BY <1>1, NumberedProcesses, Numbers DEF SInv, MainIsAt, IsShell, NewShell
  <2>7. /\ \A p \in Procs : IsShell(p) /\ p <= maxId => Boots(p)
        /\ \A p \in Procs : p \in Nat
    BY Numbers DEF SInv, ShellsBoot
  <2>8. Booting(maxId) /\ \A p \in Procs : IsShell(p) /\ p < maxId => Resting(p)
    BY <1>1, <2>6, <2>7 DEF Boots
  <2>9. s = maxId /\ pc[s] = "shellOff"
    BY <1>1, <2>1, BootFacts
  <2> QED BY <1>1, <2>1, <2>2, <2>3, <2>4, <2>5, <2>6, <2>7, <2>8, <2>9, Zenon
<1>3. Typed'
  BY <1>1, <1>2, Numbers DEF SInv, Typed, Labels, ShellAt, ActiveAt, ScreenAt,
     CommandAt, MainAt, BootAt, Goto
<1>4. Kinds'
  <2> SUFFICES ASSUME NEW p \in Procs PROVE KindOf(p)'
    BY DEF Kinds
  <2>1. KindOf(p)
    BY DEF SInv, Kinds
  <2>2. CASE p = c0
    BY <1>1, <1>2, <2>1, <2>2, Numbers DEF KindOf, IsShell, IsCommand, Screen
  <2>3. CASE p # c0
    BY <1>2, <2>1, <2>3 DEF KindOf
  <2> QED BY <2>2, <2>3
<1>5. MainIsAt'
  BY <1>1, <1>2, Numbers DEF SInv, MainIsAt, InBoot, MainAt, BootAt, Free
<1>6. Places'
  BY <1>1, <1>2, Numbers DEF SInv, Places, SendsAt, ReadsAt, Free, IsShell, IsCommand,
     Screen, ShellIds, ReportCh
<1>7. ASSUME NEW p \in Procs, IsShell(p), p <= maxId' PROVE Boots(p)'
  <2>1. CASE p = maxId
    BY <1>1, <1>2, <2>1, Numbers DEF Boots, Booting, Resting, Free, NewShell, InBoot, BootAt, StartAt
  <2>2. CASE p # maxId
    <3>1. p < maxId /\ Resting(p) /\ Boots(p) /\ p # c0
      BY <1>1, <1>2, <1>7, <2>2 DEF IsShell
    <3>2. Resting(p)'
      BY <1>1, <1>2, <2>2, <3>1, Numbers DEF Resting, Free
    <3> QED BY <1>1, <1>2, <2>2, <3>1, <3>2 DEF Boots, Resting, StartAt
  <2> QED BY <2>1, <2>2
<1>8. ASSUME NEW p \in Procs, NEW q \in Procs, Holds(p)', Holds(q)' PROVE p = q
  <2>1. ASSUME NEW x \in Procs, Holds(x)' PROVE Holds(x)
    <3>1. CASE x = c0
      BY <1>1, <1>2, <3>1, Numbers DEF Holds, InBoot, BootAt
    <3>2. CASE x # c0
      <4>1. pc'[x] = pc[x] /\ InBoot /\ InBoot' /\ x # Main
        BY <1>1, <1>2, <3>2 DEF InBoot, BootAt
      <4>2. sends'[s] = NoChannel /\ s # Screen /\ pc'[s] = "shellOff"
        BY <1>2, <3>2, Numbers DEF IsShell, Screen
      <4>3. x # s
        BY <2>1, <4>1, <4>2, Numbers DEF Holds, ActiveAt
      <4>4. sends'[x] = sends[x] /\ (Free(x) <=> Free(x)')
        BY <1>2, <4>3 DEF Free
      <4> QED BY <2>1, <4>1, <4>4 DEF Holds
    <3> QED BY <3>1, <3>2
  <2> QED BY <1>8, <2>1 DEF SInv, OneHolder
<1>9. StopsFirst'
  BY <1>1, <1>2, Numbers DEF SInv, StopsFirst, Stopping, Holds, InBoot, Free, ActiveAt
<1>10. StopIsThere'
  BY <1>1, <1>2, Numbers DEF SInv, StopIsThere
<1>11. ASSUME NEW q \in Procs, Fresh(q)' PROVE LastOf(q)' /\ Hands(asked[q].sh - 1, q)'
  BY <1>1, <1>2, <1>11, Numbers DEF Fresh, Free, IsCommand, CommandAt
<1>12. HasCommand'
  BY <1>1, <1>2, Numbers DEF SInv, HasCommand, LastOf
<1>13. Informed'
  BY <1>1, <1>2, Numbers DEF SInv, Informed, Free
<1>14. LastReport'
  BY <1>1, <1>2, Numbers DEF SInv, LastReport, Free
<1>15. ASSUME NEW p \in Procs, pc'[p] \in {"waitTake", "takeDone"}
       PROVE  \E q \in Procs : sends'[q] = 11 + p
  <2>1. PICK q \in Procs : sends[q] = 11 + p
    BY <1>1, <1>2, <1>15 DEF SInv, ReportIsThere
  <2>2. 11 + p # 1
    BY <1>15, <1>1, <1>2, <2>1, Numbers, Whose DEF ShellAt, ActiveAt, ReportCh
  <2> QED BY <1>1, <1>2, <2>1, <2>2
<1> QED BY <1>3, <1>4, <1>5, <1>6, <1>7, <1>8, <1>9, <1>10, <1>11, <1>12, <1>13,
   <1>14, <1>15 DEF SInv, ShellsBoot, OneHolder, Handshakes, ReportIsThere

\* kernel_main offers a new shell its number.
LEMMA MainOffersNumber ==
    ASSUME KInv, SInv, Goto("shellReady"), UNCHANGED Locals, At("number"), Offered(1, maxId + 1)
    PROVE  SInv'
<1>1. /\ c0 = Main /\ c0 \in Procs /\ c0 \in 0 .. maxId /\ Free(c0) /\ Main = 0
      /\ pc[Main] = "number" /\ InBoot
      /\ c0 # Screen /\ ~IsShell(c0) /\ ~IsCommand(c0)
  BY Who, Numbers DEF MainAt, BootAt, InBoot, At, Screen, IsShell, IsCommand
<1>2. /\ \A p \in Procs : pc'[p] = IF p = c0 THEN "shellReady" ELSE pc[p]
      /\ \A p \in Procs : sends'[p] = IF p = c0 THEN 1 ELSE sends[p]
      /\ \A k \in Channels : k # 1 => value'[k] = value[k]
      /\ value'[1] = maxId + 1
      /\ \A p \in Procs : sends[p] # 1 /\ reads[p] # 1
      /\ reads' = reads /\ received' = received
      /\ maxId' = maxId /\ currentId' = currentId
      /\ myId' = myId /\ job' = job /\ asked' = asked
      /\ \A p \in Procs : sends[p] \in Channels \cup {NoChannel}
      /\ \A p \in Procs : Holds(p) => p = Main
      /\ \A p \in Procs : pc[p] \notin CommandAt /\ ~Fresh(p) /\ pc[p] \notin ActiveAt
      /\ maxId \in Nat /\ maxId \in 1 .. NumShells /\ maxId \in Procs /\ IsShell(maxId)
      /\ maxId # c0
      /\ \A p \in Procs : IsShell(p) /\ p < maxId => Resting(p)
      /\ \A p \in Procs : IsShell(p) /\ p <= maxId => Boots(p)
      /\ \A p \in Procs : p \in Nat
      /\ Booting(maxId)
  <2>1. /\ sends \in [Procs -> Channels \cup {NoChannel}]
        /\ value \in [Channels -> Values \cup {NoValue}]
    BY Links
  <2>2. \A p \in Procs : pc'[p] = IF p = c0 THEN "shellReady" ELSE pc[p]
    BY <1>1 DEF SInv, Typed, Goto
  <2>3. /\ \A p \in Procs : sends'[p] = IF p = c0 THEN 1 ELSE sends[p]
        /\ \A k \in Channels : k # 1 => value'[k] = value[k]
        /\ value'[1] = maxId + 1
        /\ \A p \in Procs : sends[p] # 1 /\ reads[p] # 1
        /\ reads' = reads /\ received' = received
        /\ \A p \in Procs : sends[p] \in Channels \cup {NoChannel}
    BY <1>1, <2>1, Numbers DEF Offered
  <2>4. /\ maxId' = maxId /\ currentId' = currentId
        /\ myId' = myId /\ job' = job /\ asked' = asked
    BY DEF Offered, Locals
  <2>5. /\ \A p \in Procs : Holds(p) => p = Main
        /\ \A p \in Procs : pc[p] \notin CommandAt /\ ~Fresh(p) /\ pc[p] \notin ActiveAt
    BY <1>1, BootFacts
  <2>6. /\ maxId \in Nat /\ maxId \in 1 .. NumShells /\ maxId \in Procs /\ IsShell(maxId)
        /\ maxId # c0 /\ NewShell
    BY <1>1, NumberedProcesses, Numbers DEF SInv, MainIsAt, IsShell, NewShell
  <2>7. /\ \A p \in Procs : IsShell(p) /\ p <= maxId => Boots(p)
        /\ \A p \in Procs : p \in Nat
    BY Numbers DEF SInv, ShellsBoot
  <2>8. Booting(maxId) /\ \A p \in Procs : IsShell(p) /\ p < maxId => Resting(p)
    BY <1>1, <2>6, <2>7 DEF Boots
  <2> QED BY <1>1, <2>1, <2>2, <2>3, <2>4, <2>5, <2>6, <2>7, <2>8, Zenon
<1>3. Typed'
  BY <1>1, <1>2, Numbers DEF SInv, Typed, Labels, ShellAt, ActiveAt, ScreenAt,
     CommandAt, MainAt, BootAt, Goto
<1>4. Kinds'
  BY <1>1, <1>2, Numbers DEF SInv, Kinds, KindOf, ShellAt, StartAt, ActiveAt,
     ScreenAt, CommandAt, IsShell, IsCommand, Screen
<1>5. MainIsAt'
  BY <1>1, <1>2, Numbers DEF SInv, MainIsAt, InBoot, MainAt, BootAt, Free
<1>6. Places'
  BY <1>1, <1>2, Numbers DEF SInv, Places, SendsAt, ReadsAt, Free, IsShell, IsCommand,
     Screen, ShellIds, ReportCh
<1>7. ASSUME NEW p \in Procs, IsShell(p), p <= maxId' PROVE Boots(p)'
  <2>1. CASE p = maxId
    BY <1>1, <1>2, <2>1, Numbers DEF Boots, Booting, Resting, Free, NewShell, InBoot, BootAt, StartAt
  <2>2. CASE p # maxId
    <3>1. p < maxId /\ Resting(p) /\ Boots(p) /\ p # c0
      BY <1>1, <1>2, <1>7, <2>2 DEF IsShell
    <3>2. Resting(p)'
      BY <1>1, <1>2, <2>2, <3>1, Numbers DEF Resting, Free
    <3> QED BY <1>1, <1>2, <2>2, <3>1, <3>2 DEF Boots, Resting, StartAt
  <2> QED BY <2>1, <2>2
<1>8. ASSUME NEW p \in Procs, NEW q \in Procs, Holds(p)', Holds(q)' PROVE p = q
  <2>1. \A x \in Procs : Holds(x)' => Holds(x)
    BY <1>1, <1>2, Numbers DEF Holds, InBoot, Free, ActiveAt, BootAt
  <2> QED BY <1>8, <2>1 DEF SInv, OneHolder
<1>9. StopsFirst'
  BY <1>1, <1>2, Numbers DEF SInv, StopsFirst, Stopping, Holds, InBoot, Free, ActiveAt
<1>10. ASSUME NEW p \in Procs, pc'[p] \in {"takeStop", "snakeTake"} PROVE sends'[Main] = 0
  <2>1. p # c0 /\ pc[p] \in {"takeStop", "snakeTake"}
    BY <1>1, <1>2, <1>10
  <2>2. Holds(p)
    BY <2>1, Whose DEF Holds, ShellAt, ActiveAt, ScreenAt
  <2> QED BY <1>1, <1>2, <2>1, <2>2
<1>11. ASSUME NEW q \in Procs, Fresh(q)' PROVE LastOf(q)' /\ Hands(asked[q].sh - 1, q)'
  BY <1>1, <1>2, <1>11, Numbers DEF Fresh, Free, IsCommand, CommandAt
<1>12. HasCommand'
  BY <1>1, <1>2, Numbers DEF SInv, HasCommand, LastOf
<1>13. Informed'
  BY <1>1, <1>2, Numbers DEF SInv, Informed, Free
<1>14. ASSUME NEW q \in Procs, (pc[q] = "printed" /\ ~Free(q))' PROVE (value[sends[q]] = Zero)'
  <2>1. CASE q = c0
    BY <1>1, <1>2, <1>14, <2>1, Numbers DEF Free
  <2>2. CASE q # c0
    <3>1. pc[q] = "printed" /\ ~Free(q) /\ value[sends[q]] = Zero /\ sends[q] # 1
      BY <1>1, <1>2, <1>14, <2>2 DEF SInv, LastReport, Free
    <3>2. sends[q] \in Channels
      BY <1>2, <3>1, Numbers DEF SInv, Places, ReadsAt, Free
    <3> QED BY <1>2, <2>2, <3>1, <3>2
  <2> QED BY <2>1, <2>2
<1>15. ASSUME NEW p \in Procs, pc'[p] \in {"waitTake", "takeDone"}
       PROVE  \E q \in Procs : sends'[q] = 11 + p
  <2>1. PICK q \in Procs : sends[q] = 11 + p
    BY <1>1, <1>2, <1>15 DEF SInv, ReportIsThere
  <2>2. 11 + p \in Channels
    BY <1>15, <1>2, <2>1, Numbers, Whose DEF ShellAt, ActiveAt
  <2> QED BY <1>1, <1>2, <2>1, <2>2, Numbers DEF Free
<1> QED BY <1>3, <1>4, <1>5, <1>6, <1>7, <1>8, <1>9, <1>10, <1>11, <1>12, <1>13,
   <1>14, <1>15 DEF SInv, ShellsBoot, OneHolder, StopIsThere, Handshakes,
   LastReport, ReportIsThere

\* A new shell waits for its number.
LEMMA NewShellAwaits ==
    ASSUME KInv, SInv, Goto("shellNumbered"), UNCHANGED Locals, At("shellStart"), Awaited(1)
    PROVE  SInv'
<1>1. /\ c0 \in Procs /\ c0 \in 0 .. maxId /\ Free(c0) /\ IsShell(c0)
      /\ c0 # Main /\ c0 # Screen /\ ~IsCommand(c0) /\ pc[c0] = "shellStart"
      /\ InBoot /\ NewShell /\ c0 = maxId /\ Booting(c0) /\ maxId \in Nat
  <2>1. /\ c0 \in Procs /\ c0 \in 0 .. maxId /\ Free(c0) /\ IsShell(c0)
        /\ c0 # Main /\ c0 # Screen /\ ~IsCommand(c0) /\ pc[c0] = "shellStart" /\ maxId \in Nat
    BY Who, NumberedProcesses DEF ShellAt, StartAt, At
  <2>2. Boots(c0)
    BY <2>1 DEF SInv, ShellsBoot
  <2> QED BY <2>1, <2>2 DEF Boots, Resting, StartAt
<1>2. /\ \A p \in Procs : pc'[p] = IF p = c0 THEN "shellNumbered" ELSE pc[p]
      /\ \A p \in Procs : reads'[p] = IF p = c0 THEN 1 ELSE reads[p]
      /\ \A p \in Procs : sends[p] # 1
      /\ sends' = sends /\ received' = received /\ value' = value
      /\ maxId' = maxId /\ currentId' = currentId
      /\ myId' = myId /\ job' = job /\ asked' = asked
      /\ \A p \in Procs : Holds(p) => p = Main
      /\ \A p \in Procs : pc[p] \notin CommandAt /\ ~Fresh(p) /\ pc[p] \notin ActiveAt
  <2>1. reads \in [Procs -> Channels \cup {NoChannel}]
    BY Links
  <2>5. /\ \A p \in Procs : Holds(p) => p = Main
        /\ \A p \in Procs : pc[p] \notin CommandAt /\ ~Fresh(p) /\ pc[p] \notin ActiveAt
    BY <1>1, BootFacts
  <2> QED BY <1>1, <2>1, <2>5 DEF SInv, Typed, Goto, Awaited, Locals
<1>3. Typed'
  BY <1>1, <1>2, Numbers DEF SInv, Typed, Labels, ShellAt, StartAt, ActiveAt,
     ScreenAt, CommandAt, MainAt, BootAt, Goto
<1>4. Kinds'
  BY <1>1, <1>2, Numbers DEF SInv, Kinds, KindOf, ShellAt, StartAt, ActiveAt,
     ScreenAt, CommandAt, IsShell, IsCommand, Screen
<1>5. MainIsAt'
  BY <1>1, <1>2, Numbers DEF SInv, MainIsAt, InBoot, MainAt, BootAt, Free
<1>6. ASSUME NEW p \in Procs
      PROVE  SendsAt(p, sends[p], pc[p])' /\ ReadsAt(p, reads[p], pc[p])'
  <2>1. SendsAt(p, sends[p], pc[p]) /\ ReadsAt(p, reads[p], pc[p])
    BY DEF SInv, Places
  <2>2. CASE p = c0
    BY <1>1, <1>2, <2>1, <2>2, Numbers DEF SendsAt, ReadsAt, Free
  <2>3. CASE p # c0
    BY <1>1, <1>2, <2>1, <2>3, Numbers DEF SendsAt, ReadsAt
  <2> QED BY <2>2, <2>3
<1>7. ASSUME NEW p \in Procs, IsShell(p), p <= maxId' PROVE Boots(p)'
  <2>1. CASE p = c0
    BY <1>1, <1>2, <2>1, Numbers DEF Boots, Booting, Resting, Free, NewShell, InBoot, BootAt, StartAt
  <2>2. CASE p # c0
    <3>1. Boots(p) /\ Resting(p)
      BY <1>1, <1>2, <1>7, <2>2 DEF SInv, ShellsBoot, Boots
    <3>2. Resting(p)' /\ Boots(p)'
      BY <1>1, <1>2, <2>2, <3>1, Numbers DEF Boots, Resting, Free, InBoot, NewShell, BootAt, StartAt
    <3> QED BY <3>2
  <2> QED BY <2>1, <2>2
<1>8. ASSUME NEW p \in Procs, NEW q \in Procs, Holds(p)', Holds(q)' PROVE p = q
  <2>1. \A x \in Procs : Holds(x)' => Holds(x)
    BY <1>1, <1>2, Numbers DEF Holds, InBoot, Free, ActiveAt, BootAt
  <2> QED BY <1>8, <2>1 DEF SInv, OneHolder
<1>9. StopsFirst'
  BY <1>1, <1>2, Numbers DEF SInv, StopsFirst, Stopping, Holds, InBoot, Free, ActiveAt
<1>10. StopIsThere'
  BY <1>1, <1>2, Numbers DEF SInv, StopIsThere
<1>11. ASSUME NEW q \in Procs, Fresh(q)' PROVE LastOf(q)' /\ Hands(asked[q].sh - 1, q)'
  BY <1>1, <1>2, <1>11, Numbers DEF Fresh, Free, IsCommand, CommandAt
<1>12. HasCommand'
  BY <1>1, <1>2, Numbers DEF SInv, HasCommand, LastOf
<1>13. Informed'
  BY ZenonT(60), <1>1, <1>2, Numbers DEF SInv, Informed, Free
<1>14. LastReport'
  BY <1>1, <1>2, Numbers DEF SInv, LastReport, Free
<1>15. ReportIsThere'
  BY <1>1, <1>2, Numbers DEF SInv, ReportIsThere
<1> QED BY <1>3, <1>4, <1>5, <1>6, <1>7, <1>8, <1>9, <1>10, <1>11, <1>12, <1>13,
   <1>14, <1>15 DEF SInv, Places, ShellsBoot, OneHolder, Handshakes

\* A new shell takes its number.
LEMMA NewShellTakes ==
    ASSUME KInv, SInv, Goto("shellNumbered"), UNCHANGED Locals, At("shellStart"), NEW s \in Procs, Taken(1, s)
    PROVE  SInv'
<1>1. /\ c0 \in Procs /\ c0 \in 0 .. maxId /\ Free(c0) /\ IsShell(c0)
      /\ c0 # Main /\ c0 # Screen /\ ~IsCommand(c0) /\ pc[c0] = "shellStart"
      /\ InBoot /\ NewShell /\ c0 = maxId /\ Booting(c0) /\ maxId \in Nat
  <2>1. /\ c0 \in Procs /\ c0 \in 0 .. maxId /\ Free(c0) /\ IsShell(c0)
        /\ c0 # Main /\ c0 # Screen /\ ~IsCommand(c0) /\ pc[c0] = "shellStart" /\ maxId \in Nat
    BY Who, NumberedProcesses DEF ShellAt, StartAt, At
  <2>2. Boots(c0)
    BY <2>1 DEF SInv, ShellsBoot
  <2> QED BY <2>1, <2>2 DEF Boots, Resting, StartAt
<1>2. /\ \A p \in Procs : pc'[p] = IF p = c0 THEN "shellNumbered" ELSE pc[p]
      /\ \A p \in Procs : sends'[p] = IF p = s THEN NoChannel ELSE sends[p]
      /\ \A p \in Procs : received'[p] = IF p = c0 THEN value[1] ELSE received[p]
      /\ reads' = reads /\ value' = value
      /\ maxId' = maxId /\ currentId' = currentId
      /\ myId' = myId /\ job' = job /\ asked' = asked
      /\ s # c0 /\ sends[s] = 1 /\ reads[s] = NoChannel
      /\ s = Main /\ pc[Main] = "shellReady"
      /\ \A p \in Procs : Holds(p) => p = Main
      /\ \A p \in Procs : pc[p] \notin CommandAt /\ ~Fresh(p) /\ pc[p] \notin ActiveAt
  <2>1. /\ sends \in [Procs -> Channels \cup {NoChannel}]
        /\ value \in [Channels -> Values \cup {NoValue}]
        /\ received \in [Procs -> Values \cup {NoValue}]
        /\ sends[s] = 1 /\ reads[s] = NoChannel /\ s # c0
    BY Links, NumberedProcesses, Numbers DEF TypeOK, Taken
  <2>5. /\ \A p \in Procs : Holds(p) => p = Main
        /\ \A p \in Procs : pc[p] \notin CommandAt /\ ~Fresh(p) /\ pc[p] \notin ActiveAt
    BY <1>1, BootFacts
  <2>6. s = Main /\ pc[Main] = "shellReady"
    BY <1>1, <2>1, BootFacts
  <2> QED BY <1>1, <2>1, <2>5, <2>6 DEF SInv, Typed, Goto, Taken, Locals
<1>3. Typed'
  BY <1>1, <1>2, Numbers DEF SInv, Typed, Labels, ShellAt, StartAt, ActiveAt,
     ScreenAt, CommandAt, MainAt, BootAt, Goto
<1>4. Kinds'
  BY <1>1, <1>2, Numbers DEF SInv, Kinds, KindOf, ShellAt, StartAt, ActiveAt,
     ScreenAt, CommandAt, IsShell, IsCommand, Screen
<1>5. MainIsAt'
  BY <1>1, <1>2, Numbers DEF SInv, MainIsAt, InBoot, MainAt, BootAt, Free
<1>6. Places'
  BY <1>1, <1>2, Numbers DEF SInv, Places, SendsAt, ReadsAt, Free, IsShell, IsCommand,
     Screen, ShellIds, ReportCh
<1>7. ASSUME NEW p \in Procs, IsShell(p), p <= maxId' PROVE Boots(p)'
  <2>1. CASE p = c0
    BY <1>1, <1>2, <2>1, Numbers DEF Boots, Booting, Resting, Free, NewShell, InBoot, BootAt, StartAt
  <2>2. CASE p # c0
    <3>1. Boots(p) /\ Resting(p)
      BY <1>1, <1>2, <1>7, <2>2 DEF SInv, ShellsBoot, Boots
    <3>2. Resting(p)' /\ Boots(p)'
      BY <1>1, <1>2, <2>2, <3>1, Numbers DEF Boots, Resting, Free, InBoot, NewShell, BootAt, StartAt
    <3> QED BY <3>2
  <2> QED BY <2>1, <2>2
<1>8. ASSUME NEW p \in Procs, NEW q \in Procs, Holds(p)', Holds(q)' PROVE p = q
  <2>1. \A x \in Procs : Holds(x)' => Holds(x)
    BY <1>1, <1>2, Numbers DEF Holds, InBoot, Free, ActiveAt, BootAt
  <2> QED BY <1>8, <2>1 DEF SInv, OneHolder
<1>9. StopsFirst'
  BY <1>1, <1>2, Numbers DEF SInv, StopsFirst, Stopping, Holds, InBoot, Free, ActiveAt
<1>10. StopIsThere'
  BY <1>1, <1>2, Numbers DEF SInv, StopIsThere
<1>11. ASSUME NEW q \in Procs, Fresh(q)' PROVE LastOf(q)' /\ Hands(asked[q].sh - 1, q)'
  BY <1>1, <1>2, <1>11, Numbers DEF Fresh, Free, IsCommand, CommandAt
<1>12. HasCommand'
  BY <1>1, <1>2, Numbers DEF SInv, HasCommand, LastOf
<1>13. Informed'
  BY <1>1, <1>2, Numbers DEF SInv, Informed, Free
<1>14. LastReport'
  BY <1>1, <1>2, Numbers DEF SInv, LastReport, Free
<1>15. ASSUME NEW p \in Procs, pc'[p] \in {"waitTake", "takeDone"}
       PROVE  \E q \in Procs : sends'[q] = 11 + p
  <2>1. PICK q \in Procs : sends[q] = 11 + p
    BY <1>1, <1>2, <1>15 DEF SInv, ReportIsThere
  <2>2. 11 + p # 1
    BY <1>15, <1>1, <1>2, <2>1, Numbers, Whose DEF ShellAt, ActiveAt, ReportCh
  <2> QED BY <1>1, <1>2, <2>1, <2>2
<1> QED BY <1>3, <1>4, <1>5, <1>6, <1>7, <1>8, <1>9, <1>10, <1>11, <1>12, <1>13,
   <1>14, <1>15 DEF SInv, ShellsBoot, OneHolder, Handshakes, ReportIsThere

\* A new shell offers its answer.
LEMMA NewShellOffers ==
    ASSUME KInv, SInv, Goto("shellOff"), UNCHANGED <<currentId, job, asked>>, At("shellNumbered"), NEW v,
           Offered(1, v), myId' = [myId EXCEPT ![c0] = received[c0]]
    PROVE  SInv'
<1>1. /\ c0 \in Procs /\ c0 \in 0 .. maxId /\ Free(c0) /\ IsShell(c0)
      /\ c0 # Main /\ c0 # Screen /\ ~IsCommand(c0) /\ pc[c0] = "shellNumbered"
      /\ InBoot /\ NewShell /\ c0 = maxId /\ Booting(c0) /\ maxId \in Nat
  <2>1. /\ c0 \in Procs /\ c0 \in 0 .. maxId /\ Free(c0) /\ IsShell(c0)
        /\ c0 # Main /\ c0 # Screen /\ ~IsCommand(c0) /\ pc[c0] = "shellNumbered" /\ maxId \in Nat
    BY Who, NumberedProcesses DEF ShellAt, StartAt, At
  <2>2. Boots(c0)
    BY <2>1 DEF SInv, ShellsBoot
  <2> QED BY <2>1, <2>2 DEF Boots, Resting, StartAt
<1>2. /\ \A p \in Procs : pc'[p] = IF p = c0 THEN "shellOff" ELSE pc[p]
      /\ \A p \in Procs : sends'[p] = IF p = c0 THEN 1 ELSE sends[p]
      /\ \A k \in Channels : k # 1 => value'[k] = value[k]
      /\ \A p \in Procs : sends[p] # 1 /\ reads[p] # 1
      /\ reads' = reads /\ received' = received
      /\ \A p \in Procs : sends[p] \in Channels \cup {NoChannel}
      /\ maxId' = maxId /\ currentId' = currentId /\ job' = job /\ asked' = asked
      /\ \A p \in Procs : myId'[p] = IF p = c0 THEN received[c0] ELSE myId[p]
      /\ myId' \in [Procs -> Values \cup {NoValue, 0}]
      /\ \A p \in Procs : Holds(p) => p = Main
      /\ \A p \in Procs : pc[p] \notin CommandAt /\ ~Fresh(p) /\ pc[p] \notin ActiveAt
  <2>1. /\ sends \in [Procs -> Channels \cup {NoChannel}]
        /\ value \in [Channels -> Values \cup {NoValue}]
    BY Links
  <2>3. /\ received \in [Procs -> Values \cup {NoValue}]
        /\ \A p \in Procs : myId'[p] = IF p = c0 THEN received[c0] ELSE myId[p]
        /\ myId' \in [Procs -> Values \cup {NoValue, 0}]
    <3>1. received \in [Procs -> Values \cup {NoValue}] /\ myId \in [Procs -> Values \cup {NoValue, 0}]
      BY NumberedProcesses DEF SInv, Typed, TypeOK
    <3> QED BY <1>1, <3>1
  <2>5. /\ \A p \in Procs : Holds(p) => p = Main
        /\ \A p \in Procs : pc[p] \notin CommandAt /\ ~Fresh(p) /\ pc[p] \notin ActiveAt
    BY <1>1, BootFacts
  <2> QED BY <1>1, <2>1, <2>3, <2>5, Numbers DEF SInv, Typed, Goto, Offered
<1>3. Typed'
  BY <1>1, <1>2, Numbers DEF SInv, Typed, Labels, ShellAt, ActiveAt, ScreenAt,
     CommandAt, MainAt, BootAt, Goto
<1>4. Kinds'
  BY <1>1, <1>2, Numbers DEF SInv, Kinds, KindOf, ShellAt, StartAt, ActiveAt,
     ScreenAt, CommandAt, IsShell, IsCommand, Screen
<1>5. MainIsAt'
  BY <1>1, <1>2, Numbers DEF SInv, MainIsAt, InBoot, MainAt, BootAt, Free
<1>6. Places'
  BY <1>1, <1>2, Numbers DEF SInv, Places, SendsAt, ReadsAt, Free, IsShell, IsCommand,
     Screen, ShellIds, ReportCh
<1>7. ASSUME NEW p \in Procs, IsShell(p), p <= maxId' PROVE Boots(p)'
  <2>1. CASE p = c0
    BY <1>1, <1>2, <2>1, Numbers DEF Boots, Booting, Resting, Free, NewShell, InBoot, BootAt, StartAt
  <2>2. CASE p # c0
    <3>1. Boots(p) /\ Resting(p)
      BY <1>1, <1>2, <1>7, <2>2 DEF SInv, ShellsBoot, Boots
    <3>2. Resting(p)' /\ Boots(p)'
      BY <1>1, <1>2, <2>2, <3>1, Numbers DEF Boots, Resting, Free, InBoot, NewShell, BootAt, StartAt
    <3> QED BY <3>2
  <2> QED BY <2>1, <2>2
<1>8. ASSUME NEW p \in Procs, NEW q \in Procs, Holds(p)', Holds(q)' PROVE p = q
  <2>1. \A x \in Procs : Holds(x)' => Holds(x)
    BY <1>1, <1>2, Numbers DEF Holds, InBoot, Free, ActiveAt, BootAt
  <2> QED BY <1>8, <2>1 DEF SInv, OneHolder
<1>9. StopsFirst'
  BY <1>1, <1>2, Numbers DEF SInv, StopsFirst, Stopping, Holds, InBoot, Free, ActiveAt
<1>10. StopIsThere'
  BY <1>1, <1>2, Numbers DEF SInv, StopIsThere
<1>11. ASSUME NEW q \in Procs, Fresh(q)' PROVE LastOf(q)' /\ Hands(asked[q].sh - 1, q)'
  BY <1>1, <1>2, <1>11, Numbers DEF Fresh, Free, IsCommand, CommandAt
<1>12. HasCommand'
  BY <1>1, <1>2, Numbers DEF SInv, HasCommand, LastOf
<1>13. Informed'
  BY <1>1, <1>2, Numbers DEF SInv, Informed, Free
<1>14. ASSUME NEW q \in Procs, (pc[q] = "printed" /\ ~Free(q))' PROVE (value[sends[q]] = Zero)'
  <2>1. CASE q = c0
    BY <1>1, <1>2, <1>14, <2>1, Numbers DEF Free
  <2>2. CASE q # c0
    <3>1. pc[q] = "printed" /\ ~Free(q) /\ value[sends[q]] = Zero /\ sends[q] # 1
      BY <1>1, <1>2, <1>14, <2>2 DEF SInv, LastReport, Free
    <3>2. sends[q] \in Channels
      BY <1>2, <3>1, Numbers DEF SInv, Places, ReadsAt, Free
    <3> QED BY <1>2, <2>2, <3>1, <3>2
  <2> QED BY <2>1, <2>2
<1>15. ASSUME NEW p \in Procs, pc'[p] \in {"waitTake", "takeDone"}
       PROVE  \E q \in Procs : sends'[q] = 11 + p
  <2>1. PICK q \in Procs : sends[q] = 11 + p
    BY <1>1, <1>2, <1>15 DEF SInv, ReportIsThere
  <2>2. 11 + p \in Channels
    BY <1>15, <1>2, <2>1, Numbers, Whose DEF ShellAt, ActiveAt
  <2> QED BY <1>1, <1>2, <2>1, <2>2, Numbers DEF Free
<1> QED BY <1>3, <1>4, <1>5, <1>6, <1>7, <1>8, <1>9, <1>10, <1>11, <1>12, <1>13,
   <1>14, <1>15 DEF SInv, ShellsBoot, OneHolder, Handshakes, LastReport,
   ReportIsThere

\* A new shell gives its answer to kernel_main.
LEMMA NewShellPasses ==
    ASSUME KInv, SInv, Goto("shellOff"), UNCHANGED <<currentId, job, asked>>, At("shellNumbered"), NEW v,
           NEW r \in Procs, Passed(1, v, r), myId' = [myId EXCEPT ![c0] = received[c0]]
    PROVE  SInv'
<1>1. /\ c0 \in Procs /\ c0 \in 0 .. maxId /\ Free(c0) /\ IsShell(c0)
      /\ c0 # Main /\ c0 # Screen /\ ~IsCommand(c0) /\ pc[c0] = "shellNumbered"
      /\ InBoot /\ NewShell /\ c0 = maxId /\ Booting(c0) /\ maxId \in Nat
  <2>1. /\ c0 \in Procs /\ c0 \in 0 .. maxId /\ Free(c0) /\ IsShell(c0)
        /\ c0 # Main /\ c0 # Screen /\ ~IsCommand(c0) /\ pc[c0] = "shellNumbered" /\ maxId \in Nat
    BY Who, NumberedProcesses DEF ShellAt, StartAt, At
  <2>2. Boots(c0)
    BY <2>1 DEF SInv, ShellsBoot
  <2> QED BY <2>1, <2>2 DEF Boots, Resting, StartAt
<1>2. /\ \A p \in Procs : pc'[p] = IF p = c0 THEN "shellOff" ELSE pc[p]
      /\ \A p \in Procs : reads'[p] = IF p = r THEN NoChannel ELSE reads[p]
      /\ \A p \in Procs : p # r => received'[p] = received[p]
      /\ \A k \in Channels : k # 1 => value'[k] = value[k]
      /\ sends' = sends
      /\ \A p \in Procs : sends[p] \in Channels \cup {NoChannel} /\ sends[p] # 1
      /\ r # c0 /\ reads[r] = 1 /\ sends[r] = NoChannel
      /\ r = Main /\ pc[r] = "create"
      /\ maxId' = maxId /\ currentId' = currentId /\ job' = job /\ asked' = asked
      /\ \A p \in Procs : myId'[p] = IF p = c0 THEN received[c0] ELSE myId[p]
      /\ myId' \in [Procs -> Values \cup {NoValue, 0}]
      /\ \A p \in Procs : Holds(p) => p = Main
      /\ \A p \in Procs : pc[p] \notin CommandAt /\ ~Fresh(p) /\ pc[p] \notin ActiveAt
  <2>1. /\ sends \in [Procs -> Channels \cup {NoChannel}]
        /\ value \in [Channels -> Values \cup {NoValue}]
        /\ reads \in [Procs -> Channels \cup {NoChannel}]
        /\ received \in [Procs -> Values \cup {NoValue}]
        /\ reads[r] = 1 /\ sends[r] = NoChannel /\ r # c0
    BY Links, NumberedProcesses, Numbers DEF TypeOK, Passed
  <2>3. /\ received \in [Procs -> Values \cup {NoValue}]
        /\ \A p \in Procs : myId'[p] = IF p = c0 THEN received[c0] ELSE myId[p]
        /\ myId' \in [Procs -> Values \cup {NoValue, 0}]
    <3>1. received \in [Procs -> Values \cup {NoValue}] /\ myId \in [Procs -> Values \cup {NoValue, 0}]
      BY NumberedProcesses DEF SInv, Typed, TypeOK
    <3> QED BY <1>1, <3>1
  <2>5. /\ \A p \in Procs : Holds(p) => p = Main
        /\ \A p \in Procs : pc[p] \notin CommandAt /\ ~Fresh(p) /\ pc[p] \notin ActiveAt
    BY <1>1, BootFacts
  <2>6. r = Main /\ pc[r] = "create"
    BY <1>1, <2>1, BootFacts
  <2> QED BY <1>1, <2>1, <2>3, <2>5, <2>6, Numbers DEF SInv, Typed, Goto, Passed
<1>3. Typed'
  BY <1>1, <1>2, Numbers DEF SInv, Typed, Labels, ShellAt, ActiveAt, ScreenAt,
     CommandAt, MainAt, BootAt, Goto
<1>4. Kinds'
  BY <1>1, <1>2, Numbers DEF SInv, Kinds, KindOf, ShellAt, StartAt, ActiveAt,
     ScreenAt, CommandAt, IsShell, IsCommand, Screen
<1>5. MainIsAt'
  BY <1>1, <1>2, Numbers DEF SInv, MainIsAt, InBoot, MainAt, BootAt, Free
<1>6. Places'
  BY <1>1, <1>2, Numbers DEF SInv, Places, SendsAt, ReadsAt, Free, IsShell, IsCommand,
     Screen, ShellIds, ReportCh
<1>7. ASSUME NEW p \in Procs, IsShell(p), p <= maxId' PROVE Boots(p)'
  <2>1. CASE p = c0
    BY <1>1, <1>2, <2>1, Numbers DEF Boots, Booting, Resting, Free, NewShell, InBoot, BootAt, StartAt
  <2>2. CASE p # c0
    <3>1. Boots(p) /\ Resting(p)
      BY <1>1, <1>2, <1>7, <2>2 DEF SInv, ShellsBoot, Boots
    <3>2. Resting(p)' /\ Boots(p)'
      BY <1>1, <1>2, <2>2, <3>1, Numbers DEF Boots, Resting, Free, InBoot, NewShell, BootAt, StartAt
    <3> QED BY <3>2
  <2> QED BY <2>1, <2>2
<1>8. ASSUME NEW p \in Procs, NEW q \in Procs, Holds(p)', Holds(q)' PROVE p = q
  <2>1. \A x \in Procs : Holds(x)' => Holds(x)
    BY <1>1, <1>2, Numbers DEF Holds, InBoot, Free, ActiveAt, BootAt
  <2> QED BY <1>8, <2>1 DEF SInv, OneHolder
<1>9. StopsFirst'
  BY <1>1, <1>2, Numbers DEF SInv, StopsFirst, Stopping, Holds, InBoot, Free, ActiveAt
<1>10. StopIsThere'
  BY <1>1, <1>2, Numbers DEF SInv, StopIsThere
<1>11. ASSUME NEW q \in Procs, Fresh(q)' PROVE LastOf(q)' /\ Hands(asked[q].sh - 1, q)'
  BY <1>1, <1>2, <1>11, Numbers DEF Fresh, Free, IsCommand, CommandAt
<1>12. HasCommand'
  BY <1>1, <1>2, Numbers DEF SInv, HasCommand, LastOf
<1>13. Informed'
  BY <1>1, <1>2, Numbers DEF SInv, Informed, Free
<1>14. ASSUME NEW q \in Procs, (pc[q] = "printed" /\ ~Free(q))' PROVE (value[sends[q]] = Zero)'
  <2>1. q # c0 /\ q # r /\ pc[q] = "printed" /\ ~Free(q) /\ value[sends[q]] = Zero
    BY <1>1, <1>2, <1>14, Numbers DEF SInv, LastReport, Free
  <2>2. sends[q] \in Channels
    BY <1>2, <2>1, Numbers DEF SInv, Places, ReadsAt, Free
  <2> QED BY <1>2, <2>1, <2>2
<1>15. ReportIsThere'
  BY <1>1, <1>2, Numbers DEF SInv, ReportIsThere
<1> QED BY <1>3, <1>4, <1>5, <1>6, <1>7, <1>8, <1>9, <1>10, <1>11, <1>12, <1>13,
   <1>14, <1>15 DEF SInv, ShellsBoot, OneHolder, Handshakes, LastReport

\* kernel_main offers a console the screen.
LEMMA MainOffersStart ==
    ASSUME KInv, SInv, Goto("idle"), UNCHANGED <<myId, job, asked>>, NEW ch, NEW v, Offered(ch, v),
           \/ At("firstShell") /\ ch = 2 /\ currentId' = 2
           \/ At("start") /\ currentId' = currentId /\ ch = IF currentId = Game THEN 43 ELSE currentId
    PROVE  SInv'
<1>1. /\ c0 = Main /\ c0 \in Procs /\ c0 \in 0 .. maxId /\ Free(c0) /\ Main = 0
      /\ c0 # Screen /\ ~IsShell(c0) /\ ~IsCommand(c0)
  BY Who, Numbers DEF MainAt, BootAt, At, Screen, IsShell, IsCommand
<1>2. /\ \A p \in Procs : pc'[p] = IF p = c0 THEN "idle" ELSE pc[p]
      /\ \A p \in Procs : sends'[p] = IF p = c0 THEN ch ELSE sends[p]
      /\ \A k \in Channels : k # ch => value'[k] = value[k]
      /\ \A p \in Procs : sends[p] # ch /\ reads[p] # ch
      /\ reads' = reads /\ received' = received
      /\ maxId' = maxId /\ myId' = myId /\ job' = job /\ asked' = asked
      /\ \A p \in Procs : sends[p] \in Channels \cup {NoChannel}
      /\ ch \in ShellIds \cup {43} /\ ch \in Channels /\ ch \notin {0, 1, 42} \cup ReportCh
      /\ \A p \in Procs : Holds(p) => p = Main
      /\ maxId > NumShells /\ currentId' \in ShellIds \cup {Game}
      /\ pc[c0] \in {"firstShell", "start"}
      /\ \A p \in Procs : IsShell(p) => Boots(p)
      /\ pc[c0] = "firstShell" => \A p \in Procs : IsShell(p) => Resting(p)
  <2>1. /\ sends \in [Procs -> Channels \cup {NoChannel}]
        /\ value \in [Channels -> Values \cup {NoValue}]
    BY Links
  <2>2. /\ ch \in ShellIds \cup {43} /\ ch \in Channels /\ ch \notin {0, 1, 42} \cup ReportCh
        /\ maxId > NumShells /\ currentId' \in ShellIds \cup {Game} /\ maxId \in Nat
    <3>1. maxId \in Nat
      BY NumberedProcesses
    <3>2. CASE At("firstShell") /\ ch = 2 /\ currentId' = 2
      BY <1>1, <3>1, <3>2, Numbers DEF SInv, MainIsAt, At, ShellIds, ReportCh
    <3>3. CASE At("start") /\ currentId' = currentId /\ ch = IF currentId = Game THEN 43 ELSE currentId
      BY <1>1, <3>1, <3>3, Numbers DEF SInv, MainIsAt, At, ShellIds, ReportCh, InBoot, BootAt
    <3> QED BY <3>2, <3>3
  <2>3. /\ \A p \in Procs : Holds(p) => p = Main
        /\ pc[c0] \in {"firstShell", "start"}
        /\ \A p \in Procs : IsShell(p) => Boots(p)
        /\ pc[c0] = "firstShell" => \A p \in Procs : IsShell(p) => Resting(p)
    <3>1. pc[c0] \in {"firstShell", "start"}
      BY DEF At
    <3>2. Holds(Main)
      BY <1>1, <3>1 DEF Holds, InBoot, BootAt
    <3>3. \A p \in Procs : IsShell(p) => Boots(p)
      BY <2>2, Numbers DEF SInv, ShellsBoot, IsShell
    <3>4. pc[c0] = "firstShell" => InBoot /\ ~NewShell
      BY <1>1 DEF InBoot, BootAt, NewShell
    <3> QED BY <3>1, <3>2, <3>3, <3>4, Numbers DEF SInv, OneHolder, Boots
  <2> QED BY <1>1, <2>1, <2>2, <2>3, Numbers DEF SInv, Typed, Goto, Offered
<1>3. Typed'
  BY <1>1, <1>2, Numbers DEF SInv, Typed, Labels, ShellAt, StartAt, ActiveAt,
     ScreenAt, CommandAt, MainAt, BootAt, Goto
<1>4. Kinds'
  BY <1>1, <1>2, Numbers DEF SInv, Kinds, KindOf, ShellAt, StartAt, ActiveAt,
     ScreenAt, CommandAt, IsShell, IsCommand, Screen
<1>5. MainIsAt'
  BY <1>1, <1>2, Numbers DEF SInv, MainIsAt, InBoot, MainAt, BootAt, Free
<1>6. Places'
  BY <1>1, <1>2, Numbers DEF SInv, Places, SendsAt, ReadsAt, Free, IsShell, IsCommand,
     Screen, ShellIds, ReportCh
<1>7. ASSUME NEW p \in Procs, IsShell(p), p <= maxId' PROVE Boots(p)'
  <2>1. pc[p] \notin StartAt /\ Boots(p) /\ p # c0
    BY <1>1, <1>2, <1>7 DEF Boots, Resting, InBoot, BootAt, StartAt
  <2> QED BY <1>1, <1>2, <2>1 DEF Boots, InBoot, BootAt
<1>8. ASSUME NEW p \in Procs, NEW q \in Procs, Holds(p)', Holds(q)' PROVE p = q
  <2>1. ASSUME NEW x \in Procs, Holds(x)', x # Main PROVE Holds(x) /\ x # Main
    <3>1. x # Main
      BY <1>1, <1>2, <2>1, Numbers DEF Holds, InBoot, Free, BootAt
    <3>2. CASE pc[c0] = "firstShell"
      <4>1. ~(IsShell(x) /\ pc[x] = "shellOff" /\ sends[x] = 1)
        BY <1>2, <3>2, Numbers DEF Resting, Free
      <4> QED BY <1>1, <1>2, <2>1, <3>1, <4>1, Numbers DEF Holds, Free, ActiveAt
    <3>3. CASE pc[c0] = "start"
      BY <1>1, <1>2, <2>1, <3>1, <3>3, Numbers DEF Holds, InBoot, Free, ActiveAt, BootAt
    <3> QED BY <1>2, <3>1, <3>2, <3>3
  <2> QED BY <1>8, <1>2, <2>1, Numbers
<1>9. StopsFirst'
  BY <1>1, <1>2, Numbers DEF SInv, StopsFirst, Stopping, Holds, InBoot, Free, ActiveAt
<1>10. ASSUME NEW p \in Procs, pc'[p] \in {"takeStop", "snakeTake"} PROVE sends'[Main] = 0
  <2>1. p # c0 /\ pc[p] \in {"takeStop", "snakeTake"}
    BY <1>1, <1>2, <1>10
  <2>2. Holds(p)
    BY <2>1, Whose DEF Holds, ShellAt, ActiveAt, ScreenAt
  <2> QED BY <1>1, <1>2, <2>1, <2>2
<1>11. ASSUME NEW q \in Procs, Fresh(q)' PROVE LastOf(q)' /\ Hands(asked[q].sh - 1, q)'
  <2>1. Fresh(q)
    BY <1>1, <1>2, Numbers, <1>11 DEF Fresh, Free
  <2>2. asked[q].sh - 1 = Main /\ asked[q].sh - 1 \in 1 .. NumShells
    BY <1>2, <2>1, FreshCommand
  <2> QED BY <1>1, <2>2
<1>12. HasCommand'
  BY <1>1, <1>2, Numbers DEF SInv, HasCommand, LastOf
<1>13. Informed'
  <2> SUFFICES ASSUME NEW q \in Procs
               PROVE  (/\ pc[q] = "cmdNumbered" /\ Free(q) =>
                             job[q] = asked[q].fn /\ received[q] = asked[q].sh
                       /\ pc[q] \in {"run", "playing", "ended", "printed", "exit"} =>
                             job[q] = asked[q].fn /\ myId[q] = asked[q].sh)'
    BY DEF Informed
  <2>1. /\ pc[q] = "cmdNumbered" /\ Free(q) => job[q] = asked[q].fn /\ received[q] = asked[q].sh
        /\ pc[q] \in {"run", "playing", "ended", "printed", "exit"} =>
              job[q] = asked[q].fn /\ myId[q] = asked[q].sh
    BY DEF SInv, Informed
  <2>2. CASE q = c0
    BY <1>2, <2>2
  <2>3. CASE q # c0
    BY <1>1, <1>2, <2>1, <2>3, Numbers DEF Free
  <2> QED BY <2>2, <2>3
<1>14. ASSUME NEW q \in Procs, (pc[q] = "printed" /\ ~Free(q))' PROVE (value[sends[q]] = Zero)'
  <2>1. CASE q = c0
    BY <1>1, <1>2, <1>14, <2>1, Numbers DEF Free
  <2>2. CASE q # c0
    <3>1. pc[q] = "printed" /\ ~Free(q) /\ value[sends[q]] = Zero /\ sends[q] # ch
      BY <1>1, <1>2, <1>14, <2>2 DEF SInv, LastReport, Free
    <3>2. sends[q] \in Channels
      BY <1>2, <3>1, Numbers DEF SInv, Places, ReadsAt, Free
    <3> QED BY <1>2, <2>2, <3>1, <3>2
  <2> QED BY <2>1, <2>2
<1>15. ASSUME NEW p \in Procs, pc'[p] \in {"waitTake", "takeDone"}
       PROVE  \E q \in Procs : sends'[q] = 11 + p
  <2>1. PICK q \in Procs : sends[q] = 11 + p
    BY <1>1, <1>2, <1>15 DEF SInv, ReportIsThere
  <2>2. 11 + p \in Channels
    BY <1>15, <1>2, <2>1, Numbers, Whose DEF ShellAt, ActiveAt
  <2> QED BY <1>1, <1>2, <2>1, <2>2, Numbers DEF Free
<1> QED BY <1>3, <1>4, <1>5, <1>6, <1>7, <1>8, <1>9, <1>10, <1>11, <1>12, <1>13,
   <1>14, <1>15 DEF SInv, ShellsBoot, OneHolder, StopIsThere, Handshakes,
   LastReport, ReportIsThere

\* kernel_main gives a console the screen.
LEMMA MainPassesStart ==
    ASSUME KInv, SInv, Goto("idle"), UNCHANGED <<myId, job, asked>>,
           NEW ch, NEW v, NEW r \in Procs, Passed(ch, v, r),
           \/ At("firstShell") /\ ch = 2 /\ currentId' = 2
           \/ At("start") /\ currentId' = currentId /\ ch = IF currentId = Game THEN 43 ELSE currentId
    PROVE  SInv'
<1>1. /\ c0 = Main /\ c0 \in Procs /\ c0 \in 0 .. maxId /\ Free(c0) /\ Main = 0
      /\ c0 # Screen /\ ~IsShell(c0) /\ ~IsCommand(c0)
  BY Who, Numbers DEF MainAt, BootAt, At, Screen, IsShell, IsCommand
<1>2. /\ \A p \in Procs : pc'[p] = IF p = c0 THEN "idle" ELSE pc[p]
      /\ \A p \in Procs : reads'[p] = IF p = r THEN NoChannel ELSE reads[p]
      /\ \A p \in Procs : p # r => received'[p] = received[p]
      /\ \A k \in Channels : k # ch => value'[k] = value[k]
      /\ sends' = sends
      /\ maxId' = maxId /\ myId' = myId /\ job' = job /\ asked' = asked
      /\ \A p \in Procs : sends[p] \in Channels \cup {NoChannel} /\ sends[p] # ch
      /\ r # c0 /\ reads[r] = ch /\ sends[r] = NoChannel
      /\ \/ IsShell(r) /\ pc[r] = "line" /\ r # Screen /\ ~IsCommand(r)
         \/ r = Screen /\ pc[r] = "play" /\ ~IsShell(r) /\ ~IsCommand(r)
      /\ ch \in ShellIds \cup {43} /\ ch \in Channels /\ ch \notin {0, 1, 42} \cup ReportCh
      /\ \A p \in Procs : Holds(p) => p = Main
      /\ maxId > NumShells /\ currentId' \in ShellIds \cup {Game}
      /\ pc[c0] \in {"firstShell", "start"}
      /\ \A p \in Procs : IsShell(p) => Boots(p)
      /\ pc[c0] = "firstShell" => \A p \in Procs : IsShell(p) => Resting(p)
  <2>1. /\ sends \in [Procs -> Channels \cup {NoChannel}]
        /\ value \in [Channels -> Values \cup {NoValue}]
        /\ reads \in [Procs -> Channels \cup {NoChannel}]
        /\ received \in [Procs -> Values \cup {NoValue}]
        /\ reads[r] = ch /\ sends[r] = NoChannel /\ r # c0
    BY SMTT(30), Links, NumberedProcesses, Numbers DEF TypeOK, Passed
  <2>2. /\ ch \in ShellIds \cup {43} /\ ch \in Channels /\ ch \notin {0, 1, 42} \cup ReportCh
        /\ maxId > NumShells /\ currentId' \in ShellIds \cup {Game} /\ maxId \in Nat
    <3>1. maxId \in Nat
      BY NumberedProcesses
    <3>2. CASE At("firstShell") /\ ch = 2 /\ currentId' = 2
      BY <1>1, <3>1, <3>2, Numbers DEF SInv, MainIsAt, At, ShellIds, ReportCh
    <3>3. CASE At("start") /\ currentId' = currentId /\ ch = IF currentId = Game THEN 43 ELSE currentId
      BY <1>1, <3>1, <3>3, Numbers DEF SInv, MainIsAt, At, ShellIds, ReportCh, InBoot, BootAt
    <3> QED BY <3>2, <3>3
  <2>3. /\ \A p \in Procs : Holds(p) => p = Main
        /\ pc[c0] \in {"firstShell", "start"}
        /\ \A p \in Procs : IsShell(p) => Boots(p)
        /\ pc[c0] = "firstShell" => \A p \in Procs : IsShell(p) => Resting(p)
    <3>1. pc[c0] \in {"firstShell", "start"}
      BY DEF At
    <3>2. Holds(Main)
      BY <1>1, <3>1 DEF Holds, InBoot, BootAt
    <3>3. \A p \in Procs : IsShell(p) => Boots(p)
      BY <2>2, Numbers DEF SInv, ShellsBoot, IsShell
    <3>4. pc[c0] = "firstShell" => InBoot /\ ~NewShell
      BY <1>1 DEF InBoot, BootAt, NewShell
    <3> QED BY <3>1, <3>2, <3>3, <3>4, Numbers DEF SInv, OneHolder, Boots
  <2>4. ReadsAt(r, ch, pc[r])
    BY <2>1 DEF SInv, Places
  <2>5. \/ IsShell(r) /\ pc[r] = "line" /\ r # Screen /\ ~IsCommand(r)
        \/ r = Screen /\ pc[r] = "play" /\ ~IsShell(r) /\ ~IsCommand(r)
    BY <2>2, <2>4, Whose, Numbers DEF ReadsAt, ShellAt, ScreenAt, ShellIds
  <2> QED BY <1>1, <2>1, <2>2, <2>3, <2>5, Numbers DEF SInv, Typed, Goto, Passed
<1>3. Typed'
  BY <1>1, <1>2, Numbers DEF SInv, Typed, Labels, ShellAt, StartAt, ActiveAt,
     ScreenAt, CommandAt, MainAt, BootAt, Goto
<1>4. Kinds'
  BY <1>1, <1>2, Numbers DEF SInv, Kinds, KindOf, ShellAt, StartAt, ActiveAt,
     ScreenAt, CommandAt, IsShell, IsCommand, Screen
<1>5. MainIsAt'
  BY <1>1, <1>2, Numbers DEF SInv, MainIsAt, InBoot, MainAt, BootAt, Free
<1>6. Places'
  BY <1>1, <1>2, Numbers DEF SInv, Places, SendsAt, ReadsAt, Free, IsShell, IsCommand,
     Screen, ShellIds, ReportCh
<1>7. ASSUME NEW p \in Procs, IsShell(p), p <= maxId' PROVE Boots(p)'
  <2>1. pc[p] \notin StartAt /\ Boots(p) /\ p # c0
    BY <1>1, <1>2, <1>7 DEF Boots, Resting, InBoot, BootAt, StartAt
  <2> QED BY <1>1, <1>2, <2>1 DEF Boots, InBoot, BootAt
<1>8. ASSUME NEW p \in Procs, NEW q \in Procs, Holds(p)', Holds(q)' PROVE p = q
  <2>1. ASSUME NEW x \in Procs, Holds(x)', x # r PROVE Holds(x) /\ x # Main
    <3>1. x # Main
      BY <1>1, <1>2, <2>1, Numbers DEF Holds, InBoot, Free, BootAt
    <3>2. CASE pc[c0] = "firstShell"
      <4>1. ~(IsShell(x) /\ pc[x] = "shellOff" /\ sends[x] = 1)
        BY <1>2, <3>2, Numbers DEF Resting, Free
      <4> QED BY <1>1, <1>2, <2>1, <3>1, <4>1, Numbers DEF Holds, Free, ActiveAt
    <3>3. CASE pc[c0] = "start"
      BY ZenonT(60), <1>1, <1>2, <2>1, <3>1, <3>3, Numbers DEF Holds, InBoot, Free, ActiveAt, BootAt
    <3> QED BY <1>2, <3>1, <3>2, <3>3
  <2> QED BY <1>8, <1>2, <2>1, Numbers
<1>9. StopsFirst'
  BY <1>1, <1>2, Numbers DEF SInv, StopsFirst, Stopping, Holds, InBoot, Free, ActiveAt
<1>10. StopIsThere'
  BY <1>1, <1>2, Numbers DEF SInv, StopIsThere
<1>11. ASSUME NEW q \in Procs, Fresh(q)' PROVE LastOf(q)' /\ Hands(asked[q].sh - 1, q)'
  <2>1. Fresh(q)
    BY <1>1, <1>2, Numbers, <1>11 DEF Fresh, Free
  <2>2. asked[q].sh - 1 = Main /\ asked[q].sh - 1 \in 1 .. NumShells
    BY <1>2, <2>1, FreshCommand
  <2> QED BY <1>1, <2>2
<1>12. HasCommand'
  BY <1>1, <1>2, Numbers DEF SInv, HasCommand, LastOf
<1>13. Informed'
  <2> SUFFICES ASSUME NEW q \in Procs
               PROVE  (/\ pc[q] = "cmdNumbered" /\ Free(q) =>
                             job[q] = asked[q].fn /\ received[q] = asked[q].sh
                       /\ pc[q] \in {"run", "playing", "ended", "printed", "exit"} =>
                             job[q] = asked[q].fn /\ myId[q] = asked[q].sh)'
    BY DEF Informed
  <2>1. /\ pc[q] = "cmdNumbered" /\ Free(q) => job[q] = asked[q].fn /\ received[q] = asked[q].sh
        /\ pc[q] \in {"run", "playing", "ended", "printed", "exit"} =>
              job[q] = asked[q].fn /\ myId[q] = asked[q].sh
    BY DEF SInv, Informed
  <2>2. CASE q = c0
    BY <1>2, <2>2
  <2>3. CASE q = r
    BY <1>2, <2>3
  <2>4. CASE q # c0 /\ q # r
    BY <1>2, <2>1, <2>4 DEF Free
  <2> QED BY <2>2, <2>3, <2>4
<1>14. ASSUME NEW q \in Procs, (pc[q] = "printed" /\ ~Free(q))' PROVE (value[sends[q]] = Zero)'
  <2>1. q # c0 /\ q # r /\ pc[q] = "printed" /\ ~Free(q) /\ value[sends[q]] = Zero
    BY <1>1, <1>2, <1>14, Numbers DEF SInv, LastReport, Free
  <2>2. sends[q] \in Channels
    BY <1>2, <2>1, Numbers DEF SInv, Places, ReadsAt, Free
  <2> QED BY <1>2, <2>1, <2>2
<1>15. ReportIsThere'
  BY <1>1, <1>2, Numbers DEF SInv, ReportIsThere
<1> QED BY <1>3, <1>4, <1>5, <1>6, <1>7, <1>8, <1>9, <1>10, <1>11, <1>12, <1>13,
   <1>14, <1>15 DEF SInv, ShellsBoot, OneHolder, Handshakes, LastReport

\* kernel_main offers the stop signal to the console on the screen.
LEMMA MainStops ==
    ASSUME KInv, SInv, Goto("stopped"), UNCHANGED <<myId, job, asked>>, At("keys"), Offered(0, E5D),
           currentId' \in ShellIds \cup {Game}
    PROVE  SInv'
<1>1. /\ c0 = Main /\ c0 \in Procs /\ c0 \in 0 .. maxId /\ Free(c0) /\ Main = 0
      /\ c0 # Screen /\ ~IsShell(c0) /\ ~IsCommand(c0)
  BY Who, Numbers DEF MainAt, BootAt, At, Screen, IsShell, IsCommand
<1>2. /\ \A p \in Procs : pc'[p] = IF p = c0 THEN "stopped" ELSE pc[p]
      /\ \A p \in Procs : sends'[p] = IF p = c0 THEN 0 ELSE sends[p]
      /\ \A k \in Channels : k # 0 => value'[k] = value[k]
      /\ \A p \in Procs : sends[p] # 0 /\ reads[p] # 0
      /\ reads' = reads /\ received' = received
      /\ maxId' = maxId /\ myId' = myId /\ job' = job /\ asked' = asked
      /\ currentId' \in ShellIds \cup {Game} /\ pc[c0] = "keys"
      /\ \A p \in Procs : sends[p] \in Channels \cup {NoChannel}
  <2>1. /\ sends \in [Procs -> Channels \cup {NoChannel}]
        /\ value \in [Channels -> Values \cup {NoValue}]
    BY Links
  <2> QED BY <1>1, <2>1, Numbers DEF SInv, Typed, Goto, Offered, At
<1>3. Typed'
  BY <1>1, <1>2, Numbers DEF SInv, Typed, Labels, ShellAt, StartAt, ActiveAt,
     ScreenAt, CommandAt, MainAt, BootAt, Goto
<1>4. Kinds'
  BY <1>1, <1>2, Numbers DEF SInv, Kinds, KindOf, ShellAt, StartAt, ActiveAt,
     ScreenAt, CommandAt, IsShell, IsCommand, Screen
<1>5. MainIsAt'
  BY <1>1, <1>2, Numbers DEF SInv, MainIsAt, InBoot, MainAt, BootAt, Free
<1>6. ASSUME NEW p \in Procs
      PROVE  SendsAt(p, sends[p], pc[p])' /\ ReadsAt(p, reads[p], pc[p])'
  <2>1. SendsAt(p, sends[p], pc[p]) /\ ReadsAt(p, reads[p], pc[p])
    BY DEF SInv, Places
  <2>2. CASE p = c0
    BY <1>1, <1>2, <2>1, <2>2, Numbers DEF SendsAt, ReadsAt, Free
  <2>3. CASE p # c0
    BY <1>1, <1>2, <2>1, <2>3, Numbers DEF SendsAt, ReadsAt
  <2> QED BY <2>2, <2>3
<1>7. ASSUME NEW p \in Procs, IsShell(p), p <= maxId' PROVE Boots(p)'
  <2>1. Boots(p) /\ ~InBoot /\ ~InBoot' /\ p # c0
    BY <1>1, <1>2, <1>7 DEF SInv, ShellsBoot, InBoot, BootAt
  <2> QED BY <1>1, <1>2, <2>1 DEF Boots
<1>8. ASSUME NEW p \in Procs, NEW q \in Procs, Holds(p)', Holds(q)' PROVE p = q
  <2>1. \A x \in Procs : Holds(x)' => Holds(x)
    BY <1>1, <1>2, Numbers DEF Holds, InBoot, Free, ActiveAt, BootAt
  <2> QED BY <1>8, <2>1 DEF SInv, OneHolder
<1>9. StopsFirst'
  BY <1>1, <1>2, Numbers DEF SInv, StopsFirst, Stopping, Holds, InBoot, Free, ActiveAt
<1>10. StopIsThere'
  BY <1>1, <1>2, Numbers DEF SInv, StopIsThere
<1>11. ASSUME NEW q \in Procs, Fresh(q)' PROVE LastOf(q)' /\ Hands(asked[q].sh - 1, q)'
  <2>1. Fresh(q) /\ q # c0
    BY <1>1, <1>2, Numbers, <1>11 DEF Fresh, Free
  <2>2. /\ Hands(asked[q].sh - 1, q) /\ LastOf(q) /\ IsCommand(q)
        /\ asked[q].sh - 1 \in Procs /\ asked[q].sh - 1 # c0
    BY <1>1, <1>2, Numbers, <2>1, FreshCommand DEF Hands, Free
  <2>3. PICK p \in Procs : p = asked[q].sh - 1 /\ p # c0 /\ Hands(p, q)
    BY <2>2
  <2>4. /\ \A x \in {p, q} : pc'[x] = pc[x] /\ sends'[x] = sends[x]
        /\ reads' = reads /\ received' = received /\ job' = job /\ asked' = asked
        /\ value'[1] = value[1]
    BY <1>2, Numbers, <2>1, <2>3
  <2>5. Hands(p, q)'
    BY <2>3, <2>4, HandsKept
  <2>6. LastOf(q)'
    BY <1>2, <2>2 DEF LastOf
  <2> QED BY <1>2, <2>3, <2>5, <2>6
<1>12. HasCommand'
  <2> SUFFICES ASSUME NEW p \in Procs, pc'[p] \in {"sendFunction", "sendArgs", "sendId"}
               PROVE  \E q \in Procs : asked'[q].sh = p + 1 /\ LastOf(q)'
    BY DEF HasCommand
  <2>1. pc[p] \in {"sendFunction", "sendArgs", "sendId"}
    BY <1>2
  <2>2. PICK q \in Procs : asked[q].sh = p + 1 /\ LastOf(q)
    BY <2>1 DEF SInv, HasCommand
  <2> QED BY <1>2, <2>2 DEF LastOf
<1>13. Informed'
  BY <1>1, <1>2, Numbers DEF SInv, Informed, Free
<1>14. ASSUME NEW q \in Procs, (pc[q] = "printed" /\ ~Free(q))' PROVE (value[sends[q]] = Zero)'
  <2>1. CASE q = c0
    BY <1>1, <1>2, <1>14, <2>1, Numbers DEF Free
  <2>2. CASE q # c0
    <3>1. pc[q] = "printed" /\ ~Free(q) /\ value[sends[q]] = Zero /\ sends[q] # 0
      BY <1>1, <1>2, <1>14, <2>2 DEF SInv, LastReport, Free
    <3>2. sends[q] \in Channels
      BY <1>2, <3>1, Numbers DEF SInv, Places, ReadsAt, Free
    <3> QED BY <1>2, <2>2, <3>1, <3>2
  <2> QED BY <2>1, <2>2
<1>15. ASSUME NEW p \in Procs, pc'[p] \in {"waitTake", "takeDone"}
       PROVE  \E q \in Procs : sends'[q] = 11 + p
  <2>1. PICK q \in Procs : sends[q] = 11 + p
    BY <1>1, <1>2, <1>15 DEF SInv, ReportIsThere
  <2>2. 11 + p \in Channels
    BY <1>15, <1>2, <2>1, Numbers, Whose DEF ShellAt, ActiveAt
  <2> QED BY <1>1, <1>2, <2>1, <2>2, Numbers DEF Free
<1> QED BY <1>3, <1>4, <1>5, <1>6, <1>7, <1>8, <1>9, <1>10, <1>11, <1>12, <1>13,
   <1>14, <1>15 DEF SInv, Places, ShellsBoot, OneHolder, Handshakes, LastReport,
   ReportIsThere

\* kernel_main waits for the answer of the console it stops.
LEMMA MainAwaitsStop ==
    ASSUME KInv, SInv, Goto("start"), UNCHANGED Locals, At("stopped"), Awaited(1)
    PROVE  SInv'
<1>1. /\ c0 = Main /\ c0 \in Procs /\ c0 \in 0 .. maxId /\ Free(c0) /\ Main = 0
      /\ c0 # Screen /\ ~IsShell(c0) /\ ~IsCommand(c0)
  BY Who, Numbers DEF MainAt, BootAt, At, Screen, IsShell, IsCommand
<1>2. /\ \A p \in Procs : pc'[p] = IF p = c0 THEN "start" ELSE pc[p]
      /\ \A p \in Procs : reads'[p] = IF p = c0 THEN 1 ELSE reads[p]
      /\ \A p \in Procs : sends[p] # 1
      /\ sends' = sends /\ received' = received /\ value' = value
      /\ maxId' = maxId /\ currentId' = currentId
      /\ myId' = myId /\ job' = job /\ asked' = asked
      /\ pc[c0] = "stopped"
  BY <1>1, Links DEF SInv, Typed, Goto, Awaited, Locals, At
<1>3. Typed'
  BY <1>1, <1>2, Numbers DEF SInv, Typed, Labels, ShellAt, StartAt, ActiveAt,
     ScreenAt, CommandAt, MainAt, BootAt, Goto
<1>4. Kinds'
  BY <1>1, <1>2, Numbers DEF SInv, Kinds, KindOf, ShellAt, StartAt, ActiveAt,
     ScreenAt, CommandAt, IsShell, IsCommand, Screen
<1>5. MainIsAt'
  BY <1>1, <1>2, Numbers DEF SInv, MainIsAt, InBoot, MainAt, BootAt, Free
<1>6. Places'
  BY <1>1, <1>2, Numbers DEF SInv, Places, SendsAt, ReadsAt, Free, IsShell, IsCommand,
     Screen, ShellIds, ReportCh
<1>7. ASSUME NEW p \in Procs, IsShell(p), p <= maxId' PROVE Boots(p)'
  <2>1. Boots(p) /\ ~InBoot /\ ~InBoot' /\ p # c0
    BY <1>1, <1>2, <1>7 DEF SInv, ShellsBoot, InBoot, BootAt
  <2> QED BY <1>1, <1>2, <2>1 DEF Boots
<1>8. ASSUME NEW p \in Procs, NEW q \in Procs, Holds(p)', Holds(q)' PROVE p = q
  <2>1. \A x \in Procs : Holds(x)' => Holds(x)
    BY <1>1, <1>2, Numbers DEF Holds, InBoot, Free, ActiveAt, BootAt
  <2> QED BY <1>8, <2>1 DEF SInv, OneHolder
<1>9. ASSUME Stopping', NEW p \in Procs, Holds(p)'
      PROVE  pc'[p] \in {"tookStop", "snakeTook", "shellOff", "snake"}
  <2>1. Stopping
    BY <1>1, <1>2, <1>9, Numbers DEF Stopping, Free
  <2>2. Holds(p)
    BY <1>1, <1>2, <1>9, Numbers DEF Holds, Free, InBoot, ActiveAt, BootAt
  <2> QED BY <1>1, <1>2, <2>1, <2>2, Numbers DEF SInv, StopsFirst, ActiveAt
<1>10. StopIsThere'
  BY <1>1, <1>2, Numbers DEF SInv, StopIsThere
<1>11. ASSUME NEW q \in Procs, Fresh(q)' PROVE LastOf(q)' /\ Hands(asked[q].sh - 1, q)'
  <2>1. Fresh(q) /\ q # c0
    BY <1>1, <1>2, Numbers, <1>11 DEF Fresh, Free
  <2>2. /\ Hands(asked[q].sh - 1, q) /\ LastOf(q) /\ IsCommand(q)
        /\ asked[q].sh - 1 \in Procs /\ asked[q].sh - 1 # c0
    BY <1>1, <1>2, Numbers, <2>1, FreshCommand DEF Hands, Free
  <2> QED BY <1>1, <1>2, Numbers, <2>1, <2>2 DEF Hands, Free, LastOf
<1>12. HasCommand'
  BY <1>1, <1>2, Numbers DEF SInv, HasCommand, LastOf
<1>13. Informed'
  BY <1>1, <1>2, Numbers DEF SInv, Informed, Free
<1>14. LastReport'
  BY <1>1, <1>2, Numbers DEF SInv, LastReport, Free
<1>15. ReportIsThere'
  BY <1>1, <1>2, Numbers DEF SInv, ReportIsThere
<1> QED BY <1>3, <1>4, <1>5, <1>6, <1>7, <1>8, <1>9, <1>10, <1>11, <1>12, <1>13,
   <1>14, <1>15 DEF SInv, ShellsBoot, OneHolder, StopsFirst, Handshakes

\* kernel_main takes the answer of the console it stops.
LEMMA MainTakesStop ==
    ASSUME KInv, SInv, Goto("start"), UNCHANGED Locals, At("stopped"), NEW s \in Procs, Taken(1, s)
    PROVE  SInv'
<1>1. /\ c0 = Main /\ c0 \in Procs /\ c0 \in 0 .. maxId /\ Free(c0) /\ Main = 0
      /\ c0 # Screen /\ ~IsShell(c0) /\ ~IsCommand(c0)
  BY Who, Numbers DEF MainAt, BootAt, At, Screen, IsShell, IsCommand
<1>2. /\ \A p \in Procs : pc'[p] = IF p = c0 THEN "start" ELSE pc[p]
      /\ \A p \in Procs : sends'[p] = IF p = s THEN NoChannel ELSE sends[p]
      /\ \A p \in Procs : p # c0 => received'[p] = received[p]
      /\ reads' = reads /\ value' = value
      /\ maxId' = maxId /\ currentId' = currentId
      /\ myId' = myId /\ job' = job /\ asked' = asked
      /\ pc[c0] = "stopped" /\ ~InBoot
      /\ s # c0 /\ sends[s] = 1 /\ reads[s] = NoChannel
      /\ \A p \in Procs : Holds(p) => p = s
      /\ \/ IsShell(s) /\ pc[s] = "shellOff" /\ s # Screen /\ ~IsCommand(s)
         \/ s = Screen /\ pc[s] = "snake" /\ ~IsShell(s) /\ ~IsCommand(s)
  <2>1. /\ sends \in [Procs -> Channels \cup {NoChannel}]
        /\ value \in [Channels -> Values \cup {NoValue}]
        /\ received \in [Procs -> Values \cup {NoValue}]
        /\ sends[s] = 1 /\ reads[s] = NoChannel /\ s # c0
    BY Links, NumberedProcesses, Numbers DEF TypeOK, Taken
  <2>2. SendsAt(s, 1, pc[s])
    BY <2>1 DEF SInv, Places
  <2>3. Stopping /\ ~InBoot
    BY <1>1 DEF Stopping, At, InBoot, BootAt
  <2>4. Holds(s)
    BY <2>1, <2>2, <2>3, Numbers DEF SendsAt, Holds, InBoot, BootAt, ActiveAt, ShellIds, ReportCh
  <2>5. pc[s] \in {"tookStop", "snakeTook", "shellOff", "snake"}
    BY <2>3, <2>4 DEF SInv, StopsFirst
  <2>6. \/ IsShell(s) /\ pc[s] = "shellOff" /\ s # Screen /\ ~IsCommand(s)
        \/ s = Screen /\ pc[s] = "snake" /\ ~IsShell(s) /\ ~IsCommand(s)
    BY <1>1, <2>1, <2>2, <2>5, Whose, Numbers DEF SendsAt, ShellAt, ScreenAt, ShellIds, ReportCh
  <2>7. \A p \in Procs : Holds(p) => p = s
    BY <2>4 DEF SInv, OneHolder
  <2> QED BY <1>1, <2>1, <2>3, <2>6, <2>7, Numbers DEF SInv, Typed, Goto, Taken, Locals, At
<1>3. Typed'
  BY <1>1, <1>2, Numbers DEF SInv, Typed, Labels, ShellAt, StartAt, ActiveAt,
     ScreenAt, CommandAt, MainAt, BootAt, Goto
<1>4. Kinds'
  BY <1>1, <1>2, Numbers DEF SInv, Kinds, KindOf, ShellAt, StartAt, ActiveAt,
     ScreenAt, CommandAt, IsShell, IsCommand, Screen
<1>5. MainIsAt'
  BY <1>1, <1>2, Numbers DEF SInv, MainIsAt, InBoot, MainAt, BootAt, Free
<1>6. Places'
  BY <1>1, <1>2, Numbers DEF SInv, Places, SendsAt, ReadsAt, Free, IsShell, IsCommand,
     Screen, ShellIds, ReportCh
<1>7. ASSUME NEW p \in Procs, IsShell(p), p <= maxId' PROVE Boots(p)'
  <2>1. Boots(p) /\ ~InBoot /\ ~InBoot' /\ p # c0
    BY <1>1, <1>2, <1>7 DEF SInv, ShellsBoot, InBoot, BootAt
  <2> QED BY <1>1, <1>2, <2>1 DEF Boots
<1>8. OneHolder'
  BY <1>1, <1>2, Numbers DEF SInv, OneHolder, Holds, InBoot, Free, ActiveAt
<1>9. StopsFirst'
  BY <1>1, <1>2, Numbers DEF SInv, StopsFirst, Stopping, Holds, InBoot, Free, ActiveAt
<1>10. StopIsThere'
  BY <1>1, <1>2, Numbers DEF SInv, StopIsThere
<1>11. ASSUME NEW q \in Procs, Fresh(q)' PROVE LastOf(q)' /\ Hands(asked[q].sh - 1, q)'
  <2>1. Fresh(q)
    BY <1>1, <1>2, Numbers, <1>11 DEF Fresh, Free
  <2>2. asked[q].sh - 1 = s /\ Hands(asked[q].sh - 1, q)
    BY <1>2, <2>1, FreshCommand
  <2> QED BY <1>2, <2>2 DEF Hands
<1>12. HasCommand'
  BY <1>1, <1>2, Numbers DEF SInv, HasCommand, LastOf
<1>13. Informed'
  BY <1>1, <1>2, Numbers DEF SInv, Informed, Free
<1>14. LastReport'
  BY <1>1, <1>2, Numbers DEF SInv, LastReport, Free
<1>15. ASSUME NEW p \in Procs, pc'[p] \in {"waitTake", "takeDone"}
       PROVE  \E q \in Procs : sends'[q] = 11 + p
  <2>1. PICK q \in Procs : sends[q] = 11 + p
    BY <1>1, <1>2, <1>15 DEF SInv, ReportIsThere
  <2>2. 11 + p # 1
    BY <1>15, <1>1, <1>2, <2>1, Numbers, Whose DEF ShellAt, ActiveAt, ReportCh
  <2> QED BY <1>1, <1>2, <2>1, <2>2
<1> QED BY <1>3, <1>4, <1>5, <1>6, <1>7, <1>8, <1>9, <1>10, <1>11, <1>12, <1>13,
   <1>14, <1>15 DEF SInv, ShellsBoot, Handshakes, ReportIsThere

-----------------------------------------------------------------------------
\* A step that neither a program nor a channel takes part in.
LEMMA OthersStep ==
    ASSUME KInv, SInv, Quiet, UNCHANGED progVars
    PROVE  SInv'
<1>1. /\ sends' = sends /\ reads' = reads /\ value' = value /\ received' = received
      /\ maxId' = maxId /\ currentId' = currentId
      /\ pc' = pc /\ myId' = myId /\ job' = job /\ asked' = asked
  BY DEF Quiet, progVars
<1>2. Typed' /\ Kinds' /\ MainIsAt' /\ Places'
  BY <1>1 DEF SInv, Typed, Kinds, KindOf, MainIsAt, InBoot, Places, SendsAt, ReadsAt
<1>3. ShellsBoot'
  BY <1>1 DEF SInv, ShellsBoot, Boots, Booting, Resting, NewShell, InBoot, Free
<1>4. \A p \in Procs : Holds(p)' <=> Holds(p)
  BY <1>1 DEF Holds, InBoot, Free
<1>5. OneHolder' /\ StopsFirst' /\ StopIsThere'
  BY <1>1, <1>4 DEF SInv, OneHolder, StopsFirst, Stopping, Free, StopIsThere
<1>6. Handshakes'
  BY <1>1 DEF SInv, Handshakes, Fresh, Hands, LastOf, Free
<1>7. HasCommand' /\ Informed' /\ LastReport' /\ ReportIsThere'
  BY <1>1 DEF SInv, HasCommand, LastOf, Informed, LastReport, ReportIsThere, Free
<1> QED BY <1>2, <1>3, <1>5, <1>6, <1>7 DEF SInv

\* A process that offers a message where nobody else does is not refused.
LEMMA NotRefused ==
    ASSUME KInv, SInv
    PROVE  /\ Holds(c0) /\ ~InBoot => \A s \in Procs : sends[s] # 1
           /\ pc[c0] \in {"number", "shellNumbered"} => \A s \in Procs : sends[s] # 1
           /\ c0 = Main => \A s \in Procs : sends[s] \notin {0, 43} \cup ShellIds
<1>1. c0 \in Procs /\ Free(c0)
  BY Who
<1>2. ASSUME Holds(c0), ~InBoot, NEW s \in Procs PROVE sends[s] # 1
  BY <1>2, ChannelOne
<1>3. ASSUME pc[c0] = "number", NEW s \in Procs PROVE sends[s] # 1
  <2>1. c0 = Main /\ InBoot /\ IsShell(maxId) /\ maxId \in Procs /\ maxId \in Nat
    BY <1>3, Who, NumberedProcesses, Numbers DEF MainAt, BootAt, InBoot, SInv, MainIsAt, IsShell
  <2>2. pc[maxId] \in StartAt
    BY <1>1, <1>3, <2>1, Numbers DEF SInv, ShellsBoot, Boots, NewShell, Booting, Free, StartAt
  <2> QED BY <1>3, <2>1, <2>2, BootFacts DEF StartAt
<1>4. ASSUME pc[c0] = "shellNumbered", NEW s \in Procs PROVE sends[s] # 1
  <2>1. IsShell(c0) /\ c0 <= maxId
    BY <1>1, <1>4, Whose DEF ShellAt, StartAt
  <2>2. InBoot /\ NewShell /\ c0 = maxId /\ Booting(c0)
    BY <1>1, <1>4, <2>1 DEF SInv, ShellsBoot, Boots, Resting, StartAt
  <2>3. sends[Main] # 1
    BY <1>1, <1>4, <2>2, Numbers, Links DEF Booting, Free
  <2> QED BY <1>4, <2>2, <2>3, BootFacts
<1>5. ASSUME c0 = Main, NEW s \in Procs PROVE sends[s] \notin {0, 43} \cup ShellIds
  BY <1>1, <1>5, Numbers DEF SInv, Places, SendsAt, Free, ShellIds, ReportCh
<1> QED BY <1>2, <1>3, <1>4, <1>5

\* The steps of kernel_main.
LEMMA MainStep ==
    ASSUME KInv, SInv, Accompanied, KernelMain
    PROVE  KStep /\ SInv'
<1>0. /\ {0, 1, 2, 43} \subseteq Channels /\ {Zero, E5D} \subseteq Values
      /\ Consoles \subseteq ShellIds \cup {Game}
  BY ShellsAssumption DEF ShellIds
<1>1. CASE Boot
  BY <1>1, QuietEffect, MainRuns DEF Boot, Step
<1>2. CASE CreateShell
  <2>1. maxId + 1 \in Procs /\ NewProcess(maxId + 1) /\ maxId < NumShells
    BY <1>2 DEF CreateShell, Create
  <2>2. KStep /\ maxId' = maxId + 1 /\ UNCHANGED <<sends, reads, value, received>>
    BY <2>1, CreateEffect
  <2> QED BY <1>2, <2>1, <2>2, MainCreatesShell DEF CreateShell, Create
<1>3. CASE NumberShell
  <2>1. maxId \in Nat /\ maxId + 1 \in Values /\ pc[c0] = "number"
    <3>1. pc[c0] = "number" /\ c0 = Main /\ maxId \in Nat
      BY <1>3, Who, NumberedProcesses DEF NumberShell, Step, At, MainAt, BootAt
    <3>2. maxId \in 1 .. NumShells
      BY <3>1 DEF SInv, MainIsAt
    <3> QED BY <3>1, <3>2, ShellsAssumption
  <2>2. KStep /\ Sent(1, maxId + 1)
    BY <1>0, <1>3, <2>1, SendEffect DEF NumberShell, Step
  <2>3. Offered(1, maxId + 1) \/ \E r \in Procs : Passed(1, maxId + 1, r)
    BY <2>1, <2>2, NotRefused DEF Sent
  <2> QED BY <1>3, <2>2, <2>3, MainOffersNumber, MainPassesNumber DEF NumberShell, Step
<1>4. CASE ShellReady
  <2>1. KStep /\ Got(1)
    BY <1>0, <1>4, ReceiveEffect DEF ShellReady, Step
  <2> QED BY <1>4, <2>1, MainAwaitsShell, MainTakesShell DEF ShellReady, Step, Got
<1>5. CASE CreateScreen
  <2>1. maxId + 1 \in Procs /\ NewProcess(maxId + 1) /\ maxId = NumShells
    BY <1>5 DEF CreateScreen, Create
  <2>2. KStep /\ maxId' = maxId + 1 /\ UNCHANGED <<sends, reads, value, received>>
    BY <2>1, CreateEffect
  <2> QED BY <1>5, <2>1, <2>2, MainCreatesScreen DEF CreateScreen, Create
<1>6. CASE FirstShell
  <2>1. KStep /\ Sent(2, Zero) /\ c0 = Main /\ 2 \in ShellIds
    BY <1>0, <1>6, SendEffect, Who, Numbers DEF FirstShell, At, MainAt, BootAt, ShellIds
  <2>2. Offered(2, Zero) \/ \E r \in Procs : Passed(2, Zero, r)
    BY <2>1, NotRefused DEF Sent
  <2> QED BY <1>6, <2>1, <2>2, MainOffersStart, MainPassesStart DEF FirstShell
<1>7. CASE Idle \/ NoKeys
  BY <1>7, QuietEffect, MainRuns DEF Idle, NoKeys, Step
<1>8. ASSUME NEW k \in Consoles, StopConsole(k) PROVE KStep /\ SInv'
  <2>1. KStep /\ Sent(0, E5D) /\ c0 = Main /\ currentId' \in ShellIds \cup {Game}
    BY <1>0, <1>8, SendEffect, Who DEF StopConsole, At, MainAt
  <2>2. ~\E r \in Procs : Passed(0, E5D, r)
    BY Numbers DEF SInv, Places, ReadsAt, ShellIds, Passed
  <2>3. Offered(0, E5D)
    BY <2>1, <2>2, NotRefused DEF Sent
  <2> QED BY <1>8, <2>1, <2>3, MainStops DEF StopConsole
<1>9. CASE AwaitStopped
  <2>1. KStep /\ Got(1)
    BY <1>0, <1>9, ReceiveEffect DEF AwaitStopped, Step
  <2> QED BY <1>9, <2>1, MainAwaitsStop, MainTakesStop DEF AwaitStopped, Step, Got
<1>10. CASE StartConsole
  <2> DEFINE ch == IF currentId = Game THEN 43 ELSE currentId
  <2>1. /\ c0 = Main /\ ch \in {43} \cup ShellIds /\ ch \in Channels
        /\ At("start") /\ Send(ch, Zero) /\ Goto("idle") /\ UNCHANGED Locals
    <3>1. At("start") /\ Send(ch, Zero) /\ Goto("idle") /\ UNCHANGED Locals
      BY <1>10 DEF StartConsole, Step
    <3>2. c0 = Main /\ ~InBoot
      BY <3>1, Who DEF At, MainAt, InBoot, BootAt
    <3> QED BY <3>1, <3>2, Numbers DEF SInv, MainIsAt
  <2>2. KStep /\ Sent(ch, Zero)
    BY <1>0, <2>1, SendEffect
  <2>3. Offered(ch, Zero) \/ \E r \in Procs : Passed(ch, Zero, r)
    BY <2>1, <2>2, NotRefused DEF Sent
  <2> QED BY <2>1, <2>2, <2>3, MainOffersStart, MainPassesStart DEF Locals
<1> QED BY <1>1, <1>2, <1>3, <1>4, <1>5, <1>6, <1>7, <1>8, <1>9, <1>10 DEF KernelMain

\* The shell that is on the screen sees its reports with probe.
LEMMA ShellSees ==
    ASSUME KInv, SInv, pc[c0] \in ActiveAt \cup {"line"}
    PROVE  /\ myId[c0] = c0 + 1 /\ 10 + myId[c0] = 11 + c0 /\ c0 + 1 \in ShellIds
           /\ 11 + c0 \in Channels /\ 0 \in Channels
           /\ Reported => \E q \in Procs : sends[q] = 11 + c0
           /\ Probe(0) = "Sender" => sends[Main] = 0
<1>1. c0 \in Procs /\ IsShell(c0) /\ myId[c0] = c0 + 1 /\ c0 \in Nat
  BY ShellHolds, Numbers
<1>2. 11 + c0 \in Channels /\ 0 \in Channels /\ 10 + myId[c0] = 11 + c0 /\ c0 + 1 \in ShellIds
  BY <1>1, Numbers DEF IsShell, ReportCh, ShellIds
<1>3. Reported => \E q \in Procs : sends[q] = 11 + c0
  BY <1>2, ProbeSender DEF Reported
<1>4. Probe(0) = "Sender" => sends[Main] = 0
  <2>1. ASSUME NEW q \in Procs, sends[q] = 0 PROVE q = Main
    BY <2>1, Numbers DEF SInv, Places, SendsAt, ShellIds, ReportCh
  <2> QED BY <1>2, <2>1, ProbeSender
<1> QED BY <1>1, <1>2, <1>3, <1>4

\* The steps of a shell while it is on the screen that only look.
LEMMA ShellLooks ==
    ASSUME KInv, SInv, Accompanied,
           \/ NoCommand \/ WaitProbe \/ WaitTaken \/ CtrlC \/ WaitStop \/ WaitOn
           \/ PollDone \/ PollStop \/ NoStop
    PROVE  KStep /\ SInv'
<1>1. KStep /\ Quiet
  BY QuietEffect DEF NoCommand, WaitProbe, WaitTaken, CtrlC, WaitStop, WaitOn,
     PollDone, PollStop, NoStop, Test, Step
<1>2. UNCHANGED Locals /\ pc[c0] \in PollAt /\ pc[c0] \in ActiveAt \cup {"line"}
  BY DEF NoCommand, WaitProbe, WaitTaken, CtrlC, WaitStop, WaitOn,
     PollDone, PollStop, NoStop, Test, Step, At, PollAt, ActiveAt
<1>3. PICK l2 \in {"line", "wait", "waitKeys", "pollDone", "pollStop", "waitTake", "takeDone", "takeStop"} :
         /\ Goto(l2)
         /\ l2 = "takeStop" => Probe(0) = "Sender"
         /\ l2 \in {"waitTake", "takeDone"} => Reported
  BY DEF NoCommand, WaitProbe, WaitTaken, CtrlC, WaitStop, WaitOn,
     PollDone, PollStop, NoStop, Test, Step
<1>4. /\ l2 = "takeStop" => sends[Main] = 0
      /\ l2 \in {"waitTake", "takeDone"} => \E q \in Procs : sends[q] = 11 + c0
      /\ l2 \in PollAt \cup {"waitTake", "takeDone", "takeStop"}
  BY <1>2, <1>3, ShellSees DEF PollAt
<1>5. SInv'
  BY <1>1, <1>2, <1>3, <1>4, ShellPolls
<1> QED BY <1>1, <1>5

\* The messages of a shell to its command.
LEMMA ShellSends ==
    ASSUME KInv, SInv, Accompanied, SendFunction \/ SendArgs \/ SendId
    PROVE  KStep /\ SInv'
<1>1. PICK l2, v : /\ Send(1, v) /\ Goto(l2) /\ UNCHANGED Locals
                   /\ \/ At("sendFunction") /\ l2 = "sendArgs" /\ v = asked[Mine].fn
                      \/ At("sendArgs") /\ l2 = "sendId" /\ v = ArgsMsg
                      \/ At("sendId") /\ l2 \in {"wait", "pollDone"} /\ v = myId[c0]
  BY DEF SendFunction, SendArgs, SendId, Step
<1>2. /\ pc[c0] \in {"sendFunction", "sendArgs", "sendId"}
      /\ pc[c0] \in ActiveAt \cup {"line"}
  BY <1>1 DEF At, ActiveAt
<1>3. /\ Holds(c0) /\ ~InBoot /\ c0 + 1 \in ShellIds /\ myId[c0] = c0 + 1
      /\ Mine \in Procs /\ asked[Mine].sh = c0 + 1
  BY <1>2, ShellHolds, ShellSees, MineIsLast
<1>4. asked[Mine].fn \in Functions
  <2>1. asked[Mine].sh # 0
    BY <1>3, Numbers DEF ShellIds
  <2> QED BY <1>3, <2>1 DEF SInv, Kinds, KindOf, NoJob
<1>5. v \in Values
  BY <1>1, <1>3, <1>4, ShellsAssumption DEF ShellIds
<1>6. KStep /\ Sent(1, v)
  BY <1>1, <1>5, SendEffect, Numbers
<1>7. Offered(1, v) \/ \E r \in Procs : Passed(1, v, r)
  BY <1>3, <1>6, NotRefused DEF Sent
<1>8. SInv'
  BY <1>1, <1>3, <1>7, ShellOffers, ShellPasses
<1> QED BY <1>6, <1>8

\* The steps of the shells.
LEMMA ShellStep ==
    ASSUME KInv, SInv, Accompanied, ShellProcess
    PROVE  KStep /\ SInv'
<1>1. CASE ShellStart
  <2>1. KStep /\ Got(1)
    BY <1>1, ReceiveEffect, Numbers DEF ShellStart, Step
  <2> QED BY <1>1, <2>1, NewShellAwaits, NewShellTakes DEF ShellStart, Step, Got
<1>2. CASE ShellNumbered
  <2>1. KStep /\ Sent(1, DEAD) /\ pc[c0] = "shellNumbered"
    BY <1>2, SendEffect, Numbers, ShellsAssumption DEF ShellNumbered, At
  <2>2. Offered(1, DEAD) \/ \E r \in Procs : Passed(1, DEAD, r)
    BY <2>1, NotRefused DEF Sent
  <2> QED BY <1>2, <2>1, <2>2, NewShellOffers, NewShellPasses DEF ShellNumbered
<1>3. CASE ShellOn
  <2>1. myId[c0] = c0 + 1 /\ c0 + 1 \in Channels
    <3>1. c0 \in Procs /\ IsShell(c0) /\ c0 <= maxId /\ c0 + 1 \in ShellIds
      BY <1>3, Who, Whose, Numbers DEF ShellOn, Step, At, ShellAt
    <3>2. Boots(c0)
      BY <3>1 DEF SInv, ShellsBoot
    <3> QED BY <1>3, <3>1, <3>2, Numbers DEF Boots, ShellOn, Step, At, StartAt
  <2>2. KStep /\ Got(c0 + 1)
    BY <1>3, <2>1, ReceiveEffect DEF ShellOn, Step
  <2> QED BY <1>3, <2>2, ShellAwaits, ShellTakes DEF ShellOn, Step, Got
<1>4. CASE \/ NoCommand \/ WaitProbe \/ WaitTaken \/ CtrlC \/ WaitStop \/ WaitOn
           \/ PollDone \/ PollStop \/ NoStop
  BY <1>4, ShellLooks
<1>5. ASSUME NEW f \in Functions, NEW bg \in {FALSE, MayBackground}, Start(f, bg) PROVE KStep /\ SInv'
  <2>1. maxId + 1 \in Procs /\ NewProcess(maxId + 1) /\ bg \in BOOLEAN
    BY <1>5, ShellsAssumption DEF Start, Create
  <2>2. KStep /\ maxId' = maxId + 1 /\ UNCHANGED <<sends, reads, value, received>>
    BY <2>1, CreateEffect
  <2> QED BY <1>5, <2>1, <2>2, ShellStarts DEF Start, Create
<1>6. CASE SendFunction \/ SendArgs \/ SendId
  BY <1>6, ShellSends
<1>7. CASE WaitTake \/ TakeDone
  <2>1. PICK l2 \in {"waitTaken", "pollStop"} :
           Receive(10 + myId[c0]) /\ Goto(l2) /\ UNCHANGED Locals /\ pc[c0] \in {"waitTake", "takeDone"}
    BY <1>7 DEF WaitTake, TakeDone, Step, At
  <2>2. 10 + myId[c0] = 11 + c0 /\ 11 + c0 \in Channels /\ c0 \in Procs
    BY <2>1, ShellSees, Who DEF ActiveAt
  <2>3. KStep /\ Got(11 + c0)
    BY <2>1, <2>2, ReceiveEffect
  <2>4. \E s \in Procs : Taken(11 + c0, s)
    BY <2>1, <2>2, <2>3 DEF Got, Awaited, SInv, ReportIsThere
  <2> QED BY <2>1, <2>3, <2>4, ShellTakesReport
<1>8. CASE TakeStop
  <2>1. KStep /\ Got(0) /\ sends[Main] = 0 /\ c0 \in Procs
    BY <1>8, ReceiveEffect, Numbers, Who DEF TakeStop, Step, At, SInv, StopIsThere
  <2>2. \E s \in Procs : Taken(0, s)
    BY <2>1, Numbers DEF Got, Awaited
  <2> QED BY <1>8, <2>1, <2>2, ConsoleTakesStop DEF TakeStop, Step
<1>9. CASE ShellOff
  <2>1. KStep /\ Sent(1, DEAD) /\ Holds(c0) /\ ~InBoot
    BY <1>9, SendEffect, Numbers, ShellsAssumption, ShellHolds DEF ShellOff, Step, At, ActiveAt
  <2>2. Offered(1, DEAD) \/ \E r \in Procs : Passed(1, DEAD, r)
    BY <2>1, NotRefused DEF Sent
  <2> QED BY <1>9, <2>1, <2>2, ConsoleOffersAnswer, ConsoleAnswers DEF ShellOff, Step
<1> QED BY <1>1, <1>2, <1>3, <1>4, <1>5, <1>6, <1>7, <1>8, <1>9 DEF ShellProcess

\* A command reports to its shell.
LEMMA CommandReports ==
    ASSUME KInv, SInv, Accompanied, NEW l2, NEW v \in {Zero, DEAD},
           Send(10 + myId[c0], v), Goto(l2), UNCHANGED Locals,
           \/ At("ended") /\ l2 = "printed" /\ v = Zero
           \/ At("printed") /\ l2 = "exit"
    PROVE  KStep /\ SInv'
<1> DEFINE ch == 10 + asked[c0].sh
<1>1. pc[c0] \in {"ended", "printed"}
  BY DEF At
<1>2. myId[c0] = asked[c0].sh /\ ch \in ReportCh /\ ch \in Channels /\ v \in Values
  BY <1>1, CommandFacts, Numbers, ShellsAssumption DEF CommandAt, SInv, Informed, ShellIds, ReportCh
<1>3. KStep /\ Sent(ch, v)
  BY <1>2, SendEffect
<1>4. ~\E r \in Procs : Passed(ch, v, r)
  BY <1>2, Numbers DEF SInv, Places, ReadsAt, ShellIds, ReportCh, Passed
<1>5. CASE Quiet
  BY <1>3, <1>5, CommandRuns DEF Locals
<1>6. CASE Offered(ch, v)
  BY <1>3, <1>6, CommandOffers
<1> QED BY <1>3, <1>4, <1>5, <1>6 DEF Sent

\* The steps of the commands.
LEMMA CommandStep ==
    ASSUME KInv, SInv, Accompanied, ShellCommandProcess
    PROVE  KStep /\ SInv'
<1>1. CASE CmdFunction \/ CmdArgs \/ CmdId
  <2>1. PICK l2 : /\ Receive(1) /\ Goto(l2) /\ UNCHANGED <<currentId, myId, asked>>
                  /\ \/ At("cmdStart") /\ l2 = "cmdArgs" /\ job' = job
                     \/ At("cmdArgs") /\ l2 = "cmdId" /\ job' = [job EXCEPT ![c0] = received[c0]]
                     \/ At("cmdId") /\ l2 = "cmdNumbered" /\ job' = job
    BY <1>1 DEF CmdFunction, CmdArgs, CmdId, Step, Locals
  <2>2. KStep /\ Got(1)
    BY <2>1, ReceiveEffect, Numbers
  <2> QED BY <2>1, <2>2, CommandAwaits, CommandTakes DEF Got
<1>2. CASE CmdNumbered
  <2>1. KStep /\ Quiet
    BY <1>2, QuietEffect DEF CmdNumbered
  <2> QED BY <1>2, <2>1, CommandRuns DEF CmdNumbered
<1>3. CASE CmdEcho \/ CmdSleep \/ CmdQuits \/ CmdExit
  <2>1. KStep /\ Quiet
    BY <1>3, QuietEffect DEF CmdEcho, CmdSleep, CmdQuits, CmdExit, Test, Step
  <2> QED BY <1>3, <2>1, CommandRuns DEF CmdEcho, CmdSleep, CmdQuits, CmdExit, Test, Step, Locals
<1>4. CASE CmdGame
  <2>1. KStep /\ Sent(42, Zero)
    BY <1>4, SendEffect, Numbers, ShellsAssumption DEF CmdGame, Step
  <2>2. CASE Quiet
    BY <1>4, <2>1, <2>2, CommandRuns DEF CmdGame, Step, Locals
  <2>3. CASE Offered(42, Zero) \/ \E r \in Procs : Passed(42, Zero, r)
    BY <1>4, <2>1, <2>3, CommandOffers, CommandPasses DEF CmdGame, Step
  <2> QED BY <2>1, <2>2, <2>3 DEF Sent
<1>5. CASE CmdPlays
  <2>1. KStep /\ Got(42)
    BY <1>5, ReceiveEffect, Numbers DEF CmdPlays, Step
  <2> QED BY <1>5, <2>1, CommandAwaitsGame, CommandTakesGame DEF CmdPlays, Step, Got
<1>6. CASE CmdEnded \/ CmdPrinted
  BY <1>6, CommandReports DEF CmdEnded, CmdPrinted, Step
<1> QED BY <1>1, <1>2, <1>3, <1>4, <1>5, <1>6 DEF ShellCommandProcess

\* The steps of the process of the games.
LEMMA SnakeStep ==
    ASSUME KInv, SInv, Accompanied, ScreenProcess
    PROVE  KStep /\ SInv'
<1>1. CASE GameAsked
  <2>1. KStep /\ Got(42)
    BY <1>1, ReceiveEffect, Numbers DEF GameAsked, Step
  <2> QED BY <1>1, <2>1, SnakeAwaits, SnakeTakes DEF GameAsked, Step, Got
<1>2. CASE SnakeOn
  <2>1. KStep /\ Got(43)
    BY <1>2, ReceiveEffect, Numbers DEF SnakeOn, Step
  <2> QED BY <1>2, <2>1, SnakeAwaits, SnakeTakes DEF SnakeOn, Step, Got
<1>3. CASE SnakeStop
  <2>1. KStep /\ Quiet
    BY <1>3, QuietEffect DEF SnakeStop, Test
  <2>2. PICK q \in Procs : sends[q] = 0
    BY <1>3, ProbeSender, Numbers DEF SnakeStop
  <2>3. q = Main
    BY <2>2, Numbers DEF SInv, Places, SendsAt, ShellIds, ReportCh
  <2> QED BY <1>3, <2>1, <2>2, <2>3, SnakeRuns DEF SnakeStop, Test
<1>4. CASE SnakeTake
  <2>1. KStep /\ Got(0) /\ sends[Main] = 0 /\ c0 \in Procs
    BY <1>4, ReceiveEffect, Numbers, Who DEF SnakeTake, Step, At, SInv, StopIsThere
  <2>2. \E s \in Procs : Taken(0, s)
    BY <2>1, Numbers DEF Got, Awaited
  <2> QED BY <1>4, <2>1, <2>2, ConsoleTakesStop DEF SnakeTake, Step
<1>5. CASE SnakeOff
  <2>1. KStep /\ Sent(1, Zero) /\ c0 = Screen /\ c0 \in Procs /\ c0 # Main /\ Main \in Procs
    BY <1>5, SendEffect, Numbers, ShellsAssumption, Who DEF SnakeOff, Step, At, ScreenAt
  <2>2. Holds(c0) /\ ~InBoot
    BY <1>5, <2>1 DEF SnakeOff, Step, At, Holds, SInv, OneHolder
  <2>3. Offered(1, Zero) \/ \E r \in Procs : Passed(1, Zero, r)
    BY <2>1, <2>2, NotRefused DEF Sent
  <2> QED BY <1>5, <2>1, <2>3, ConsoleOffersAnswer, ConsoleAnswers DEF SnakeOff, Step
<1>6. CASE SnakePlays \/ SnakeLoses
  <2>1. KStep /\ Quiet
    BY <1>6, QuietEffect DEF SnakePlays, SnakeLoses, Test, Step
  <2> QED BY <1>6, <2>1, SnakeRuns DEF SnakePlays, SnakeLoses, Test, Step
<1>7. CASE GameOver
  <2>1. KStep /\ Sent(42, DEAD)
    BY <1>7, SendEffect, Numbers, ShellsAssumption DEF GameOver, Step
  <2>2. CASE Quiet
    BY <1>7, <2>1, <2>2, SnakeRuns DEF GameOver, Step
  <2>3. CASE Offered(42, DEAD) \/ \E r \in Procs : Passed(42, DEAD, r)
    BY <1>7, <2>1, <2>3, SnakeOffers, SnakePasses DEF GameOver, Step
  <2> QED BY <2>1, <2>2, <2>3 DEF Sent
<1> QED BY <1>1, <1>2, <1>3, <1>4, <1>5, <1>6, <1>7 DEF ScreenProcess

\* The invariant holds when kernel_main begins.
LEMMA InitSInv == ShInit => Init /\ KInv /\ SInv
<1> SUFFICES ASSUME ShInit PROVE Init /\ KInv /\ SInv
  OBVIOUS
<1>1. /\ Init /\ pc = [p \in Procs |-> IF p = Main THEN "boot" ELSE "none"]
      /\ currentId = 0 /\ myId = [p \in Procs |-> 0] /\ job = [p \in Procs |-> NoValue]
      /\ asked = [p \in Procs |-> NoJob]
  BY DEF ShInit
<1>2. maxId = 0 /\ processesList = <<Main>> /\ Main = 0
  BY <1>1, Numbers DEF Init
<1>3. KInv
  <2>1. RInv
    BY <1>1, InitRInv
  <2>2. Numbered
    BY <1>2 DEF Numbered
  <2> QED BY <2>1, <2>2 DEF KInv
<1>4. \A p \in Procs : sends[p] = NoChannel /\ reads[p] = NoChannel
  BY <1>1 DEF Init, sends, reads
<1>5. /\ \A p \in Procs : pc[p] = IF p = Main THEN "boot" ELSE "none"
      /\ \A p \in Procs : asked[p] = NoJob /\ p \in Nat
      /\ \A p \in Procs : p # Main => p > maxId
  BY <1>1, <1>2, Numbers
<1>6. Typed
  BY <1>1 DEF Typed, Labels, MainAt, BootAt, NoJob
<1>7. Kinds /\ MainIsAt /\ Places
  <2>1. Kinds
    BY <1>2, <1>5, Numbers DEF Kinds, KindOf, IsShell, Screen, IsCommand, MainAt, BootAt
  <2>2. MainIsAt
    BY <1>2, <1>5, Numbers DEF MainIsAt, MainAt, BootAt, InBoot
  <2>3. Places
    BY <1>4 DEF Places, SendsAt, ReadsAt
  <2> QED BY <2>1, <2>2, <2>3
<1>8. ShellsBoot
  BY <1>2, <1>5, Numbers DEF ShellsBoot, IsShell
<1>9. OneHolder /\ StopsFirst /\ StopIsThere
  BY <1>5 DEF OneHolder, Holds, ActiveAt, StopsFirst, Stopping, StopIsThere
<1>10. Handshakes /\ HasCommand /\ Informed /\ LastReport /\ ReportIsThere
  BY <1>5 DEF Handshakes, Fresh, HasCommand, Informed, LastReport, ReportIsThere
<1> QED BY <1>1, <1>3, <1>6, <1>7, <1>8, <1>9, <1>10 DEF SInv

\* Every step of the system keeps the invariant and is one that Kernel allows.
LEMMA ShStep ==
    ASSUME Accompanied, KInv, SInv, [ShNext]_shVars
    PROVE  KInv' /\ SInv' /\ [Next]_vars
<1>1. CASE Program
  BY <1>1, MainStep, ShellStep, CommandStep, SnakeStep DEF Program, KStep
<1>2. CASE Tick
  BY <1>2, QuietEffect, OthersStep DEF Tick, KStep
<1>3. CASE UNCHANGED shVars
  BY <1>3, QuietEffect, OthersStep DEF shVars, KStep
<1> QED BY <1>1, <1>2, <1>3 DEF ShNext

\* The processes on the screen have the right to be there, and one process has.
LEMMA OneConsoleNow == KInv /\ SInv => OneConsole
<1> SUFFICES ASSUME KInv, SInv PROVE OneConsole
  OBVIOUS
<1>1. ASSUME NEW p \in OnScreen PROVE p \in Procs /\ Holds(p)
  <2>1. /\ p \in Procs /\ p \in 0 .. maxId /\ p # Main
        /\ pc[p] \notin OffScreen \cup CommandAt \cup GameAt
        /\ call[p].op # "receive" \/ pc[p] \notin {"line", "play"}
    BY <1>1, NumberedProcesses DEF OnScreen
  <2>2. pc[p] \in {"line", "play"} => Free(p)
    <3>1. pc[p] \in {"line", "play"} => reads[p] = NoChannel
      <4>1. reads[p] # NoChannel => call[p] = In("receive", reads[p])
        BY <2>1, Links
      <4>2. reads[p] # NoChannel => call[p].op = "receive"
        BY <4>1 DEF In
      <4> QED BY <2>1, <4>2
    <3>2. pc[p] \in {"line", "play"} => sends[p] = NoChannel
      BY <2>1 DEF SInv, Places, SendsAt
    <3> QED BY <3>1, <3>2 DEF Free
  <2>3. KindOf(p) /\ p <= maxId
    BY <2>1, NumberedProcesses DEF SInv, Kinds
  <2>4. IsShell(p) \/ p = Screen \/ IsCommand(p)
    BY <2>1, Whose
  <2>5. pc[p] \in {"line", "play", "snakeTake", "snakeTook"} \cup ActiveAt
    BY <2>1, <2>3, <2>4 DEF KindOf, OffScreen, GameAt, ShellAt, StartAt, ScreenAt
  <2> QED BY <2>1, <2>2, <2>5, Whose DEF Holds, ShellAt, ScreenAt
<1> QED BY <1>1 DEF SInv, OneHolder, OneConsole

-----------------------------------------------------------------------------
\* Nobody asks for the games: neither with their command nor with their console.
NoGames == GameCmd \notin Functions /\ Game \notin Consoles \cup ShellIds

\* The process of the games waits to be asked for one, and no program does.
GamesRest ==
    /\ Screen <= maxId => \/ pc[Screen] = "screen" /\ Free(Screen)
                          \/ pc[Screen] = "snake" /\ reads[Screen] = 42
    /\ \A p \in Procs : pc[p] # "playing" /\ sends[p] # 43
    /\ ~InBoot => currentId \in ShellIds

\* A message of p is on its way to the command it has created.
Messages(p) == \/ pc[p] \in {"sendFunction", "sendArgs", "sendId"}
               \/ pc[p] \in {"wait", "pollDone"} /\ sends[p] = 1
NewCommandOf(p) == \E q \in Procs : Fresh(q) /\ asked[q].sh = p + 1

\* h has the right to screen, keyboard and channel 1, and whom it sends its
\* messages to waits for them: kernel_main, which has asked it to stop, or the
\* command it has created.
Leads(h) ==
    /\ Holds(h)
    /\ pc[h] = "tookStop" => Stopping
    /\ pc[h] = "shellOff" => pc[Main] = "stopped" /\ Free(Main)
    /\ Messages(h) => NewCommandOf(h)

\* The right is never given up, only handed on.
SomeoneLeads == \E h \in Procs : Leads(h)

\* Only a program that has ended has called exit.
DeadAreDone == \A p \in Procs : call[p] = Exited => pc[p] = "dead"

CompanyInv == GamesRest /\ SomeoneLeads /\ DeadAreDone

\* kernel_main leads as long as it creates the shells.
LEMMA BootLeads ==
    ASSUME pc'[Main] \in BootAt
    PROVE  SomeoneLeads'
<1>1. Main \in Procs
  BY Numbers
<1>2. Leads(Main)'
  BY DEF Leads, Holds, Messages, InBoot, BootAt
<1> QED BY <1>1, <1>2 DEF SomeoneLeads

\* Whoever leads goes on as long as neither it, nor kernel_main, nor the command
\* it has created takes part in a step.
LEMMA LeaderKept ==
    ASSUME NEW h \in Procs, Leads(h),
           pc'[h] = pc[h], sends'[h] = sends[h], reads'[h] = reads[h],
           pc'[Main] = pc[Main], sends'[Main] = sends[Main], reads'[Main] = reads[Main],
           \A q \in Procs : Fresh(q) /\ asked[q].sh = h + 1 =>
               Fresh(q)' /\ asked'[q].sh = asked[q].sh
    PROVE  SomeoneLeads'
<1>1. Holds(h)'
  BY DEF Leads, Holds, InBoot, Free
<1>2. pc'[h] = "tookStop" => Stopping'
  BY DEF Leads, Stopping, Free
<1>3. pc'[h] = "shellOff" => pc'[Main] = "stopped" /\ Free(Main)'
  BY DEF Leads, Free
<1>4. Messages(h)' => NewCommandOf(h)'
  <2>1. Messages(h)' => Messages(h)
    BY DEF Messages
  <2> QED BY <2>1 DEF Leads, NewCommandOf
<1> QED BY <1>1, <1>2, <1>3, <1>4 DEF Leads, SomeoneLeads

\* kernel_main looks at the keyboard, or asks a console to stop.
LEMMA MainLooksLeads ==
    ASSUME KInv, SInv, SomeoneLeads, NEW l2 \in {"keys", "stopped"}, Goto(l2), asked' = asked,
           pc[c0] \in {"idle", "keys"}, Quiet \/ Offered(0, E5D)
    PROVE  SomeoneLeads'
<1>1. c0 = Main /\ Main \in Procs /\ Free(Main) /\ ~InBoot
  BY Who DEF MainAt, InBoot, BootAt
<1>2. PICK h \in Procs : Leads(h)
  BY DEF SomeoneLeads
<1>3. /\ h # Main /\ ~Stopping
      /\ pc[h] \notin {"tookStop", "shellOff"}
  <2>1. ~IsShell(Main) /\ Main # Screen
    BY Numbers DEF IsShell, Screen
  <2> QED BY <1>1, <1>2, <2>1 DEF Leads, Holds, Stopping, InBoot
<1>4. /\ \A p \in Procs : pc'[p] = IF p = Main THEN l2 ELSE pc[p]
      /\ \A p \in Procs : p # Main => sends'[p] = sends[p] /\ reads'[p] = reads[p]
  <2>1. \A p \in Procs : pc'[p] = IF p = Main THEN l2 ELSE pc[p]
    BY <1>1 DEF SInv, Typed, Goto
  <2>2. \/ sends' = sends /\ reads' = reads
        \/ sends' = [sends EXCEPT ![Main] = 0] /\ reads' = reads
    BY <1>1 DEF Quiet, Offered
  <2>3. \A p \in Procs : p # Main => sends'[p] = sends[p] /\ reads'[p] = reads[p]
    BY <1>1, <2>2, Links
  <2> QED BY <2>1, <2>3
<1>5. Holds(h)'
  BY <1>1, <1>2, <1>3, <1>4, Numbers DEF Leads, Holds, InBoot, BootAt, Free
<1>6. Messages(h)' => NewCommandOf(h)'
  <2>1. ASSUME NEW q \in Procs, Fresh(q) PROVE Fresh(q)'
    BY <1>1, <1>4, <2>1 DEF Fresh, Free
  <2>2. Messages(h)' => Messages(h)
    BY <1>3, <1>4 DEF Messages
  <2> QED BY <1>2, <2>1, <2>2 DEF Leads, NewCommandOf
<1> QED BY <1>3, <1>4, <1>5, <1>6 DEF Leads, SomeoneLeads

\* kernel_main waits for the answer of the console, or takes it.
LEMMA MainStopsLeads ==
    ASSUME KInv, SInv, GamesRest, SomeoneLeads, Goto("start"), asked' = asked, pc[c0] = "stopped", Got(1)
    PROVE  SomeoneLeads'
<1>1. c0 = Main /\ Main \in Procs /\ Free(Main) /\ ~InBoot
  BY Who DEF MainAt, InBoot, BootAt
<1>2. \A p \in Procs : pc'[p] = IF p = Main THEN "start" ELSE pc[p]
  BY <1>1 DEF SInv, Typed, Goto
<1>3. CASE Awaited(1)
  <2>1. PICK h \in Procs : Leads(h)
    BY DEF SomeoneLeads
  <2>2. h # Main /\ pc[h] # "shellOff"
    <3>1. ~IsShell(Main) /\ Main # Screen
      BY Numbers DEF IsShell, Screen
    <3> QED BY <1>1, <1>3, <2>1, <3>1 DEF Leads, Holds, ActiveAt, Awaited
  <2>3. /\ \A p \in Procs : p # Main => reads'[p] = reads[p]
        /\ reads'[Main] = 1 /\ sends' = sends
    BY <1>1, <1>3, Links DEF Awaited
  <2>4. Holds(h)' /\ Stopping'
    BY <1>1, <1>2, <2>1, <2>2, <2>3, Numbers DEF Leads, Holds, InBoot, BootAt, Free, Stopping
  <2>5. Messages(h)' => NewCommandOf(h)'
    <3>1. ASSUME NEW q \in Procs, Fresh(q) PROVE Fresh(q)'
      BY <1>1, <1>2, <2>3, <3>1 DEF Fresh, Free
    <3>2. Messages(h)' => Messages(h)
      BY <1>2, <2>2, <2>3 DEF Messages
    <3> QED BY <2>1, <3>1, <3>2 DEF Leads, NewCommandOf
  <2> QED BY <1>2, <2>2, <2>4, <2>5 DEF Leads, SomeoneLeads
<1>4. ASSUME NEW s \in Procs, Taken(1, s) PROVE SomeoneLeads'
  <2>1. Free(Main)'
    BY <1>1, <1>4, Links DEF Taken, Free
  <2>2. Leads(Main)'
    BY <1>1, <1>2, <2>1 DEF Leads, Holds, Messages
  <2> QED BY <1>1, <2>2 DEF SomeoneLeads
<1> QED BY <1>3, <1>4 DEF Got

\* kernel_main starts a console.
LEMMA MainStartsLeads ==
    ASSUME KInv, SInv, Goto("idle"), pc[c0] \in {"firstShell", "start"},
           NEW ch \in ShellIds, NEW v,
           Offered(ch, v) \/ \E r \in Procs : Passed(ch, v, r)
    PROVE  SomeoneLeads'
<1>1. c0 = Main /\ Main \in Procs /\ Free(Main)
  BY Who DEF MainAt, BootAt
<1>2. \A p \in Procs : pc'[p] = IF p = Main THEN "idle" ELSE pc[p]
  BY <1>1 DEF SInv, Typed, Goto
<1>3. CASE Offered(ch, v)
  <2>1. ~Free(Main)'
    BY <1>1, <1>3, Links, Numbers DEF Offered, Free
  <2>2. Leads(Main)'
    BY <1>1, <1>2, <2>1 DEF Leads, Holds, Messages
  <2> QED BY <1>1, <2>2 DEF SomeoneLeads
<1>4. ASSUME NEW r \in Procs, Passed(ch, v, r) PROVE SomeoneLeads'
  <2>1. reads[r] = ch /\ r # Main /\ sends' = sends /\ reads'[r] = NoChannel
    BY <1>1, <1>4, Links DEF Passed
  <2>2. sends[r] = NoChannel
    BY <2>1, Links, Numbers
  <2>3. ReadsAt(r, ch, pc[r]) /\ ch \notin {0, 1, 42, 43} /\ ch # NoChannel
    BY <2>1, Numbers DEF SInv, Places, ShellIds
  <2>4. pc[r] = "line"
    BY <2>1, <2>3 DEF ReadsAt
  <2>5. IsShell(r)
    BY <2>4, Whose DEF ShellAt
  <2>6. Holds(r)' /\ pc'[r] = "line"
    BY <1>2, <2>1, <2>2, <2>4, <2>5 DEF Holds, Free
  <2> QED BY <2>6 DEF Leads, Messages, SomeoneLeads
<1> QED BY <1>3, <1>4

\* The shell on the screen leads.
LEMMA ShellLeads ==
    ASSUME KInv, SInv, SomeoneLeads, pc[c0] \in ActiveAt \cup {"line"}
    PROVE  /\ c0 \in Procs /\ c0 \in 0 .. maxId /\ Free(c0) /\ IsShell(c0) /\ c0 # Main /\ ~IsCommand(c0)
           /\ Leads(c0) /\ Holds(c0) /\ ~InBoot /\ myId[c0] = c0 + 1
  BY ShellHolds DEF SomeoneLeads, Leads

\* The shell on the screen looks at its keyboard and its reports.
LEMMA ShellLooksLeads ==
    ASSUME KInv, SInv, SomeoneLeads, pc[c0] \in ActiveAt \cup {"line"},
           NEW l2 \in PollAt \cup {"waitTake", "takeDone", "takeStop"}, Goto(l2),
           Quiet \/ \E s \in Procs : Taken(11 + c0, s)
    PROVE  SomeoneLeads'
<1>0. PICK me \in Procs : me = c0
  BY ShellLeads DEF ActiveAt
<1>1. c0 \in Procs /\ Free(c0) /\ IsShell(c0)
  BY ShellLeads
<1>2. pc'[c0] = l2
  BY <1>0, <1>1 DEF SInv, Typed, Goto
<1>3. sends'[c0] = NoChannel /\ reads'[c0] = NoChannel
  BY <1>0, <1>1, Links DEF Quiet, Taken, Free
<1>4. Holds(me)'
  BY <1>0, <1>1, <1>2, <1>3 DEF Holds, PollAt, ActiveAt, Free
<1>5. ~Messages(me)'
  BY <1>0, <1>2, <1>3, Numbers DEF Messages, PollAt
<1>6. l2 \notin {"tookStop", "shellOff"}
  BY DEF PollAt
<1> QED BY <1>0, <1>1, <1>2, <1>4, <1>5, <1>6 DEF Leads, SomeoneLeads

\* The shell on the screen creates a command: it has somebody to send to.
LEMMA ShellCreatesLeads ==
    ASSUME KInv, SInv, SomeoneLeads, pc[c0] = "line", maxId + 1 \in Procs,
           NEW f, NEW bg,
           pc' = [pc EXCEPT ![c0] = "sendFunction", ![maxId + 1] = "cmdStart"],
           asked' = [asked EXCEPT ![maxId + 1] = [fn |-> f, sh |-> myId[c0], bg |-> bg]]
    PROVE  SomeoneLeads'
<1> DEFINE q == maxId + 1
<1>0. PICK me \in Procs : me = c0
  BY ShellLeads DEF ActiveAt
<1>1. /\ c0 \in Procs /\ c0 \in 0 .. maxId /\ IsShell(c0) /\ myId[c0] = c0 + 1
      /\ maxId \in Nat
  BY ShellLeads, NumberedProcesses
<1>2. pc'[c0] = "sendFunction" /\ pc'[q] = "cmdStart" /\ asked'[q].sh = c0 + 1
  BY <1>0, <1>1 DEF SInv, Typed
<1>3. Holds(me)'
  BY <1>0, <1>1, <1>2 DEF Holds, ActiveAt
<1>4. NewCommandOf(me)'
  BY <1>0, <1>2 DEF NewCommandOf, Fresh
<1> QED BY <1>0, <1>1, <1>2, <1>3, <1>4 DEF Leads, SomeoneLeads

\* The shell on the screen sends a message to the command it has created.
LEMMA ShellSendsLeads ==
    ASSUME KInv, SInv, SomeoneLeads, NEW l2, NEW v, Goto(l2), asked' = asked,
           \/ pc[c0] = "sendFunction" /\ l2 = "sendArgs"
           \/ pc[c0] = "sendArgs" /\ l2 = "sendId"
           \/ pc[c0] = "sendId" /\ l2 \in {"wait", "pollDone"},
           Offered(1, v) \/ \E r \in Procs : Passed(1, v, r)
    PROVE  SomeoneLeads'
<1>0. PICK me \in Procs : me = c0
  BY ShellLeads DEF ActiveAt
<1>1. c0 \in Procs /\ IsShell(c0) /\ Leads(c0) /\ Free(c0) /\ ~IsCommand(c0)
  BY ShellLeads DEF ActiveAt
<1>2. PICK q \in Procs : Fresh(q) /\ asked[q].sh = c0 + 1
  BY <1>0, <1>1 DEF Leads, Messages, NewCommandOf
<1>3. q # c0 /\ Hands(c0, q)
  <2>1. IsCommand(q) /\ Hands(asked[q].sh - 1, q) /\ c0 \in Nat
    BY <1>0, <1>1, <1>2, FreshCommand, Numbers
  <2>2. asked[q].sh - 1 = c0
    BY <1>0, <1>2, <2>1
  <2> QED BY <1>0, <1>1, <2>1, <2>2
<1>4. \A p \in Procs : pc'[p] = IF p = c0 THEN l2 ELSE pc[p]
  BY DEF SInv, Typed, Goto
<1>5. Holds(me)' /\ pc'[c0] = l2 /\ l2 \notin {"tookStop", "shellOff"}
  BY <1>0, <1>1, <1>4 DEF Holds, ActiveAt
<1>6. CASE Offered(1, v)
  <2>1. \A p \in Procs : p # c0 => sends'[p] = sends[p] /\ reads'[p] = reads[p]
    BY <1>0, <1>6, Links DEF Offered
  <2>2. Fresh(q)'
    BY <1>0, <1>2, <1>3, <1>4, <2>1 DEF Fresh, Free
  <2> QED BY <1>0, <1>1, <1>2, <1>5, <2>2 DEF Leads, SomeoneLeads, NewCommandOf
<1>7. ASSUME NEW r \in Procs, Passed(1, v, r) PROVE SomeoneLeads'
  <2>1. sends'[c0] = NoChannel
    BY <1>0, <1>1, <1>7 DEF Passed, Free
  <2>2. Messages(me)' => pc[q] \in {"cmdStart", "cmdArgs", "cmdId"}
    BY <1>0, <1>1, <1>3, <1>5, <2>1, Numbers DEF Messages, Hands, Free
  <2>3. Messages(me)' => Fresh(q)'
    BY <1>0, <1>3, <1>4, <2>2 DEF Fresh
  <2> QED BY <1>0, <1>1, <1>2, <1>5, <2>3 DEF Leads, SomeoneLeads, NewCommandOf
<1> QED BY <1>0, <1>6, <1>7

\* The shell on the screen takes the stop signal.
LEMMA ShellStopsLeads ==
    ASSUME KInv, SInv, SomeoneLeads, Goto("tookStop"), pc[c0] = "takeStop",
           NEW s \in Procs, Taken(0, s)
    PROVE  SomeoneLeads'
<1>0. PICK me \in Procs : me = c0
  BY ShellLeads DEF ActiveAt
<1>1. c0 \in Procs /\ IsShell(c0) /\ c0 # Main /\ Main \in Procs
  BY ShellLeads, Numbers DEF ActiveAt
<1>2. \A p \in Procs : pc'[p] = IF p = c0 THEN "tookStop" ELSE pc[p]
  BY DEF SInv, Typed, Goto
<1>3. s = Main /\ pc[Main] = "stopped"
  <2>1. SendsAt(s, 0, pc[s])
    BY DEF SInv, Places, Taken
  <2> QED BY <1>0, <2>1, Numbers DEF SendsAt, ShellIds, ReportCh
<1>4. Free(Main)'
  BY <1>0, <1>3, Links, Numbers DEF Taken, Free
<1>5. Stopping' /\ Holds(me)'
  BY <1>0, <1>1, <1>2, <1>3, <1>4 DEF Stopping, Holds, ActiveAt
<1> QED BY <1>0, <1>1, <1>2, <1>5 DEF Leads, SomeoneLeads, Messages

\* The shell on the screen answers kernel_main, which waits for that.
LEMMA ShellAnswersLeads ==
    ASSUME KInv, SInv, SomeoneLeads, Goto("shellOff"), pc[c0] = "tookStop", NEW v,
           Offered(1, v) \/ \E r \in Procs : Passed(1, v, r)
    PROVE  SomeoneLeads'
<1>0. PICK me \in Procs : me = c0
  BY ShellLeads DEF ActiveAt
<1>1. /\ c0 \in Procs /\ IsShell(c0) /\ c0 # Main /\ Main \in Procs /\ Free(c0)
      /\ Leads(c0) /\ Holds(c0) /\ ~InBoot
  BY ShellLeads, Numbers DEF ActiveAt
<1>2. \A p \in Procs : pc'[p] = IF p = c0 THEN "shellOff" ELSE pc[p]
  BY DEF SInv, Typed, Goto
<1>3. Stopping
  BY <1>0, <1>1 DEF Leads
<1>4. CASE Offered(1, v)
  <2>1. /\ sends'[c0] = 1 /\ \A p \in Procs : reads[p] # 1
        /\ \A p \in Procs : p # c0 => sends'[p] = sends[p] /\ reads'[p] = reads[p]
    BY <1>0, <1>1, <1>4, Links DEF Offered
  <2>2. ~(pc[Main] = "start" /\ ~Free(Main))
    <3>1. SendsAt(Main, sends[Main], pc[Main]) /\ ReadsAt(Main, reads[Main], pc[Main])
      BY <1>0, <1>1 DEF SInv, Places
    <3>2. ~IsShell(Main) /\ Main # Screen /\ ~IsCommand(Main)
      BY Numbers DEF IsShell, Screen, IsCommand
    <3> QED BY <1>0, <1>1, <2>1, <3>1, <3>2, Numbers DEF SendsAt, ReadsAt, Free, ShellIds
  <2>3. pc[Main] = "stopped" /\ Free(Main)
    BY <1>0, <1>3, <2>2 DEF Stopping
  <2>4. pc'[Main] = "stopped" /\ Free(Main)'
    BY <1>0, <1>1, <1>2, <2>1, <2>3 DEF Free
  <2>5. Holds(me)'
    BY <1>0, <1>1, <1>2, <2>1, <2>4 DEF Holds, InBoot, BootAt
  <2> QED BY <1>0, <1>1, <1>2, <2>4, <2>5 DEF Leads, SomeoneLeads, Messages
<1>5. ASSUME NEW r \in Procs, Passed(1, v, r) PROVE SomeoneLeads'
  <2>1. reads[r] = 1 /\ sends' = sends /\ reads'[r] = NoChannel /\ sends[r] = NoChannel
    BY <1>0, <1>5, Links, Numbers DEF Passed
  <2>2. ~Hands(c0, r)
    BY DEF Hands
  <2>3. r = Main /\ pc[r] = "start"
    BY <1>0, <1>1, <2>1, <2>2, ChannelOne
  <2>4. Leads(Main)'
    BY <1>0, <1>1, <1>2, <2>1, <2>3 DEF Leads, Holds, Free, Messages
  <2> QED BY <1>0, <1>1, <2>4 DEF SomeoneLeads
<1> QED BY <1>0, <1>4, <1>5

\* A shell that is off waits to be started, or is started by kernel_main.
LEMMA ShellStartsLeads ==
    ASSUME KInv, SInv, SomeoneLeads, Goto("line"), asked' = asked, pc[c0] = "shellOff",
           Got(c0 + 1)
    PROVE  SomeoneLeads'
<1>0. PICK me \in Procs : me = c0
  BY Who
<1>1. /\ c0 \in Procs /\ IsShell(c0) /\ c0 # Main /\ Main \in Procs /\ Free(c0) /\ ~IsCommand(c0)
      /\ c0 + 1 \in ShellIds
  BY Who, Whose DEF ShellAt
<1>2. \A p \in Procs : pc'[p] = IF p = c0 THEN "line" ELSE pc[p]
  BY DEF SInv, Typed, Goto
<1>3. CASE Awaited(c0 + 1)
  <2>1. PICK h \in Procs : Leads(h)
    BY DEF SomeoneLeads
  <2>2. h # c0
    BY <1>0, <1>1, <2>1, Numbers DEF Leads, Holds, Free, ActiveAt, IsShell, Screen
  <2>3. sends' = sends /\ \A p \in Procs : p # c0 => reads'[p] = reads[p]
    BY <1>0, <1>3, Links DEF Awaited
  <2>4. ASSUME NEW q \in Procs, Fresh(q) PROVE Fresh(q)'
    <3>1. q # c0
      BY <1>0, <1>1, <2>4, FreshCommand
    <3> QED BY <1>0, <1>2, <2>3, <2>4, <3>1 DEF Fresh, Free
  <2> QED BY <1>0, <1>1, <1>2, <2>1, <2>2, <2>3, <2>4, LeaderKept
<1>4. ASSUME NEW s \in Procs, Taken(c0 + 1, s) PROVE SomeoneLeads'
  <2>1. Free(me)'
    BY <1>0, <1>1, <1>4, Links DEF Taken, Free
  <2>2. Leads(me)'
    BY <1>0, <1>1, <1>2, <2>1 DEF Leads, Holds, Messages
  <2> QED BY <1>0, <1>1, <2>2 DEF SomeoneLeads
<1> QED BY <1>0, <1>3, <1>4 DEF Got

\* After the initialisation only the process that has the right sends on channel 1.
LEMMA OffersHold ==
    ASSUME KInv, SInv, ~InBoot, NEW s \in Procs, sends[s] = 1
    PROVE  Holds(s)
<1>1. SendsAt(s, 1, pc[s])
  BY DEF SInv, Places
<1> QED BY <1>1, Numbers DEF SendsAt, Holds, InBoot, BootAt, ActiveAt, ShellIds, ReportCh

\* A command that has got its messages does not disturb the shell that leads.
LEMMA CommandRunsLeads ==
    ASSUME KInv, SInv, SomeoneLeads, NEW l2, Goto(l2), asked' = asked,
           pc[c0] \in CommandAt \ {"cmdStart", "cmdArgs", "cmdId"},
           Quiet \/ \E ch \in Channels, v \in Values : Offered(ch, v)
    PROVE  SomeoneLeads'
<1>1. c0 \in Procs /\ c0 # Main /\ ~Holds(c0) /\ Free(c0)
  BY CommandFacts
<1>2. \A p \in Procs : p # c0 => pc'[p] = pc[p] /\ sends'[p] = sends[p] /\ reads'[p] = reads[p]
  BY Links DEF SInv, Typed, Goto, Quiet, Offered
<1>3. PICK h \in Procs : Leads(h) /\ h # c0
  BY <1>1 DEF SomeoneLeads, Leads
<1>4. ASSUME NEW q \in Procs, Fresh(q) PROVE Fresh(q)'
  <2>1. q # c0
    BY <1>1, <1>4 DEF Fresh
  <2> QED BY <1>2, <1>4, <2>1 DEF Fresh, Free
<1> QED BY <1>1, <1>2, <1>3, <1>4, LeaderKept, Numbers

\* A new command waits for the next message of the shell that leads, or takes it.
LEMMA CommandTakesLeads ==
    ASSUME KInv, SInv, SomeoneLeads, NEW l2, Goto(l2), asked' = asked,
           \/ pc[c0] = "cmdStart" /\ l2 = "cmdArgs"
           \/ pc[c0] = "cmdArgs" /\ l2 = "cmdId"
           \/ pc[c0] = "cmdId" /\ l2 = "cmdNumbered",
           Got(1)
    PROVE  SomeoneLeads'
<1>1. PICK me \in Procs : me = c0
  BY Who
<1>2. /\ me # Main /\ ~Holds(me) /\ Free(me) /\ ~InBoot /\ Fresh(me) /\ IsCommand(me)
      /\ pc[me] \in {"cmdStart", "cmdArgs", "cmdId"}
  BY <1>1, CommandFacts DEF CommandAt, Fresh
<1>3. PICK h \in Procs : Leads(h) /\ h # me
  BY <1>2 DEF SomeoneLeads, Leads
<1>4. /\ \A p \in Procs : p # me => pc'[p] = pc[p]
      /\ pc'[me] = l2
  BY <1>1 DEF SInv, Typed, Goto
<1>5. CASE Awaited(1)
  <2>1. /\ \A p \in Procs : p # me => sends'[p] = sends[p] /\ reads'[p] = reads[p]
        /\ reads'[me] = 1
    BY <1>1, <1>5, Links DEF Awaited
  <2>2. ASSUME NEW q \in Procs, Fresh(q) PROVE Fresh(q)'
    BY <1>1, <1>2, <1>4, <2>1, <2>2, Numbers DEF Fresh, Free
  <2> QED BY <1>2, <1>3, <1>4, <2>1, <2>2, LeaderKept, Numbers
<1>6. ASSUME NEW s \in Procs, Taken(1, s) PROVE SomeoneLeads'
  <2>1. /\ sends[s] = 1 /\ sends'[s] = NoChannel /\ reads' = reads
        /\ \A p \in Procs : p # s => sends'[p] = sends[p]
    BY <1>6, Links DEF Taken
  <2>2. s = h
    BY <1>2, <1>3, <2>1, OffersHold DEF SInv, OneHolder, Leads
  <2>3. /\ asked[me].sh - 1 \in Procs /\ Holds(asked[me].sh - 1) /\ Hands(asked[me].sh - 1, me)
        /\ asked[me].sh \in Nat
    BY <1>2, FreshCommand, Numbers DEF ShellIds
  <2>4. asked[me].sh - 1 = h
    BY <1>3, <2>3 DEF SInv, OneHolder, Leads
  <2>5. asked[me].sh = h + 1 /\ Hands(h, me)
    BY <2>3, <2>4
  <2>6. pc[h] \in {"sendFunction", "sendArgs", "sendId", "wait", "pollDone"} /\ pc'[h] = pc[h]
    BY <1>2, <1>3, <1>4, <2>5 DEF Hands
  <2>7. IsShell(h)
    BY <2>6, Whose DEF ShellAt, ActiveAt
  <2>8. Holds(h)'
    BY <2>6, <2>7 DEF Holds, ActiveAt
  <2>9. ASSUME Messages(h)' PROVE NewCommandOf(h)'
    <3>1. pc[h] \in {"sendFunction", "sendArgs", "sendId"}
      BY <2>1, <2>2, <2>6, <2>9, Numbers DEF Messages
    <3>2. l2 # "cmdNumbered"
      BY <1>1, <1>2, <2>1, <2>2, <2>5, <3>1, Numbers DEF Hands, Free
    <3>3. Fresh(me)'
      BY <1>4, <3>2 DEF Fresh
    <3> QED BY <2>5, <3>3 DEF NewCommandOf
  <2> QED BY <2>6, <2>8, <2>9 DEF Leads, SomeoneLeads
<1> QED BY <1>5, <1>6 DEF Got

\* The process of the games waits to be asked for one.
LEMMA ScreenWaitsLeads ==
    ASSUME KInv, SInv, SomeoneLeads, Goto("snake"), asked' = asked, pc[c0] = "screen", Awaited(42)
    PROVE  SomeoneLeads'
<1>1. c0 \in Procs /\ c0 = Screen /\ c0 # Main /\ ~IsShell(c0) /\ Main \in Procs
  BY Who DEF ScreenAt
<1>2. ~Holds(c0)
  BY <1>1 DEF Holds
<1>3. PICK h \in Procs : Leads(h) /\ h # c0
  BY <1>2 DEF SomeoneLeads, Leads
<1>4. \A p \in Procs : p # c0 => pc'[p] = pc[p] /\ sends'[p] = sends[p] /\ reads'[p] = reads[p]
  BY Links DEF SInv, Typed, Goto, Awaited
<1>5. ASSUME NEW q \in Procs, Fresh(q) PROVE Fresh(q)'
  <2>1. q # c0
    BY <1>5 DEF Fresh
  <2> QED BY <1>4, <1>5, <2>1 DEF Fresh, Free
<1> QED BY <1>1, <1>3, <1>4, <1>5, LeaderKept

\* A step of another process, while kernel_main creates the shells.
LEMMA NewShellLeads ==
    ASSUME KInv, SInv, NEW l2, Goto(l2), pc[c0] \in StartAt
    PROVE  SomeoneLeads'
<1>1. c0 \in Procs /\ c0 # Main /\ IsShell(c0) /\ c0 <= maxId
  BY Who, Whose DEF ShellAt
<1>2. InBoot
  BY <1>1 DEF SInv, ShellsBoot, Boots
<1>3. pc'[Main] = pc[Main]
  BY <1>1, Numbers DEF SInv, Typed, Goto
<1> QED BY <1>2, <1>3, BootLeads DEF InBoot

\* The games stay at rest when another process makes a step.
LEMMA GamesKept ==
    ASSUME KInv, SInv, GamesRest, NEW l2, Goto(l2), l2 # "playing", pc[c0] \notin ScreenAt,
           \/ Quiet
           \/ \E ch \in Channels \ {42, 43} :
                 \/ \E v : Offered(ch, v) \/ \E r \in Procs : Passed(ch, v, r)
                 \/ Awaited(ch)
                 \/ \E s \in Procs : Taken(ch, s),
           pc'[Main] \in BootAt \/ currentId' \in ShellIds
    PROVE  GamesRest'
<1>1. /\ c0 \in Procs /\ c0 <= maxId /\ Free(c0) /\ Screen \in Nat
      /\ \A p \in Procs : pc'[p] = IF p = c0 THEN l2 ELSE pc[p]
  BY Who, NumberedProcesses, Numbers DEF SInv, Typed, Goto, Screen
<1>2. c0 # Screen
  BY <1>1, Numbers DEF SInv, Kinds, KindOf, IsShell, Screen
<1>3. /\ maxId' = maxId
      /\ \A p \in Procs : sends'[p] # 43
      /\ Screen <= maxId => Screen \in Procs /\ sends'[Screen] = sends[Screen]
                            /\ reads'[Screen] = reads[Screen]
  <2>1. Screen <= maxId => /\ Screen \in Procs /\ sends[Screen] = NoChannel
                           /\ reads[Screen] \in {NoChannel, 42}
    <3>1. Screen <= maxId => Screen \in Procs
      BY <1>1, NumberedProcesses
    <3>2. 42 # NoChannel
      BY Numbers
    <3> QED BY <3>1, <3>2, Links DEF GamesRest, Free
  <2>2. CASE Quiet
    BY <2>1, <2>2 DEF Quiet, GamesRest
  <2>3. ASSUME NEW ch \in Channels \ {42, 43}, NEW v,
               Offered(ch, v) \/ \E r \in Procs : Passed(ch, v, r)
        PROVE  <1>3!1 /\ <1>3!2 /\ <1>3!3
    BY <1>1, <1>2, <2>1, <2>3, Links, Numbers DEF Offered, Passed, GamesRest
  <2>4. ASSUME NEW ch \in Channels \ {42, 43}, Awaited(ch) \/ \E s \in Procs : Taken(ch, s)
        PROVE  <1>3!1 /\ <1>3!2 /\ <1>3!3
    BY <1>1, <1>2, <2>1, <2>4, Links, Numbers DEF Awaited, Taken, GamesRest
  <2> QED BY <2>2, <2>3, <2>4
<1> QED BY <1>1, <1>2, <1>3 DEF GamesRest, Free, InBoot

\* The process of the games comes into being, or another process does.
LEMMA GamesCreated ==
    ASSUME KInv, SInv, GamesRest, NEW l2, NEW first, l2 # "playing", first # "playing",
           maxId + 1 \in Procs, maxId' = maxId + 1, UNCHANGED <<sends, reads>>,
           pc' = [pc EXCEPT ![c0] = l2, ![maxId + 1] = first],
           maxId + 1 = Screen => first = "screen",
           pc[c0] \notin ScreenAt,
           pc'[Main] \in BootAt \/ currentId' \in ShellIds
    PROVE  GamesRest'
<1>1. /\ c0 \in Procs /\ c0 <= maxId /\ Screen \in Nat /\ maxId \in Nat
      /\ sends' = sends /\ reads' = reads /\ maxId' = maxId + 1
      /\ \A p \in Procs : pc'[p] = IF p = maxId + 1 THEN first ELSE IF p = c0 THEN l2 ELSE pc[p]
  BY Who, NumberedProcesses, Numbers DEF SInv, Typed, Screen
<1>2. c0 # Screen
  BY <1>1, Numbers DEF SInv, Kinds, KindOf, IsShell, Screen
<1>3. /\ \A p \in Procs : pc'[p] # "playing" /\ sends'[p] # 43
      /\ ~InBoot' => currentId' \in ShellIds
  <2>1. ~InBoot' => currentId' \in ShellIds
    BY DEF InBoot
  <2>2. \A p \in Procs : pc[p] # "playing" /\ sends[p] # 43
    BY DEF GamesRest
  <2>3. \A p \in Procs : sends'[p] # 43
    BY <1>1, <2>2
  <2>4. \A p \in Procs : pc'[p] # "playing"
    BY <1>1, <2>2
  <2> QED BY <2>1, <2>3, <2>4
<1>4. CASE Screen = maxId + 1
  <2>1. maxId + 1 \notin 0 .. maxId
    BY <1>1
  <2>2. sends[maxId + 1] = NoChannel /\ reads[maxId + 1] = NoChannel
    BY <2>1, Links
  <2>3. pc'[Screen] = "screen" /\ sends'[Screen] = NoChannel /\ reads'[Screen] = NoChannel
    BY <1>1, <1>4, <2>2
  <2>4. (pc[Screen] = "screen" /\ Free(Screen))'
    BY <2>3 DEF Free
  <2> QED BY <1>3, <2>4 DEF GamesRest
<1>5. CASE Screen # maxId + 1
  <2>1. Screen <= maxId' => Screen <= maxId /\ Screen \in Procs
    BY <1>1, <1>5, NumberedProcesses
  <2>2. Screen <= maxId' => \/ (pc[Screen] = "screen" /\ Free(Screen))'
                             \/ (pc[Screen] = "snake" /\ reads[Screen] = 42)'
    BY <1>1, <1>2, <1>5, <2>1 DEF GamesRest, Free
  <2> QED BY <1>3, <2>2 DEF GamesRest
<1> QED BY <1>4, <1>5

-----------------------------------------------------------------------------
\* No call but exit ends the process that makes it, or another one.
NobodyExits == \A p \in Procs : call'[p] = Exited => call[p] = Exited

\* None of these calls is exit.
LEMMA CallsReturn ==
    ASSUME KInv,
           \/ EnableTaskSwitch \/ Yield \/ OnTimerInterrupt \/ UNCHANGED vars
           \/ \E ch, v : Send(ch, v)
           \/ \E ch : Receive(ch)
           \/ NewProcess(maxId + 1)
    PROVE  NobodyExits
<1> DEFINE c == currentProcess
<1>1. call \in [Procs -> CallType]
  BY DEF KInv, RInv, IInv, TypeOK, Calls, CallType
<1>2. /\ NoCall # Exited
      /\ \A ch : In("send", ch) # Exited /\ In("receive", ch) # Exited
  BY DEF NoCall, Exited, In
<1>3. CASE call' = call
  BY <1>3 DEF NobodyExits
<1>4. CASE \E q : call' = [call EXCEPT ![q] = NoCall]
  BY <1>1, <1>2, <1>4 DEF NobodyExits
<1>5. CASE \E what, q : what # Exited /\ call' = [call EXCEPT ![c] = what, ![q] = NoCall]
  BY <1>1, <1>2, <1>5 DEF NobodyExits
<1>6. ASSUME NEW ch, NEW v, Send(ch, v) PROVE NobodyExits
  <2>1. CASE SendRefused(ch, v)
    BY <1>3, <2>1 DEF SendRefused, vars
  <2>2. CASE SendBlocks(ch, v) \/ SendWakes(ch, v)
    BY <1>2, <1>5, <2>2 DEF SendBlocks, SendWakes, LeaveRing, SwitchToNext, SwitchTo
  <2> QED BY <1>6, <2>1, <2>2 DEF Send
<1>7. ASSUME NEW ch, Receive(ch) PROVE NobodyExits
  <2>1. CASE ReceiveTakes(ch)
    BY <1>3, <2>1 DEF ReceiveTakes
  <2>2. CASE ReceiveBlocks(ch)
    BY <1>2, <1>5, <2>2 DEF ReceiveBlocks, LeaveRing, SwitchToNext, SwitchTo
  <2> QED BY <1>7, <2>1, <2>2 DEF Receive
<1>8. CASE EnableTaskSwitch \/ UNCHANGED vars \/ TimerTick
  BY <1>3, <1>8 DEF EnableTaskSwitch, vars, TimerTick
<1>9. CASE Yield \/ TimerSwitch \/ NewProcess(maxId + 1)
  BY <1>4, <1>9 DEF Yield, TimerSwitch, SwitchToNext, SwitchTo, NewProcess
<1> QED BY <1>6, <1>7, <1>8, <1>9 DEF OnTimerInterrupt

\* exit ends the process that calls it.
LEMMA ExitEnds ==
    ASSUME KInv, Exit
    PROVE  \A p \in Procs : p # c0 /\ call'[p] = Exited => call[p] = Exited
<1>1. call \in [Procs -> CallType] /\ NoCall # Exited
  BY DEF KInv, RInv, IInv, TypeOK, Calls, CallType, NoCall, Exited, In
<1>2. \E q : call' = [call EXCEPT ![c0] = Exited, ![q] = NoCall]
  BY DEF Exit, LeaveRing, SwitchToNext, SwitchTo, c0
<1> QED BY <1>1, <1>2

\* What a program does in one step: it calls the kernel, or does not.
Calling ==
    \/ Exit /\ Goto("dead")
    \/ \E l : /\ Goto(l)
              /\ \/ EnableTaskSwitch \/ Yield \/ UNCHANGED vars
                 \/ \E ch, v : Send(ch, v)
                 \/ \E ch : Receive(ch)
    \/ \E l, first : /\ pc' = [pc EXCEPT ![c0] = l, ![maxId + 1] = first]
                     /\ maxId + 1 \in Procs /\ NewProcess(maxId + 1)

\* A step of a program is one of these.
LEMMA ProgramCalls ==
    ASSUME Program
    PROVE  Calling
<1>1. CASE KernelMain
  BY <1>1 DEF KernelMain, Boot, CreateShell, NumberShell, ShellReady, CreateScreen, FirstShell,
     Idle, NoKeys, StopConsole, AwaitStopped, StartConsole, Step, Create, Calling
<1>2. CASE ShellProcess
  BY <1>2 DEF ShellProcess, ShellStart, ShellNumbered, ShellOn, NoCommand, Start, SendFunction,
     SendArgs, SendId, WaitProbe, WaitTake, WaitTaken, CtrlC, WaitStop, WaitOn, PollDone,
     TakeDone, PollStop, NoStop, TakeStop, ShellOff, Step, Test, Create, Calling
<1>3. CASE ShellCommandProcess
  BY <1>3 DEF ShellCommandProcess, CmdFunction, CmdArgs, CmdId, CmdNumbered, CmdEcho, CmdSleep,
     CmdGame, CmdPlays, CmdQuits, CmdEnded, CmdPrinted, CmdExit, Step, Test, Calling
<1>4. CASE ScreenProcess
  BY <1>4 DEF ScreenProcess, GameAsked, SnakeOn, SnakeStop, SnakeTake, SnakeOff, SnakePlays,
     SnakeLoses, GameOver, Step, Test, Calling
<1> QED BY <1>1, <1>2, <1>3, <1>4 DEF Program

\* Only a program that has ended has called exit: before a step, and after it.
LEMMA DeadStep ==
    ASSUME KInv, SInv, DeadAreDone, Program
    PROVE  DeadAreDone'
<1>1. /\ c0 \in Procs /\ call[c0] # Exited /\ maxId \in Nat
      /\ pc \in [Procs -> Labels]
  BY Who, CurrentIsLive, NumberedProcesses DEF SInv, Typed, c0
<1>2. CASE Exit /\ Goto("dead")
  BY <1>1, <1>2, ExitEnds DEF DeadAreDone, Goto
<1>3. ASSUME NEW l, Goto(l), NobodyExits PROVE DeadAreDone'
  BY <1>1, <1>3 DEF DeadAreDone, Goto, NobodyExits
<1>4. ASSUME NEW l, NEW first, pc' = [pc EXCEPT ![c0] = l, ![maxId + 1] = first],
             maxId + 1 \in Procs, NobodyExits
      PROVE  DeadAreDone'
  <2>1. pc[maxId + 1] # "dead"
    BY <1>1, <1>4 DEF SInv, Kinds, KindOf
  <2> QED BY <1>1, <1>4, <2>1 DEF DeadAreDone, NobodyExits
<1> QED BY <1>2, <1>3, <1>4, CallsReturn, ProgramCalls DEF Calling

-----------------------------------------------------------------------------
\* The steps of kernel_main keep a leader and leave the games at rest.
LEMMA MainCompany ==
    ASSUME KInv, SInv, CompanyInv, NoGames, Accompanied, KernelMain
    PROVE  GamesRest' /\ SomeoneLeads'
<1>0. /\ GamesRest /\ SomeoneLeads /\ {Zero, E5D} \subseteq Values /\ 2 \in ShellIds
      /\ Consoles \subseteq ShellIds /\ Game \notin ShellIds
      /\ \A ch \in {0, 1} \cup ShellIds : ch \in Channels \ {42, 43}
      /\ maxId \in Nat /\ Main \in 0 .. maxId /\ Main \in Procs
  <2>1. {Zero, E5D} \subseteq Values /\ Consoles \subseteq ShellIds \cup {Game}
    BY ShellsAssumption DEF ShellIds
  <2>2. \A ch \in {0, 1} \cup ShellIds : ch \in Channels \ {42, 43}
    BY Numbers DEF ShellIds
  <2>3. 2 \in ShellIds /\ maxId \in Nat /\ Main \in 0 .. maxId
    BY Numbers, NumberedProcesses DEF ShellIds
  <2> QED BY <2>1, <2>2, <2>3, Numbers DEF CompanyInv, NoGames
<1>1. pc[c0] \in MainAt => c0 = Main /\ pc[c0] \notin ScreenAt
  BY Who DEF MainAt, BootAt, ScreenAt
<1>2. ASSUME NEW l2, Goto(l2), pc[c0] \in MainAt PROVE pc'[Main] = l2
  BY <1>0, <1>1, <1>2 DEF SInv, Typed, Goto
<1>3. CASE Boot
  <2>1. Quiet /\ pc'[Main] = "create" /\ Goto("create") /\ pc[c0] \notin ScreenAt
    BY <1>1, <1>2, <1>3, QuietEffect DEF Boot, Step, At, MainAt, BootAt
  <2> QED BY <1>0, <2>1, GamesKept, BootLeads DEF BootAt
<1>4. CASE CreateShell \/ CreateScreen
  <2>1. PICK l2 \in {"number", "firstShell"}, first \in {"shellStart", "screen"} :
           /\ maxId + 1 \in Procs /\ NewProcess(maxId + 1) /\ pc[c0] = "create"
           /\ pc' = [pc EXCEPT ![c0] = l2, ![maxId + 1] = first]
           /\ maxId + 1 = Screen => first = "screen"
    <3>1. CASE CreateShell
      <4>1. maxId + 1 # Screen
        BY <1>0, <3>1, Numbers DEF CreateShell, Screen
      <4> QED BY <3>1, <4>1 DEF CreateShell, Create, At
    <3>2. CASE CreateScreen
      BY <3>2 DEF CreateScreen, Create, At
    <3> QED BY <1>4, <3>1, <3>2
  <2>2. maxId' = maxId + 1 /\ UNCHANGED <<sends, reads, value, received>>
    BY <2>1, CreateEffect
  <2>3. c0 = Main /\ pc[c0] \notin ScreenAt
    BY <1>1, <2>1 DEF MainAt, BootAt
  <2>4. maxId + 1 # Main
    BY <1>0
  <2>5. pc'[Main] = l2
    BY <1>0, <2>1, <2>3, <2>4 DEF SInv, Typed
  <2>6. pc'[Main] \in BootAt
    BY <2>5 DEF BootAt
  <2>7. GamesRest'
    BY <1>0, <2>1, <2>2, <2>3, <2>6, GamesCreated
  <2> QED BY <2>6, <2>7, BootLeads
<1>5. CASE NumberShell
  <2>1. maxId + 1 \in Values /\ pc[c0] = "number" /\ pc[c0] \notin ScreenAt
    <3>1. pc[c0] = "number" /\ c0 = Main /\ pc[c0] \notin ScreenAt
      BY <1>1, <1>5 DEF NumberShell, Step, At, MainAt, BootAt
    <3>2. maxId \in 1 .. NumShells
      BY <3>1 DEF SInv, MainIsAt
    <3> QED BY <3>1, <3>2, ShellsAssumption
  <2>2. Sent(1, maxId + 1) /\ Goto("shellReady")
    BY <1>0, <1>5, <2>1, SendEffect DEF NumberShell, Step
  <2>3. pc'[Main] \in BootAt
    BY <1>2, <2>1, <2>2 DEF MainAt, BootAt
  <2> QED BY <1>0, <2>1, <2>2, <2>3, GamesKept, BootLeads DEF Sent
<1>6. CASE ShellReady
  <2>1. Got(1) /\ Goto("create") /\ pc[c0] = "shellReady"
    BY <1>0, <1>6, ReceiveEffect DEF ShellReady, Step, At
  <2>2. pc'[Main] \in BootAt /\ pc[c0] \notin ScreenAt
    BY <1>1, <1>2, <2>1 DEF MainAt, BootAt
  <2> QED BY <1>0, <2>1, <2>2, GamesKept, BootLeads DEF Got
<1>7. CASE FirstShell \/ StartConsole
  <2>1. PICK ch \in ShellIds : /\ Send(ch, Zero) /\ Goto("idle") /\ currentId' \in ShellIds
                               /\ pc[c0] \in {"firstShell", "start"}
    <3>1. CASE FirstShell
      BY <1>0, <3>1 DEF FirstShell, At
    <3>2. CASE StartConsole
      <4>1. pc[c0] = "start" /\ ~InBoot
        BY <1>1, <3>2 DEF StartConsole, Step, At, MainAt, InBoot, BootAt
      <4>2. currentId \in ShellIds /\ currentId # Game
        BY <1>0, <4>1 DEF GamesRest
      <4> QED BY <3>2, <4>1, <4>2 DEF StartConsole, Step, Locals
    <3> QED BY <1>7, <3>1, <3>2
  <2>2. c0 = Main /\ pc[c0] \notin ScreenAt
    BY <1>1, <2>1 DEF MainAt, BootAt
  <2>3. Sent(ch, Zero)
    BY <1>0, <2>1, SendEffect
  <2>4. Offered(ch, Zero) \/ \E r \in Procs : Passed(ch, Zero, r)
    BY <2>2, <2>3, NotRefused DEF Sent
  <2> QED BY <1>0, <2>1, <2>2, <2>4, GamesKept, MainStartsLeads
<1>8. CASE Idle \/ NoKeys
  <2>1. /\ Quiet /\ Goto("keys") /\ pc[c0] \in {"idle", "keys"}
        /\ currentId' = currentId /\ asked' = asked
    BY <1>8, QuietEffect DEF Idle, NoKeys, Step, At, Locals
  <2>2. pc[c0] \notin ScreenAt /\ currentId' \in ShellIds
    BY <1>0, <1>1, <2>1 DEF MainAt, GamesRest, InBoot, BootAt
  <2> QED BY <1>0, <2>1, <2>2, GamesKept, MainLooksLeads
<1>9. ASSUME NEW k \in Consoles, StopConsole(k) PROVE GamesRest' /\ SomeoneLeads'
  <2>1. /\ Send(0, E5D) /\ Goto("stopped") /\ pc[c0] = "keys"
        /\ currentId' \in ShellIds /\ asked' = asked
    BY <1>0, <1>9 DEF StopConsole, At
  <2>2. Sent(0, E5D) /\ c0 = Main /\ pc[c0] \notin ScreenAt
    BY <1>0, <1>1, <2>1, SendEffect DEF MainAt
  <2>3. ~\E r \in Procs : Passed(0, E5D, r)
    BY Numbers DEF SInv, Places, ReadsAt, ShellIds, Passed
  <2>4. Offered(0, E5D)
    BY <2>2, <2>3, NotRefused DEF Sent
  <2> QED BY <1>0, <2>1, <2>2, <2>4, GamesKept, MainLooksLeads
<1>10. CASE AwaitStopped
  <2>1. /\ Got(1) /\ Goto("start") /\ pc[c0] = "stopped" /\ currentId' = currentId
        /\ asked' = asked
    BY <1>0, <1>10, ReceiveEffect DEF AwaitStopped, Step, At, Locals
  <2>2. pc[c0] \notin ScreenAt /\ currentId' \in ShellIds
    BY <1>0, <1>1, <2>1 DEF MainAt, GamesRest, InBoot, BootAt
  <2> QED BY <1>0, <2>1, <2>2, GamesKept, MainStopsLeads DEF Got
<1> QED BY <1>3, <1>4, <1>5, <1>6, <1>7, <1>8, <1>9, <1>10 DEF KernelMain

\* A step of another process leaves currentId alone.
LEMMA OthersConsole ==
    ASSUME KInv, SInv, GamesRest, NEW l2, Goto(l2), pc[c0] \notin MainAt, currentId' = currentId
    PROVE  pc'[Main] \in BootAt \/ currentId' \in ShellIds
<1>1. c0 # Main /\ pc'[Main] = pc[Main]
  BY Numbers DEF SInv, MainIsAt, Typed, Goto
<1> QED BY <1>1 DEF GamesRest, InBoot

\* The steps of the shells.
LEMMA ShellCompany ==
    ASSUME KInv, SInv, CompanyInv, NoGames, Accompanied, ShellProcess
    PROVE  GamesRest' /\ SomeoneLeads'
<1>0. /\ GamesRest /\ SomeoneLeads /\ {0, 1} \subseteq Channels \ {42, 43}
      /\ {Zero, DEAD, ArgsMsg} \subseteq Values
  BY Numbers, ShellsAssumption DEF CompanyInv
<1>1. pc[c0] \in ShellAt => /\ pc[c0] \notin MainAt \cup ScreenAt /\ IsShell(c0) /\ c0 \in Procs
                            /\ c0 # Main /\ c0 <= maxId
                            /\ c0 + 1 \in Channels \ {42, 43} /\ 11 + c0 \in Channels \ {42, 43}
  <2>1. pc[c0] \in ShellAt => pc[c0] \notin MainAt \cup ScreenAt
    BY DEF ShellAt, StartAt, ActiveAt, MainAt, BootAt, ScreenAt
  <2>2. pc[c0] \in ShellAt => IsShell(c0) /\ c0 \in Procs /\ c0 # Main /\ c0 <= maxId
    BY Who, Whose
  <2>3. IsShell(c0) => c0 + 1 \in Channels \ {42, 43} /\ 11 + c0 \in Channels \ {42, 43}
    BY Numbers DEF IsShell, ShellIds, ReportCh
  <2> QED BY <2>1, <2>2, <2>3
<1>2. CASE ShellStart
  <2>1. Got(1) /\ Goto("shellNumbered") /\ pc[c0] = "shellStart" /\ currentId' = currentId
    BY <1>0, <1>2, ReceiveEffect DEF ShellStart, Step, At, Locals
  <2>2. pc[c0] \in StartAt /\ pc[c0] \in ShellAt
    BY <2>1 DEF StartAt, ShellAt
  <2> QED BY <1>0, <1>1, <2>1, <2>2, NewShellLeads, GamesKept, OthersConsole DEF Got
<1>3. CASE ShellNumbered
  <2>1. Sent(1, DEAD) /\ Goto("shellOff") /\ pc[c0] = "shellNumbered" /\ currentId' = currentId
    BY <1>0, <1>3, SendEffect DEF ShellNumbered, At
  <2>2. pc[c0] \in StartAt /\ pc[c0] \in ShellAt
    BY <2>1 DEF StartAt, ShellAt
  <2> QED BY <1>0, <1>1, <2>1, <2>2, NewShellLeads, GamesKept, OthersConsole DEF Sent
<1>4. CASE ShellOn
  <2>1. pc[c0] = "shellOff" /\ Receive(myId[c0]) /\ Goto("line") /\ currentId' = currentId
        /\ asked' = asked /\ pc[c0] \in ShellAt
    BY <1>4 DEF ShellOn, Step, At, Locals, ShellAt
  <2>2. myId[c0] = c0 + 1
    BY <1>1, <2>1 DEF SInv, ShellsBoot, Boots, StartAt
  <2>3. Got(c0 + 1)
    BY <1>1, <2>1, <2>2, ReceiveEffect
  <2> QED BY <1>0, <1>1, <2>1, <2>3, ShellStartsLeads, GamesKept, OthersConsole DEF Got
<1>5. CASE \/ NoCommand \/ WaitProbe \/ WaitTaken \/ CtrlC \/ WaitStop \/ WaitOn
           \/ PollDone \/ PollStop \/ NoStop
  <2>1. Quiet
    BY <1>5, QuietEffect DEF NoCommand, WaitProbe, WaitTaken, CtrlC, WaitStop, WaitOn,
       PollDone, PollStop, NoStop, Test, Step
  <2>2. currentId' = currentId /\ pc[c0] \in PollAt
    BY <1>5 DEF NoCommand, WaitProbe, WaitTaken, CtrlC, WaitStop, WaitOn,
       PollDone, PollStop, NoStop, Test, Step, At, PollAt, Locals
  <2>3. PICK l2 \in PollAt \cup {"waitTake", "takeDone", "takeStop"} : Goto(l2)
    BY <1>5 DEF NoCommand, WaitProbe, WaitTaken, CtrlC, WaitStop, WaitOn,
       PollDone, PollStop, NoStop, Test, Step, PollAt
  <2>4. pc[c0] \in ActiveAt \cup {"line"} /\ pc[c0] \in ShellAt /\ l2 # "playing"
    BY <2>2 DEF PollAt, ActiveAt, ShellAt
  <2> QED BY <1>0, <1>1, <2>1, <2>2, <2>3, <2>4, ShellLooksLeads, GamesKept, OthersConsole
<1>6. ASSUME NEW f \in Functions, NEW bg \in {FALSE, MayBackground}, Start(f, bg)
      PROVE  GamesRest' /\ SomeoneLeads'
  <2>1. /\ maxId + 1 \in Procs /\ NewProcess(maxId + 1) /\ pc[c0] = "line"
        /\ pc' = [pc EXCEPT ![c0] = "sendFunction", ![maxId + 1] = "cmdStart"]
        /\ asked' = [asked EXCEPT ![maxId + 1] = [fn |-> f, sh |-> myId[c0], bg |-> bg]]
        /\ currentId' = currentId
    BY <1>6 DEF Start, Create, At
  <2>2. maxId' = maxId + 1 /\ UNCHANGED <<sends, reads, value, received>>
    BY <2>1, CreateEffect
  <2>3. ~InBoot /\ maxId > NumShells /\ maxId \in Nat
    BY <2>1, ShellHolds, NumberedProcesses
  <2>4. maxId + 1 # Screen /\ pc[c0] \notin ScreenAt
    BY <2>1, <2>3, Numbers DEF Screen, ScreenAt
  <2>5. currentId' \in ShellIds
    BY <1>0, <2>1, <2>3 DEF GamesRest
  <2>6. GamesRest'
    BY <1>0, <2>1, <2>2, <2>4, <2>5, GamesCreated
  <2>7. SomeoneLeads'
    BY <1>0, <2>1, ShellCreatesLeads
  <2> QED BY <2>6, <2>7
<1>7. CASE SendFunction \/ SendArgs \/ SendId
  <2>1. PICK l2, v : /\ Send(1, v) /\ Goto(l2) /\ currentId' = currentId /\ asked' = asked
                     /\ \/ pc[c0] = "sendFunction" /\ l2 = "sendArgs" /\ v = asked[Mine].fn
                        \/ pc[c0] = "sendArgs" /\ l2 = "sendId" /\ v = ArgsMsg
                        \/ pc[c0] = "sendId" /\ l2 \in {"wait", "pollDone"} /\ v = myId[c0]
    BY <1>7 DEF SendFunction, SendArgs, SendId, Step, At, Locals
  <2>2. /\ pc[c0] \in ActiveAt \cup {"line"} /\ pc[c0] \in ShellAt /\ l2 # "playing"
        /\ pc[c0] \in {"sendFunction", "sendArgs", "sendId"}
    BY <2>1 DEF ActiveAt, ShellAt
  <2>3. v \in Values
    <3>1. /\ c0 + 1 \in ShellIds /\ myId[c0] = c0 + 1
          /\ Mine \in Procs /\ asked[Mine].sh = c0 + 1
      BY <2>2, ShellSees, MineIsLast
    <3>2. asked[Mine].sh # 0
      BY <3>1, Numbers DEF ShellIds
    <3>3. asked[Mine].fn \in Functions
      BY <3>1, <3>2 DEF SInv, Kinds, KindOf, NoJob
    <3> QED BY <2>1, <3>1, <3>3, ShellsAssumption DEF ShellIds
  <2>4. Sent(1, v) /\ Holds(c0) /\ ~InBoot
    BY <1>0, <2>1, <2>2, <2>3, SendEffect, ShellHolds
  <2>5. Offered(1, v) \/ \E r \in Procs : Passed(1, v, r)
    BY <2>4, NotRefused DEF Sent
  <2>6. SomeoneLeads'
    BY <1>0, <2>1, <2>5, ShellSendsLeads
  <2> QED BY <1>0, <1>1, <2>1, <2>2, <2>5, <2>6, GamesKept, OthersConsole
<1>8. CASE WaitTake \/ TakeDone
  <2>1. PICK l2 \in {"waitTaken", "pollStop"} :
           /\ Receive(10 + myId[c0]) /\ Goto(l2) /\ currentId' = currentId
           /\ pc[c0] \in {"waitTake", "takeDone"}
    BY <1>8 DEF WaitTake, TakeDone, Step, At, Locals
  <2>2. /\ pc[c0] \in ActiveAt \cup {"line"} /\ pc[c0] \in ShellAt /\ l2 # "playing"
        /\ l2 \in PollAt
    BY <2>1 DEF ActiveAt, ShellAt, PollAt
  <2>3. 10 + myId[c0] = 11 + c0
    BY <2>2, ShellSees
  <2>4. Got(11 + c0)
    BY <1>1, <2>1, <2>2, <2>3, ReceiveEffect
  <2>5. \E s \in Procs : Taken(11 + c0, s)
    BY <1>1, <2>1, <2>2, <2>4 DEF Got, Awaited, SInv, ReportIsThere
  <2> QED BY <1>0, <1>1, <2>1, <2>2, <2>5, ShellLooksLeads, GamesKept, OthersConsole
<1>9. CASE TakeStop
  <2>1. /\ Got(0) /\ pc[c0] = "takeStop" /\ Goto("tookStop") /\ currentId' = currentId
        /\ pc[c0] \in ShellAt
    BY <1>0, <1>9, ReceiveEffect DEF TakeStop, Step, At, Locals, ShellAt, ActiveAt
  <2>2. PICK s \in Procs : Taken(0, s)
    BY <1>1, <2>1, Numbers DEF Got, Awaited, SInv, StopIsThere
  <2> QED BY <1>0, <1>1, <2>1, <2>2, ShellStopsLeads, GamesKept, OthersConsole
<1>10. CASE ShellOff
  <2>1. /\ Sent(1, DEAD) /\ pc[c0] = "tookStop" /\ Goto("shellOff") /\ currentId' = currentId
        /\ pc[c0] \in ShellAt /\ pc[c0] \in ActiveAt \cup {"line"}
    BY <1>0, <1>10, SendEffect DEF ShellOff, Step, At, Locals, ShellAt, ActiveAt
  <2>2. Offered(1, DEAD) \/ \E r \in Procs : Passed(1, DEAD, r)
    BY <2>1, ShellHolds, NotRefused DEF Sent
  <2> QED BY <1>0, <1>1, <2>1, <2>2, ShellAnswersLeads, GamesKept, OthersConsole
<1> QED BY <1>2, <1>3, <1>4, <1>5, <1>6, <1>7, <1>8, <1>9, <1>10 DEF ShellProcess

\* The steps of the commands.
LEMMA CommandCompany ==
    ASSUME KInv, SInv, CompanyInv, NoGames, Accompanied, ShellCommandProcess
    PROVE  GamesRest' /\ SomeoneLeads'
<1>0. /\ GamesRest /\ SomeoneLeads /\ 1 \in Channels \ {42, 43}
      /\ {Zero, DEAD} \subseteq Values
      /\ pc[c0] \in CommandAt => pc[c0] \notin MainAt \cup ScreenAt /\ pc[c0] # "playing"
  <2>1. pc[c0] \in CommandAt => pc[c0] \notin MainAt \cup ScreenAt
    BY DEF CommandAt, MainAt, BootAt, ScreenAt
  <2>2. c0 \in Procs
    BY Who
  <2> QED BY <2>1, <2>2, Numbers, ShellsAssumption DEF CompanyInv, GamesRest
<1>1. CASE CmdFunction \/ CmdArgs \/ CmdId
  <2>1. PICK l2 \in {"cmdArgs", "cmdId", "cmdNumbered"} :
           /\ Receive(1) /\ Goto(l2) /\ currentId' = currentId /\ asked' = asked
           /\ \/ pc[c0] = "cmdStart" /\ l2 = "cmdArgs"
              \/ pc[c0] = "cmdArgs" /\ l2 = "cmdId"
              \/ pc[c0] = "cmdId" /\ l2 = "cmdNumbered"
    BY <1>1 DEF CmdFunction, CmdArgs, CmdId, Step, At, Locals
  <2>2. Got(1) /\ pc[c0] \in CommandAt /\ l2 # "playing"
    BY <1>0, <2>1, ReceiveEffect DEF CommandAt
  <2> QED BY <1>0, <2>1, <2>2, CommandTakesLeads, GamesKept, OthersConsole DEF Got
<1>2. CASE CmdNumbered \/ CmdEcho \/ CmdSleep \/ CmdQuits \/ CmdExit
  <2>1. Quiet
    BY <1>2, QuietEffect DEF CmdNumbered, CmdEcho, CmdSleep, CmdQuits, CmdExit, Test, Step
  <2>2. PICK l2 \in {"run", "ended", "dead"} :
           /\ Goto(l2) /\ currentId' = currentId /\ asked' = asked
           /\ pc[c0] \in CommandAt \ {"cmdStart", "cmdArgs", "cmdId"}
    BY <1>2 DEF CmdNumbered, CmdEcho, CmdSleep, CmdQuits, CmdExit, Test, Step, At, Locals, CommandAt
  <2> QED BY <1>0, <2>1, <2>2, CommandRunsLeads, GamesKept, OthersConsole
<1>3. ~CmdGame
  <2>1. ASSUME CmdGame PROVE FALSE
    <3>1. pc[c0] = "run" /\ job[c0] = GameCmd
      BY <2>1 DEF CmdGame, Step, At
    <3>2. job[c0] = asked[c0].fn /\ asked[c0].fn \in Functions
      BY <3>1, CommandFacts DEF SInv, Informed, CommandAt
    <3> QED BY <3>1, <3>2 DEF NoGames
  <2> QED BY <2>1
<1>4. ~CmdPlays
  BY <1>0 DEF CmdPlays, Step, At, CommandAt
<1>5. CASE CmdEnded \/ CmdPrinted
  <2>1. PICK l2 \in {"printed", "exit"}, v \in {Zero, DEAD} :
           /\ Send(10 + myId[c0], v) /\ Goto(l2) /\ currentId' = currentId /\ asked' = asked
           /\ pc[c0] \in {"ended", "printed"}
    BY <1>5 DEF CmdEnded, CmdPrinted, Step, At, Locals
  <2> DEFINE ch == 10 + asked[c0].sh
  <2>2. pc[c0] \in CommandAt \ {"cmdStart", "cmdArgs", "cmdId"}
    BY <2>1 DEF CommandAt
  <2>3. myId[c0] = asked[c0].sh /\ ch \in ReportCh /\ ch \in Channels \ {42, 43} /\ v \in Values
    BY <1>0, <2>1, <2>2, CommandFacts, Numbers DEF SInv, Informed, ShellIds, ReportCh
  <2>4. Sent(ch, v)
    BY <2>1, <2>3, SendEffect
  <2>5. ~\E r \in Procs : Passed(ch, v, r)
    BY <2>3, Numbers DEF SInv, Places, ReadsAt, ShellIds, ReportCh, Passed
  <2>6. Quiet \/ Offered(ch, v)
    BY <2>4, <2>5 DEF Sent
  <2> HIDE DEF ch
  <2> QED BY <1>0, <2>1, <2>2, <2>3, <2>6, CommandRunsLeads, GamesKept, OthersConsole
<1> QED BY <1>1, <1>2, <1>3, <1>4, <1>5 DEF ShellCommandProcess

\* The process of the games does no more than wait to be asked for one.
LEMMA ScreenOnlyWaits ==
    ASSUME KInv, SInv, GamesRest, ScreenProcess
    PROVE  /\ GameAsked /\ c0 = Screen /\ pc[c0] = "screen"
           /\ \A s \in Procs : sends[s] # 42
<1>1. pc[c0] \in ScreenAt
  BY DEF ScreenProcess, GameAsked, SnakeOn, SnakeStop, SnakeTake, SnakeOff, SnakePlays,
     SnakeLoses, GameOver, Step, Test, At, ScreenAt
<1>2. c0 = Screen /\ c0 \in Procs /\ c0 <= maxId /\ Free(c0)
  BY <1>1, Who, NumberedProcesses
<1>3. pc[c0] = "screen"
  BY <1>2, Numbers DEF GamesRest, Free
<1>4. GameAsked
  BY <1>3 DEF ScreenProcess, SnakeOn, SnakeStop, SnakeTake, SnakeOff, SnakePlays,
     SnakeLoses, GameOver, Step, Test, At
<1>5. ASSUME NEW s \in Procs, sends[s] = 42 PROVE FALSE
  <2>1. SendsAt(s, 42, pc[s]) /\ pc[s] # "playing"
    BY <1>5 DEF SInv, Places, GamesRest
  <2>2. s = Screen
    BY <2>1, Numbers DEF SendsAt, ShellIds, ReportCh
  <2> QED BY <1>2, <1>5, <2>2, Numbers DEF Free
<1> QED BY <1>2, <1>3, <1>4, <1>5

\* The process of the games at most begins to wait to be asked for one.
LEMMA ScreenCompany ==
    ASSUME KInv, SInv, CompanyInv, NoGames, Accompanied, ScreenProcess
    PROVE  GamesRest' /\ SomeoneLeads'
<1>1. /\ GamesRest /\ SomeoneLeads /\ GameAsked /\ c0 = Screen /\ pc[c0] = "screen"
      /\ \A s \in Procs : sends[s] # 42
  BY ScreenOnlyWaits DEF CompanyInv
<1>2. Got(42) /\ Goto("snake") /\ currentId' = currentId /\ asked' = asked
  BY <1>1, ReceiveEffect, Numbers DEF GameAsked, Step, Locals
<1>3. Awaited(42)
  BY <1>1, <1>2 DEF Got, Taken
<1>4. SomeoneLeads'
  BY <1>1, <1>2, <1>3, ScreenWaitsLeads
<1>5. /\ c0 \in Procs /\ c0 # Main /\ Main \in Procs
      /\ \A p \in Procs : pc'[p] = IF p = c0 THEN "snake" ELSE pc[p]
      /\ reads'[c0] = 42 /\ sends' = sends
  BY <1>1, <1>2, <1>3, Who, Links DEF SInv, Typed, Goto, Awaited, ScreenAt
<1>6. GamesRest'
  BY <1>1, <1>2, <1>5 DEF GamesRest, InBoot
<1> QED BY <1>4, <1>6

\* A tick of the timer changes nothing of all this.
LEMMA TickCompany ==
    ASSUME KInv, SInv, CompanyInv, Accompanied, UNCHANGED progVars,
           OnTimerInterrupt \/ UNCHANGED vars
    PROVE  CompanyInv'
<1>1. Quiet /\ NobodyExits
  BY QuietEffect, CallsReturn
<1>2. /\ sends' = sends /\ reads' = reads /\ maxId' = maxId /\ currentId' = currentId
      /\ pc' = pc /\ asked' = asked
  BY <1>1 DEF Quiet, progVars
<1>3. GamesRest'
  BY <1>2 DEF CompanyInv, GamesRest, Free, InBoot
<1>4. SomeoneLeads'
  <2>1. PICK h \in Procs : Leads(h)
    BY DEF CompanyInv, SomeoneLeads
  <2>2. ASSUME NEW q \in Procs, Fresh(q) PROVE Fresh(q)'
    BY <1>2, <2>2 DEF Fresh, Free
  <2> QED BY <1>2, <2>1, <2>2, LeaderKept
<1>5. DeadAreDone'
  BY <1>1, <1>2 DEF CompanyInv, DeadAreDone, NobodyExits
<1> QED BY <1>3, <1>4, <1>5 DEF CompanyInv

\* The strengthening is kept by every step.
LEMMA CompanyStep ==
    ASSUME KInv, SInv, CompanyInv, NoGames, Accompanied, [ShNext]_shVars
    PROVE  CompanyInv'
<1>1. CASE Program
  <2>1. GamesRest' /\ SomeoneLeads'
    BY <1>1, MainCompany, ShellCompany, CommandCompany, ScreenCompany DEF Program
  <2>2. DeadAreDone'
    BY <1>1, DeadStep DEF CompanyInv
  <2> QED BY <2>1, <2>2 DEF CompanyInv
<1>2. CASE Tick \/ UNCHANGED shVars
  BY <1>2, TickCompany DEF Tick, shVars
<1> QED BY <1>1, <1>2 DEF ShNext

\* kernel_main begins as the leader.
LEMMA InitCompany == ShInit => CompanyInv
<1> SUFFICES ASSUME ShInit PROVE CompanyInv
  OBVIOUS
<1>1. /\ pc = [p \in Procs |-> IF p = Main THEN "boot" ELSE "none"]
      /\ call = [p \in Procs |-> NoCall] /\ maxId = 0 /\ Init
  BY DEF ShInit, Init
<1>2. \A p \in Procs : sends[p] = NoChannel
  BY <1>1 DEF Init, sends
<1>3. InBoot /\ Main \in Procs /\ pc[Main] = "boot"
  BY <1>1, Numbers DEF InBoot, BootAt
<1>4. GamesRest
  <2>1. ~(Screen <= maxId)
    BY <1>1, Numbers DEF Screen
  <2>2. \A p \in Procs : pc[p] # "playing" /\ sends[p] # 43
    BY <1>1, <1>2, Numbers
  <2> QED BY <1>3, <2>1, <2>2 DEF GamesRest
<1>5. Leads(Main)
  BY <1>3 DEF Leads, Holds, Messages
<1>6. DeadAreDone
  BY <1>1 DEF DeadAreDone, NoCall, Exited, In
<1> QED BY <1>3, <1>4, <1>5, <1>6 DEF CompanyInv, SomeoneLeads

-----------------------------------------------------------------------------
\* No other process can run.
Alone == \A p \in 0 .. maxId : p # c0 => ~Free(p) \/ pc[p] = "dead"

\* The last process of the ring is alone.
LEMMA LastIsAlone ==
    ASSUME KInv, DeadAreDone, next[currentProcess] = currentProcess
    PROVE  Alone
<1>1. /\ IInv /\ Allocated = 0 .. maxId /\ 0 .. maxId \subseteq Procs
      /\ c0 \in Live /\ IsRing(Live, next, prev) /\ next[c0] = c0
  BY NumberedProcesses, CurrentIsLive DEF c0
<1>2. Live = {c0}
  <2>1. {c0} \in SUBSET Live /\ {c0} # {} /\ \A p \in {c0} : next[p] \in {c0}
    BY <1>1
  <2> QED BY <1>1, <2>1 DEF IsRing
<1>3. ASSUME NEW p \in 0 .. maxId, p # c0, Free(p) PROVE pc[p] = "dead"
  <2>1. state[p] \notin BlockedStates
    <3>1. ASSUME state[p] \in BlockedStates PROVE call[p].on \in Channels
      BY <1>1, <3>1 DEF IInv, BlockedCanBeWoken, Blocked, BlockedStates
    <3>2. SendsReads /\ p \in Procs
      BY <1>1, SendsReadsNow
    <3> QED BY <1>3, <3>1, <3>2, Numbers DEF SendsReads, Free, BlockedStates
  <2>2. call[p] = Exited
    BY <1>1, <1>2, <1>3, <2>1, LiveMember DEF BlockedStates
  <2> QED BY <1>1, <2>2 DEF DeadAreDone
<1> QED BY <1>3 DEF Alone

\* A console that kernel_main starts waits for that, or is about to.
LEMMA ConsoleIsReady ==
    ASSUME KInv, SInv, ~InBoot, NEW s, s + 1 \in ShellIds, s \in Nat, ~Holds(s)
    PROVE  /\ s \in Procs /\ s \in 0 .. maxId /\ pc[s] # "dead" /\ s # Main
           /\ \/ pc[s] = "shellOff" /\ Free(s)
              \/ pc[s] = "line" /\ reads[s] = s + 1
<1>1. /\ maxId > NumShells /\ maxId \in Nat /\ 0 .. maxId \subseteq Procs /\ NumShells \in Nat
  BY NumberedProcesses, Numbers DEF SInv, MainIsAt
<1>2. IsShell(s) /\ s \in 0 .. maxId /\ s <= maxId /\ s \in Procs /\ s # Main /\ s # Screen /\ ~IsCommand(s)
  BY <1>1, Numbers DEF IsShell, ShellIds, Screen, IsCommand
<1>3. pc[s] \in ShellAt /\ pc[s] \notin StartAt
  BY <1>1, <1>2 DEF SInv, Kinds, KindOf, ShellsBoot, Boots
<1>4. pc[s] \in {"shellOff", "line"}
  BY <1>2, <1>3 DEF Holds, ShellAt
<1>5. SendsAt(s, sends[s], pc[s]) /\ ReadsAt(s, reads[s], pc[s])
  BY <1>2 DEF SInv, Places
<1>6. CASE pc[s] = "shellOff"
  <2>1. sends[s] # 1
    BY <1>2, <1>6 DEF Holds
  <2> QED BY <1>2, <1>5, <1>6, <2>1 DEF SendsAt, ReadsAt, Free
<1>7. CASE pc[s] = "line"
  <2>1. ~Free(s)
    BY <1>2, <1>7 DEF Holds
  <2> QED BY <1>2, <1>5, <1>7, <2>1, Numbers DEF SendsAt, ReadsAt, Free, ShellIds
<1> QED BY <1>2, <1>4, <1>6, <1>7

\* While kernel_main creates the shells: a process that is alone leads, or is the
\* new shell, and kernel_main is at the other end of channel 1.
LEMMA AloneInBoot ==
    ASSUME KInv, SInv, Alone, InBoot
    PROVE  \/ c0 = Main
           \/ pc[c0] = "shellStart" /\ sends[Main] = 1
           \/ pc[c0] = "shellNumbered" /\ reads[Main] = 1
<1> SUFFICES ASSUME c0 # Main
             PROVE  \/ pc[c0] = "shellStart" /\ sends[Main] = 1
                    \/ pc[c0] = "shellNumbered" /\ reads[Main] = 1
  OBVIOUS
<1>1. /\ Main \in 0 .. maxId /\ Main \in Procs /\ maxId \in Nat /\ maxId \in Procs
      /\ maxId \in 0 .. maxId
  BY NumberedProcesses, Numbers
<1>2. ~Free(Main)
  BY <1>1 DEF Alone, InBoot, BootAt
<1>3. /\ SendsAt(Main, sends[Main], pc[Main]) /\ ReadsAt(Main, reads[Main], pc[Main])
      /\ ~IsShell(Main) /\ Main # Screen /\ ~IsCommand(Main)
  BY <1>1, Numbers DEF SInv, Places, IsShell, Screen, IsCommand
<1>4. \/ pc[Main] = "shellReady" /\ sends[Main] = 1
      \/ pc[Main] = "create" /\ reads[Main] = 1
  <2>1. \/ sends[Main] # NoChannel
        \/ reads[Main] # NoChannel
    BY <1>2 DEF Free
  <2>2. CASE sends[Main] # NoChannel
    BY <1>1, <1>3, <2>2, Numbers DEF SendsAt, InBoot, BootAt, ShellIds
  <2>3. CASE reads[Main] # NoChannel
    <3>1. reads[Main] # Main + 1 \/ Main + 1 \notin ShellIds
      BY Numbers DEF ShellIds
    <3> QED BY <1>1, <1>3, <2>3, <3>1, Numbers DEF ReadsAt, InBoot, BootAt, ShellIds
  <2> QED BY <2>1, <2>2, <2>3
<1>5. maxId \in 1 .. NumShells
  BY <1>1, <1>2, <1>4, Numbers DEF SInv, MainIsAt
<1>6. Booting(maxId)
  BY <1>1, <1>2, <1>4, <1>5 DEF SInv, ShellsBoot, Boots, IsShell, NewShell
<1>7. pc[maxId] \in StartAt => maxId = c0 \/ ~Free(maxId)
  BY <1>1 DEF Alone, StartAt
<1>8. CASE pc[Main] = "shellReady" /\ sends[Main] = 1
  <2>1. pc[maxId] = "shellStart" /\ Free(maxId)
    BY <1>2, <1>6, <1>8 DEF Booting
  <2> QED BY <1>7, <1>8, <2>1 DEF StartAt
<1>9. CASE pc[Main] = "create" /\ reads[Main] = 1
  <2>1. pc[maxId] = "shellNumbered" /\ Free(maxId)
    BY <1>6, <1>9 DEF Booting
  <2> QED BY <1>7, <1>9, <2>1 DEF StartAt
<1> QED BY <1>4, <1>8, <1>9

\* After that: a process that is alone leads, or what it waits for has come.
LEMMA AloneAfterBoot ==
    ASSUME KInv, SInv, GamesRest, SomeoneLeads, Alone, ~InBoot
    PROVE  \/ Holds(c0)
           \/ pc[c0] = "shellOff" /\ sends[Main] = c0 + 1
           \/ /\ pc[c0] \in {"stopped", "cmdStart", "cmdArgs", "cmdId"}
              /\ \E h \in Procs : sends[h] = 1
<1> SUFFICES ASSUME ~Holds(c0)
             PROVE  \/ pc[c0] = "shellOff" /\ sends[Main] = c0 + 1
                    \/ /\ pc[c0] \in {"stopped", "cmdStart", "cmdArgs", "cmdId"}
                       /\ \E h \in Procs : sends[h] = 1
  OBVIOUS
<1>1. PICK h \in Procs : Leads(h)
  BY DEF SomeoneLeads
<1>2. /\ Main \in 0 .. maxId /\ Main \in Procs /\ maxId \in Nat /\ h # c0 /\ Holds(h)
      /\ \A p \in Procs : p # h => ~Holds(p)
      /\ ~IsShell(Main) /\ Main # Screen /\ ~IsCommand(Main)
  BY <1>1, NumberedProcesses, Numbers DEF Leads, SInv, OneHolder, IsShell, Screen, IsCommand
<1>3. h <= maxId => h \in 0 .. maxId
  BY Whose, Numbers
<1>4. CASE h = Main
  <2>1. ~Free(Main)
    BY <1>2, <1>4, Numbers DEF Holds, Alone
  <2>2. pc[Main] = "idle"
    BY <1>2, <1>4, <2>1 DEF Holds
  <2>3. sends[Main] \in ShellIds
    <3>1. SendsAt(Main, sends[Main], pc[Main]) /\ ReadsAt(Main, reads[Main], pc[Main])
          /\ sends[Main] # 43
      BY <1>2 DEF SInv, Places, GamesRest
    <3>2. ~(reads[Main] \in ShellIds /\ Main = reads[Main] - 1)
      BY Numbers DEF ShellIds
    <3>3. reads[Main] = NoChannel
      BY <1>2, <2>2, <3>1, <3>2 DEF ReadsAt
    <3> QED BY <1>2, <2>1, <2>2, <3>1, <3>3, Numbers DEF SendsAt, Free
  <2>4. PICK s \in Nat : s + 1 = sends[Main]
    <3>1. sends[Main] - 1 \in Nat /\ (sends[Main] - 1) + 1 = sends[Main]
      BY <2>3, Numbers DEF ShellIds
    <3> QED BY <3>1
  <2>5. ~Holds(s)
    <3>1. s \in Procs => s # Main
      BY <2>3, <2>4, Numbers DEF ShellIds
    <3>2. IsShell(s) \/ s = Screen => s \in Procs
      BY <2>3, <2>4, NumberedProcesses, Numbers DEF SInv, MainIsAt, ShellIds, IsShell, Screen
    <3>3. Holds(s) => s \in Procs
      BY <1>2, <3>2 DEF Holds
    <3> QED BY <1>2, <1>4, <3>1, <3>3
  <2>6. /\ s \in Procs /\ s \in 0 .. maxId /\ pc[s] # "dead"
        /\ \/ pc[s] = "shellOff" /\ Free(s)
           \/ pc[s] = "line" /\ reads[s] = s + 1
    BY <2>3, <2>4, <2>5, ConsoleIsReady
  <2>7. reads[s] # s + 1
    BY <1>2, <2>3, <2>4, <2>6, Links, Numbers
  <2> QED BY <2>4, <2>6, <2>7 DEF Alone
<1>5. CASE IsShell(h) /\ pc[h] \in ActiveAt \cup {"line"}
  <2>1. h \in 0 .. maxId /\ pc[h] # "dead"
    BY <1>3, <1>5, Whose DEF ShellAt, ActiveAt
  <2>2. ~Free(h)
    BY <1>2, <2>1 DEF Alone
  <2>3. /\ SendsAt(h, sends[h], pc[h]) /\ ReadsAt(h, reads[h], pc[h])
        /\ h # Main /\ h # Screen /\ ~IsCommand(h)
    BY <1>2, <1>5, Whose DEF SInv, Places, ShellAt
  <2>4. sends[h] = 1 /\ pc[h] \in {"sendArgs", "sendId", "wait", "pollDone"}
    BY <1>2, <1>5, <2>2, <2>3, Numbers DEF Holds, SendsAt, ReadsAt, Free, ActiveAt
  <2>5. PICK q \in Procs : Fresh(q) /\ asked[q].sh = h + 1
    BY <1>1, <2>4 DEF Leads, Messages, NewCommandOf
  <2>6. q \in 0 .. maxId /\ Hands(h, q)
    <3>1. q \in 0 .. maxId /\ Hands(asked[q].sh - 1, q) /\ h \in Nat
      BY <2>5, FreshCommand, Numbers
    <3>2. asked[q].sh - 1 = h
      BY <2>5, <3>1
    <3> QED BY <3>1, <3>2
  <2>7. Free(q) /\ pc[q] \in {"cmdStart", "cmdArgs", "cmdId"}
    BY <2>4, <2>6, Numbers DEF Hands, Free
  <2>8. q = c0
    BY <2>6, <2>7 DEF Alone
  <2> QED BY <2>4, <2>7, <2>8
<1>6. CASE IsShell(h) /\ pc[h] = "shellOff" /\ sends[h] = 1
  <2>1. pc[Main] = "stopped" /\ Free(Main)
    BY <1>1, <1>6 DEF Leads
  <2>2. c0 = Main
    BY <1>2, <2>1 DEF Alone
  <2> QED BY <1>6, <2>1, <2>2
<1>7. h # Screen
  <2> SUFFICES ASSUME h = Screen PROVE FALSE
    OBVIOUS
  <2>1. Screen \in Procs /\ ~IsShell(Screen) /\ Holds(Screen)
    BY <1>2, Numbers DEF IsShell, Screen
  <2>2. \/ pc[Screen] \in {"snakeTake", "snakeTook", "play"}
        \/ pc[Screen] = "snake" /\ sends[Screen] = 1
    BY <1>2, <2>1 DEF Holds
  <2>3. Screen <= maxId
    BY <2>1, <2>2, Whose DEF ScreenAt
  <2>4. sends[Screen] = 1 /\ reads[Screen] = 42
    BY <2>2, <2>3 DEF GamesRest
  <2> QED BY <2>1, <2>4, Links, Numbers
<1> QED BY <1>2, <1>4, <1>5, <1>6, <1>7 DEF Holds

-----------------------------------------------------------------------------
\* send puts its caller to wait only when nobody uses the channel.
LEMMA SendWaits ==
    ASSUME KInv, NEW ch \in Channels, NEW v, Send(ch, v), state'[c0] \in BlockedStates
    PROVE  \A p \in Procs : sends[p] # ch /\ reads[p] # ch
<1>1. /\ c0 \in Procs /\ state[c0] \notin BlockedStates
      /\ state \in [Procs -> ProcessStates]
  BY NumberedProcesses, CurrentIsLive DEF c0, IInv, TypeOK
<1>2. ~SendRefused(ch, v)
  BY <1>1 DEF SendRefused, vars, ringVars
<1>3. ~SendWakes(ch, v)
  BY <1>1 DEF SendWakes, BlockedStates
<1>4. channels[ch].state = "Unused" /\ ch # NoChannel
  BY <1>2, <1>3, Numbers DEF Send, SendBlocks
<1>5. ASSUME NEW p \in Procs, sends[p] = ch PROVE FALSE
  <2>1. channels[sends[p]].state = "Sender"
    BY <1>4, <1>5, Links
  <2> QED BY <1>4, <1>5, <2>1
<1>6. ASSUME NEW p \in Procs, reads[p] = ch PROVE FALSE
  <2>1. channels[reads[p]].state = "Receiver"
    BY <1>4, <1>6, Links
  <2> QED BY <1>4, <1>6, <2>1
<1> QED BY <1>5, <1>6

\* receive puts its caller to wait only when nobody sends on the channel.
LEMMA ReceiveWaits ==
    ASSUME KInv, NEW ch \in Channels, Receive(ch), state'[c0] \in BlockedStates
    PROVE  \A p \in Procs : sends[p] # ch
<1>1. /\ c0 \in Procs /\ state[c0] \notin BlockedStates
      /\ state \in [Procs -> ProcessStates]
  BY NumberedProcesses, CurrentIsLive DEF c0, IInv, TypeOK
<1>2. ~ReceiveTakes(ch)
  BY <1>1 DEF ReceiveTakes, BlockedStates
<1>3. channels[ch].state # "Sender" /\ ch # NoChannel
  BY <1>2, Numbers DEF Receive, ReceiveBlocks
<1>4. ASSUME NEW p \in Procs, sends[p] = ch PROVE FALSE
  <2>1. channels[sends[p]].state = "Sender"
    BY <1>3, <1>4, Links
  <2> QED BY <1>3, <1>4, <2>1
<1> QED BY <1>4

\* No other call puts its caller to wait.
LEMMA OthersGoOn ==
    ASSUME KInv, \/ EnableTaskSwitch \/ Yield \/ OnTimerInterrupt \/ Exit \/ UNCHANGED vars
                 \/ NewProcess(maxId + 1)
    PROVE  state'[c0] \notin BlockedStates
<1>1. /\ c0 \in Procs /\ state[c0] \notin BlockedStates
      /\ state \in [Procs -> ProcessStates]
  BY NumberedProcesses, CurrentIsLive DEF c0, IInv, TypeOK
<1>2. \/ state' = state
      \/ state' = [state EXCEPT ![maxId + 1] = "Runnable"]
  BY DEF EnableTaskSwitch, Yield, OnTimerInterrupt, TimerTick, TimerSwitch, Exit, NewProcess,
     vars, ringVars
<1> QED BY <1>1, <1>2 DEF BlockedStates

-----------------------------------------------------------------------------
\* The places at which a call may put the process on the CPU to wait, and what
\* it does not find there.
Unheard(ch) == \A p \in Procs : reads[p] # ch
Unsent(ch)  == \A p \in Procs : sends[p] # ch
Waiting ==
    \/ pc[c0] \in {"number", "shellNumbered", "sendFunction", "sendArgs", "sendId", "tookStop"}
          /\ Unheard(1)
    \/ pc[c0] = "firstShell" /\ Unheard(2)
    \/ pc[c0] = "start" /\ Unheard(currentId)
    \/ pc[c0] \in {"shellReady", "stopped", "shellStart", "cmdStart", "cmdArgs", "cmdId"}
          /\ Unsent(1)
    \/ pc[c0] = "shellOff" /\ Unsent(c0 + 1)
    \/ pc[c0] \in {"waitTake", "takeDone"} /\ Unsent(11 + c0)
    \/ pc[c0] = "takeStop" /\ Unsent(0)
    \/ pc[c0] \in {"keys", "ended", "printed", "screen"}

\* kernel_main waits at these places.
LEMMA MainWaits ==
    ASSUME KInv, SInv, GamesRest, NoGames, KernelMain, state'[c0] \in BlockedStates
    PROVE  Waiting
<1>1. {0, 1, 2} \subseteq Channels /\ ShellIds \subseteq Channels /\ Game \notin ShellIds
  BY Numbers DEF ShellIds, NoGames
<1>2. ~EnableTaskSwitch /\ ~Yield /\ ~NewProcess(maxId + 1)
  BY OthersGoOn
<1>3. ~Boot /\ ~CreateShell /\ ~CreateScreen /\ ~Idle /\ ~NoKeys
  BY <1>2 DEF Boot, CreateShell, CreateScreen, Idle, NoKeys, Create, Step
<1>4. CASE NumberShell
  BY <1>1, <1>4, SendWaits DEF NumberShell, Step, At, Waiting, Unheard
<1>5. CASE ShellReady \/ AwaitStopped
  BY <1>1, <1>5, ReceiveWaits DEF ShellReady, AwaitStopped, Step, At, Waiting, Unsent
<1>6. CASE FirstShell
  BY <1>1, <1>6, SendWaits DEF FirstShell, At, Waiting, Unheard
<1>7. ASSUME NEW k \in Consoles, StopConsole(k) PROVE Waiting
  BY <1>7 DEF StopConsole, At, Waiting
<1>8. CASE StartConsole
  <2>1. pc[c0] = "start" /\ c0 = Main
    BY <1>8, Who DEF StartConsole, Step, At, MainAt
  <2>2. currentId \in ShellIds
    BY <2>1 DEF GamesRest, InBoot, BootAt
  <2>3. Send(currentId, Zero)
    BY <1>1, <1>8, <2>2 DEF StartConsole, Step
  <2> QED BY <1>1, <2>1, <2>2, <2>3, SendWaits DEF Waiting, Unheard
<1> QED BY <1>3, <1>4, <1>5, <1>6, <1>7, <1>8 DEF KernelMain

\* A shell waits at these places.
LEMMA ShellWaits ==
    ASSUME KInv, SInv, ShellProcess, state'[c0] \in BlockedStates
    PROVE  Waiting
<1>1. {0, 1} \subseteq Channels /\ ShellIds \subseteq Channels /\ ReportCh \subseteq Channels
  BY Numbers
<1>2. ~Yield /\ ~UNCHANGED vars /\ ~NewProcess(maxId + 1)
  BY OthersGoOn
<1>3. /\ ~NoCommand /\ ~WaitProbe /\ ~WaitTaken /\ ~CtrlC /\ ~WaitStop /\ ~WaitOn
      /\ ~PollDone /\ ~PollStop /\ ~NoStop /\ \A f, bg : ~Start(f, bg)
  BY <1>2 DEF NoCommand, WaitProbe, WaitTaken, CtrlC, WaitStop, WaitOn, PollDone, PollStop,
     NoStop, Start, Create, Step, Test
<1>4. CASE ShellStart
  BY <1>1, <1>4, ReceiveWaits DEF ShellStart, Step, At, Waiting, Unsent
<1>5. CASE ShellNumbered
  BY <1>1, <1>5, SendWaits DEF ShellNumbered, At, Waiting, Unheard
<1>6. CASE ShellOn
  <2>1. pc[c0] = "shellOff" /\ Receive(myId[c0])
    BY <1>6 DEF ShellOn, Step, At
  <2>2. IsShell(c0) /\ c0 \in Procs /\ c0 <= maxId
    BY <2>1, Who, Whose DEF ShellAt
  <2>3. myId[c0] = c0 + 1 /\ c0 + 1 \in ShellIds
    BY <2>1, <2>2, Whose DEF SInv, ShellsBoot, Boots, StartAt
  <2> QED BY <1>1, <2>1, <2>3, ReceiveWaits DEF Waiting, Unsent
<1>7. CASE SendFunction \/ SendArgs \/ SendId \/ ShellOff
  BY <1>1, <1>7, SendWaits
     DEF SendFunction, SendArgs, SendId, ShellOff, Step, At, Waiting, Unheard
<1>8. CASE WaitTake \/ TakeDone
  <2>1. pc[c0] \in {"waitTake", "takeDone"} /\ Receive(10 + myId[c0])
    BY <1>8 DEF WaitTake, TakeDone, Step, At
  <2>2. 10 + myId[c0] = 11 + c0 /\ 11 + c0 \in Channels
    BY <2>1, ShellSees DEF ActiveAt
  <2> QED BY <2>1, <2>2, ReceiveWaits DEF Waiting, Unsent
<1>9. CASE TakeStop
  BY <1>1, <1>9, ReceiveWaits DEF TakeStop, Step, At, Waiting, Unsent
<1> QED BY <1>3, <1>4, <1>5, <1>6, <1>7, <1>8, <1>9 DEF ShellProcess

\* So do a command and, as nobody asks for a game, the process of the games.
LEMMA CommandWaits ==
    ASSUME KInv, SInv, GamesRest, NoGames, ShellCommandProcess \/ ScreenProcess,
           state'[c0] \in BlockedStates
    PROVE  Waiting
<1>1. ~Yield /\ ~Exit /\ ~UNCHANGED vars /\ 1 \in Channels
  BY OthersGoOn, Numbers
<1>2. CASE ShellCommandProcess
  <2>1. ~CmdNumbered /\ ~CmdEcho /\ ~CmdSleep /\ ~CmdQuits /\ ~CmdExit
    BY <1>1 DEF CmdNumbered, CmdEcho, CmdSleep, CmdQuits, CmdExit, Step, Test, vars
  <2>2. CASE CmdFunction \/ CmdArgs \/ CmdId
    BY <1>1, <2>2, ReceiveWaits DEF CmdFunction, CmdArgs, CmdId, Step, At, Waiting, Unsent
  <2>3. ~CmdGame
    <3> SUFFICES ASSUME CmdGame PROVE FALSE
      OBVIOUS
    <3>1. pc[c0] = "run" /\ job[c0] = GameCmd
      BY DEF CmdGame, Step, At
    <3>2. c0 \in Procs /\ asked[c0].fn \in Functions
      BY <3>1, CommandFacts DEF CommandAt
    <3> QED BY <3>1, <3>2 DEF SInv, Informed, NoGames
  <2>4. ~CmdPlays
    BY Who DEF CmdPlays, Step, At, GamesRest
  <2>5. CASE CmdEnded \/ CmdPrinted
    BY <2>5 DEF CmdEnded, CmdPrinted, Step, At, Waiting
  <2> QED BY <1>2, <2>1, <2>2, <2>3, <2>4, <2>5 DEF ShellCommandProcess
<1>3. CASE ScreenProcess
  <2>1. pc[c0] \in ScreenAt
    BY <1>3 DEF ScreenProcess, GameAsked, SnakeOn, SnakeStop, SnakeTake, SnakeOff, SnakePlays,
       SnakeLoses, GameOver, Step, Test, At, ScreenAt
  <2>2. c0 = Screen /\ c0 \in Procs /\ Free(c0) /\ c0 <= maxId
    BY <2>1, Who, Whose
  <2>3. pc[c0] = "screen"
    BY <2>2, Numbers DEF GamesRest, Free
  <2> QED BY <2>3 DEF Waiting
<1> QED BY <1>2, <1>3

-----------------------------------------------------------------------------
\* While kernel_main creates the shells, a process that is alone does not wait.
LEMMA BootGoesOn ==
    ASSUME KInv, SInv, Alone, InBoot, Waiting
    PROVE  FALSE
<1>1. /\ c0 \in Procs /\ c0 \in 0 .. maxId /\ Free(c0) /\ maxId \in Nat /\ Main \in Procs
      /\ maxId \in Procs /\ maxId \in 0 .. maxId
  BY Who, NumberedProcesses
<1>2. CASE c0 # Main
  <2>1. \/ pc[c0] = "shellStart" /\ sends[Main] = 1
        \/ pc[c0] = "shellNumbered" /\ reads[Main] = 1
    BY <1>2, AloneInBoot
  <2> QED BY <1>1, <2>1 DEF Waiting, Unsent, Unheard
<1>3. CASE c0 = Main /\ pc[Main] \in {"number", "shellReady"}
  <2>1. maxId \in 1 .. NumShells
    BY <1>3 DEF SInv, MainIsAt
  <2>2. Booting(maxId) /\ maxId # Main
    BY <1>1, <1>3, <2>1, Numbers DEF SInv, ShellsBoot, Boots, IsShell, NewShell
  <2>3. ~Free(maxId) \/ pc[maxId] = "dead"
    BY <1>1, <1>3, <2>2 DEF Alone
  <2>4. \/ pc[Main] = "number" /\ reads[maxId] = 1
        \/ pc[Main] = "shellReady" /\ sends[maxId] = 1
    BY <1>1, <1>3, <2>2, <2>3, Numbers DEF Booting, Free
  <2> QED BY <1>1, <1>3, <2>4 DEF Waiting, Unsent, Unheard
<1>4. CASE c0 = Main /\ pc[Main] = "firstShell"
  <2>1. IsShell(1) /\ 1 \in 0 .. maxId /\ 1 <= maxId /\ 1 \in Procs /\ 1 # Main
    BY <1>4, Numbers, NumberedProcesses DEF SInv, MainIsAt, IsShell
  <2>2. Resting(1)
    BY <1>4, <2>1 DEF SInv, ShellsBoot, Boots, NewShell
  <2>3. ~Free(1) \/ pc[1] = "dead"
    BY <1>4, <2>1 DEF Alone
  <2>4. reads[1] = 2
    BY <2>2, <2>3 DEF Resting
  <2> QED BY <1>4, <2>1, <2>4 DEF Waiting, Unheard
<1>5. c0 = Main => pc[Main] \in {"number", "shellReady", "firstShell"}
  BY DEF InBoot, BootAt, Waiting
<1> QED BY <1>2, <1>3, <1>4, <1>5

\* Nor does a process that leads: whom it waits for is there.
LEMMA HolderGoesOn ==
    ASSUME KInv, SInv, CompanyInv, Alone, ~InBoot, Holds(c0), Waiting
    PROVE  FALSE
<1>1. /\ c0 \in Procs /\ c0 \in 0 .. maxId /\ Free(c0) /\ Main \in Procs /\ Main \in 0 .. maxId
      /\ \A p \in Procs : p # c0 => ~Holds(p)
  BY Who, NumberedProcesses, Numbers DEF SInv, OneHolder
<1>2. CASE c0 = Main
  <2>1. pc[Main] = "start" /\ Unheard(currentId)
    <3>1. ~IsShell(Main) /\ Main # Screen
      BY Numbers DEF IsShell, Screen
    <3>2. pc[Main] \in {"idle", "start"}
      BY <1>2, <3>1 DEF Holds
    <3> QED BY <1>2, <3>2 DEF Waiting
  <2>2. currentId \in ShellIds
    BY DEF CompanyInv, GamesRest
  <2>3. PICK s \in Nat : s + 1 = currentId
    <3>1. currentId - 1 \in Nat /\ (currentId - 1) + 1 = currentId
      BY <2>2, Numbers DEF ShellIds
    <3> QED BY <3>1
  <2>4. s # Main /\ s \in Procs
    <3>1. maxId > NumShells /\ maxId \in Nat /\ 0 .. maxId \subseteq Procs
      BY NumberedProcesses DEF SInv, MainIsAt
    <3> QED BY <2>2, <2>3, <3>1, Numbers DEF ShellIds
  <2>5. ~Holds(s)
    BY <1>1, <1>2, <2>4
  <2>6. /\ s \in Procs /\ s \in 0 .. maxId /\ pc[s] # "dead"
        /\ \/ pc[s] = "shellOff" /\ Free(s)
           \/ pc[s] = "line" /\ reads[s] = s + 1
    BY <2>2, <2>3, <2>5, ConsoleIsReady
  <2> QED BY <1>2, <2>1, <2>3, <2>4, <2>6 DEF Alone, Unheard
<1>3. CASE pc[c0] \in {"sendFunction", "sendArgs", "sendId"}
  <2>1. Unheard(1) /\ Leads(c0)
    BY <1>3, ShellLeads DEF Waiting, ActiveAt, CompanyInv
  <2>2. PICK q \in Procs : Fresh(q) /\ asked[q].sh = c0 + 1
    BY <1>3, <2>1 DEF Leads, Messages, NewCommandOf
  <2>3. q \in 0 .. maxId /\ Hands(c0, q) /\ q # c0
    <3>1. q \in 0 .. maxId /\ Hands(asked[q].sh - 1, q) /\ c0 \in Nat /\ IsCommand(q)
      BY <1>1, <2>2, FreshCommand, Numbers
    <3>2. asked[q].sh - 1 = c0 /\ ~IsCommand(c0)
      BY <1>3, <2>2, <3>1, Who DEF ShellAt, ActiveAt
    <3> QED BY <3>1, <3>2
  <2>4. Free(q) \/ reads[q] = 1
    BY <1>1, <1>3, <2>3 DEF Hands, Free
  <2>5. pc[q] # "dead"
    BY <2>2 DEF Fresh
  <2> QED BY <2>1, <2>2, <2>3, <2>4, <2>5 DEF Alone, Unheard
<1>4. CASE pc[c0] = "tookStop"
  <2>1. Unheard(1) /\ Stopping /\ c0 # Main
    BY <1>4, ShellLeads DEF Waiting, ActiveAt, CompanyInv, Leads
  <2>2. ~(pc[Main] = "stopped" /\ Free(Main))
    BY <1>1, <2>1 DEF Alone
  <2>3. pc[Main] = "start" /\ ~Free(Main)
    BY <2>1, <2>2 DEF Stopping
  <2>4. /\ SendsAt(Main, sends[Main], "start") /\ ReadsAt(Main, reads[Main], "start")
        /\ ~IsShell(Main) /\ Main # Screen /\ ~IsCommand(Main)
    BY <1>1, <2>3, Numbers DEF SInv, Places, IsShell, Screen, IsCommand
  <2>5. reads[Main] = 1
    BY <2>3, <2>4 DEF SendsAt, ReadsAt, Free
  <2> QED BY <1>1, <2>1, <2>5 DEF Unheard
<1>5. CASE pc[c0] \in {"waitTake", "takeDone"}
  BY <1>1, <1>5 DEF SInv, ReportIsThere, Waiting, Unsent
<1>6. CASE pc[c0] = "takeStop"
  BY <1>1, <1>6 DEF SInv, StopIsThere, Waiting, Unsent
<1>7. \/ c0 = Main
      \/ pc[c0] \in {"sendFunction", "sendArgs", "sendId", "tookStop", "waitTake", "takeDone", "takeStop"}
  <2>1. pc[c0] # "shellOff"
    BY <1>1, Numbers DEF Holds, Free, ActiveAt
  <2> QED BY <2>1 DEF Holds, Waiting, ActiveAt
<1> QED BY <1>2, <1>3, <1>4, <1>5, <1>6, <1>7

\* The last process of the ring is never put to wait.
LEMMA LastGoesOn ==
    ASSUME KInv, SInv, CompanyInv, Alone, Waiting
    PROVE  FALSE
<1>1. ~InBoot /\ ~Holds(c0)
  BY BootGoesOn, HolderGoesOn
<1>2. \/ pc[c0] = "shellOff" /\ sends[Main] = c0 + 1
      \/ /\ pc[c0] \in {"stopped", "cmdStart", "cmdArgs", "cmdId"}
         /\ \E h \in Procs : sends[h] = 1
  BY <1>1, AloneAfterBoot DEF CompanyInv
<1> QED BY <1>2, Numbers DEF Waiting, Unsent

\* Hence whoever is put to wait leaves another process in the ring, when nobody
\* asks for the games.
LEMMA CompanyAccompanies ==
    ASSUME KInv, SInv, CompanyInv, NoGames, [ShNext]_shVars
    PROVE  Accompanied
<1> SUFFICES ASSUME state'[c0] \in BlockedStates, next[currentProcess] = currentProcess
             PROVE  FALSE
  BY DEF Accompanied, c0
<1>1. Program
  BY OthersGoOn DEF ShNext, Tick, shVars
<1>2. Waiting
  BY <1>1, MainWaits, ShellWaits, CommandWaits DEF Program, CompanyInv
<1> QED BY <1>2, LastIsAlone, LastGoesOn DEF CompanyInv

\* So it does when the last process of the ring makes no call that would block
\* it.
LEMMA GuardAccompanies ==
    ASSUME ~LastMayBlock, KInv, [ShNext]_shVars
    PROVE  Accompanied
<1> SUFFICES ASSUME state'[c0] \in BlockedStates PROVE next[currentProcess] # currentProcess
  BY DEF Accompanied, c0
<1>1. Program
  BY OthersGoOn DEF ShNext, Tick, shVars
<1>2. PICK ch, v : SendBlocks(ch, v) \/ ReceiveBlocks(ch)
  <2>1. ~EnableTaskSwitch /\ ~Yield /\ ~Exit /\ ~UNCHANGED vars /\ ~NewProcess(maxId + 1)
    BY OthersGoOn
  <2>2. \/ \E ch, v : Send(ch, v)
        \/ \E ch : Receive(ch)
    BY <1>1, <2>1, ProgramCalls DEF Calling
  <2>3. /\ c0 \in Procs /\ state[c0] \notin BlockedStates
        /\ state \in [Procs -> ProcessStates]
    BY NumberedProcesses, CurrentIsLive DEF c0, IInv, TypeOK
  <2>4. \A ch, v : ~SendRefused(ch, v)
    BY <2>3 DEF SendRefused, vars, ringVars
  <2>5. \A ch, v : ~SendWakes(ch, v)
    BY <2>3 DEF SendWakes, BlockedStates
  <2>6. \A ch : ~ReceiveTakes(ch)
    BY <2>3 DEF ReceiveTakes, BlockedStates
  <2> QED BY <2>2, <2>4, <2>5, <2>6 DEF Send, Receive
<1> QED BY <1>2 DEF SendBlocks, ReceiveBlocks, MayBlock

-----------------------------------------------------------------------------
\* The invariant of the kernel and of the programs, when the last process of the
\* ring makes no call that would block it.
LEMMA GuardInvariant == ~LastMayBlock => (ShSpec => [](KInv /\ SInv))
<1> SUFFICES ASSUME ~LastMayBlock PROVE ShSpec => [](KInv /\ SInv)
  OBVIOUS
<1>1. KInv /\ SInv /\ [ShNext]_shVars => KInv' /\ SInv'
  BY ShStep, GuardAccompanies
<1> QED BY <1>1, InitSInv, PTL DEF ShSpec

\* The invariant when nobody asks for the games, whatever the last process does.
LEMMA CompanyInvariant == NoGames => (ShSpec => [](KInv /\ SInv /\ CompanyInv))
<1> SUFFICES ASSUME NoGames PROVE ShSpec => [](KInv /\ SInv /\ CompanyInv)
  OBVIOUS
<1>1. KInv /\ SInv /\ CompanyInv /\ [ShNext]_shVars => KInv' /\ SInv' /\ CompanyInv'
  BY ShStep, CompanyAccompanies, CompanyStep
<1> QED BY <1>1, InitSInv, InitCompany, PTL DEF ShSpec

\* In both cases.
LEMMA ShInvariant == (LastMayBlock => NoGames) => (ShSpec => [](KInv /\ SInv))
<1>1. CASE ~LastMayBlock
  BY <1>1, GuardInvariant
<1>2. ASSUME NoGames PROVE ShSpec => [](KInv /\ SInv)
  BY <1>2, CompanyInvariant, PTL
<1> QED BY <1>1, <1>2

\* Only the process on the CPU goes on in its program, and a shell that is to take
\* a report makes the call of receive for it.
LEMMA TakesByReceive ==
    ASSUME KInv, SInv, [ShNext]_shVars, NEW p \in Procs,
           pc[p] \in {"waitTake", "takeDone"}, pc'[p] # pc[p]
    PROVE  p = c0 /\ Receive(10 + myId[c0])
<1>1. Program
  BY DEF ShNext, Tick, shVars, progVars
<1>2. p = c0
  <2>1. pc[maxId + 1] = "none" \/ maxId + 1 \notin Procs
    BY NumberedProcesses DEF SInv, Kinds, KindOf
  <2>2. pc \in [Procs -> Labels] /\ c0 \in Procs
    BY Who DEF SInv, Typed
  <2>3. ASSUME p # c0 PROVE FALSE
    <3>1. ASSUME NEW l, Goto(l) PROVE FALSE
      BY <2>2, <2>3, <3>1 DEF Goto
    <3>2. ASSUME NEW l, NEW first, maxId + 1 \in Procs,
                 pc' = [pc EXCEPT ![c0] = l, ![maxId + 1] = first]
          PROVE  FALSE
      BY <2>1, <2>2, <2>3, <3>2
    <3> QED BY <1>1, <3>1, <3>2, ProgramCalls DEF Calling
  <2> QED BY <2>3
<1>3. pc[c0] \in {"waitTake", "takeDone"}
  BY <1>2
<1>4. ~KernelMain
  BY <1>3 DEF KernelMain, Boot, CreateShell, NumberShell, ShellReady, CreateScreen, FirstShell,
     Idle, NoKeys, StopConsole, AwaitStopped, StartConsole, Step, Create, At
<1>5. ~ShellCommandProcess
  BY <1>3 DEF ShellCommandProcess, CmdFunction, CmdArgs, CmdId, CmdNumbered, CmdEcho, CmdSleep,
     CmdGame, CmdPlays, CmdQuits, CmdEnded, CmdPrinted, CmdExit, Step, Test, At
<1>6. ~ScreenProcess
  BY <1>3 DEF ScreenProcess, GameAsked, SnakeOn, SnakeStop, SnakeTake, SnakeOff, SnakePlays,
     SnakeLoses, GameOver, Step, Test, At
<1>7. ShellProcess => WaitTake \/ TakeDone
  BY <1>3 DEF ShellProcess, ShellStart, ShellNumbered, ShellOn, NoCommand, Start, SendFunction,
     SendArgs, SendId, WaitProbe, WaitTaken, CtrlC, WaitStop, WaitOn, PollDone, PollStop, NoStop,
     TakeStop, ShellOff, Step, Test, Create, At
<1> QED BY <1>1, <1>2, <1>4, <1>5, <1>6, <1>7 DEF Program, WaitTake, TakeDone, Step

\* What a shell takes from its channel of reports is the report of a command of
\* its own, which goes on; if it is 0xDEAD, the command has printed.
LEMMA ReportTaken ==
    ASSUME KInv, SInv, pc[c0] \in {"waitTake", "takeDone"}, Receive(10 + myId[c0])
    PROVE  \E q \in Procs :
              /\ asked[q].sh = myId[c0] /\ pc[q] \in {"printed", "exit"}
              /\ state[q] = "BlockedWriting" /\ state'[q] = "Runnable"
              /\ pc[q] = "printed" => received'[c0] = Zero
<1> DEFINE ch == 11 + c0
           s == channels[ch].sendId
<1>1. /\ c0 \in Procs /\ IsShell(c0) /\ myId[c0] = c0 + 1
      /\ c0 \in Int /\ 10 + myId[c0] = ch
  BY ShellHolds, Numbers DEF ActiveAt, IsShell
<1>2. ch \in ReportCh /\ ch \in Channels /\ NoChannel \notin Channels
  BY <1>1, ShellsAssumption, KernelAssumption, Numbers DEF IsShell, ReportCh
<1>3. PICK q \in Procs : sends[q] = ch
  BY <1>1 DEF SInv, ReportIsThere
<1>4. q = s /\ channels[ch].state = "Sender" /\ reads[q] = NoChannel /\ q \in 0 .. maxId
  BY <1>2, <1>3, Links, Numbers
<1>5. IsCommand(q) /\ ch = 10 + asked[q].sh /\ pc[q] \in {"printed", "exit"}
  BY <1>1, <1>2, <1>3, Numbers DEF SInv, Places, SendsAt, IsShell, ReportCh, ShellIds
<1>6. asked[q].sh = myId[c0]
  BY <1>1, <1>5, Numbers DEF SInv, Typed, ShellIds
<1>7. ReceiveTakes(ch)
  BY <1>1, <1>4 DEF Receive, ReceiveBlocks
<1>8. /\ Process(s) = q /\ state \in [Procs -> ProcessStates]
      /\ received \in [Procs -> Values \cup {NoValue}]
  BY <1>4, NumberedProcesses DEF IInv, TypeOK
<1>9. state[q] = "BlockedWriting"
  BY <1>2, <1>3, SendsReadsNow DEF SendsReads
<1>10. state'[q] = "Runnable" /\ received'[c0] = value[ch]
  <2>1. /\ state' = [state EXCEPT ![q] = "Runnable"]
        /\ received' = [received EXCEPT ![c0] = channels[ch].value]
    BY <1>7, <1>8 DEF ReceiveTakes, c0
  <2>2. channels[ch].value = value[ch]
    BY <1>2 DEF value
  <2> QED BY <1>1, <1>8, <2>1, <2>2
<1>11. pc[q] = "printed" => value[ch] = Zero
  BY <1>2, <1>3 DEF SInv, LastReport, Free
<1> QED BY <1>5, <1>6, <1>9, <1>10, <1>11

\* A shell that takes 0xDEAD takes it from a command of its own that has printed.
LEMMA DeadMeansPrintedNow ==
    ASSUME KInv, SInv, [ShNext]_shVars, NEW p \in Procs,
           pc[p] \in {"waitTake", "takeDone"}, pc'[p] # pc[p], received'[p] = DEAD
    PROVE  \E q \in Procs : /\ asked[q].sh = myId[p] /\ pc[q] = "exit"
                            /\ state[q] = "BlockedWriting" /\ state'[q] = "Runnable"
<1>1. PICK me \in Procs : me = p
  OBVIOUS
<1>2. p = c0 /\ Receive(10 + myId[c0])
  BY TakesByReceive
<1>3. PICK q \in Procs : /\ asked[q].sh = myId[c0] /\ pc[q] \in {"printed", "exit"}
                         /\ state[q] = "BlockedWriting" /\ state'[q] = "Runnable"
                         /\ pc[q] = "printed" => received'[c0] = Zero
  BY <1>2, ReportTaken
<1>4. DEAD # Zero
  BY ShellsAssumption
<1> QED BY <1>2, <1>3, <1>4

\* The programs make only calls that Kernel allows, on channels and with values
\* it knows: what is proved of Kernel (the last process of the ring makes no call
\* that would block it) holds while they run.
THEOREM ProgramsRunOnTheKernel == (LastMayBlock => NoGames) => (ShSpec => Spec)
<1>1. ASSUME ~LastMayBlock PROVE ShSpec => Spec
  <2>1. KInv /\ SInv /\ [ShNext]_shVars => [Next]_vars
    BY <1>1, ShStep, GuardAccompanies
  <2>2. ShSpec => [](KInv /\ SInv)
    BY <1>1, GuardInvariant
  <2> QED BY <2>1, <2>2, InitSInv, PTL DEF ShSpec, Spec
<1>2. ASSUME NoGames PROVE ShSpec => Spec
  <2>1. KInv /\ SInv /\ CompanyInv /\ [ShNext]_shVars => [Next]_vars
    BY <1>2, ShStep, CompanyAccompanies
  <2>2. ShSpec => [](KInv /\ SInv /\ CompanyInv)
    BY <1>2, CompanyInvariant
  <2> QED BY <2>1, <2>2, InitSInv, PTL DEF ShSpec, Spec
<1> QED BY <1>1, <1>2

\* A process that waits in send or receive never has the CPU, even though the
\* kernel would let the last process of the ring block and keep it: as long as
\* nobody asks for the games, there is always another process to switch to.
THEOREM NobodyBlocksAlone == NoGames => (ShSpec => []WaitingProcessDoesNotRun)
<1> SUFFICES ASSUME NoGames PROVE ShSpec => []WaitingProcessDoesNotRun
  OBVIOUS
<1>1. KInv /\ SInv /\ CompanyInv => WaitingProcessDoesNotRun
  BY NumberedProcesses, CurrentIsLive DEF WaitingProcessDoesNotRun, BlockedStates
<1> QED BY <1>1, CompanyInvariant, PTL

\* So the calls of the programs keep the ring, the channels and the ids sound
\* although nothing in the kernel stops the last process from blocking.
THEOREM KernelStaysSound ==
    NoGames => (ShSpec => [](/\ RunQueueIsOneRing /\ ChannelsKnowTheirWaiters
                             /\ BlockedCanBeWoken /\ IdsIndexTheList))
<1> SUFFICES ASSUME NoGames
             PROVE  ShSpec => [](/\ RunQueueIsOneRing /\ ChannelsKnowTheirWaiters
                                 /\ BlockedCanBeWoken /\ IdsIndexTheList)
  OBVIOUS
<1>1. KInv => /\ RunQueueIsOneRing /\ ChannelsKnowTheirWaiters
              /\ BlockedCanBeWoken /\ IdsIndexTheList
  BY NumberedProcesses DEF IInv
<1> QED BY <1>1, CompanyInvariant, PTL

\* Two consoles never read the keyboard and draw at the same time: the right to
\* do so is handed from console to console by the stop signal, its answer and
\* the message that starts the next one.
THEOREM ScreenSafety == (LastMayBlock => NoGames) => (ShSpec => []OneConsole)
<1> SUFFICES ASSUME LastMayBlock => NoGames PROVE ShSpec => []OneConsole
  OBVIOUS
<1>1. ShSpec => [](KInv /\ SInv)
  BY ShInvariant
<1> QED BY <1>1, OneConsoleNow, PTL

\* Whatever else uses channel 1, a command runs the function its own shell sent
\* it and reports to that shell.
THEOREM HandshakeSafety == (LastMayBlock => NoGames) => (ShSpec => []HandshakeReachesItsCommand)
<1> SUFFICES ASSUME LastMayBlock => NoGames PROVE ShSpec => []HandshakeReachesItsCommand
  OBVIOUS
<1>1. SInv => HandshakeReachesItsCommand
  BY DEF SInv, Informed, HandshakeReachesItsCommand
<1>2. ShSpec => [](KInv /\ SInv)
  BY ShInvariant
<1> QED BY <1>1, <1>2, PTL

\* A shell takes 0xDEAD only from a command of its own that has printed and that
\* waits for just this to end.
THEOREM ReportSafety == (LastMayBlock => NoGames) => (ShSpec => DeadMeansPrinted)
<1> SUFFICES ASSUME LastMayBlock => NoGames PROVE ShSpec => DeadMeansPrinted
  OBVIOUS
<1> DEFINE Reports ==
      \A p \in Procs :
          pc[p] \in {"waitTake", "takeDone"} /\ pc'[p] # pc[p] /\ received'[p] = DEAD =>
              \E q \in Procs : /\ asked[q].sh = myId[p] /\ pc[q] = "exit"
                               /\ state[q] = "BlockedWriting" /\ state'[q] = "Runnable"
<1>1. KInv /\ SInv /\ [ShNext]_shVars => [Reports]_shVars
  <2> SUFFICES ASSUME KInv, SInv, [ShNext]_shVars PROVE Reports
    OBVIOUS
  <2> QED BY DeadMeansPrintedNow
<1>2. ShSpec => [](KInv /\ SInv)
  BY ShInvariant
<1>3. ShSpec => [][Reports]_shVars
  BY <1>1, <1>2, PTL DEF ShSpec
<1> QED BY <1>3 DEF DeadMeansPrinted

=============================================================================
