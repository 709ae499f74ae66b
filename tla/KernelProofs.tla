---------------------------- MODULE KernelProofs ----------------------------
(***************************************************************************)
(* The invariants of Kernel and that it implements Rendezvous, for any     *)
(* number of processes, channels, values and time slices, provided the     *)
(* last process of the ring makes no call that would block it.  The lemmas *)
(* about steps ask this of the step only (Accompanied), so that it may be  *)
(* proved of the programs instead, as ShellsProofs does.                   *)
(***************************************************************************)
EXTENDS Kernel, RingProofs, SequenceTheorems

\* The invariants together are inductive: waking a process needs its id to
\* name it (IdsIndexTheList) and the process to be out of the ring (the
\* channel invariants); leaving the ring needs the ring.
IInv == /\ TypeOK
        /\ IdsIndexTheList
        /\ RunQueueIsOneRing
        /\ ChannelsKnowTheirWaiters
        /\ BlockedCanBeWoken

LEMMA LiveMember ==
    ASSUME NEW p
    PROVE  p \in Live <=> /\ p \in Allocated
                          /\ state[p] \notin {"BlockedWriting", "BlockedReading"}
                          /\ call[p] # Exited
  BY DEF Live, Blocked, Dead

\* get(processesList, id) inverts the id field.
LEMMA ProcessOfId ==
    ASSUME TypeOK, IdsIndexTheList
    PROVE  /\ Allocated \subseteq Procs
           /\ \A pid \in 0 .. maxId : Process(pid) \in Allocated /\ id[Process(pid)] = pid
           /\ \A p \in Allocated : id[p] \in 0 .. maxId /\ Process(id[p]) = p
<1>1. Allocated \subseteq Procs
  BY DEF Allocated, TypeOK
<1>2. ASSUME NEW pid \in 0 .. maxId
      PROVE  Process(pid) \in Allocated /\ id[Process(pid)] = pid
  <2>1. pid + 1 \in 1 .. Len(processesList) /\ pid + 1 \in DOMAIN processesList
    BY KernelAssumption DEF IdsIndexTheList, TypeOK
  <2>2. id[processesList[pid + 1]] = (pid + 1) - 1
    BY <2>1 DEF IdsIndexTheList
  <2>3. processesList[pid + 1] \in Allocated
    BY <2>1 DEF Allocated
  <2> QED BY <2>2, <2>3, KernelAssumption DEF Process, TypeOK
<1>3. ASSUME NEW p \in Allocated
      PROVE  id[p] \in 0 .. maxId /\ Process(id[p]) = p
  <2>1. PICK i \in 1 .. Len(processesList) : p = processesList[i]
    BY DEF Allocated, TypeOK
  <2>2. id[p] = i - 1
    BY <2>1 DEF IdsIndexTheList
  <2> QED BY <2>1, <2>2, KernelAssumption DEF Process, IdsIndexTheList, TypeOK
<1> QED BY <1>1, <1>2, <1>3

\* The list pop leaves behind.
LEMMA FrontOfSeq ==
    ASSUME NEW S, NEW s \in Seq(S), s # <<>>
    PROVE  /\ Front(s) \in Seq(S)
           /\ Len(Front(s)) = Len(s) - 1
           /\ \A i \in 1 .. Len(s) - 1 : Front(s)[i] = s[i]
           /\ Len(s) \in Nat \ {0} /\ Last(s) = s[Len(s)] /\ Last(s) \in S
<1>1. Len(s) \in Nat \ {0} /\ Len(s) \in 1 .. Len(s)
  BY EmptySeq
<1>2. Last(s) = s[Len(s)] /\ s[Len(s)] \in S
  BY <1>1, ElementOfSeq DEF Last
<1>3. \A i \in 1 .. Len(s) : s[i] \in S
  BY ElementOfSeq
<1>4. /\ SubSeq(s, 1, Len(s) - 1) \in Seq(S)
      /\ Len(SubSeq(s, 1, Len(s) - 1)) = Len(s) - 1
      /\ \A i \in 1 .. Len(s) - 1 : SubSeq(s, 1, Len(s) - 1)[i] = s[i]
  <2>1. 1 \in 1 .. Len(s) + 1 /\ Len(s) - 1 \in 0 .. Len(s)
    BY <1>1
  <2> DEFINE t == SubSeq(s, 1, Len(s) - 1)
  <2>2. /\ t \in Seq(S)
        /\ Len(t) = IF 1 <= Len(s) - 1 THEN (Len(s) - 1) - 1 + 1 ELSE 0
        /\ \A i \in 1 .. (Len(s) - 1) - 1 + 1 : t[i] = s[1 + i - 1]
    BY <2>1, SubSeqProperties
  <2> HIDE DEF t
  <2>3. Len(t) = Len(s) - 1
    <3>1. \A n \in Nat \ {0} :
             n - 1 = IF 1 <= n - 1 THEN (n - 1) - 1 + 1 ELSE 0
      OBVIOUS
    <3> QED BY <1>1, <2>2, <3>1, Zenon
  <2>4. \A i \in 1 .. Len(s) - 1 : t[i] = s[i]
    BY <1>1, <2>2
  <2> QED BY <2>2, <2>3, <2>4 DEF t
<1> QED BY <1>1, <1>2, <1>4 DEF Front

LEMMA InitInv == Init => IInv
<1> SUFFICES ASSUME Init PROVE IInv
  OBVIOUS
<1> USE KernelAssumption DEF Init
<1>1. TypeOK
  BY DEF TypeOK, ChannelStates, ProcessStates, Calls, NoCall, Ids
<1>2. IdsIndexTheList
  BY DEF IdsIndexTheList
<1>3. Allocated = {Main} /\ Live = {Main}
  BY DEF Allocated, Live, Blocked, Dead, Exited, NoCall, In
<1>4. RunQueueIsOneRing
  BY <1>3 DEF RunQueueIsOneRing, IsRing
<1>5. ChannelsKnowTheirWaiters
  BY DEF ChannelsKnowTheirWaiters, ChannelKnowsItsWaiters
<1>6. BlockedCanBeWoken
  BY <1>3 DEF BlockedCanBeWoken, Blocked
<1> QED BY <1>1, <1>2, <1>4, <1>5, <1>6 DEF IInv

-----------------------------------------------------------------------------
BlockedStates == {"BlockedWriting", "BlockedReading"}

\* Whoever is put to wait by a step leaves another process in the ring.
Accompanied ==
    state'[currentProcess] \in BlockedStates => next[currentProcess] # currentProcess
ChannelType   == [state : ChannelStates, sendId : Ids,
                  value : Values \cup {NoValue}, receive : Seq(Ids)]
CallType      == {NoCall, Exited} \cup [op : {"send", "receive"}, on : Channels]

\* The process on the CPU, and those the ring leads to, are not blocked.
LEMMA CurrentIsLive ==
    ASSUME IInv
    PROVE  /\ currentProcess \in Live /\ Live \subseteq Allocated
           /\ Allocated \subseteq Procs
           /\ state[currentProcess] \notin BlockedStates
           /\ call[currentProcess] # Exited
           /\ next \in [Procs -> Procs \cup {NULL}]
           /\ prev \in [Procs -> Procs \cup {NULL}]
           /\ IsRing(Live, next, prev)
           /\ next[currentProcess] \in Live
<1>1. currentProcess \in Live /\ IsRing(Live, next, prev)
  BY DEF IInv, RunQueueIsOneRing
<1>2. next[currentProcess] \in Live
  BY <1>1 DEF IsRing
<1>3. Allocated \subseteq Procs
  BY ProcessOfId DEF IInv
<1>4. Live \subseteq Allocated
  BY DEF Live
<1> QED BY <1>1, <1>2, <1>3, <1>4, LiveMember DEF IInv, TypeOK, BlockedStates

\* A switch returns the call of the process that gets the CPU.
LEMMA SwitchStep ==
    ASSUME TypeOK, NEW ACTION q, q \in Procs,
           NEW STATE calls, calls \in [Procs -> CallType],
           NEW ACTION chans, chans \in [Channels -> ChannelType],
           SwitchTo(q, calls, chans)
    PROVE  /\ currentProcess' = q
           /\ call' = [calls EXCEPT ![q] = NoCall]
           /\ call' \in [Procs -> CallType]
           /\ received' \in [Procs -> Values \cup {NoValue}]
<1>1. currentProcess' = q /\ call' = [calls EXCEPT ![q] = NoCall]
  BY DEF SwitchTo
<1>2. call' \in [Procs -> CallType]
  BY <1>1 DEF CallType
<1>3. received' \in [Procs -> Values \cup {NoValue}]
  <2>1. CASE calls[q].op = "receive"
    <3>1. calls[q] \in CallType /\ calls[q] # NoCall /\ calls[q] # Exited
      BY <2>1 DEF NoCall, Exited, In
    <3>2. calls[q].on \in Channels
      BY <3>1 DEF CallType
    <3>3. chans[calls[q].on].value \in Values \cup {NoValue}
      BY <3>2 DEF ChannelType
    <3> QED BY <2>1, <3>3 DEF SwitchTo, TypeOK
  <2>2. CASE calls[q].op # "receive"
    BY <2>2 DEF SwitchTo, TypeOK
  <2> QED BY <2>1, <2>2
<1> QED BY <1>1, <1>2, <1>3

\* delCurrentProcess(); switchToNextTask(): the process on the CPU leaves the
\* ring and another process of it runs.
LEMMA LeaveRingStep ==
    ASSUME IInv, next[currentProcess] # currentProcess,
           NEW STATE what, what \in CallType,
           NEW ACTION chans, chans \in [Channels -> ChannelType],
           LeaveRing([call EXCEPT ![currentProcess] = what], chans)
    PROVE  /\ next' \in [Procs -> Procs \cup {NULL}]
           /\ prev' \in [Procs -> Procs \cup {NULL}]
           /\ IsRing(Live \ {currentProcess}, next', prev')
           /\ currentProcess' \in Live \ {currentProcess}
           /\ call' = [call EXCEPT ![currentProcess] = what, ![currentProcess'] = NoCall]
           /\ call' \in [Procs -> CallType]
           /\ received' \in [Procs -> Values \cup {NoValue}]
           /\ preventTaskSwitch' = FALSE
<1> DEFINE c == currentProcess
           calls == [call EXCEPT ![c] = what]
<1>1. /\ c \in Live /\ Live \subseteq Procs /\ IsRing(Live, next, prev)
      /\ next \in [Procs -> Procs \cup {NULL}] /\ prev \in [Procs -> Procs \cup {NULL}]
  BY CurrentIsLive
<1>2. /\ IsRing(Live \ {c}, UnlinkNext(next, prev, c), UnlinkPrev(next, prev, c))
      /\ UnlinkNext(next, prev, c)[c] = next[c]
      /\ next[c] \in Live \ {c}
  BY <1>1, UnlinkKeepsRing
<1>3. /\ next' = UnlinkNext(next, prev, c) /\ prev' = UnlinkPrev(next, prev, c)
      /\ preventTaskSwitch' = FALSE
      /\ SwitchTo(next[c], calls, chans)
  BY <1>2 DEF LeaveRing, SwitchToNext
<1>4. prev[c] \in Live
  BY <1>1 DEF IsRing
<1>5. next' \in [Procs -> Procs \cup {NULL}] /\ prev' \in [Procs -> Procs \cup {NULL}]
  BY <1>1, <1>2, <1>3, <1>4 DEF UnlinkNext, UnlinkPrev
<1>6. calls \in [Procs -> CallType]
  BY <1>1 DEF IInv, TypeOK, Calls, CallType
<1>7. next[c] \in Procs /\ TypeOK
  BY <1>1, <1>2 DEF IInv
<1>8. /\ currentProcess' = next[c] /\ call' = [calls EXCEPT ![next[c]] = NoCall]
      /\ call' \in [Procs -> CallType]
      /\ received' \in [Procs -> Values \cup {NoValue}]
  BY <1>3, <1>6, <1>7, SwitchStep
<1> QED BY <1>2, <1>3, <1>5, <1>8

\* insertProcess of a process that is not in the ring.
LEMMA InsertStep ==
    ASSUME IInv, NEW STATE p, p \in Procs \ Live, Insert(p)
    PROVE  /\ next' \in [Procs -> Procs \cup {NULL}]
           /\ prev' \in [Procs -> Procs \cup {NULL}]
           /\ IsRing(Live \cup {p}, next', prev')
           /\ next'[currentProcess] = p
<1> DEFINE c == currentProcess
<1>1. /\ c \in Live /\ Live \subseteq Procs /\ IsRing(Live, next, prev)
      /\ next \in [Procs -> Procs \cup {NULL}] /\ prev \in [Procs -> Procs \cup {NULL}]
      /\ next[c] \in Live
  BY CurrentIsLive
<1>2. IsRing(Live \cup {p}, InsertNext(next, prev, c, p), InsertPrev(next, prev, c, p))
  BY <1>1, InsertKeepsRing
<1> QED BY <1>1, <1>2 DEF Insert, InsertNext, InsertPrev

-----------------------------------------------------------------------------
\* Waits survives a step that touches neither the process nor its call.
LEMMA WaitsKept ==
    ASSUME IInv, NEW pid, NEW ch, NEW op, NEW st, Waits(pid, ch, op, st),
           UNCHANGED <<processesList, maxId>>,
           state'[Process(pid)] = state[Process(pid)],
           call'[Process(pid)] = call[Process(pid)]
    PROVE  Waits(pid, ch, op, st)'
  BY DEF Waits, Process

\* The part that send and receive share when they block: the process on the
\* CPU is marked as blocked and leaves the ring.
LEMMA BlockStep ==
    ASSUME IInv, Accompanied, MayBlock,
           NEW ch \in Channels, NEW op \in {"send", "receive"}, NEW st \in BlockedStates,
           channels' \in [Channels -> ChannelType],
           state' = [state EXCEPT ![currentProcess] = st],
           LeaveRing([call EXCEPT ![currentProcess] = In(op, ch)], channels'),
           UNCHANGED <<procVars, slicesLeft>>
    PROVE  /\ TypeOK' /\ IdsIndexTheList' /\ RunQueueIsOneRing'
           /\ state'[currentProcess] = st
           /\ call'[currentProcess] = In(op, ch)
           /\ \A p \in Procs : state[p] \in BlockedStates =>
                 p # currentProcess /\ state'[p] = state[p] /\ call'[p] = call[p]
           /\ \A p \in Procs : p # currentProcess => state'[p] = state[p]
           /\ currentProcess \in Allocated
<1> DEFINE c == currentProcess
           q == currentProcess'
<1>1. next[c] # c
  BY CurrentIsLive DEF Accompanied, IInv, TypeOK
<1>2. In(op, ch) \in CallType
  BY DEF In, CallType
<1>3. /\ next' \in [Procs -> Procs \cup {NULL}] /\ prev' \in [Procs -> Procs \cup {NULL}]
      /\ IsRing(Live \ {c}, next', prev')
      /\ q \in Live \ {c}
      /\ call' = [call EXCEPT ![c] = In(op, ch), ![q] = NoCall]
      /\ call' \in [Procs -> CallType]
      /\ received' \in [Procs -> Values \cup {NoValue}]
      /\ preventTaskSwitch' = FALSE
  BY <1>1, <1>2, LeaveRingStep
<1>4. /\ c \in Live /\ c \in Procs /\ c \in Allocated /\ Live \subseteq Procs
      /\ state[c] \notin BlockedStates
  BY CurrentIsLive
<1>5. \A p \in Live : p \in Allocated /\ state[p] \notin BlockedStates /\ call[p] # Exited
  BY LiveMember DEF BlockedStates
<1>6. state \in [Procs -> ProcessStates] /\ call \in [Procs -> CallType]
  BY DEF IInv, TypeOK, Calls, CallType
<1>7. \A p \in Procs : /\ state'[p] = IF p = c THEN st ELSE state[p]
                       /\ call'[p] = IF p = q THEN NoCall
                                      ELSE IF p = c THEN In(op, ch) ELSE call[p]
  BY <1>3, <1>4, <1>6
<1>8. TypeOK'
  BY <1>3, <1>4, <1>6 DEF IInv, TypeOK, Calls, CallType, ChannelType, procVars,
                          BlockedStates, ProcessStates
<1>9. IdsIndexTheList'
  BY DEF IInv, IdsIndexTheList, procVars
<1>10. Allocated' = Allocated
  BY DEF Allocated, procVars
<1>11. Live' = Live \ {c}
  <2>1. \A p : p \in Live' <=>
                 /\ p \in Allocated'
                 /\ state'[p] \notin BlockedStates
                 /\ call'[p] # Exited
    BY DEF Live, Blocked, Dead, BlockedStates
  <2>2. NoCall # Exited
    BY DEF NoCall, Exited, In
  <2>3. Allocated \subseteq Procs
    BY CurrentIsLive
  <2>4. ASSUME NEW p \in Allocated PROVE p \in Live' <=> p \in Live \ {c}
    <3>1. CASE p = c
      BY <1>7, <2>1, <2>3, <3>1
    <3>2. CASE p = q
      BY <1>3, <1>5, <1>7, <1>10, <2>1, <2>2, <2>3, <3>2
    <3>3. CASE p # c /\ p # q
      BY <1>7, <1>10, <2>1, <2>3, <3>3, LiveMember DEF BlockedStates
    <3> QED BY <3>1, <3>2, <3>3
  <2> QED BY <1>5, <1>10, <2>1, <2>4
<1>12. RunQueueIsOneRing'
  BY <1>3, <1>11 DEF RunQueueIsOneRing
<1>13. \A p \in Procs : state[p] \in BlockedStates =>
          p # c /\ state'[p] = state[p] /\ call'[p] = call[p]
  BY <1>3, <1>4, <1>5, <1>7
<1> QED BY <1>3, <1>4, <1>7, <1>8, <1>9, <1>12, <1>13

\* A channel that a step leaves alone still knows its waiters, if the step
\* wakes none of them.
LEMMA OtherChannel ==
    ASSUME IInv, NEW ch \in Channels, channels'[ch] = channels[ch],
           UNCHANGED procVars,
           \A p \in Procs : state[p] \in BlockedStates /\ call[p].on = ch =>
                              state'[p] = state[p] /\ call'[p] = call[p]
    PROVE  ChannelKnowsItsWaiters(ch)'
<1> DEFINE k == channels[ch]
<1>1. ChannelKnowsItsWaiters(ch)
  BY DEF IInv, ChannelsKnowTheirWaiters
<1>2. ASSUME NEW pid, NEW op, NEW st \in BlockedStates, Waits(pid, ch, op, st)
      PROVE  Waits(pid, ch, op, st)'
  <2>1. Process(pid) \in Procs
    BY <1>2, ProcessOfId DEF Waits, IInv
  <2>2. call[Process(pid)].on = ch
    BY <1>2 DEF Waits, In
  <2>3. state'[Process(pid)] = state[Process(pid)] /\ call'[Process(pid)] = call[Process(pid)]
    BY <1>2, <2>1, <2>2 DEF Waits
  <2> QED BY <1>2, <2>3, WaitsKept DEF procVars
<1>3. k.state = "Sender" => Waits(k.sendId, ch, "send", "BlockedWriting")'
  BY <1>1, <1>2 DEF ChannelKnowsItsWaiters, BlockedStates
<1>4. \A i \in 1 .. Len(k.receive) : Waits(k.receive[i], ch, "receive", "BlockedReading")'
  BY <1>1, <1>2 DEF ChannelKnowsItsWaiters, BlockedStates
<1> QED BY <1>1, <1>3, <1>4 DEF ChannelKnowsItsWaiters

\* A channel in the state Unused or Sender has no waiting list.
LEMMA NoList ==
    ASSUME IInv, NEW ch \in Channels, channels[ch].state # "Receiver"
    PROVE  channels[ch].receive = <<>>
  BY DEF IInv, ChannelsKnowTheirWaiters, ChannelKnowsItsWaiters

LEMMA ChannelTyped ==
    ASSUME IInv, NEW ch \in Channels
    PROVE  /\ channels \in [Channels -> ChannelType]
           /\ channels[ch] \in ChannelType
           /\ channels[ch].receive \in Seq(Ids)
  BY DEF IInv, TypeOK, ChannelType

LEMMA SendBlocksInv ==
    ASSUME IInv, Accompanied, NEW ch \in Channels, NEW v \in Values, SendBlocks(ch, v)
    PROVE  IInv'
<1> DEFINE c == currentProcess
           k == channels'[ch]
<1>1. /\ channels[ch].receive = <<>>
      /\ channels \in [Channels -> ChannelType] /\ channels[ch] \in ChannelType
  BY NoList, ChannelTyped DEF SendBlocks
<1>2. id \in [Procs -> Ids] /\ c \in Allocated /\ Allocated \subseteq Procs
  BY CurrentIsLive DEF IInv, TypeOK
<1>3. /\ channels' \in [Channels -> ChannelType]
      /\ k.state = "Sender" /\ k.sendId = id[c] /\ k.receive = <<>>
      /\ \A x \in Channels : x # ch => channels'[x] = channels[x]
  BY <1>1, <1>2 DEF SendBlocks, ChannelType, ChannelStates
<1>4. /\ TypeOK' /\ IdsIndexTheList' /\ RunQueueIsOneRing'
      /\ state'[c] = "BlockedWriting" /\ call'[c] = In("send", ch)
      /\ \A p \in Procs : state[p] \in BlockedStates =>
            p # c /\ state'[p] = state[p] /\ call'[p] = call[p]
      /\ \A p \in Procs : p # c => state'[p] = state[p]
  <2>1. "send" \in {"send", "receive"} /\ "BlockedWriting" \in BlockedStates
    BY DEF BlockedStates
  <2>2. /\ MayBlock /\ UNCHANGED <<procVars, slicesLeft>>
        /\ state' = [state EXCEPT ![c] = "BlockedWriting"]
        /\ LeaveRing([call EXCEPT ![c] = In("send", ch)], channels')
    BY DEF SendBlocks
  <2> QED BY <1>3, <2>1, <2>2, BlockStep
<1>5. UNCHANGED procVars
  BY DEF SendBlocks
<1>6. ChannelsKnowTheirWaiters'
  <2>1. ChannelKnowsItsWaiters(ch)'
    <3>1. id[c] \in 0 .. maxId /\ Process(id[c]) = c
      BY <1>2, ProcessOfId DEF IInv
    <3> QED BY <1>3, <1>4, <1>5, <3>1
            DEF ChannelKnowsItsWaiters, Waits, Process, procVars
  <2>2. ASSUME NEW x \in Channels, x # ch PROVE ChannelKnowsItsWaiters(x)'
    BY <1>3, <1>4, <1>5, <2>2, OtherChannel
  <2> QED BY <2>1, <2>2 DEF ChannelsKnowTheirWaiters
<1>7. BlockedCanBeWoken'
  <2> SUFFICES ASSUME NEW p \in Blocked'
               PROVE  call'[p].on \in Channels /\ CanWake(call[p].on, p)'
    BY DEF BlockedCanBeWoken
  <2>1. p \in Allocated /\ p \in Procs /\ state'[p] \in BlockedStates /\ id' = id
    BY <1>2, <1>5 DEF Blocked, Allocated, procVars, BlockedStates
  <2>2. CASE p = c
    BY <1>3, <1>4, <2>1, <2>2 DEF CanWake, In
  <2>3. CASE p # c
    <3>1. p \in Blocked /\ state'[p] = state[p] /\ call'[p] = call[p]
      BY <1>4, <2>1, <2>3 DEF Blocked, BlockedStates
    <3>2. call[p].on \in Channels /\ CanWake(call[p].on, p)
      BY <3>1 DEF IInv, BlockedCanBeWoken
    <3>3. call[p].on # ch
      BY <1>1, <3>1, <3>2 DEF CanWake, SendBlocks, Blocked
    <3> QED BY <1>3, <2>1, <3>1, <3>2, <3>3 DEF CanWake
  <2> QED BY <2>2, <2>3
<1> QED BY <1>4, <1>6, <1>7 DEF IInv

LEMMA ReceiveBlocksInv ==
    ASSUME IInv, Accompanied, NEW ch \in Channels, ReceiveBlocks(ch)
    PROVE  IInv'
<1> DEFINE c == currentProcess
           k == channels'[ch]
           old == channels[ch].receive
<1>1. /\ old \in Seq(Ids)
      /\ channels \in [Channels -> ChannelType] /\ channels[ch] \in ChannelType
  BY ChannelTyped
<1>2. /\ id \in [Procs -> Ids] /\ c \in Allocated /\ Allocated \subseteq Procs
      /\ state[c] \notin BlockedStates
  BY CurrentIsLive DEF IInv, TypeOK
<1>3. channels' = [channels EXCEPT ![ch].state = "Receiver",
                                   ![ch].receive = Append(old, id[c])]
  <2>1. CASE channels[ch].state = "Unused"
    BY <2>1, NoList DEF ReceiveBlocks
  <2>2. CASE channels[ch].state # "Unused"
    BY <2>2 DEF ReceiveBlocks
  <2> QED BY <2>1, <2>2
<1>4. Append(old, id[c]) \in Seq(Ids)
  BY <1>1, <1>2
<1>5. /\ channels' \in [Channels -> ChannelType]
      /\ k.state = "Receiver" /\ k.receive = Append(old, id[c])
      /\ \A x \in Channels : x # ch => channels'[x] = channels[x]
  BY <1>1, <1>3, <1>4 DEF ChannelType, ChannelStates
<1>6. /\ TypeOK' /\ IdsIndexTheList' /\ RunQueueIsOneRing'
      /\ state'[c] = "BlockedReading" /\ call'[c] = In("receive", ch)
      /\ \A p \in Procs : state[p] \in BlockedStates =>
            p # c /\ state'[p] = state[p] /\ call'[p] = call[p]
      /\ \A p \in Procs : p # c => state'[p] = state[p]
  <2>1. "receive" \in {"send", "receive"} /\ "BlockedReading" \in BlockedStates
    BY DEF BlockedStates
  <2>2. /\ MayBlock /\ UNCHANGED <<procVars, slicesLeft>>
        /\ state' = [state EXCEPT ![c] = "BlockedReading"]
        /\ LeaveRing([call EXCEPT ![c] = In("receive", ch)], channels')
    BY DEF ReceiveBlocks
  <2> QED BY <1>5, <2>1, <2>2, BlockStep
<1>7. UNCHANGED procVars
  BY DEF ReceiveBlocks
<1>8. /\ Len(k.receive) = Len(old) + 1 /\ Len(old) \in Nat
      /\ \A i \in 1 .. Len(old) : k.receive[i] = old[i]
      /\ k.receive[Len(old) + 1] = id[c]
  BY <1>1, <1>2, <1>5
<1>9. /\ \A i \in 1 .. Len(old) : Waits(old[i], ch, "receive", "BlockedReading")
      /\ \A i, j \in 1 .. Len(old) : old[i] = old[j] => i = j
  BY DEF IInv, ChannelsKnowTheirWaiters, ChannelKnowsItsWaiters
<1>10. id[c] \in 0 .. maxId /\ Process(id[c]) = c
  BY <1>2, ProcessOfId DEF IInv
<1>11. \A i \in 1 .. Len(old) : old[i] # id[c]
  BY <1>2, <1>9, <1>10 DEF Waits, BlockedStates
<1>12. ChannelsKnowTheirWaiters'
  <2>1. ChannelKnowsItsWaiters(ch)'
    <3> DEFINE waits(pid) == /\ pid \in 0 .. maxId'
                             /\ state'[processesList'[pid + 1]] = "BlockedReading"
                             /\ call'[processesList'[pid + 1]] = In("receive", ch)
    <3>1. \A i \in 1 .. Len(k.receive) : waits(k.receive[i])
      <4> SUFFICES ASSUME NEW i \in 1 .. Len(k.receive), NEW pid, pid = k.receive[i]
                   PROVE  waits(pid)
        OBVIOUS
      <4>1. CASE i = Len(old) + 1
        BY <1>6, <1>7, <1>8, <1>10, <4>1 DEF Waits, Process, procVars
      <4>2. CASE i # Len(old) + 1
        <5>1. i \in 1 .. Len(old) /\ pid = old[i]
          BY <1>8, <4>2
        <5>2. Waits(pid, ch, "receive", "BlockedReading")
          BY <1>9, <5>1
        <5>3. Process(pid) \in Procs
          BY <5>2, ProcessOfId DEF Waits, IInv
        <5> QED BY <1>6, <1>7, <5>2, <5>3 DEF Waits, Process, procVars, BlockedStates
      <4> QED BY <4>1, <4>2
    <3>2. \A i, j \in 1 .. Len(k.receive) : k.receive[i] = k.receive[j] => i = j
      <4> SUFFICES ASSUME NEW i \in 1 .. Len(k.receive), NEW j \in 1 .. Len(k.receive),
                          k.receive[i] = k.receive[j]
                   PROVE  i = j
        OBVIOUS
      <4>1. i \in 1 .. Len(old) \/ i = Len(old) + 1
        BY <1>8
      <4>2. j \in 1 .. Len(old) \/ j = Len(old) + 1
        BY <1>8
      <4> QED BY <1>8, <1>9, <1>11, <4>1, <4>2
    <3>3. k.receive # <<>>
      BY <1>8, EmptySeq
    <3> QED BY <1>5, <3>1, <3>2, <3>3 DEF ChannelKnowsItsWaiters, Waits, Process
  <2>2. ASSUME NEW x \in Channels, x # ch PROVE ChannelKnowsItsWaiters(x)'
    BY <1>5, <1>6, <1>7, <2>2, OtherChannel
  <2> QED BY <2>1, <2>2 DEF ChannelsKnowTheirWaiters
<1>13. BlockedCanBeWoken'
  <2> SUFFICES ASSUME NEW p \in Blocked'
               PROVE  call'[p].on \in Channels /\ CanWake(call[p].on, p)'
    BY DEF BlockedCanBeWoken
  <2>1. p \in Allocated /\ p \in Procs /\ state'[p] \in BlockedStates /\ id' = id
    BY <1>2, <1>7 DEF Blocked, Allocated, procVars, BlockedStates
  <2>2. CASE p = c
    <3>1. call'[p].on = ch /\ state'[p] = "BlockedReading"
      BY <1>6, <2>2 DEF In
    <3>2. Len(old) + 1 \in 1 .. Len(k.receive)
      BY <1>8
    <3> QED BY <1>8, <2>1, <2>2, <3>1, <3>2 DEF CanWake
  <2>3. CASE p # c
    <3>1. p \in Blocked /\ state'[p] = state[p] /\ call'[p] = call[p]
      BY <1>6, <2>1, <2>3 DEF Blocked, BlockedStates
    <3>2. call[p].on \in Channels /\ CanWake(call[p].on, p)
      BY <3>1 DEF IInv, BlockedCanBeWoken
    <3>3. CASE call[p].on # ch
      BY <1>5, <2>1, <3>1, <3>2, <3>3 DEF CanWake
    <3>4. CASE call[p].on = ch
      <4>1. state[p] = "BlockedReading"
        BY <2>1, <3>1, <3>2, <3>4 DEF CanWake, ReceiveBlocks, BlockedStates
      <4>2. PICK i \in 1 .. Len(old) : old[i] = id[p]
        BY <3>2, <3>4, <4>1 DEF CanWake
      <4>3. i \in 1 .. Len(k.receive) /\ k.receive[i] = id[p]
        BY <1>8, <4>2
      <4> QED BY <2>1, <3>1, <3>4, <4>1, <4>3 DEF CanWake
    <3> QED BY <3>3, <3>4
  <2> QED BY <2>2, <2>3
<1> QED BY <1>6, <1>12, <1>13 DEF IInv

-----------------------------------------------------------------------------
\* The part that send and receive share when they wake a process: it is marked
\* runnable and inserted behind the process on the CPU.
LEMMA WakeStep ==
    ASSUME IInv, NEW STATE r, r \in Blocked, call[r] # Exited, Insert(r),
           state' = [state EXCEPT ![r] = "Runnable"],
           UNCHANGED procVars,
           \A p \in Procs : call'[p] = Exited <=> call[p] = Exited
    PROVE  /\ next' \in [Procs -> Procs \cup {NULL}]
           /\ prev' \in [Procs -> Procs \cup {NULL}]
           /\ state' \in [Procs -> ProcessStates]
           /\ IsRing(Live', next', prev')
           /\ currentProcess \in Live' /\ r \in Live'
           /\ next'[currentProcess] = r
           /\ r \in Procs /\ r # currentProcess
           /\ \A p \in Procs : p # r => state'[p] = state[p]
           /\ Blocked' = Blocked \ {r}
<1>1. /\ currentProcess \in Live /\ Live \subseteq Allocated /\ Allocated \subseteq Procs
      /\ state[currentProcess] \notin BlockedStates
  BY CurrentIsLive
<1>2. r \in Allocated /\ state[r] \in BlockedStates /\ r \in Procs /\ r \notin Live
  BY <1>1, LiveMember DEF Blocked, BlockedStates
<1>3. state \in [Procs -> ProcessStates]
  BY DEF IInv, TypeOK
<1>4. \A p \in Procs : state'[p] = IF p = r THEN "Runnable" ELSE state[p]
  BY <1>3
<1>5. Allocated' = Allocated
  BY DEF Allocated, procVars
<1>6. Live' = Live \cup {r}
  <2>1. \A p : p \in Live' <=>
                 /\ p \in Allocated'
                 /\ state'[p] \notin BlockedStates
                 /\ call'[p] # Exited
    BY DEF Live, Blocked, Dead, BlockedStates
  <2>2. ASSUME NEW p \in Allocated PROVE p \in Live' <=> p \in Live \cup {r}
    <3>1. CASE p = r
      BY <1>1, <1>2, <1>4, <1>5, <2>1, <3>1 DEF BlockedStates
    <3>2. CASE p # r
      BY <1>1, <1>4, <1>5, <2>1, <3>2, LiveMember DEF BlockedStates
    <3> QED BY <3>1, <3>2
  <2> QED BY <1>1, <1>2, <1>5, <2>1, <2>2
<1>7. /\ next' \in [Procs -> Procs \cup {NULL}]
      /\ prev' \in [Procs -> Procs \cup {NULL}]
      /\ IsRing(Live \cup {r}, next', prev')
      /\ next'[currentProcess] = r
  BY <1>2, InsertStep
<1>8. state' \in [Procs -> ProcessStates]
  BY <1>3 DEF ProcessStates
<1>9. Blocked' = Blocked \ {r}
  BY <1>1, <1>2, <1>4, <1>5 DEF Blocked, BlockedStates
<1> QED BY <1>1, <1>2, <1>4, <1>6, <1>7, <1>8, <1>9

LEMMA ReceiveTakesInv ==
    ASSUME IInv, NEW ch \in Channels, ReceiveTakes(ch)
    PROVE  IInv'
<1> DEFINE s == Process(channels[ch].sendId)
           k == channels'[ch]
<1>1. /\ channels[ch].receive = <<>>
      /\ channels \in [Channels -> ChannelType] /\ channels[ch] \in ChannelType
  BY NoList, ChannelTyped DEF ReceiveTakes
<1>2. /\ channels[ch].state = "Sender" /\ UNCHANGED <<call, currentProcess>>
      /\ UNCHANGED procVars /\ UNCHANGED slicesLeft /\ UNCHANGED preventTaskSwitch
      /\ Insert(s) /\ state' = [state EXCEPT ![s] = "Runnable"]
      /\ channels' = [channels EXCEPT ![ch].state = "Unused"]
      /\ received' = [received EXCEPT ![currentProcess] = channels[ch].value]
  BY DEF ReceiveTakes
<1>3. /\ channels' \in [Channels -> ChannelType]
      /\ k.state = "Unused" /\ k.receive = <<>>
      /\ \A x \in Channels : x # ch => channels'[x] = channels[x]
  BY <1>1, <1>2 DEF ChannelType, ChannelStates
<1>4. Waits(channels[ch].sendId, ch, "send", "BlockedWriting")
  BY <1>2 DEF IInv, ChannelsKnowTheirWaiters, ChannelKnowsItsWaiters
<1>5. /\ s \in Blocked /\ id[s] = channels[ch].sendId
      /\ state[s] = "BlockedWriting" /\ call[s] = In("send", ch) /\ call[s] # Exited
  BY <1>4, ProcessOfId DEF Waits, IInv, Blocked, Exited, In
<1>6. /\ next' \in [Procs -> Procs \cup {NULL}]
      /\ prev' \in [Procs -> Procs \cup {NULL}]
      /\ state' \in [Procs -> ProcessStates]
      /\ IsRing(Live', next', prev')
      /\ currentProcess \in Live'
      /\ s \in Procs
      /\ \A p \in Procs : p # s => state'[p] = state[p]
      /\ Blocked' = Blocked \ {s}
  BY <1>2, <1>5, WakeStep
<1>7. TypeOK'
  <2>1. channels[ch].value \in Values \cup {NoValue}
    BY <1>1 DEF ChannelType
  <2> QED BY <1>2, <1>3, <1>6, <2>1 DEF IInv, TypeOK, procVars, ChannelType
<1>8. IdsIndexTheList'
  BY <1>2 DEF IInv, IdsIndexTheList, procVars
<1>9. RunQueueIsOneRing'
  BY <1>2, <1>6 DEF RunQueueIsOneRing
<1>10. ChannelsKnowTheirWaiters'
  <2>1. ChannelKnowsItsWaiters(ch)'
    BY <1>3 DEF ChannelKnowsItsWaiters
  <2>2. ASSUME NEW x \in Channels, x # ch PROVE ChannelKnowsItsWaiters(x)'
    <3>1. call[s].on # x
      BY <1>5, <2>2 DEF In
    <3> QED BY <1>2, <1>3, <1>6, <2>2, <3>1, OtherChannel
  <2> QED BY <2>1, <2>2 DEF ChannelsKnowTheirWaiters
<1>11. BlockedCanBeWoken'
  <2> SUFFICES ASSUME NEW p \in Blocked'
               PROVE  call'[p].on \in Channels /\ CanWake(call[p].on, p)'
    BY DEF BlockedCanBeWoken
  <2>1. p \in Blocked /\ p # s /\ p \in Allocated /\ p \in Procs
    BY <1>6, ProcessOfId DEF Blocked, IInv
  <2>2. state'[p] = state[p] /\ call'[p] = call[p] /\ id' = id
    BY <1>2, <1>6, <2>1 DEF procVars
  <2>3. call[p].on \in Channels /\ CanWake(call[p].on, p)
    BY <2>1 DEF IInv, BlockedCanBeWoken
  <2>4. call[p].on # ch
    <3>1. id[p] # channels[ch].sendId
      BY <2>1, ProcessOfId DEF IInv
    <3> QED BY <1>1, <2>1, <2>3, <3>1 DEF CanWake, Blocked
  <2> QED BY <1>3, <2>2, <2>3, <2>4 DEF CanWake
<1> QED BY <1>7, <1>8, <1>9, <1>10, <1>11 DEF IInv

LEMMA SendWakesInv ==
    ASSUME IInv, NEW ch \in Channels, NEW v \in Values, SendWakes(ch, v)
    PROVE  IInv'
<1> DEFINE c == currentProcess
           k == channels'[ch]
           old == channels[ch].receive
           r == Process(Last(old))
           calls == [call EXCEPT ![c] = In("send", ch)]
<1>1. /\ channels[ch].state = "Receiver"
      /\ UNCHANGED procVars /\ UNCHANGED slicesLeft /\ UNCHANGED preventTaskSwitch
      /\ Insert(r) /\ state' = [state EXCEPT ![r] = "Runnable"]
      /\ channels' = [channels EXCEPT ![ch].value = v, ![ch].receive = Front(old),
                          ![ch].state = IF Front(old) = <<>> THEN "Unused" ELSE @]
      /\ SwitchTo(next'[c], calls, channels')
  BY DEF SendWakes, SwitchToNext
<1>2. /\ channels \in [Channels -> ChannelType] /\ channels[ch] \in ChannelType
      /\ old \in Seq(Ids)
  BY ChannelTyped
<1>3. /\ old # <<>>
      /\ \A i \in 1 .. Len(old) : Waits(old[i], ch, "receive", "BlockedReading")
      /\ \A i, j \in 1 .. Len(old) : old[i] = old[j] => i = j
  BY <1>1 DEF IInv, ChannelsKnowTheirWaiters, ChannelKnowsItsWaiters
<1>4. /\ Front(old) \in Seq(Ids) /\ Len(Front(old)) = Len(old) - 1
      /\ \A i \in 1 .. Len(old) - 1 : Front(old)[i] = old[i]
      /\ Len(old) \in Nat \ {0} /\ Last(old) = old[Len(old)]
  BY <1>2, <1>3, FrontOfSeq
<1>5. /\ channels' \in [Channels -> ChannelType]
      /\ k.state = IF Front(old) = <<>> THEN "Unused" ELSE "Receiver"
      /\ k.receive = Front(old)
      /\ \A x \in Channels : x # ch => channels'[x] = channels[x]
  BY <1>1, <1>2, <1>4 DEF ChannelType, ChannelStates
<1>6. /\ r \in Blocked /\ id[r] = Last(old) /\ r \in Procs
      /\ state[r] = "BlockedReading" /\ call[r] = In("receive", ch) /\ call[r] # Exited
  <2>1. Waits(Last(old), ch, "receive", "BlockedReading")
    BY <1>3, <1>4
  <2> QED BY <2>1, ProcessOfId DEF Waits, IInv, Blocked, Exited, In
<1>7. /\ c \in Live /\ c \in Procs /\ call[c] # Exited /\ state[c] \notin BlockedStates
      /\ next \in [Procs -> Procs \cup {NULL}]
  BY CurrentIsLive
<1>8. /\ currentProcess' = r /\ call' = [calls EXCEPT ![r] = NoCall]
      /\ call' \in [Procs -> CallType]
      /\ received' \in [Procs -> Values \cup {NoValue}]
  <2>1. next'[c] = r
    BY <1>1, <1>6, <1>7, LiveMember, InsertStep DEF BlockedStates
  <2>2. calls \in [Procs -> CallType]
    BY DEF IInv, TypeOK, Calls, CallType, In
  <2>3. TypeOK
    BY DEF IInv
  <2>4. SwitchTo(r, calls, channels')
    BY <1>1, <2>1
  <2> QED BY <1>5, <1>6, <2>2, <2>3, <2>4, SwitchStep
<1>9. \A p \in Procs : call'[p] = IF p = r THEN NoCall
                                  ELSE IF p = c THEN In("send", ch) ELSE call[p]
  BY <1>8 DEF IInv, TypeOK
<1>10. \A p \in Procs : call'[p] = Exited <=> call[p] = Exited
  BY <1>6, <1>7, <1>9 DEF NoCall, Exited, In
<1>11. /\ next' \in [Procs -> Procs \cup {NULL}]
       /\ prev' \in [Procs -> Procs \cup {NULL}]
       /\ state' \in [Procs -> ProcessStates]
       /\ IsRing(Live', next', prev')
       /\ r \in Live'
       /\ r # c
       /\ \A p \in Procs : p # r => state'[p] = state[p]
       /\ Blocked' = Blocked \ {r}
  BY <1>1, <1>6, <1>10, WakeStep
<1>12. TypeOK'
  BY <1>1, <1>5, <1>6, <1>8, <1>11 DEF IInv, TypeOK, procVars, ChannelType, Calls, CallType
<1>13. IdsIndexTheList'
  BY <1>1 DEF IInv, IdsIndexTheList, procVars
<1>14. RunQueueIsOneRing'
  BY <1>8, <1>11 DEF RunQueueIsOneRing
<1>15. \A i \in 1 .. Len(old) - 1 : Process(old[i]) \in Procs /\ Process(old[i]) # r
                                   /\ Process(old[i]) # c
  <2> SUFFICES ASSUME NEW i \in 1 .. Len(old) - 1
               PROVE  Process(old[i]) \in Procs /\ Process(old[i]) # r /\ Process(old[i]) # c
    OBVIOUS
  <2>1. i \in 1 .. Len(old) /\ Len(old) \in 1 .. Len(old) /\ i # Len(old)
    BY <1>4
  <2>2. old[i] # Last(old) /\ Waits(old[i], ch, "receive", "BlockedReading")
    BY <1>3, <1>4, <2>1
  <2>3. id[Process(old[i])] = old[i] /\ Process(old[i]) \in Procs
    BY <2>2, ProcessOfId DEF Waits, IInv
  <2> QED BY <1>6, <1>7, <2>2, <2>3 DEF Waits, BlockedStates
<1>16. ChannelsKnowTheirWaiters'
  <2>1. ChannelKnowsItsWaiters(ch)'
    <3> DEFINE waits(pid) == /\ pid \in 0 .. maxId'
                             /\ state'[processesList'[pid + 1]] = "BlockedReading"
                             /\ call'[processesList'[pid + 1]] = In("receive", ch)
    <3>1. \A i \in 1 .. Len(k.receive) : waits(k.receive[i])
      <4> SUFFICES ASSUME NEW i \in 1 .. Len(k.receive), NEW pid, pid = k.receive[i]
                   PROVE  waits(pid)
        OBVIOUS
      <4>1. i \in 1 .. Len(old) - 1 /\ i \in 1 .. Len(old) /\ pid = old[i]
        BY <1>4, <1>5
      <4>2. Waits(pid, ch, "receive", "BlockedReading")
        BY <1>3, <4>1
      <4>3. Process(pid) \in Procs /\ Process(pid) # r /\ Process(pid) # c
        BY <1>15, <4>1
      <4> QED BY <1>1, <1>9, <1>11, <4>2, <4>3 DEF Waits, Process, procVars
    <3>2. \A i, j \in 1 .. Len(k.receive) : k.receive[i] = k.receive[j] => i = j
      <4> SUFFICES ASSUME NEW i \in 1 .. Len(k.receive), NEW j \in 1 .. Len(k.receive),
                          k.receive[i] = k.receive[j]
                   PROVE  i = j
        OBVIOUS
      <4>1. /\ i \in 1 .. Len(old) /\ k.receive[i] = old[i]
            /\ j \in 1 .. Len(old) /\ k.receive[j] = old[j]
        BY <1>4, <1>5
      <4> QED BY <1>3, <4>1
    <3> QED BY <1>5, <3>1, <3>2 DEF ChannelKnowsItsWaiters, Waits, Process
  <2>2. ASSUME NEW x \in Channels, x # ch PROVE ChannelKnowsItsWaiters(x)'
    <3>1. \A p \in Procs : state[p] \in BlockedStates /\ call[p].on = x =>
             state'[p] = state[p] /\ call'[p] = call[p]
      BY <1>6, <1>7, <1>9, <1>11, <2>2 DEF In
    <3> QED BY <1>1, <1>5, <2>2, <3>1, OtherChannel
  <2> QED BY <2>1, <2>2 DEF ChannelsKnowTheirWaiters
<1>17. BlockedCanBeWoken'
  <2> SUFFICES ASSUME NEW p \in Blocked'
               PROVE  call'[p].on \in Channels /\ CanWake(call[p].on, p)'
    BY DEF BlockedCanBeWoken
  <2>1. p \in Blocked /\ p # r /\ p \in Allocated /\ p \in Procs /\ p # c
    BY <1>7, <1>11, ProcessOfId DEF Blocked, IInv, BlockedStates
  <2>2. state'[p] = state[p] /\ call'[p] = call[p] /\ id' = id
    BY <1>1, <1>9, <1>11, <2>1 DEF procVars
  <2>3. call[p].on \in Channels /\ CanWake(call[p].on, p)
    BY <2>1 DEF IInv, BlockedCanBeWoken
  <2>4. CASE call[p].on # ch
    BY <1>5, <2>2, <2>3, <2>4 DEF CanWake
  <2>5. CASE call[p].on = ch
    <3>1. state[p] = "BlockedReading"
      BY <1>1, <2>1, <2>3, <2>5 DEF CanWake, Blocked
    <3>2. PICK i \in 1 .. Len(old) : old[i] = id[p]
      BY <2>3, <2>5, <3>1 DEF CanWake
    <3>3. id[p] # id[r]
      BY <1>6, <2>1, ProcessOfId DEF IInv, Blocked
    <3>4. i \in 1 .. Len(old) - 1
      BY <1>4, <1>6, <3>2, <3>3
    <3>5. i \in 1 .. Len(k.receive) /\ k.receive[i] = id[p]
      BY <1>4, <1>5, <3>2, <3>4
    <3> QED BY <2>2, <2>5, <3>1, <3>5 DEF CanWake
  <2> QED BY <2>4, <2>5
<1> QED BY <1>12, <1>13, <1>14, <1>16, <1>17 DEF IInv

-----------------------------------------------------------------------------
\* newProcess: the id it assigns fits a char and is the index of the entry it
\* appends.
LEMMA NewProcessInv ==
    ASSUME IInv, NEW p \in Procs, NewProcess(p)
    PROVE  IInv'
<1>1. /\ p \notin Allocated /\ maxId' = maxId + 1 /\ maxId < MaxId
      /\ id' = [id EXCEPT ![p] = ToChar(maxId + 1)]
      /\ state' = [state EXCEPT ![p] = "Runnable"]
      /\ slicesLeft' = [slicesLeft EXCEPT ![p] = MaxTimeSlices]
      /\ processesList' = Append(processesList, p)
      /\ call' = [call EXCEPT ![p] = NoCall]
      /\ Insert(p)
      /\ UNCHANGED <<currentProcess, preventTaskSwitch, channels, received>>
  BY DEF NewProcess
<1>2. /\ maxId \in 0 .. MaxId /\ maxId + 1 \in 0 .. MaxId /\ MaxId \in 0 .. 127
      /\ processesList \in Seq(Procs) /\ Len(processesList) = maxId + 1
  BY <1>1, KernelAssumption DEF IInv, TypeOK, IdsIndexTheList
<1>3. ToChar(maxId + 1) = maxId + 1
  BY <1>2 DEF ToChar
<1>4. /\ currentProcess \in Live /\ Live \subseteq Allocated /\ Allocated \subseteq Procs
  BY CurrentIsLive
<1>5. /\ processesList' \in Seq(Procs) /\ Len(processesList') = maxId + 2
      /\ \A i \in 1 .. maxId + 1 : processesList'[i] = processesList[i]
      /\ processesList'[maxId + 2] = p
      /\ DOMAIN processesList' = 1 .. maxId + 2 /\ DOMAIN processesList = 1 .. maxId + 1
  BY <1>1, <1>2
<1>6. Allocated' = Allocated \cup {p}
  <2>1. 1 .. maxId + 2 = (1 .. maxId + 1) \cup {maxId + 2}
    BY <1>2
  <2> QED BY <1>5, <2>1 DEF Allocated
<1>7. \A q \in Procs : q # p => /\ state'[q] = state[q] /\ id'[q] = id[q]
                                /\ call'[q] = call[q]
  BY <1>1 DEF IInv, TypeOK
<1>8. state'[p] = "Runnable" /\ id'[p] = maxId + 1 /\ call'[p] = NoCall
  BY <1>1, <1>3 DEF IInv, TypeOK
<1>9. Blocked' = Blocked
  BY <1>1, <1>4, <1>6, <1>7, <1>8 DEF Blocked
<1>10. Live' = Live \cup {p}
  <2>1. \A q : q \in Live' <=>
                 /\ q \in Allocated'
                 /\ state'[q] \notin {"BlockedWriting", "BlockedReading"}
                 /\ call'[q] # Exited
    BY DEF Live, Blocked, Dead
  <2>2. p \in Live'
    BY <1>6, <1>8, <2>1 DEF NoCall, Exited, In
  <2>3. \A q \in Allocated : q \in Live' <=> q \in Live
    BY <1>1, <1>4, <1>6, <1>7, <2>1, LiveMember
  <2> QED BY <1>4, <1>6, <2>1, <2>2, <2>3
<1>11. /\ next' \in [Procs -> Procs \cup {NULL}]
       /\ prev' \in [Procs -> Procs \cup {NULL}]
       /\ IsRing(Live \cup {p}, next', prev')
  BY <1>1, <1>4, InsertStep
<1>12. TypeOK'
  <2>1. maxId + 1 \in Ids
    BY <1>2 DEF Ids
  <2>2. MaxTimeSlices \in -BootTicks .. MaxTimeSlices
    BY KernelAssumption
  <2> QED BY <1>1, <1>2, <1>3, <1>5, <1>11, <2>1, <2>2
          DEF IInv, TypeOK, ProcessStates, Calls
<1>13. IdsIndexTheList'
  <2>1. Len(processesList') = maxId' + 1
    BY <1>1, <1>2, <1>5
  <2>2. ASSUME NEW i \in 1 .. Len(processesList')
        PROVE  id'[processesList'[i]] = i - 1
    <3>1. CASE i = maxId + 2
      BY <1>2, <1>5, <1>8, <3>1
    <3>2. CASE i # maxId + 2
      <4>1. i \in 1 .. maxId + 1 /\ processesList'[i] = processesList[i]
        BY <1>2, <1>5, <3>2
      <4>2. processesList[i] \in Allocated /\ id[processesList[i]] = i - 1
        BY <1>2, <1>5, <4>1 DEF IInv, IdsIndexTheList, Allocated
      <4> QED BY <1>1, <1>4, <1>7, <4>1, <4>2
    <3> QED BY <3>1, <3>2
  <2> QED BY <2>1, <2>2 DEF IdsIndexTheList
<1>14. RunQueueIsOneRing'
  BY <1>1, <1>4, <1>10, <1>11 DEF RunQueueIsOneRing
<1>15. ASSUME NEW pid \in 0 .. maxId
       PROVE  /\ pid \in 0 .. maxId' /\ processesList'[pid + 1] = Process(pid)
              /\ Process(pid) \in Procs /\ Process(pid) # p
  <2>1. pid + 1 \in 1 .. maxId + 1 /\ pid \in 0 .. maxId'
    BY <1>1, <1>2
  <2>2. Process(pid) \in Allocated
    BY ProcessOfId DEF IInv
  <2> QED BY <1>1, <1>4, <1>5, <2>1, <2>2 DEF Process
<1>16. ChannelsKnowTheirWaiters'
  <2> SUFFICES ASSUME NEW ch \in Channels PROVE ChannelKnowsItsWaiters(ch)'
    BY DEF ChannelsKnowTheirWaiters
  <2>1. ChannelKnowsItsWaiters(ch)
    BY DEF IInv, ChannelsKnowTheirWaiters
  <2> DEFINE k == channels[ch]
             waits(pid, op, st) == /\ pid \in 0 .. maxId'
                                   /\ state'[processesList'[pid + 1]] = st
                                   /\ call'[processesList'[pid + 1]] = In(op, ch)
  <2>2. ASSUME NEW pid, NEW op, NEW st, Waits(pid, ch, op, st)
        PROVE  waits(pid, op, st)
    BY <1>7, <1>15, <2>2 DEF Waits
  <2> HIDE DEF waits
  <2>3. k.state = "Sender" => waits(k.sendId, "send", "BlockedWriting")
    BY <2>1, <2>2 DEF ChannelKnowsItsWaiters
  <2>4. \A i \in 1 .. Len(k.receive) : waits(k.receive[i], "receive", "BlockedReading")
    BY <2>1, <2>2 DEF ChannelKnowsItsWaiters
  <2>5. channels'[ch] = k
    BY <1>1
  <2> QED BY <2>1, <2>3, <2>4, <2>5 DEF ChannelKnowsItsWaiters, Waits, Process, waits
<1>17. BlockedCanBeWoken'
  <2> SUFFICES ASSUME NEW q \in Blocked
               PROVE  call'[q].on \in Channels /\ CanWake(call[q].on, q)'
    BY <1>9 DEF BlockedCanBeWoken
  <2>1. call[q].on \in Channels /\ CanWake(call[q].on, q)
    BY DEF IInv, BlockedCanBeWoken
  <2>2. state'[q] = state[q] /\ id'[q] = id[q] /\ call'[q] = call[q]
    BY <1>1, <1>4, <1>7 DEF Blocked
  <2> QED BY <1>1, <2>1, <2>2 DEF CanWake
<1> QED BY <1>12, <1>13, <1>14, <1>16, <1>17 DEF IInv

\* exit
LEMMA ExitInv ==
    ASSUME IInv, Exit
    PROVE  IInv'
<1> DEFINE c == currentProcess
           q == currentProcess'
<1>1. /\ next[c] # c /\ UNCHANGED <<state, procVars, slicesLeft, channels>>
      /\ LeaveRing([call EXCEPT ![c] = Exited], channels)
  BY DEF Exit
<1>2. Exited \in CallType /\ channels \in [Channels -> ChannelType]
  BY DEF CallType, IInv, TypeOK, ChannelType
<1>3. /\ next' \in [Procs -> Procs \cup {NULL}] /\ prev' \in [Procs -> Procs \cup {NULL}]
      /\ IsRing(Live \ {c}, next', prev')
      /\ q \in Live \ {c}
      /\ call' = [call EXCEPT ![c] = Exited, ![q] = NoCall]
      /\ call' \in [Procs -> CallType]
      /\ received' \in [Procs -> Values \cup {NoValue}]
      /\ preventTaskSwitch' = FALSE
  BY <1>1, <1>2, LeaveRingStep
<1>4. /\ c \in Procs /\ c \in Live /\ Live \subseteq Procs /\ Live \subseteq Allocated
      /\ Allocated \subseteq Procs
      /\ state[c] \notin BlockedStates
  BY CurrentIsLive
<1>5. \A p \in Procs : call'[p] = IF p = q THEN NoCall
                                  ELSE IF p = c THEN Exited ELSE call[p]
  BY <1>3, <1>4 DEF IInv, TypeOK
<1>6. Allocated' = Allocated /\ Blocked' = Blocked
  BY <1>1 DEF Allocated, Blocked, procVars
<1>7. Live' = Live \ {c}
  <2>1. \A p : p \in Live' <=>
                 /\ p \in Allocated'
                 /\ state'[p] \notin BlockedStates
                 /\ call'[p] # Exited
    BY DEF Live, Blocked, Dead, BlockedStates
  <2>2. NoCall # Exited
    BY DEF NoCall, Exited, In
  <2>3. ASSUME NEW p \in Allocated PROVE p \in Live' <=> p \in Live \ {c}
    <3>1. CASE p = c
      BY <1>3, <1>4, <1>5, <2>1, <3>1
    <3>2. CASE p = q
      BY <1>1, <1>3, <1>4, <1>5, <1>6, <2>1, <2>2, <3>2, LiveMember DEF BlockedStates
    <3>3. CASE p # c /\ p # q
      BY <1>1, <1>4, <1>5, <1>6, <2>1, <3>3, LiveMember DEF BlockedStates
    <3> QED BY <3>1, <3>2, <3>3
  <2> QED BY <1>4, <1>6, <2>1, <2>3
<1>8. TypeOK'
  BY <1>1, <1>3, <1>4 DEF IInv, TypeOK, procVars, Calls, CallType
<1>9. IdsIndexTheList'
  BY <1>1 DEF IInv, IdsIndexTheList, procVars
<1>10. RunQueueIsOneRing'
  BY <1>3, <1>7 DEF RunQueueIsOneRing
<1>11. \A p \in Procs : state[p] \in BlockedStates =>
          p # c /\ state'[p] = state[p] /\ call'[p] = call[p]
  BY <1>1, <1>3, <1>4, <1>5, LiveMember DEF BlockedStates
<1>12. ChannelsKnowTheirWaiters'
  BY <1>1, <1>11, OtherChannel DEF ChannelsKnowTheirWaiters
<1>13. BlockedCanBeWoken'
  <2> SUFFICES ASSUME NEW p \in Blocked
               PROVE  call'[p].on \in Channels /\ CanWake(call[p].on, p)'
    BY <1>6 DEF BlockedCanBeWoken
  <2>1. call[p].on \in Channels /\ CanWake(call[p].on, p)
    BY DEF IInv, BlockedCanBeWoken
  <2>2. state'[p] = state[p] /\ call'[p] = call[p] /\ id' = id
    BY <1>1, <1>4, <1>11 DEF Blocked, BlockedStates, procVars
  <2> QED BY <1>1, <2>1, <2>2 DEF CanWake
<1> QED BY <1>8, <1>9, <1>10, <1>12, <1>13 DEF IInv

\* Steps that only hand the CPU to the next process.
LEMMA SwitchInv ==
    ASSUME IInv, UNCHANGED <<ringVars, procVars, preventTaskSwitch, channels>>,
           slicesLeft' \in [Procs -> -BootTicks .. MaxTimeSlices],
           SwitchToNext(next, call, channels)
    PROVE  IInv'
<1> DEFINE q == next[currentProcess]
<1>1. q \in Live /\ Live \subseteq Allocated /\ Allocated \subseteq Procs
  BY CurrentIsLive
<1>2. /\ call \in [Procs -> CallType] /\ channels \in [Channels -> ChannelType]
      /\ TypeOK /\ q \in Procs
  BY <1>1 DEF IInv, TypeOK, Calls, CallType, ChannelType
<1>3. SwitchTo(q, call, channels)
  BY DEF SwitchToNext
<1>4. /\ currentProcess' = q
      /\ call' = [call EXCEPT ![q] = NoCall]
      /\ call' \in [Procs -> CallType]
      /\ received' \in [Procs -> Values \cup {NoValue}]
  BY <1>2, <1>3, SwitchStep
<1>5. \A p \in Procs : call'[p] = IF p = q THEN NoCall ELSE call[p]
  BY <1>2, <1>4
<1>6. Allocated' = Allocated /\ Blocked' = Blocked
  BY DEF Allocated, Blocked, procVars, ringVars
<1>7. Live' = Live
  <2>1. Dead' = Dead
    BY <1>1, <1>5, <1>6, LiveMember DEF Dead, NoCall, Exited, In
  <2> QED BY <1>6, <2>1 DEF Live
<1>8. TypeOK'
  BY <1>2, <1>4 DEF TypeOK, ringVars, procVars, Calls, CallType
<1>9. IdsIndexTheList'
  BY DEF IInv, IdsIndexTheList, procVars
<1>10. RunQueueIsOneRing'
  BY <1>1, <1>4, <1>7 DEF IInv, RunQueueIsOneRing, ringVars
<1>11. \A p \in Procs : state[p] \in BlockedStates =>
          state'[p] = state[p] /\ call'[p] = call[p]
  BY <1>1, <1>5, LiveMember DEF ringVars, BlockedStates
<1>12. ChannelsKnowTheirWaiters'
  BY <1>11, OtherChannel DEF ChannelsKnowTheirWaiters
<1>13. BlockedCanBeWoken'
  <2> SUFFICES ASSUME NEW p \in Blocked
               PROVE  call'[p].on \in Channels /\ CanWake(call[p].on, p)'
    BY <1>6 DEF BlockedCanBeWoken
  <2>1. call[p].on \in Channels /\ CanWake(call[p].on, p)
    BY DEF IInv, BlockedCanBeWoken
  <2>2. state'[p] = state[p] /\ call'[p] = call[p] /\ id' = id
    BY <1>1, <1>11 DEF Blocked, BlockedStates, procVars
  <2> QED BY <2>1, <2>2 DEF CanWake
<1> QED BY <1>8, <1>9, <1>10, <1>12, <1>13 DEF IInv

\* Steps that move no process.
LEMMA NobodyMovesInv ==
    ASSUME IInv, UNCHANGED <<ringVars, procVars, currentProcess, channels, call, received>>,
           slicesLeft' \in [Procs -> -BootTicks .. MaxTimeSlices],
           preventTaskSwitch' \in BOOLEAN
    PROVE  IInv'
<1>1. TypeOK'
  BY DEF IInv, TypeOK, ringVars, procVars
<1>2. IdsIndexTheList'
  BY DEF IInv, IdsIndexTheList, procVars
<1>3. Live' = Live /\ Blocked' = Blocked
  BY DEF Live, Dead, Blocked, Allocated, ringVars, procVars
<1>4. RunQueueIsOneRing'
  BY <1>3 DEF IInv, RunQueueIsOneRing, ringVars
<1>5. ChannelsKnowTheirWaiters'
  BY OtherChannel DEF ChannelsKnowTheirWaiters, ringVars
<1>6. BlockedCanBeWoken'
  BY <1>3 DEF IInv, BlockedCanBeWoken, CanWake, ringVars, procVars
<1> QED BY <1>1, <1>2, <1>4, <1>5, <1>6 DEF IInv

LEMMA NextInv ==
    ASSUME Accompanied, IInv, [Next]_vars
    PROVE  IInv'
<1>1. CASE EnableTaskSwitch
  BY <1>1, NobodyMovesInv DEF EnableTaskSwitch, IInv, TypeOK
<1>2. ASSUME NEW p \in Procs, NewProcess(p) PROVE IInv'
  BY <1>2, NewProcessInv
<1>3. ASSUME NEW ch \in Channels, NEW v \in Values, SendBlocks(ch, v) PROVE IInv'
  BY <1>3, SendBlocksInv
<1>4. ASSUME NEW ch \in Channels, NEW v \in Values, SendWakes(ch, v) PROVE IInv'
  BY <1>4, SendWakesInv
<1>5. ASSUME NEW ch \in Channels, NEW v \in Values, SendRefused(ch, v) PROVE IInv'
  BY <1>5, NobodyMovesInv DEF SendRefused, vars, IInv, TypeOK
<1>6. ASSUME NEW ch \in Channels, ReceiveBlocks(ch) PROVE IInv'
  BY <1>6, ReceiveBlocksInv
<1>7. ASSUME NEW ch \in Channels, ReceiveTakes(ch) PROVE IInv'
  BY <1>7, ReceiveTakesInv
<1>8. CASE Exit
  BY <1>8, ExitInv
<1>9. CASE Yield
  BY <1>9, SwitchInv DEF Yield, IInv, TypeOK
<1>10. CASE TimerTick
  <2>1. slicesLeft' \in [Procs -> -BootTicks .. MaxTimeSlices]
    BY <1>10, KernelAssumption DEF TimerTick, IInv, TypeOK
  <2> QED BY <1>10, <2>1, NobodyMovesInv DEF TimerTick, IInv, TypeOK
<1>11. CASE TimerSwitch
  <2>1. slicesLeft' \in [Procs -> -BootTicks .. MaxTimeSlices]
    BY <1>11, KernelAssumption DEF TimerSwitch, IInv, TypeOK
  <2> QED BY <1>11, <2>1, SwitchInv DEF TimerSwitch
<1>12. CASE UNCHANGED vars
  BY <1>12, NobodyMovesInv DEF vars, IInv, TypeOK
<1> QED BY <1>1, <1>2, <1>3, <1>4, <1>5, <1>6, <1>7, <1>8, <1>9, <1>10, <1>11, <1>12
        DEF Next, OnTimerInterrupt

\* The guard MayBlock sees to that when the last process may not block.
LEMMA MayBlockAccompanied ==
    ASSUME ~LastMayBlock, IInv, [Next]_vars
    PROVE  Accompanied
<1> DEFINE c == currentProcess
<1>1. c \in Procs /\ state[c] \notin BlockedStates /\ state \in [Procs -> ProcessStates]
  BY CurrentIsLive DEF IInv, TypeOK
<1>2. ASSUME NEW p \in Procs, NewProcess(p) PROVE state'[c] \notin BlockedStates
  BY <1>1, <1>2 DEF NewProcess, BlockedStates
<1>3. ASSUME NEW ch \in Channels, NEW v \in Values,
             SendBlocks(ch, v) \/ SendWakes(ch, v) \/ SendRefused(ch, v)
      PROVE  Accompanied
  BY <1>1, <1>3 DEF SendBlocks, MayBlock, SendWakes, SendRefused, vars, ringVars, BlockedStates, Accompanied
<1>4. ASSUME NEW ch \in Channels, ReceiveBlocks(ch) \/ ReceiveTakes(ch)
      PROVE  Accompanied
  BY <1>1, <1>4 DEF ReceiveBlocks, MayBlock, ReceiveTakes, BlockedStates, Accompanied
<1>5. ASSUME EnableTaskSwitch \/ Exit \/ Yield \/ OnTimerInterrupt \/ UNCHANGED vars
      PROVE  state' = state
  BY <1>5 DEF EnableTaskSwitch, Exit, Yield, OnTimerInterrupt, TimerTick, TimerSwitch, vars, ringVars
<1> QED BY <1>1, <1>2, <1>3, <1>4, <1>5 DEF Next, Accompanied

\* The five invariants hold in every state, whatever the number of processes,
\* channels, values and time slices.
THEOREM Invariance == ~LastMayBlock => (Spec => []IInv)
<1> SUFFICES ASSUME ~LastMayBlock PROVE Spec => []IInv
  OBVIOUS
<1>1. IInv /\ [Next]_vars => IInv'
  BY NextInv, MayBlockAccompanied
<1> QED BY <1>1, InitInv, PTL DEF Spec

\* Kernel calls and timer switches keep the run queue one ring of exactly the
\* processes that can run, with the process on the CPU among them.
THEOREM RingSafety == ~LastMayBlock => (Spec => []RunQueueIsOneRing)
<1>1. IInv => RunQueueIsOneRing
  BY DEF IInv
<1> QED BY <1>1, Invariance, PTL

\* The channels always know whom they suspend, and nobody else is suspended.
THEOREM ChannelSafety == ~LastMayBlock => (Spec => []ChannelsKnowTheirWaiters)
<1>1. IInv => ChannelsKnowTheirWaiters
  BY DEF IInv
<1> QED BY <1>1, Invariance, PTL

\* Whoever is put to wait in send or receive can be found and woken by the next call
\* on the channel he waits on.
THEOREM WakeSafety == ~LastMayBlock => (Spec => []BlockedCanBeWoken)
<1>1. IInv => BlockedCanBeWoken
  BY DEF IInv
<1> QED BY <1>1, Invariance, PTL

\* A process id names one process, the one send and receive look up.
THEOREM IdSafety == ~LastMayBlock => (Spec => []IdsIndexTheList)
<1>1. IInv => IdsIndexTheList
  BY DEF IInv
<1> QED BY <1>1, Invariance, PTL

\* With another process in the ring at every blocking call, a process that was
\* put to wait never has the CPU.
THEOREM WaitersDoNotRun == ~LastMayBlock => (Spec => []WaitingProcessDoesNotRun)
<1>1. IInv => WaitingProcessDoesNotRun
  BY CurrentIsLive DEF WaitingProcessDoesNotRun, BlockedStates
<1> QED BY <1>1, Invariance, PTL

THEOREM TypeSafety == ~LastMayBlock => (Spec => []TypeOK)
<1>1. IInv => TypeOK
  BY DEF IInv
<1> QED BY <1>1, Invariance, PTL

-----------------------------------------------------------------------------
(***************************************************************************)
(* The scheduler and the channels implement Rendezvous.                    *)
(***************************************************************************)

\* A channel in state Sender carries a value that was sent.
OffersAValue == \A ch \in Channels :
    channels[ch].state = "Sender" => channels[ch].value \in Values

\* What the refinement needs besides IInv: a process that gets the CPU must
\* not find an unfinished receive, which would read the value field a second
\* time.
RInv == IInv /\ WokenReceiverRunsAtOnce /\ OffersAValue

Offers == [ch \in Channels |-> OfferOn(ch)]
Waiters == [ch \in Channels |-> WaitingOn(ch)]

LEMMA InitRInv == Init => RInv
<1> SUFFICES ASSUME Init PROVE RInv
  OBVIOUS
<1>1. \A p \in Procs : call[p].op # "receive"
  BY DEF Init, NoCall
<1>2. Live \subseteq Procs
  BY InitInv, CurrentIsLive
<1> QED BY <1>1, <1>2, InitInv DEF RInv, WokenReceiverRunsAtOnce, OffersAValue, Init

\* A process on the CPU is in the middle of no rendezvous.
LEMMA CurrentIsFree ==
    ASSUME IInv
    PROVE  /\ \A ch \in Channels : currentProcess \notin WaitingOn(ch)
           /\ \A ch \in Channels : \A v : <<currentProcess, v>> \notin OfferOn(ch)
<1>1. state[currentProcess] \notin BlockedStates
  BY CurrentIsLive
<1>2. \A ch \in Channels : ChannelKnowsItsWaiters(ch)
  BY DEF IInv, ChannelsKnowTheirWaiters
<1>3. ASSUME NEW ch \in Channels PROVE currentProcess \notin WaitingOn(ch)
  BY <1>1, <1>2 DEF ChannelKnowsItsWaiters, Waits, WaitingOn, BlockedStates
<1>4. ASSUME NEW ch \in Channels, NEW v PROVE <<currentProcess, v>> \notin OfferOn(ch)
  BY <1>1, <1>2 DEF ChannelKnowsItsWaiters, Waits, OfferOn, BlockedStates
<1> QED BY <1>3, <1>4

LEMMA FreeOnCpu == ASSUME IInv PROVE RV!Free(currentProcess)
  BY CurrentIsFree DEF RV!Free

\* Channels that a step leaves alone map to the same offers and waiters.
LEMMA SameChannel ==
    ASSUME IInv, NEW ch \in Channels, channels'[ch] = channels[ch],
           \A pid \in 0 .. maxId : Process(pid)' = Process(pid)
    PROVE  OfferOn(ch)' = OfferOn(ch) /\ WaitingOn(ch)' = WaitingOn(ch)
<1>1. ChannelKnowsItsWaiters(ch)
  BY DEF IInv, ChannelsKnowTheirWaiters
<1>2. channels[ch].state = "Sender" => channels[ch].sendId \in 0 .. maxId
  BY <1>1 DEF ChannelKnowsItsWaiters, Waits
<1>3. \A i \in 1 .. Len(channels[ch].receive) : channels[ch].receive[i] \in 0 .. maxId
  BY <1>1 DEF ChannelKnowsItsWaiters, Waits
<1>4. OfferOn(ch)' = OfferOn(ch)
  BY <1>2 DEF OfferOn, Process
<1>5. WaitingOn(ch)' = WaitingOn(ch)
  BY <1>3 DEF WaitingOn, Process
<1> QED BY <1>4, <1>5

-----------------------------------------------------------------------------
\* Leaving the ring hands the CPU to a process that has nothing to receive.
LEMMA LeaveRingReceivesNothing ==
    ASSUME RInv, next[currentProcess] # currentProcess,
           NEW what \in CallType,
           NEW ACTION chans, chans \in [Channels -> ChannelType],
           LeaveRing([call EXCEPT ![currentProcess] = what], chans),
           UNCHANGED processesList,
           \A p \in Procs : p # currentProcess => state'[p] = state[p],
           state'[currentProcess] \in BlockedStates \/ what = Exited
    PROVE  WokenReceiverRunsAtOnce' /\ UNCHANGED received
<1> DEFINE c == currentProcess
           q == currentProcess'
           calls == [call EXCEPT ![c] = what]
<1>1. IInv /\ WokenReceiverRunsAtOnce
  BY DEF RInv
<1>2. /\ q \in Live \ {c} /\ call' = [calls EXCEPT ![q] = NoCall]
  BY <1>1, LeaveRingStep
<1>3. /\ Live \subseteq Procs /\ Live \subseteq Allocated /\ Allocated \subseteq Procs
      /\ c \in Procs /\ call \in [Procs -> CallType]
  BY <1>1, CurrentIsLive DEF IInv, TypeOK, Calls, CallType
<1>4. \A p \in Procs : call'[p] = IF p = q THEN NoCall ELSE IF p = c THEN what ELSE call[p]
  BY <1>2, <1>3
<1>5. calls[q].op # "receive"
  BY <1>1, <1>2, <1>3 DEF WokenReceiverRunsAtOnce
<1>6. SwitchTo(q, calls, chans)
  BY <1>1 DEF LeaveRing, SwitchToNext, SwitchTo
<1>7. UNCHANGED received
  BY <1>5, <1>6 DEF SwitchTo
<1>8. ASSUME NEW p \in Live' PROVE call'[p].op # "receive"
  <2>1. p \in Allocated /\ p \in Procs /\ state'[p] \notin BlockedStates /\ call'[p] # Exited
    BY <1>3 DEF Live, Blocked, Dead, Allocated, BlockedStates
  <2>2. CASE p = q
    BY <1>4, <2>1, <2>2 DEF NoCall
  <2>3. CASE p # q
    <3>1. p # c
      BY <1>4, <2>1, <2>3
    <3>2. p \in Live
      BY <1>4, <2>1, <2>3, <3>1, LiveMember DEF BlockedStates
    <3> QED BY <1>1, <1>4, <2>1, <2>3, <3>1, <3>2 DEF WokenReceiverRunsAtOnce
  <2> QED BY <2>2, <2>3
<1> QED BY <1>7, <1>8 DEF WokenReceiverRunsAtOnce

LEMMA SendBlocksRefines ==
    ASSUME RInv, Accompanied, NEW ch \in Channels, NEW v \in Values, SendBlocks(ch, v)
    PROVE  RInv' /\ RV!Offer(currentProcess, ch, v)
<1> DEFINE c == currentProcess
           k == channels'[ch]
<1>1. IInv /\ IInv'
  BY SendBlocksInv DEF RInv
<1>2. /\ channels[ch].state = "Unused" /\ channels[ch].receive = <<>>
      /\ channels \in [Channels -> ChannelType] /\ channels[ch] \in ChannelType
  BY <1>1, NoList, ChannelTyped DEF SendBlocks
<1>3. /\ k.state = "Sender" /\ k.sendId = id[c] /\ k.value = v /\ k.receive = <<>>
      /\ \A x \in Channels : x # ch => channels'[x] = channels[x]
      /\ channels' \in [Channels -> ChannelType]
  BY <1>1, <1>2 DEF SendBlocks, ChannelType, ChannelStates, IInv, TypeOK
<1>4. /\ c \in Allocated /\ c \in Procs /\ state \in [Procs -> ProcessStates]
      /\ id[c] \in 0 .. maxId /\ Process(id[c]) = c
  BY <1>1, CurrentIsLive, ProcessOfId DEF IInv, TypeOK
<1>5. UNCHANGED procVars
  BY DEF SendBlocks
<1>6. WokenReceiverRunsAtOnce' /\ UNCHANGED received
  <2>1. /\ In("send", ch) \in CallType
        /\ LeaveRing([call EXCEPT ![c] = In("send", ch)], channels')
    BY DEF SendBlocks, In, CallType
  <2>2. /\ \A p \in Procs : p # c => state'[p] = state[p]
        /\ state'[c] \in BlockedStates
    BY <1>4 DEF SendBlocks, BlockedStates
  <2>3. next[c] # c
    BY <2>2 DEF Accompanied
  <2> QED BY <1>3, <1>5, <2>1, <2>2, <2>3, LeaveRingReceivesNothing DEF procVars
<1>7. OffersAValue'
  BY <1>3 DEF RInv, OffersAValue
<1>8. /\ OfferOn(ch) = {} /\ WaitingOn(ch) = {}
      /\ OfferOn(ch)' = {<<c, v>>} /\ WaitingOn(ch)' = {}
  BY <1>2, <1>3, <1>4, <1>5 DEF OfferOn, WaitingOn, Process, procVars
<1>9. \A x \in Channels : x # ch => OfferOn(x)' = OfferOn(x) /\ WaitingOn(x)' = WaitingOn(x)
  BY <1>1, <1>3, <1>5, SameChannel DEF Process, procVars
<1>10. RV!Free(c)
  BY <1>1, FreeOnCpu
<1>11. /\ Offers' = [Offers EXCEPT ![ch] = {<<c, v>>}]
       /\ Waiters' = Waiters
  BY <1>8, <1>9 DEF Offers, Waiters
<1>12. RV!Offer(c, ch, v)
  BY <1>6, <1>8, <1>10, <1>11 DEF RV!Offer, Offers, Waiters
<1> QED BY <1>1, <1>6, <1>7, <1>12 DEF RInv

LEMMA ReceiveBlocksRefines ==
    ASSUME RInv, Accompanied, NEW ch \in Channels, ReceiveBlocks(ch)
    PROVE  RInv' /\ RV!Await(currentProcess, ch)
<1> DEFINE c == currentProcess
           k == channels'[ch]
           old == channels[ch].receive
<1>1. IInv /\ IInv'
  BY ReceiveBlocksInv DEF RInv
<1>2. /\ old \in Seq(Ids)
      /\ channels \in [Channels -> ChannelType] /\ channels[ch] \in ChannelType
      /\ channels[ch].state \in {"Unused", "Receiver"}
  BY <1>1, ChannelTyped DEF ReceiveBlocks
<1>3. /\ c \in Allocated /\ c \in Procs /\ state \in [Procs -> ProcessStates]
      /\ id[c] \in 0 .. maxId /\ Process(id[c]) = c /\ id[c] \in Ids
  BY <1>1, CurrentIsLive, ProcessOfId DEF IInv, TypeOK
<1>4. channels' = [channels EXCEPT ![ch].state = "Receiver",
                                   ![ch].receive = Append(old, id[c])]
  <2>1. CASE channels[ch].state = "Unused"
    BY <1>1, <2>1, NoList DEF ReceiveBlocks
  <2>2. CASE channels[ch].state # "Unused"
    BY <2>2 DEF ReceiveBlocks
  <2> QED BY <2>1, <2>2
<1>5. /\ k.state = "Receiver" /\ k.receive = Append(old, id[c])
      /\ \A x \in Channels : x # ch => channels'[x] = channels[x]
      /\ channels' \in [Channels -> ChannelType]
  <2>1. Append(old, id[c]) \in Seq(Ids)
    BY <1>2, <1>3
  <2> QED BY <1>2, <1>4, <2>1 DEF ChannelType, ChannelStates
<1>6. UNCHANGED procVars
  BY DEF ReceiveBlocks
<1>7. WokenReceiverRunsAtOnce' /\ UNCHANGED received
  <2>1. /\ In("receive", ch) \in CallType
        /\ LeaveRing([call EXCEPT ![c] = In("receive", ch)], channels')
    BY DEF ReceiveBlocks, In, CallType
  <2>2. /\ \A p \in Procs : p # c => state'[p] = state[p]
        /\ state'[c] \in BlockedStates
    BY <1>3 DEF ReceiveBlocks, BlockedStates
  <2>3. next[c] # c
    BY <2>2 DEF Accompanied
  <2> QED BY <1>5, <1>6, <2>1, <2>2, <2>3, LeaveRingReceivesNothing DEF procVars
<1>8. OffersAValue'
  BY <1>5 DEF RInv, OffersAValue
<1>9. /\ OfferOn(ch) = {} /\ OfferOn(ch)' = {}
      /\ WaitingOn(ch)' = WaitingOn(ch) \cup {c}
  <2>1. OfferOn(ch) = {} /\ OfferOn(ch)' = {}
    BY <1>2, <1>5 DEF OfferOn
  <2>2. /\ Len(k.receive) = Len(old) + 1 /\ Len(old) \in Nat
        /\ \A i \in 1 .. Len(old) : k.receive[i] = old[i]
        /\ k.receive[Len(old) + 1] = id[c]
    BY <1>2, <1>3, <1>5
  <2>3. 1 .. Len(k.receive) = (1 .. Len(old)) \cup {Len(old) + 1}
    BY <2>2
  <2>4. WaitingOn(ch)' = {Process(k.receive[i]) : i \in 1 .. Len(k.receive)}
    BY <1>6 DEF WaitingOn, Process, procVars
  <2> QED BY <1>3, <2>1, <2>2, <2>3, <2>4 DEF WaitingOn
<1>10. \A x \in Channels : x # ch => OfferOn(x)' = OfferOn(x) /\ WaitingOn(x)' = WaitingOn(x)
  BY <1>1, <1>5, <1>6, SameChannel DEF Process, procVars
<1>11. RV!Free(c)
  BY <1>1, FreeOnCpu
<1>12. /\ Waiters' = [Waiters EXCEPT ![ch] = @ \cup {c}]
       /\ Offers' = Offers
  BY <1>9, <1>10 DEF Offers, Waiters
<1>13. RV!Await(c, ch)
  BY <1>7, <1>9, <1>11, <1>12 DEF RV!Await, Offers, Waiters
<1> QED BY <1>1, <1>7, <1>8, <1>13 DEF RInv

\* The process that send pops is a waiter of the channel and no other entry of
\* the list names it.
LEMMA PoppedWaiter ==
    ASSUME IInv, NEW ch \in Channels, channels[ch].state = "Receiver"
    PROVE  LET old == channels[ch].receive
               r   == Process(Last(old))
           IN  /\ Front(old) \in Seq(Ids) /\ Len(Front(old)) = Len(old) - 1
               /\ Len(old) \in Nat \ {0}
               /\ r \in WaitingOn(ch)
               /\ {Process(Front(old)[i]) : i \in 1 .. Len(old) - 1} = WaitingOn(ch) \ {r}
               /\ r \in Procs /\ r \notin Live /\ call[r] = In("receive", ch)
<1> DEFINE old == channels[ch].receive
           r   == Process(Last(old))
<1>1. /\ old \in Seq(Ids) /\ old # <<>>
      /\ \A i \in 1 .. Len(old) : Waits(old[i], ch, "receive", "BlockedReading")
      /\ \A i, j \in 1 .. Len(old) : old[i] = old[j] => i = j
  BY ChannelTyped DEF IInv, ChannelsKnowTheirWaiters, ChannelKnowsItsWaiters
<1>2. /\ Front(old) \in Seq(Ids) /\ Len(Front(old)) = Len(old) - 1
      /\ \A i \in 1 .. Len(old) - 1 : Front(old)[i] = old[i]
      /\ Len(old) \in Nat \ {0} /\ Last(old) = old[Len(old)]
  BY <1>1, FrontOfSeq
<1>3. 1 .. Len(old) = (1 .. Len(old) - 1) \cup {Len(old)} /\ Len(old) \notin 1 .. Len(old) - 1
  BY <1>2
<1>4. \A i \in 1 .. Len(old) - 1 : Process(old[i]) # r
  <2> SUFFICES ASSUME NEW i \in 1 .. Len(old) - 1 PROVE Process(old[i]) # r
    OBVIOUS
  <2>1. i \in 1 .. Len(old) /\ Len(old) \in 1 .. Len(old) /\ i # Len(old)
    BY <1>3
  <2>2. /\ old[i] # Last(old) /\ old[i] \in 0 .. maxId /\ Last(old) \in 0 .. maxId
    BY <1>1, <1>2, <2>1 DEF Waits
  <2> QED BY <2>2, ProcessOfId DEF IInv
<1>5. WaitingOn(ch) = {Process(old[i]) : i \in 1 .. Len(old) - 1} \cup {r}
  BY <1>2, <1>3 DEF WaitingOn
<1>6. {Process(Front(old)[i]) : i \in 1 .. Len(old) - 1}
        = {Process(old[i]) : i \in 1 .. Len(old) - 1}
  BY <1>2
<1>7. {Process(Front(old)[i]) : i \in 1 .. Len(old) - 1} = WaitingOn(ch) \ {r}
  BY <1>4, <1>5, <1>6
<1>8. Waits(Last(old), ch, "receive", "BlockedReading")
  BY <1>1, <1>2, <1>3
<1>9. r \in Procs /\ r \notin Live /\ call[r] = In("receive", ch)
  BY <1>8, ProcessOfId, LiveMember DEF Waits, IInv
<1> QED BY <1>2, <1>5, <1>7, <1>9

LEMMA SendWakesRefines ==
    ASSUME RInv, NEW ch \in Channels, NEW v \in Values, SendWakes(ch, v)
    PROVE  RInv' /\ \E r \in Procs : RV!Pass(currentProcess, ch, v, r)
<1> DEFINE c == currentProcess
           k == channels'[ch]
           old == channels[ch].receive
           r == Process(Last(old))
           calls == [call EXCEPT ![c] = In("send", ch)]
<1>1. IInv /\ IInv' /\ WokenReceiverRunsAtOnce /\ OffersAValue
  BY SendWakesInv DEF RInv
<1>2. /\ channels[ch].state = "Receiver"
      /\ UNCHANGED procVars
      /\ Insert(r) /\ state' = [state EXCEPT ![r] = "Runnable"]
      /\ channels' = [channels EXCEPT ![ch].value = v, ![ch].receive = Front(old),
                          ![ch].state = IF Front(old) = <<>> THEN "Unused" ELSE @]
      /\ SwitchTo(next'[c], calls, channels')
  BY DEF SendWakes, SwitchToNext
<1>3. /\ Front(old) \in Seq(Ids) /\ Len(Front(old)) = Len(old) - 1
      /\ Len(old) \in Nat \ {0}
      /\ r \in WaitingOn(ch)
      /\ {Process(Front(old)[i]) : i \in 1 .. Len(old) - 1} = WaitingOn(ch) \ {r}
      /\ r \in Procs /\ r \notin Live /\ call[r] = In("receive", ch)
  BY <1>1, <1>2, PoppedWaiter
<1>4. /\ c \in Live /\ c \in Procs /\ Allocated \subseteq Procs
      /\ state \in [Procs -> ProcessStates] /\ call \in [Procs -> CallType]
  BY <1>1, CurrentIsLive DEF IInv, TypeOK, Calls, CallType
<1>5. next'[c] = r
  BY <1>1, <1>2, <1>3, InsertStep
<1>6. SwitchTo(r, calls, channels')
  BY <1>2, <1>5
<1>7. /\ channels \in [Channels -> ChannelType] /\ channels[ch] \in ChannelType
  BY <1>1, ChannelTyped
<1>8. /\ k.state \in {"Unused", "Receiver"} /\ k.receive = Front(old) /\ k.value = v
      /\ \A x \in Channels : x # ch => channels'[x] = channels[x]
  BY <1>2, <1>7 DEF ChannelType
<1>9. \A p \in Procs : call'[p] = IF p = r THEN NoCall
                                  ELSE IF p = c THEN In("send", ch) ELSE call[p]
  BY <1>4, <1>6 DEF SwitchTo
<1>10. received' = [received EXCEPT ![r] = v]
  <2>1. calls[r] = In("receive", ch)
    BY <1>3, <1>4
  <2>2. calls[r].op = "receive" /\ calls[r].on = ch
    BY <2>1 DEF In
  <2>3. received' = [received EXCEPT ![r] = channels'[calls[r].on].value]
    BY <1>6, <2>2 DEF SwitchTo
  <2> QED BY <1>8, <2>2, <2>3
<1>11. WokenReceiverRunsAtOnce'
  <2> SUFFICES ASSUME NEW p \in Live' PROVE call'[p].op # "receive"
    BY DEF WokenReceiverRunsAtOnce
  <2>1. p \in Allocated /\ p \in Procs /\ state'[p] \notin BlockedStates /\ call'[p] # Exited
    BY <1>2, <1>4 DEF Live, Blocked, Dead, Allocated, BlockedStates, procVars
  <2>2. CASE p = r \/ p = c
    BY <1>9, <2>1, <2>2 DEF NoCall, In
  <2>3. CASE p # r /\ p # c
    <3>1. p \in Live
      BY <1>2, <1>4, <1>9, <2>1, <2>3, LiveMember DEF BlockedStates
    <3> QED BY <1>1, <1>9, <2>1, <2>3, <3>1 DEF WokenReceiverRunsAtOnce
  <2> QED BY <2>2, <2>3
<1>12. OffersAValue'
  BY <1>1, <1>8 DEF OffersAValue
<1>13. /\ OfferOn(ch) = {} /\ OfferOn(ch)' = {}
       /\ WaitingOn(ch)' = WaitingOn(ch) \ {r}
  <2>1. OfferOn(ch) = {} /\ OfferOn(ch)' = {}
    BY <1>2, <1>8 DEF OfferOn
  <2>2. WaitingOn(ch)' = {Process(Front(old)[i]) : i \in 1 .. Len(old) - 1}
    BY <1>2, <1>3, <1>8 DEF WaitingOn, Process, procVars
  <2> QED BY <1>3, <2>1, <2>2
<1>14. \A x \in Channels : x # ch => OfferOn(x)' = OfferOn(x) /\ WaitingOn(x)' = WaitingOn(x)
  BY <1>1, <1>2, <1>8, SameChannel DEF Process, procVars
<1>15. /\ Waiters' = [Waiters EXCEPT ![ch] = @ \ {r}]
       /\ Offers' = Offers
  BY <1>13, <1>14 DEF Offers, Waiters
<1>16. RV!Free(c)
  BY <1>1, FreeOnCpu
<1>17. RV!Pass(c, ch, v, r)
  BY <1>3, <1>10, <1>15, <1>16 DEF RV!Pass, Offers, Waiters
<1> QED BY <1>1, <1>3, <1>11, <1>12, <1>17 DEF RInv

LEMMA ReceiveTakesRefines ==
    ASSUME RInv, NEW ch \in Channels, ReceiveTakes(ch)
    PROVE  /\ RInv'
           /\ \E q \in Procs, v \in Values : RV!Take(currentProcess, ch, q, v)
<1> DEFINE c == currentProcess
           k == channels'[ch]
           s == Process(channels[ch].sendId)
           v == channels[ch].value
<1>1. IInv /\ IInv' /\ WokenReceiverRunsAtOnce /\ OffersAValue
  BY ReceiveTakesInv DEF RInv
<1>2. /\ channels[ch].state = "Sender" /\ channels[ch].receive = <<>>
      /\ channels \in [Channels -> ChannelType] /\ channels[ch] \in ChannelType
  BY <1>1, NoList, ChannelTyped DEF ReceiveTakes
<1>3. /\ UNCHANGED <<procVars, call>>
      /\ state' = [state EXCEPT ![s] = "Runnable"]
      /\ channels' = [channels EXCEPT ![ch].state = "Unused"]
      /\ received' = [received EXCEPT ![c] = v]
  BY DEF ReceiveTakes
<1>4. /\ k.state = "Unused" /\ k.receive = <<>>
      /\ \A x \in Channels : x # ch => channels'[x] = channels[x]
  BY <1>2, <1>3 DEF ChannelType
<1>5. /\ s \in Procs /\ call[s] = In("send", ch)
  <2>1. Waits(channels[ch].sendId, ch, "send", "BlockedWriting")
    BY <1>1, <1>2 DEF IInv, ChannelsKnowTheirWaiters, ChannelKnowsItsWaiters
  <2> QED BY <1>1, <2>1, ProcessOfId DEF Waits, IInv
<1>6. WokenReceiverRunsAtOnce'
  <2> SUFFICES ASSUME NEW p \in Live' PROVE call'[p].op # "receive"
    BY DEF WokenReceiverRunsAtOnce
  <2>1. /\ p \in Allocated /\ p \in Procs /\ state'[p] \notin BlockedStates
        /\ call'[p] # Exited /\ state \in [Procs -> ProcessStates]
    BY <1>1, <1>3, ProcessOfId
       DEF Live, Blocked, Dead, Allocated, BlockedStates, procVars, IInv, TypeOK
  <2>2. CASE p = s
    BY <1>3, <1>5, <2>2 DEF In
  <2>3. CASE p # s
    <3>1. p \in Live
      BY <1>3, <2>1, <2>3, LiveMember DEF BlockedStates
    <3> QED BY <1>1, <1>3, <3>1 DEF WokenReceiverRunsAtOnce
  <2> QED BY <2>2, <2>3
<1>7. OffersAValue' /\ v \in Values
  BY <1>1, <1>2, <1>4 DEF OffersAValue
<1>8. /\ OfferOn(ch) = {<<s, v>>} /\ OfferOn(ch)' = {}
      /\ WaitingOn(ch) = {} /\ WaitingOn(ch)' = {}
  BY <1>2, <1>4 DEF OfferOn, WaitingOn
<1>9. \A x \in Channels : x # ch => OfferOn(x)' = OfferOn(x) /\ WaitingOn(x)' = WaitingOn(x)
  BY <1>1, <1>3, <1>4, SameChannel DEF Process, procVars
<1>10. /\ Offers' = [Offers EXCEPT ![ch] = {}]
       /\ Waiters' = Waiters
  BY <1>8, <1>9 DEF Offers, Waiters
<1>11. RV!Free(c)
  BY <1>1, FreeOnCpu
<1>12. RV!Take(c, ch, s, v)
  BY <1>3, <1>8, <1>10, <1>11 DEF RV!Take, Offers, Waiters
<1> QED BY <1>1, <1>5, <1>6, <1>7, <1>12 DEF RInv

-----------------------------------------------------------------------------
\* Steps that leave the channels alone and deliver nothing do not show in
\* Rendezvous.
LEMMA QuietStep ==
    ASSUME RInv, IInv', WokenReceiverRunsAtOnce', UNCHANGED <<channels, received>>,
           \A pid \in 0 .. maxId : Process(pid)' = Process(pid)
    PROVE  RInv' /\ UNCHANGED RV!rvVars
<1>1. \A ch \in Channels : OfferOn(ch)' = OfferOn(ch) /\ WaitingOn(ch)' = WaitingOn(ch)
  BY SameChannel DEF RInv
<1>2. OffersAValue'
  BY DEF RInv, OffersAValue
<1> QED BY <1>1, <1>2 DEF RInv, RV!rvVars

\* Yield and the timer's switch
LEMMA SwitchIsQuiet ==
    ASSUME RInv, IInv', SwitchToNext(next, call, channels),
           UNCHANGED <<ringVars, procVars, channels>>
    PROVE  RInv' /\ UNCHANGED RV!rvVars
<1> DEFINE q == next[currentProcess]
<1>1. IInv /\ WokenReceiverRunsAtOnce
  BY DEF RInv
<1>2. /\ q \in Live /\ Live \subseteq Procs /\ call \in [Procs -> CallType]
      /\ Allocated \subseteq Procs
  BY <1>1, CurrentIsLive DEF IInv, TypeOK, Calls, CallType
<1>3. call[q].op # "receive"
  BY <1>1, <1>2 DEF WokenReceiverRunsAtOnce
<1>4. call' = [call EXCEPT ![q] = NoCall] /\ received' = received
  BY <1>3 DEF SwitchToNext, SwitchTo
<1>5. WokenReceiverRunsAtOnce'
  <2> SUFFICES ASSUME NEW p \in Live' PROVE call'[p].op # "receive"
    BY DEF WokenReceiverRunsAtOnce
  <2>1. p \in Allocated /\ p \in Procs /\ state[p] \notin BlockedStates /\ call'[p] # Exited
    BY <1>2 DEF Live, Blocked, Dead, Allocated, BlockedStates, procVars, ringVars
  <2>2. CASE p = q
    BY <1>2, <1>4, <2>2 DEF NoCall
  <2>3. CASE p # q
    <3>1. call'[p] = call[p] /\ p \in Live
      BY <1>2, <1>4, <2>1, <2>3, LiveMember DEF BlockedStates
    <3> QED BY <1>1, <3>1 DEF WokenReceiverRunsAtOnce
  <2> QED BY <2>2, <2>3
<1> QED BY <1>4, <1>5, QuietStep DEF Process, procVars

LEMMA NewProcessIsQuiet ==
    ASSUME RInv, NEW p \in Procs, NewProcess(p)
    PROVE  RInv' /\ UNCHANGED RV!rvVars
<1>1. IInv /\ IInv' /\ WokenReceiverRunsAtOnce
  BY NewProcessInv DEF RInv
<1>2. /\ call' = [call EXCEPT ![p] = NoCall] /\ state' = [state EXCEPT ![p] = "Runnable"]
      /\ processesList' = Append(processesList, p) /\ maxId' = maxId + 1
      /\ UNCHANGED <<channels, received>>
  BY DEF NewProcess
<1>3. /\ call \in [Procs -> CallType] /\ state \in [Procs -> ProcessStates]
      /\ processesList \in Seq(Procs) /\ Len(processesList) = maxId + 1 /\ maxId \in Nat
      /\ processesList' \in Seq(Procs) /\ Len(processesList') = maxId' + 1
  <2>1. IInv /\ IInv' /\ MaxId \in 0 .. 127
    BY <1>1, KernelAssumption
  <2>2. /\ call \in [Procs -> CallType] /\ state \in [Procs -> ProcessStates]
        /\ processesList \in Seq(Procs) /\ Len(processesList) = maxId + 1
        /\ maxId \in 0 .. MaxId
    BY <2>1 DEF IInv, TypeOK, Calls, CallType, IdsIndexTheList
  <2>3. processesList' \in Seq(Procs) /\ Len(processesList') = maxId' + 1
    BY <2>1 DEF IInv, TypeOK, IdsIndexTheList
  <2> QED BY <2>1, <2>2, <2>3
<1>4. \A i \in 1 .. maxId + 1 : processesList'[i] = processesList[i]
  BY <1>2, <1>3
<1>5. \A pid \in 0 .. maxId : Process(pid)' = Process(pid)
  BY <1>3, <1>4 DEF Process
<1>6. WokenReceiverRunsAtOnce'
  <2> SUFFICES ASSUME NEW x \in Live' PROVE call'[x].op # "receive"
    BY DEF WokenReceiverRunsAtOnce
  <2>1. PICK i \in 1 .. maxId + 2 : x = processesList'[i]
    BY <1>2, <1>3 DEF Live, Allocated
  <2>2. state'[x] \notin BlockedStates /\ call'[x] # Exited
    BY DEF Live, Blocked, Dead, BlockedStates
  <2>3. CASE x = p
    BY <1>2, <1>3, <2>3 DEF NoCall
  <2>4. CASE x # p
    <3>1. i \in 1 .. maxId + 1
      BY <1>2, <1>3, <2>1, <2>4
    <3>2. x \in Allocated /\ x \in Procs
      BY <1>3, <1>4, <2>1, <3>1 DEF Allocated
    <3>3. call'[x] = call[x] /\ state'[x] = state[x]
      BY <1>2, <1>3, <2>4, <3>2
    <3>4. x \in Live
      BY <2>2, <3>2, <3>3, LiveMember DEF BlockedStates
    <3> QED BY <1>1, <3>3, <3>4 DEF WokenReceiverRunsAtOnce
  <2> QED BY <2>3, <2>4
<1> QED BY <1>1, <1>2, <1>5, <1>6, QuietStep

LEMMA ExitIsQuiet ==
    ASSUME RInv, Exit
    PROVE  RInv' /\ UNCHANGED RV!rvVars
<1>1. IInv /\ IInv'
  BY ExitInv DEF RInv
<1>2. /\ next[currentProcess] # currentProcess
      /\ LeaveRing([call EXCEPT ![currentProcess] = Exited], channels)
      /\ UNCHANGED <<state, procVars, channels>>
  BY DEF Exit
<1>3. Exited \in CallType /\ channels \in [Channels -> ChannelType]
  BY <1>1 DEF CallType, IInv, TypeOK, ChannelType
<1>4. WokenReceiverRunsAtOnce' /\ UNCHANGED received
  BY <1>2, <1>3, LeaveRingReceivesNothing DEF procVars
<1> QED BY <1>1, <1>2, <1>4, QuietStep DEF Process, procVars

LEMMA NobodyMovesIsQuiet ==
    ASSUME RInv, IInv',
           UNCHANGED <<ringVars, procVars, currentProcess, channels, call, received>>
    PROVE  RInv' /\ UNCHANGED RV!rvVars
<1>1. Live' = Live
  BY DEF Live, Dead, Blocked, Allocated, ringVars, procVars
<1>2. WokenReceiverRunsAtOnce'
  BY <1>1 DEF RInv, WokenReceiverRunsAtOnce
<1> QED BY <1>2, QuietStep DEF Process, procVars

-----------------------------------------------------------------------------
LEMMA InitRefines == Init => RV!Init
<1> SUFFICES ASSUME Init PROVE RV!Init
  OBVIOUS
<1>1. \A ch \in Channels : OfferOn(ch) = {} /\ WaitingOn(ch) = {}
  BY DEF Init, OfferOn, WaitingOn
<1> QED BY <1>1 DEF Init, RV!Init

LEMMA NextRefines ==
    ASSUME Accompanied, RInv, [Next]_vars
    PROVE  RInv' /\ [RV!Next]_(RV!rvVars)
<1> DEFINE c == currentProcess
<1>1. IInv /\ IInv' /\ c \in Procs
  BY NextInv, CurrentIsLive DEF RInv
<1>2. ASSUME NEW p \in Procs, NewProcess(p) PROVE RInv' /\ UNCHANGED RV!rvVars
  BY <1>2, NewProcessIsQuiet
<1>3. ASSUME NEW ch \in Channels, NEW v \in Values, SendBlocks(ch, v)
      PROVE  RInv' /\ RV!Next
  BY <1>1, <1>3, SendBlocksRefines DEF RV!Next
<1>4. ASSUME NEW ch \in Channels, NEW v \in Values, SendWakes(ch, v)
      PROVE  RInv' /\ RV!Next
  <2>1. RInv' /\ \E r \in Procs : RV!Pass(c, ch, v, r)
    BY <1>4, SendWakesRefines
  <2>2. PICK r \in Procs : RV!Pass(c, ch, v, r)
    BY <2>1
  <2>3. r \in Waiters[ch]
    BY <2>2 DEF RV!Pass, Waiters
  <2> QED BY <1>1, <2>1, <2>2, <2>3 DEF RV!Next, Waiters
<1>5. ASSUME NEW ch \in Channels, NEW v \in Values, SendRefused(ch, v)
      PROVE  RInv' /\ UNCHANGED RV!rvVars
  BY <1>1, <1>5, NobodyMovesIsQuiet DEF SendRefused, vars
<1>6. ASSUME NEW ch \in Channels, ReceiveBlocks(ch) PROVE RInv' /\ RV!Next
  <2>1. RInv' /\ RV!Await(c, ch)
    BY <1>6, ReceiveBlocksRefines
  <2> QED BY <1>1, <2>1 DEF RV!Next
<1>7. ASSUME NEW ch \in Channels, ReceiveTakes(ch) PROVE RInv' /\ RV!Next
  <2>1. RInv' /\ \E q \in Procs, v \in Values : RV!Take(c, ch, q, v)
    BY <1>7, ReceiveTakesRefines
  <2>2. PICK q \in Procs, v \in Values : RV!Take(c, ch, q, v)
    BY <2>1
  <2> DEFINE o == <<q, v>>
  <2>3. o \in Offers[ch] /\ RV!Take(c, ch, o[1], o[2])
    BY <2>2 DEF RV!Take, Offers
  <2> HIDE DEF o
  <2> QED BY <1>1, <2>1, <2>3 DEF RV!Next, Offers
<1>8. CASE Exit
  BY <1>8, ExitIsQuiet
<1>9. CASE Yield
  BY <1>1, <1>9, SwitchIsQuiet DEF Yield
<1>10. CASE TimerSwitch
  BY <1>1, <1>10, SwitchIsQuiet DEF TimerSwitch
<1>11. CASE TimerTick \/ EnableTaskSwitch \/ UNCHANGED vars
  BY <1>1, <1>11, NobodyMovesIsQuiet DEF TimerTick, EnableTaskSwitch, vars
<1> QED BY <1>2, <1>3, <1>4, <1>5, <1>6, <1>7, <1>8, <1>9, <1>10, <1>11
        DEF Next, OnTimerInterrupt

\* A woken receiver reads its value before anybody can overwrite it.
THEOREM WokenReceiverSafety == ~LastMayBlock => (Spec => []WokenReceiverRunsAtOnce)
<1> SUFFICES ASSUME ~LastMayBlock PROVE Spec => []WokenReceiverRunsAtOnce
  OBVIOUS
<1>1. RInv /\ [Next]_vars => RInv'
  BY NextRefines, MayBlockAccompanied DEF RInv
<1>2. RInv => WokenReceiverRunsAtOnce
  BY DEF RInv
<1> QED BY <1>1, <1>2, InitRInv, PTL DEF Spec

\* The channels of kernel.c implement synchronous rendezvous: every step of the
\* scheduler is a step of Rendezvous or changes nothing that programs see of
\* the channels.
THEOREM Refinement == ~LastMayBlock => (Spec => RendezvousSpec)
<1> SUFFICES ASSUME ~LastMayBlock PROVE Spec => RendezvousSpec
  OBVIOUS
<1>1. RInv /\ [Next]_vars => RInv' /\ [RV!Next]_(RV!rvVars)
  BY NextRefines, MayBlockAccompanied DEF RInv
<1> QED BY <1>1, InitRInv, InitRefines, PTL DEF Spec, RendezvousSpec, RV!Spec
=============================================================================
