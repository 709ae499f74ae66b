----------------------------- MODULE Rendezvous -----------------------------
(***************************************************************************)
(* What the channels promise to programs, with no scheduler, no queue and  *)
(* no process identifier in sight.  A channel is a synchronous rendezvous: *)
(* at most one value is on offer on it, every value handed over reaches    *)
(* exactly one receiver, and a process whose offer or wait is pending does *)
(* nothing until it is met.  A send on a channel that already carries an   *)
(* offer is refused and leaves no trace.                                   *)
(***************************************************************************)
CONSTANTS Procs, Channels, Values, NoValue

VARIABLES
    offer,      \* offer[ch]: the <<process, value>> on offer, at most one
    waiting,    \* waiting[ch]: the processes waiting to receive on ch
    received    \* received[p]: the value p's last receive returned

rvVars == <<offer, waiting, received>>

Init ==
    /\ offer    = [ch \in Channels |-> {}]
    /\ waiting  = [ch \in Channels |-> {}]
    /\ received = [p \in Procs |-> NoValue]

\* p is in the middle of no rendezvous.
Free(p) == \A ch \in Channels :
              p \notin waiting[ch] /\ \A v \in Values : <<p, v>> \notin offer[ch]

Offer(p, ch, v) ==
    /\ offer[ch] = {} /\ waiting[ch] = {}
    /\ offer' = [offer EXCEPT ![ch] = {<<p, v>>}]
    /\ UNCHANGED <<waiting, received>>
    /\ Free(p)

Await(p, ch) ==
    /\ offer[ch] = {}
    /\ waiting' = [waiting EXCEPT ![ch] = @ \cup {p}]
    /\ UNCHANGED <<offer, received>>
    /\ Free(p)

\* p sends v to r, which was waiting.
Pass(p, ch, v, r) ==
    /\ r \in waiting[ch]
    /\ received' = [received EXCEPT ![r] = v]
    /\ waiting' = [waiting EXCEPT ![ch] = @ \ {r}]
    /\ UNCHANGED offer
    /\ Free(p)

\* p receives the value q has on offer.
Take(p, ch, q, v) ==
    /\ <<q, v>> \in offer[ch]
    /\ received' = [received EXCEPT ![p] = v]
    /\ offer' = [offer EXCEPT ![ch] = {}]
    /\ UNCHANGED waiting
    /\ Free(p)

Next ==
    \E ch \in Channels :
        \/ \E p \in Procs : Await(p, ch)
        \/ \E p \in Procs, v \in Values : Offer(p, ch, v)
        \/ \E r \in waiting[ch] : \E p \in Procs, v \in Values : Pass(p, ch, v, r)
        \/ \E o \in offer[ch] : \E p \in Procs : Take(p, ch, o[1], o[2])

Spec == Init /\ [][Next]_rvVars
=============================================================================
