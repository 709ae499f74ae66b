-------------------------------- MODULE Ring --------------------------------
(***************************************************************************)
(* The scheduler's run queue: a circular doubly linked list threaded       *)
(* through the next and prev fields of struct process (kernel.h).  The     *)
(* operators return the fields as insertProcess and delCurrentProcess      *)
(* leave them.  EXCEPT applies its updates in order, as the C statements   *)
(* do, so they are also right when the pointers alias (a ring of one       *)
(* process, or a process inserted twice).                                  *)
(***************************************************************************)

\* insertProcess with the update of the successor's prev field lost.
InsertPrev_NoBackLink(next, prev, c, p) == [prev EXCEPT ![p] = c]

\* insertProcess: p becomes the successor of the current process c.
InsertNext(next, prev, c, p) == [next EXCEPT ![p] = next[c], ![c] = p]
InsertPrev(next, prev, c, p) == [prev EXCEPT ![p] = c, ![next[c]] = p]

\* delCurrentProcess: c's neighbours are joined; c keeps its own pointers, and
\* the caller still follows c's next field to leave it.
UnlinkNext(next, prev, c) == [next EXCEPT ![prev[c]] = next[c]]
UnlinkPrev(next, prev, c) == [prev EXCEPT ![next[c]] = prev[c]]

(***************************************************************************)
(* S is one ring: the links of its members stay in S, prev undoes next,    *)
(* and the only non-empty part of S closed under next is S itself, that    *)
(* is, a walk along next from any member visits all the others.            *)
(***************************************************************************)
IsRing(S, next, prev) ==
    /\ \A p \in S : /\ next[p] \in S /\ prev[next[p]] = p
                    /\ prev[p] \in S /\ next[prev[p]] = p
    /\ \A T \in SUBSET S :
          (T # {} /\ \A p \in T : next[p] \in T) => T = S
=============================================================================
