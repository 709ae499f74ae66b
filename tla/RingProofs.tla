----------------------------- MODULE RingProofs -----------------------------
(***************************************************************************)
(* What insertProcess and delCurrentProcess do to a run queue that is one  *)
(* ring, whatever its length and whatever the blocks outside it contain.   *)
(***************************************************************************)
EXTENDS Ring, TLAPS

\* insertProcess: inserting a process that is not in the ring behind one that
\* is leaves one ring, with the new process in it.
THEOREM InsertKeepsRing ==
    ASSUME NEW D, NEW R, NEW next \in [D -> R], NEW prev \in [D -> R],
           NEW S \in SUBSET D, NEW c \in S, NEW p \in D, p \notin S,
           IsRing(S, next, prev)
    PROVE  IsRing(S \cup {p}, InsertNext(next, prev, c, p),
                              InsertPrev(next, prev, c, p))
<1> DEFINE nn == InsertNext(next, prev, c, p)
           pp == InsertPrev(next, prev, c, p)
<1>1. next[c] \in S /\ prev[next[c]] = c /\ c # p /\ next[c] # p
  BY DEF IsRing
<1>2. \A q \in D : nn[q] = IF q = c THEN p ELSE IF q = p THEN next[c] ELSE next[q]
  BY <1>1 DEF InsertNext
<1>3. \A q \in D : pp[q] = IF q = next[c] THEN p ELSE IF q = p THEN c ELSE prev[q]
  BY <1>1 DEF InsertPrev
<1> HIDE DEF nn, pp
<1>4. ASSUME NEW q \in S \cup {p}
      PROVE  /\ nn[q] \in S \cup {p} /\ pp[nn[q]] = q
             /\ pp[q] \in S \cup {p} /\ nn[pp[q]] = q
  <2>1. CASE q = p
    BY <1>1, <1>2, <1>3, <2>1
  <2>2. CASE q # p
    <3>1. q \in S /\ next[q] \in S /\ prev[q] \in S
      BY <2>2 DEF IsRing
    <3>2. prev[next[q]] = q /\ next[prev[q]] = q
      BY <3>1 DEF IsRing
    <3>3. nn[q] \in S \cup {p} /\ pp[nn[q]] = q
      BY <1>1, <1>2, <1>3, <2>2, <3>1, <3>2
    <3>4. pp[q] \in S \cup {p} /\ nn[pp[q]] = q
      BY <1>1, <1>2, <1>3, <2>2, <3>1, <3>2
    <3> QED BY <3>3, <3>4
  <2> QED BY <2>1, <2>2
<1>5. ASSUME NEW T \in SUBSET (S \cup {p}), T # {}, \A q \in T : nn[q] \in T
      PROVE  T = S \cup {p}
  <2> DEFINE U == T \ {p}
  <2>1. U \in SUBSET S
    OBVIOUS
  <2>2. U # {}
    <3>1. CASE p \in T
      BY <1>1, <1>2, <1>5, <3>1
    <3>2. CASE p \notin T
      BY <1>5, <3>2
    <3> QED BY <3>1, <3>2
  <2>3. \A q \in U : next[q] \in U
    <3> SUFFICES ASSUME NEW q \in U PROVE next[q] \in U
      OBVIOUS
    <3>1. q \in S /\ q # p /\ next[q] \in S
      BY <2>1 DEF IsRing
    <3>2. CASE q = c
      BY <1>1, <1>2, <1>5, <3>1, <3>2
    <3>3. CASE q # c
      BY <1>2, <1>5, <3>1, <3>3
    <3> QED BY <3>2, <3>3
  <2>4. U = S
    BY <2>1, <2>2, <2>3 DEF IsRing
  <2>5. p \in T
    BY <1>2, <1>5, <2>4
  <2> QED BY <2>4, <2>5
<1> QED BY <1>4, <1>5 DEF IsRing, nn, pp

\* delCurrentProcess: unlinking a process that has another one in its ring
\* leaves one ring without it, and the process still points into that ring.
THEOREM UnlinkKeepsRing ==
    ASSUME NEW D, NEW R, NEW next \in [D -> R], NEW prev \in [D -> R],
           NEW S \in SUBSET D, NEW c \in S, next[c] # c,
           IsRing(S, next, prev)
    PROVE  /\ IsRing(S \ {c}, UnlinkNext(next, prev, c),
                              UnlinkPrev(next, prev, c))
           /\ UnlinkNext(next, prev, c)[c] = next[c]
           /\ next[c] \in S \ {c}
<1> DEFINE nn == UnlinkNext(next, prev, c)
           pp == UnlinkPrev(next, prev, c)
<1>1. /\ next[c] \in S /\ prev[next[c]] = c
      /\ prev[c] \in S /\ next[prev[c]] = c /\ prev[c] # c
  BY DEF IsRing
<1>2. \A q \in D : nn[q] = IF q = prev[c] THEN next[c] ELSE next[q]
  BY <1>1 DEF UnlinkNext
<1>3. \A q \in D : pp[q] = IF q = next[c] THEN prev[c] ELSE prev[q]
  BY <1>1 DEF UnlinkPrev
<1> HIDE DEF nn, pp
<1>4. ASSUME NEW q \in S \ {c}
      PROVE  /\ nn[q] \in S \ {c} /\ pp[nn[q]] = q
             /\ pp[q] \in S \ {c} /\ nn[pp[q]] = q
  <2>1. next[q] \in S /\ prev[q] \in S /\ prev[next[q]] = q /\ next[prev[q]] = q
    BY DEF IsRing
  <2>2. nn[q] \in S \ {c} /\ pp[nn[q]] = q
    BY <1>1, <1>2, <1>3, <2>1
  <2>3. pp[q] \in S \ {c} /\ nn[pp[q]] = q
    BY <1>1, <1>2, <1>3, <2>1
  <2> QED BY <2>2, <2>3
<1>5. ASSUME NEW T \in SUBSET (S \ {c}), T # {}, \A q \in T : nn[q] \in T
      PROVE  T = S \ {c}
  <2>1. CASE prev[c] \in T
    <3> DEFINE U == T \cup {c}
    <3>1. U \in SUBSET S /\ U # {}
      OBVIOUS
    <3>2. \A q \in U : next[q] \in U
      BY <1>1, <1>2, <1>5, <2>1
    <3>3. U = S
      BY <3>1, <3>2 DEF IsRing
    <3> QED BY <3>3
  <2>2. CASE prev[c] \notin T
    <3>1. \A q \in T : next[q] \in T
      BY <1>2, <1>5, <2>2
    <3>2. T = S
      BY <1>5, <3>1 DEF IsRing
    <3> QED BY <3>2
  <2> QED BY <2>1, <2>2
<1> QED BY <1>1, <1>2, <1>4, <1>5 DEF IsRing, nn, pp
=============================================================================
