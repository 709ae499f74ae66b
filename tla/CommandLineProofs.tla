-------------------------- MODULE CommandLineProofs --------------------------
(***************************************************************************)
(* The search in the tree of names finds a command exactly for a line that *)
(* begins with its name, for lines of any length and any characters.       *)
(***************************************************************************)
EXTENDS CommandLine, SequenceTheorems, TLAPS

\* A character that ends a word.
IsSpace(c) == c = " "
Ends(c)    == IsSpace(c) \/ c = NULL

\* The first n characters of the line, as a node of the tree.
AtDepth(n) == IF n <= Len(command) /\ SubSeq(command, 1, n) \in Nodes
              THEN SubSeq(command, 1, n) ELSE NULL

\* The search has looked at i characters; the first of them may be a space.
Walked(n) ==
    /\ i \in Nat
    /\ \A k \in 1 .. n : ~Ends(get(k))
    /\ node = AtDepth(i)

LookupInv ==
    /\ command \in Seq(Chars)
    /\ pc \in {"edit", "lookup", "found", "args", "called", "done", "faulting", "refused", "lost"}
    /\ pc = "lookup" => Walked(i)
    /\ pc = "found" => i > 0 /\ Walked(i - 1) /\ Ends(get(i))
    /\ LookupIsByName

-----------------------------------------------------------------------------
\* The table of names: no name begins with a space, no two are the same, and none is
\* empty.
LEMMA Names ==
    /\ DOMAIN commandes = 1 .. 7
    /\ \A n \in 1 .. 7 : /\ commandes[n].text \in Seq(Chars)
                         /\ Len(commandes[n].text) > 1 /\ commandes[n].text[1] # " "
    /\ \A m, n \in 1 .. 7 : commandes[m].text = commandes[n].text => m = n
<1>1. DOMAIN commandes = 1 .. 7
  BY DEF commandes
<1>2. /\ commandes[1].text = <<"e","c","h","o">>
      /\ commandes[2].text = <<"c","a","l","c">>
      /\ commandes[3].text = <<"p","a","g","e","f","a","u","l","t">>
      /\ commandes[4].text = <<"e","x","i","t">>
      /\ commandes[5].text = <<"s","l","e","e","p">>
      /\ commandes[6].text = <<"p","r","i","m","e">>
      /\ commandes[7].text = <<"g","a","m","e">>
  BY DEF commandes
<1> DEFINE two(n) == <<commandes[n].text[1], commandes[n].text[2]>>
<1>3. /\ two(1) = <<"e","c">> /\ two(2) = <<"c","a">> /\ two(3) = <<"p","a">>
      /\ two(4) = <<"e","x">> /\ two(5) = <<"s","l">> /\ two(6) = <<"p","r">>
      /\ two(7) = <<"g","a">>
  BY <1>2
<1>4. \A m, n \in 1 .. 7 : two(m) = two(n) => m = n
  <2> HIDE DEF two
  <2> QED
    BY <1>3
<1>5. \A m, n \in 1 .. 7 : commandes[m].text = commandes[n].text => m = n
  BY <1>4
<1>6. \A n \in 1 .. 7 : Len(commandes[n].text) > 1 /\ commandes[n].text[1] # " "
  <2>1. /\ Len(commandes[1].text) = 4 /\ Len(commandes[2].text) = 4 /\ Len(commandes[3].text) = 9
        /\ Len(commandes[4].text) = 4 /\ Len(commandes[5].text) = 5 /\ Len(commandes[6].text) = 5
        /\ Len(commandes[7].text) = 4
    BY <1>2
  <2>2. /\ commandes[1].text[1] = "e" /\ commandes[2].text[1] = "c" /\ commandes[3].text[1] = "p"
        /\ commandes[4].text[1] = "e" /\ commandes[5].text[1] = "s" /\ commandes[6].text[1] = "p"
        /\ commandes[7].text[1] = "g"
    BY <1>2
  <2> DEFINE length(n) == Len(commandes[n].text)
             first(n)  == commandes[n].text[1]
  <2>3. /\ length(1) > 1 /\ length(2) > 1 /\ length(3) > 1 /\ length(4) > 1
        /\ length(5) > 1 /\ length(6) > 1 /\ length(7) > 1
    BY <2>1
  <2>4. /\ first(1) # " " /\ first(2) # " " /\ first(3) # " " /\ first(4) # " "
        /\ first(5) # " " /\ first(6) # " " /\ first(7) # " "
    BY <2>2
  <2>5. ASSUME NEW n \in 1 .. 7  PROVE length(n) > 1 /\ first(n) # " "
    <3> HIDE DEF length, first
    <3>1. \/ n = 1 \/ n = 2 \/ n = 3 \/ n = 4 \/ n = 5 \/ n = 6 \/ n = 7
      OBVIOUS
    <3>2. length(n) > 1
      BY <2>3, <3>1
    <3>3. first(n) # " "
      BY <2>4, <3>1
    <3> QED
      BY <3>2, <3>3
  <2> QED
    BY <2>5
<1> QED
  BY <1>1, <1>5, <1>6, NamesAssumption

\* The same of one name.
LEMMA Name ==
    ASSUME NEW n \in DOMAIN commandes, NEW text, text = commandes[n].text
    PROVE  text \in Seq(Chars) /\ Len(text) \in Nat /\ ~IsSpace(text[1])
<1>1. n \in 1 .. 7
  BY Names
<1>2. text \in Seq(Chars)
  BY NamesAssumption
<1>4. ~IsSpace(text[1])
  BY <1>1, Names DEF IsSpace
<1>3. Len(text) \in Nat
  BY <1>2, LenProperties
<1> QED
  BY <1>2, <1>3, <1>4

\* Prefixes of sequences.
LEMMA Prefix ==
    ASSUME NEW S, NEW s \in Seq(S), NEW n \in 0 .. Len(s)
    PROVE  /\ SubSeq(s, 1, n) \in Seq(S) /\ Len(SubSeq(s, 1, n)) = n
           /\ \A k \in 1 .. n : SubSeq(s, 1, n)[k] = s[k]
           /\ \A k \in 0 .. n : SubSeq(SubSeq(s, 1, n), 1, k) = SubSeq(s, 1, k)
<1>1. SubSeq(s, 1, n) = [k \in 1 .. n |-> s[k]]
  OBVIOUS
<1>2. \A k \in 1 .. n : s[k] \in S
  BY ElementOfSeq
<1>3. SubSeq(s, 1, n) \in Seq(S) /\ Len(SubSeq(s, 1, n)) = n
  BY <1>1, <1>2
<1> QED
  BY <1>1, <1>3

\* The nodes are the prefixes of the names.
LEMMA NodesArePrefixes ==
    /\ \A p \in Nodes : p \in Seq(Chars) /\ (Len(p) > 0 => ~IsSpace(p[1]))
    /\ \A p \in Nodes : \A k \in 0 .. Len(p) : SubSeq(p, 1, k) \in Nodes
    /\ \A n \in DOMAIN commandes : commandes[n].text \in Nodes
    /\ <<>> \in Nodes
    /\ NULL \notin Nodes
<1>1. ASSUME NEW p \in Nodes
      PROVE  /\ p \in Seq(Chars) /\ (Len(p) > 0 => ~IsSpace(p[1]))
             /\ \A k \in 0 .. Len(p) : SubSeq(p, 1, k) \in Nodes
  <2>1. PICK n \in DOMAIN commandes : p \in Prefixes(commandes[n].text)
    BY DEF Nodes
  <2> PICK text : text = commandes[n].text
    OBVIOUS
  <2>2. text \in Seq(Chars) /\ Len(text) \in Nat /\ ~IsSpace(text[1])
    BY Name
  <2>3. PICK l \in 0 .. Len(text) : p = SubSeq(text, 1, l)
    BY <2>1 DEF Prefixes
  <2>4. /\ p \in Seq(Chars) /\ Len(p) = l /\ \A k \in 1 .. l : p[k] = text[k]
        /\ \A k \in 0 .. l : SubSeq(p, 1, k) = SubSeq(text, 1, k)
    BY <2>2, <2>3, Prefix
  <2>5. \A k \in 0 .. l : SubSeq(text, 1, k) \in Nodes
    <3>1. ASSUME NEW k \in 0 .. l  PROVE SubSeq(text, 1, k) \in Prefixes(text)
      <4>1. k \in 0 .. Len(text)
        BY <2>2, <2>3
      <4> QED
        BY <4>1 DEF Prefixes
    <3> QED
      BY <3>1 DEF Nodes
  <2>6. Len(p) > 0 => ~IsSpace(p[1])
    <3>1. Len(p) > 0 => 1 \in 1 .. l
      BY <2>3, <2>4
    <3> QED
      BY <2>2, <2>4, <3>1
  <2>7. \A k \in 0 .. Len(p) : SubSeq(p, 1, k) \in Nodes
    BY <2>4, <2>5
  <2> QED
    BY <2>4, <2>6, <2>7
<1>2. ASSUME NEW n \in DOMAIN commandes
      PROVE  commandes[n].text \in Nodes /\ <<>> \in Nodes
  <2> PICK text : text = commandes[n].text
    OBVIOUS
  <2>1. text \in Seq(Chars) /\ Len(text) \in Nat
    BY Name
  <2>2. SubSeq(text, 1, Len(text)) = text /\ SubSeq(text, 1, 0) = <<>>
    BY <2>1
  <2>3. text \in Prefixes(text) /\ <<>> \in Prefixes(text)
    BY <2>1, <2>2 DEF Prefixes
  <2> QED
    BY <2>3 DEF Nodes
<1>3. <<>> \in Nodes
  <2>1. 1 \in DOMAIN commandes
    <3>1. DOMAIN commandes = 1 .. 7
      BY Names
    <3>2. 1 \in 1 .. 7
      OBVIOUS
    <3> QED
      BY <3>1, <3>2, Zenon
  <2> QED
    BY <1>2, <2>1
<1>4. NULL \notin Nodes
  BY <1>1, CommandLineAssumption
<1> QED
  BY <1>1, <1>2, <1>3, <1>4

\* What a node says: the one command that ends there, or none.
LEMMA NodeNames ==
    ASSUME NEW p \in Nodes
    PROVE  EndsAt(p) = IF makeTree[p] = NONE THEN {} ELSE {makeTree[p]}
<1>1. ASSUME EndsAt(p) # {}  PROVE \E n \in 1 .. 7 : EndsAt(p) = {n} /\ makeTree[p] = n
  <2>1. PICK n \in 1 .. 7 : n \in EndsAt(p)
    BY <1>1, Names DEF EndsAt
  <2>2. EndsAt(p) = {n}
    BY <2>1, Names DEF EndsAt
  <2>3. Max({n}) = n
    BY DEF Max
  <2> QED
    BY <1>1, <2>1, <2>2, <2>3 DEF makeTree
<1> QED
  BY <1>1 DEF makeTree, NONE

-----------------------------------------------------------------------------
\* One step of the search: from the prefix of length n to that of length n + 1, which is no
\* node if the shorter one is none.
LEMMA ChildIsDeeper ==
    ASSUME NEW n \in Nat, command \in Seq(Chars)
    PROVE  getChild(AtDepth(n), get(n)) = AtDepth(n + 1)
<1>1. Len(command) \in Nat /\ \A k \in 1 .. Len(command) : command[k] \in Chars
  BY ElementOfSeq
<1>2. CASE n >= Len(command)
  <2>1. get(n) = NULL /\ AtDepth(n + 1) = NULL
    BY <1>1, <1>2 DEF get, AtDepth
  <2>2. ASSUME NEW p \in Nodes  PROVE Append(p, NULL) \notin Nodes
    <3>1. p \in Seq(Chars)
      BY NodesArePrefixes
    <3>2. Append(p, NULL)[Len(p) + 1] = NULL /\ Len(Append(p, NULL)) = Len(p) + 1 /\ Len(p) \in Nat
      BY <3>1
    <3>3. ASSUME Append(p, NULL) \in Nodes  PROVE FALSE
      <4>1. Append(p, NULL) \in Seq(Chars)
        BY <3>3, NodesArePrefixes
      <4>2. Append(p, NULL)[Len(p) + 1] \in Chars
        BY <3>2, <4>1, ElementOfSeq
      <4> QED
        BY <3>2, <4>2, CommandLineAssumption
    <3> QED
      BY <3>3
  <2>3. AtDepth(n) # NULL => AtDepth(n) \in Nodes
    BY DEF AtDepth
  <2> QED
    BY <2>1, <2>2, <2>3 DEF getChild
<1>3. CASE n < Len(command)
  <2> DEFINE p == SubSeq(command, 1, n)
             q == SubSeq(command, 1, n + 1)
  <2>1. get(n) = command[n + 1]
    BY <1>3 DEF get
  <2>2. /\ p \in Seq(Chars) /\ q \in Seq(Chars) /\ Len(p) = n /\ Len(q) = n + 1
        /\ SubSeq(q, 1, n) = p
        /\ \A k \in 1 .. n : p[k] = command[k]
        /\ \A k \in 1 .. n + 1 : q[k] = command[k]
    <3>1. n \in 0 .. Len(command) /\ n + 1 \in 0 .. Len(command) /\ n \in 0 .. n + 1
      BY <1>1, <1>3
    <3> HIDE DEF p, q
    <3>2. p = SubSeq(command, 1, n) /\ q = SubSeq(command, 1, n + 1)
      BY DEF p, q
    <3> QED
      BY <3>1, <3>2, Prefix
  <2> HIDE DEF p, q
  <2>3. q = Append(p, command[n + 1])
    BY <2>2
  <2>4. q \in Nodes => p \in Nodes
    <3>1. n \in 0 .. Len(q)
      BY <2>2
    <3> QED
      BY <2>2, <3>1, NodesArePrefixes
  <2>5. /\ AtDepth(n) = IF p \in Nodes THEN p ELSE NULL
        /\ AtDepth(n + 1) = IF q \in Nodes THEN q ELSE NULL
    BY <1>1, <1>3 DEF AtDepth, p, q
  <2>6. p \in Nodes => p # NULL
    BY NodesArePrefixes
  <2> QED
    BY <2>1, <2>3, <2>4, <2>5, <2>6 DEF getChild
<1> QED
  BY <1>1, <1>2, <1>3

\* The search is over: what it has found is what the line begins with.
LEMMA FoundIsNamed ==
    ASSUME LookupInv, pc = "found"
    PROVE  Named = IF node = NULL THEN {}
                   ELSE IF makeTree[node] = NONE THEN {} ELSE {makeTree[node]}
<1>1. /\ command \in Seq(Chars) /\ Len(command) \in Nat /\ i \in Nat \ {0}
      /\ \A k \in 1 .. i - 1 : ~Ends(get(k))
      /\ Ends(get(i)) /\ node = AtDepth(i)
  BY LenProperties DEF LookupInv, Walked
<1>2. \A k \in Nat : get(k) = IF k < Len(command) THEN command[k + 1] ELSE NULL
  BY DEF get
<1>3. \A k \in 1 .. Len(command) : command[k] \in Chars
  BY <1>1, ElementOfSeq
<1>0. get(0) = IF 0 < Len(command) THEN command[1] ELSE NULL
  BY DEF get
<1>9. 0 \in Starts <=> 0 < Len(command) /\ ~IsSpace(get(0))
  <2>1. 0 \in 0 .. Len(command) - 1 <=> 0 < Len(command)
    BY <1>1
  <2> QED
    BY <2>1 DEF Starts, IsSpace
<1>4. CASE 0 \notin Starts
  <2>1. Named = {}
    BY <1>4 DEF Named
  <2>2. Len(command) = 0 \/ IsSpace(command[1])
    BY <1>1, <1>0, <1>4, <1>9
  <2>3. ASSUME i <= Len(command), SubSeq(command, 1, i) \in Nodes  PROVE FALSE
    <3>1. PICK p \in Nodes : p = SubSeq(command, 1, i)
      BY <2>3
    <3>2. Len(p) = i /\ p[1] = command[1]
      <4>1. i \in 0 .. Len(command) /\ 1 \in 1 .. i
        BY <1>1, <2>3
      <4> QED
        BY <1>1, <3>1, <4>1, Prefix
    <3>3. Len(p) > 0 => ~IsSpace(p[1])
      BY NodesArePrefixes
    <3> QED
      BY <1>1, <2>2, <2>3, <3>2, <3>3
  <2>4. node = NULL
    BY <1>1, <2>3 DEF AtDepth
  <2> QED
    BY <2>1, <2>4
<1>5. CASE 0 \in Starts
  <2>1. Len(command) > 0 /\ ~IsSpace(get(0))
    BY <1>5, <1>9
  <2>2. ~Ends(get(0))
    <3>1. get(0) \in Chars
      BY <1>1, <1>0, <1>3, <2>1
    <3> QED
      BY <2>1, <3>1, CommandLineAssumption DEF Ends
  <2>3. \A k \in 0 .. i - 1 : ~Ends(get(k)) /\ k < Len(command)
    <3>1. ASSUME NEW k \in 0 .. i - 1  PROVE ~Ends(get(k)) /\ k < Len(command)
      <4>1. ~Ends(get(k))
        BY <1>1, <2>2
      <4>2. get(k) # NULL
        BY <4>1 DEF Ends
      <4> QED
        BY <1>1, <1>2, <4>1, <4>2
    <3> QED
      BY <3>1
  <2>4. i <= Len(command)
    <3>1. i - 1 < Len(command)
      BY <1>1, <2>3
    <3> QED
      BY <1>1, <3>1
  <2>5. parseWord(0) = SubSeq(command, 1, i)
    <3> DEFINE ends == {n \in 0 .. Len(command) : get(n) \in {" ", NULL}}
    <3>0. ends = {n \in 0 .. Len(command) : Ends(get(n))}
      BY DEF Ends, IsSpace
    <3>1. i \in ends /\ ends \subseteq Nat /\ \A m \in ends : i <= m
      <4> HIDE DEF ends
      <4> QED
        BY <1>1, <2>3, <2>4, <3>0
    <3> HIDE DEF ends
    <3>2. \A n \in ends : (\A m \in ends : n <= m) => n = i
      BY <1>1, <3>1
    <3>3. (CHOOSE n \in ends : \A m \in ends : n <= m) = i
      BY <3>1, <3>2
    <3>4. parseWord(0) = SubSeq(command, 0 + 1, CHOOSE n \in ends : \A m \in ends : n <= m)
      BY DEF parseWord, ends
    <3>5. 0 + 1 = 1
      OBVIOUS
    <3> QED
      BY <3>3, <3>4, <3>5, Zenon
  <2> PICK p : p = SubSeq(command, 1, i)
    OBVIOUS
  <2>6. Named = EndsAt(p)
    BY <1>5, <2>5 DEF Named, EndsAt
  <2>7. node = IF p \in Nodes THEN p ELSE NULL
    BY <1>1, <2>4 DEF AtDepth
  <2>8. CASE p \in Nodes
    <3>1. node = p /\ node # NULL
      BY <2>7, <2>8, NodesArePrefixes
    <3>2. EndsAt(p) = IF makeTree[p] = NONE THEN {} ELSE {makeTree[p]}
      BY <2>8, NodeNames
    <3> QED
      BY <2>6, <3>1, <3>2
  <2>9. CASE p \notin Nodes
    <3>1. node = NULL
      BY <2>7, <2>9
    <3>2. EndsAt(p) = {}
      BY <2>9, NodesArePrefixes DEF EndsAt
    <3> QED
      BY <2>6, <3>1, <3>2
  <2> QED
    BY <2>8, <2>9
<1> QED
  BY <1>4, <1>5

-----------------------------------------------------------------------------
\* The empty line
LEMMA InitLookup == Init => LookupInv
<1>1. <<>> \in Seq(Chars)
  OBVIOUS
<1> QED
  BY <1>1 DEF Init, LookupInv, LookupIsByName

\* Steps of a line whose command is known: those of parseArgs and of the command.
After == {"args", "called", "done", "faulting", "lost"}

\* They change neither the line nor the command.
LEMMA LaterInv ==
    ASSUME LookupInv, pc \in After, pc' \in After, UNCHANGED <<command, id>>
    PROVE  LookupInv'
<1>1. Named' = Named
  BY DEF Named, Starts, parseWord, get
<1>2. Named = {id} /\ command \in Seq(Chars)
  BY DEF LookupInv, LookupIsByName, After
<1>3. LookupIsByName'
  BY <1>1, <1>2 DEF LookupIsByName, After
<1> QED
  BY <1>2, <1>3 DEF LookupInv, After

\* Every step keeps the invariant.
LEMMA NextLookup == LookupInv /\ [Next]_vars => LookupInv'
<1> SUFFICES ASSUME LookupInv, [Next]_vars PROVE LookupInv'
  OBVIOUS
<1>0. command \in Seq(Chars) /\ Len(command) \in Nat
  BY LenProperties DEF LookupInv
<1>1. ASSUME NEW piece \in Pieces, Type(piece)  PROVE LookupInv'
  <2>1. piece \in Seq(Chars)
    BY CommandLineAssumption
  <2>2. command \o piece \in Seq(Chars)
    BY <1>0, <2>1, ConcatProperties
  <2> QED
    BY <1>1, <2>2 DEF Type, LookupInv, LookupIsByName
<1>2. CASE Enter
  <2>1. AtDepth(0) = <<>>
    <3>1. SubSeq(command, 1, 0) = <<>>
      BY <1>0
    <3>2. <<>> \in Nodes
      BY NodesArePrefixes
    <3>3. 0 <= Len(command)
      BY <1>0
    <3> QED
      BY <3>1, <3>2, <3>3, Zenon DEF AtDepth
  <2>2. AtDepth(0)' = AtDepth(0)
    BY <1>2 DEF Enter, AtDepth, line
  <2>3. Walked(0)'
    BY <1>2, <2>1, <2>2 DEF Enter, Walked
  <2> QED
    BY <1>0, <1>2, <2>3 DEF Enter, LookupInv, LookupIsByName, line
<1>3. CASE Descend
  <2>1. i \in Nat /\ (\A k \in 1 .. i : ~Ends(get(k))) /\ node = AtDepth(i)
    BY <1>3 DEF Descend, LookupInv, Walked
  <2>2. node' = AtDepth(i + 1) /\ i' = i + 1
    BY <1>0, <1>3, <2>1, ChildIsDeeper DEF Descend
  <2>3. \A k \in Nat : get(k)' = get(k) /\ AtDepth(k)' = AtDepth(k)
    BY <1>3 DEF Descend, get, AtDepth, line
  <2>4. /\ i' \in Nat \ {0} /\ i' - 1 = i /\ node' = AtDepth(i)'
        /\ get(i)' = get(i + 1)
    <3>1. command' = command
      BY <1>3 DEF Descend, line
    <3>2. AtDepth(i)' = AtDepth(i + 1) /\ get(i)' = get(i + 1)
      BY <2>2, <3>1, Zenon DEF AtDepth, get
    <3> QED
      BY <2>1, <2>2, <3>2
  <2>5. CASE Ends(get(i + 1))
    <3>1. pc' = "found" /\ Ends(get(i))'
      BY <1>3, <2>4, <2>5 DEF Descend, Ends, IsSpace
    <3>2. Walked(i - 1)'
      BY <2>1, <2>2, <2>3, <2>4 DEF Walked
    <3>3. i' > 0 /\ command' \in Seq(Chars)
      <4>1. i' > 0
        BY <2>4
      <4>2. command' = command
        BY <1>3 DEF Descend, line
      <4> QED
        BY <1>0, <4>1, <4>2
    <3> QED
      BY <3>1, <3>2, <3>3 DEF LookupInv, LookupIsByName
  <2>6. CASE ~Ends(get(i + 1))
    <3>1. pc' = "lookup"
      BY <1>3, <2>6 DEF Descend, Ends, IsSpace
    <3>2. Walked(i)'
      BY <2>1, <2>2, <2>3, <2>4, <2>6 DEF Walked
    <3> QED
      BY <1>0, <1>3, <2>4, <3>1, <3>2 DEF Descend, LookupInv, LookupIsByName, line
  <2> QED
    BY <2>5, <2>6
<1>4. CASE Unknown \/ Known
  <2>1. pc = "found" /\ UNCHANGED command
    BY <1>4 DEF Unknown, Known, line
  <2>2. Named' = Named
    BY <2>1 DEF Named, Starts, parseWord, get
  <2>3. Named = IF node = NULL THEN {}
                ELSE IF makeTree[node] = NONE THEN {} ELSE {makeTree[node]}
    BY <2>1, FoundIsNamed
  <2>4. CASE Unknown
    BY <1>0, <2>1, <2>2, <2>3, <2>4 DEF Unknown, LookupInv, LookupIsByName
  <2>5. CASE Known
    BY <1>0, <2>1, <2>2, <2>3, <2>5 DEF Known, LookupInv, LookupIsByName
  <2> QED
    BY <1>4, <2>4, <2>5
<1>5. CASE LastDash \/ UnknownOption \/ Option \/ Ampersand \/ Space \/ MandatoryArg \/ ExcessArg
  <2>1. pc \in After /\ pc' \in After /\ UNCHANGED <<command, id>>
    BY <1>5 DEF LastDash, UnknownOption, Option, Ampersand, Space, MandatoryArg, ExcessArg, Meets,
                line, After
  <2> QED
    BY <2>1, LaterInv
<1>6. CASE Collect \/ Overrun \/ Call \/ Faults
  <2>1. pc \in After /\ pc' \in After /\ UNCHANGED <<command, id>>
    BY <1>6 DEF Collect, Overrun, Call, Faults, Parsed, line, After
  <2> QED
    BY <2>1, LaterInv
<1>7. CASE NextLine
  <2>1. <<>> \in Seq(Chars)
    OBVIOUS
  <2> QED
    BY <1>7, <2>1 DEF NextLine, LookupInv, LookupIsByName
<1>8. CASE UNCHANGED vars
  BY <1>8 DEF vars, line, LookupInv, LookupIsByName, Walked, AtDepth, get, Named, Starts, parseWord
<1> QED
  BY <1>1, <1>2, <1>3, <1>4, <1>5, <1>6, <1>7, <1>8 DEF Next

\* Whatever the user types, and however long the line: makeTree, getChild and the loop of
\* parseExecCommand find a command exactly if the line begins with its whole name.
THEOREM LookupIsRight == Spec => []LookupIsByName
<1>1. LookupInv => LookupIsByName
  BY DEF LookupInv
<1> QED
  BY <1>1, InitLookup, NextLookup, PTL DEF Spec
=============================================================================
