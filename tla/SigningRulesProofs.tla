------------------------- MODULE SigningRulesProofs -------------------------
(***************************************************************************)
(* Proofs about SigningRules, for rules files of any size, patterns of any *)
(* length and any number of segments and extractors.                       *)
(***************************************************************************)
EXTENDS SigningRules, TLAPS, SequenceTheorems, WellFoundedInduction

(* What is compiled is the file that counts.                               *)
RightFile ==
    /\ reading = "fixed" => files.relative.is = "absent"
    /\ phase \in {"compile", "ready"} =>
          files[reading] = Chosen /\ Chosen.is = "rules" /\ Rules # {}

(* What the loop has been at was in order, and has its place.              *)
Compiled ==
    phase \in {"compile", "ready"} =>
       \A p \in Rules \ left :
          /\ Segments(p) \cap Malformed = {}
          /\ ~IsTemplate(p) => p \in exact
          /\ IsTemplate(p) => Edges(p) \in DOMAIN templates /\ templates[Edges(p)] = p

(* Nothing else has one.                                                   *)
OnlyRules ==
    phase \in {"compile", "ready"} =>
       \A n \in DOMAIN templates : templates[n] \in Rules \ left

Extractors ==
    phase = "ready" => left = {} /\ \A p \in Rules : Chosen.paths[p] \in Extractor

(* Only rules without parameters are looked up as they stand.              *)
ExactPlain == \A p \in exact : ~IsTemplate(p)

NothingYet == phase = "read" => left = {} /\ exact = {} /\ DOMAIN templates = {}

Inv == /\ TypeOK /\ NothingYet /\ RightFile /\ Compiled /\ OnlyRules /\ Extractors
       /\ ExactPlain /\ StartsIfSound

-----------------------------------------------------------------------------
LEMMA InitInv == Init => Inv
  <1>. SUFFICES ASSUME Init PROVE Inv
    OBVIOUS
  <1>1. DOMAIN templates = {}
    BY DEF Init
  <1>2. TypeOK
    BY <1>1 DEF Init, TypeOK
  <1>. QED
    BY <1>1, <1>2 DEF Init, Inv, NothingYet, ExactPlain, RightFile, Compiled,
       OnlyRules, Extractors, StartsIfSound

LEMMA FallbackInv ==
    ASSUME Inv, Fallback
    PROVE  Inv'
  <1>1. TypeOK'
    BY DEF Fallback, Inv, TypeOK, NothingYet
  <1>. QED
    BY <1>1 DEF Fallback, Inv, NothingYet, ExactPlain, RightFile, Compiled,
       OnlyRules, Extractors, StartsIfSound

LEMMA ReadInv ==
    ASSUME Inv, Read
    PROVE  Inv'
  <1>1. files[reading] = Chosen /\ UNCHANGED <<Chosen, Rules>>
    BY DEF Read, Inv, TypeOK, RightFile, Chosen, Rules
  <1>2. CASE files[reading].is = "rules" /\ DOMAIN files[reading].paths # {}
    <2>1. /\ phase' = "compile" /\ left' = Rules
          /\ UNCHANGED <<files, reading, exact, templates>>
      BY <1>1, <1>2 DEF Read, Rules
    <2>2. TypeOK'
      BY <1>1, <2>1 DEF Inv, TypeOK, NothingYet, Read, Rules
    <2>. QED
      BY <1>1, <1>2, <2>1, <2>2 DEF Inv, NothingYet, ExactPlain, RightFile, Compiled,
         OnlyRules, Extractors, StartsIfSound, Read, Rules
  <1>3. CASE ~(files[reading].is = "rules" /\ DOMAIN files[reading].paths # {})
    <2>1. phase' = "failed" /\ UNCHANGED <<files, reading, left, exact, templates>>
      BY <1>3 DEF Read
    <2>2. TypeOK'
      BY <2>1 DEF Inv, TypeOK
    <2>3. ~Sound'
      BY <1>1, <1>3 DEF Sound, Rules
    <2>. QED
      BY <2>1, <2>2, <2>3 DEF Inv, NothingYet, ExactPlain, RightFile, Compiled,
         OnlyRules, Extractors, StartsIfSound, Read
  <1>. QED
    BY <1>2, <1>3

(* Turning over one pattern either stops at a fault that is one of the     *)
(* file, or gives the pattern its place and takes no other's.              *)
LEMMA CompileInv ==
    ASSUME Inv, NEW pattern \in left, Compile(pattern)
    PROVE  Inv'
  <1>1. /\ phase = "compile" /\ left' = left \ {pattern}
        /\ UNCHANGED <<files, reading, Chosen, Rules>>
    BY DEF Compile, Chosen, Rules
  <1>2. files[reading] = Chosen /\ Chosen.is = "rules" /\ Rules # {} /\ pattern \in Rules
    BY <1>1 DEF Inv, TypeOK, RightFile, Rules
  <1>3. CASE Faulty(pattern) /\ phase' = "failed" /\ UNCHANGED <<exact, templates>>
    <2>1. ~Sound
      <3>1. CASE Segments(pattern) \cap Malformed # {}
        BY <1>2, <3>1 DEF Sound
      <3>2. CASE IsTemplate(pattern) /\ SamePaths(pattern)
        <4>. DEFINE other == templates[Edges(pattern)]
        <4>1. other \in Rules \ left /\ Edges(other) = Edges(pattern)
          BY <1>1, <3>2 DEF SamePaths, Inv, TypeOK, OnlyRules
        <4>. QED
          BY <1>2, <3>2, <4>1 DEF Sound
      <3>. QED
        BY <1>3, <3>1, <3>2 DEF Faulty
    <2>2. ~Sound'
      BY <1>1, <2>1 DEF Sound
    <2>3. TypeOK'
      BY <1>1, <1>3 DEF Inv, TypeOK
    <2>. QED
      BY <1>1, <1>3, <2>2, <2>3 DEF Inv, NothingYet, ExactPlain, RightFile, Compiled,
         OnlyRules, Extractors, StartsIfSound
  <1>4. ASSUME ~Faulty(pattern), phase' = phase, TypeOK', ExactPlain',
               \A p \in Rules \ left' :
                  /\ ~IsTemplate(p) => p \in exact'
                  /\ IsTemplate(p) =>
                        Edges(p) \in DOMAIN templates' /\ templates'[Edges(p)] = p,
               \A n \in DOMAIN templates' : templates'[n] \in Rules \ left'
        PROVE  Inv'
    <2>1. Segments(pattern) \cap Malformed = {}
      BY <1>4 DEF Faulty
    <2>2. Compiled'
      BY <1>1, <1>4, <2>1 DEF Inv, Compiled
    <2>. QED
      BY <1>1, <1>4, <2>2 DEF Inv, NothingYet, ExactPlain, RightFile, OnlyRules, Extractors,
         StartsIfSound
  <1>5. CASE /\ ~Faulty(pattern) /\ ~IsTemplate(pattern)
             /\ exact' = exact \cup {pattern} /\ UNCHANGED <<phase, templates>>
    <2>1. TypeOK'
      BY <1>1, <1>2, <1>5 DEF Inv, TypeOK, Rules
    <2>2. ExactPlain'
      BY <1>5 DEF Inv, ExactPlain
    <2>. QED
      BY <1>1, <1>4, <1>5, <2>1, <2>2 DEF Inv, Compiled, OnlyRules
  <1>6. CASE /\ ~Faulty(pattern) /\ IsTemplate(pattern)
             /\ templates' = At(Edges(pattern), pattern) /\ UNCHANGED <<phase, exact>>
    <2>. DEFINE node == Edges(pattern)
    <2>1. node \notin DOMAIN templates
      BY <1>6 DEF Faulty, SamePaths
    <2>2. /\ DOMAIN templates' = DOMAIN templates \cup {node}
          /\ templates'[node] = pattern
          /\ \A n \in DOMAIN templates : templates'[n] = templates[n]
      BY <1>6, <2>1 DEF At
    <2>3. TypeOK'
      BY <1>1, <1>2, <1>6, <2>2 DEF Inv, TypeOK, Rules
    <2>4. ExactPlain'
      BY <1>6 DEF Inv, ExactPlain
    <2>. QED
      BY <1>1, <1>2, <1>4, <1>6, <2>2, <2>3, <2>4 DEF Inv, Compiled, OnlyRules
  <1>. QED
    BY <1>3, <1>5, <1>6 DEF Compile

(* What has the edges of a template is a template, if it is well-formed:   *)
(* the edge of a parameter is no segment.                                  *)
LEMMA TemplatesAlike ==
    ASSUME files \in Files, NEW p \in Rules, NEW q \in Rules,
           Segments(q) \cap Malformed = {}, IsTemplate(p), Edges(p) = Edges(q)
    PROVE  IsTemplate(q)
  <1>1. PICK i \in DOMAIN p : p[i] \in Parameter
    BY DEF IsTemplate, Segments
  <1>2. Edges(p)[i] = Any /\ i \in DOMAIN Edges(p)
    BY <1>1 DEF Edges, Edge
  <1>3. i \in DOMAIN q /\ Edge(q[i]) = Any
    BY <1>2 DEF Edges
  <1>4. q \in Seq(Segment)
    BY RulesAssumption DEF Rules, Chosen, IsFile
  <1>5. q[i] \in Segment \ Malformed
    BY <1>3, <1>4 DEF Segments
  <1>6. q[i] \notin Parameter => q[i] # Any
    BY <1>5, RulesAssumption DEF Segment
  <1>. QED
    BY <1>3, <1>6 DEF Edge, IsTemplate, Segments

LEMMA SupportedInv ==
    ASSUME Inv, Supported
    PROVE  Inv'
  <1>1. /\ phase = "compile" /\ left = {}
        /\ UNCHANGED <<files, reading, left, exact, templates, Chosen, Rules>>
    BY DEF Supported, Chosen, Rules
  <1>2. files[reading] = Chosen /\ Chosen.is = "rules" /\ Rules # {}
    BY <1>1 DEF Inv, RightFile
  <1>3. /\ phase' \in {"ready", "failed"}
        /\ phase' = "ready" <=> \A p \in Rules : Chosen.paths[p] \in Extractor
    BY <1>2 DEF Supported, Rules
  <1>4. TypeOK'
    BY <1>1, <1>3 DEF Inv, TypeOK
  <1>5. \A p, q \in Rules : IsTemplate(p) /\ Edges(p) = Edges(q) => p = q
    <2>. SUFFICES ASSUME NEW p \in Rules, NEW q \in Rules,
                         IsTemplate(p), Edges(p) = Edges(q)
                  PROVE  p = q
      OBVIOUS
    <2>1. IsTemplate(q)
      BY <1>1, TemplatesAlike DEF Inv, Compiled, TypeOK
    <2>. QED
      BY <1>1, <2>1 DEF Inv, Compiled
  <1>6. StartsIfSound'
    BY <1>1, <1>2, <1>3, <1>5 DEF Inv, Compiled, StartsIfSound, Sound
  <1>. QED
    BY <1>1, <1>2, <1>3, <1>4, <1>6 DEF Inv, NothingYet, ExactPlain, RightFile, Compiled,
       OnlyRules, Extractors
LEMMA NextInv == Inv /\ [Next]_vars => Inv'
  <1>. SUFFICES ASSUME Inv, [Next]_vars PROVE Inv'
    OBVIOUS
  <1>1. CASE Fallback
    BY <1>1, FallbackInv
  <1>2. CASE Read
    BY <1>2, ReadInv
  <1>3. ASSUME NEW pattern \in left, Compile(pattern) PROVE Inv'
    BY <1>3, CompileInv
  <1>4. CASE Supported
    BY <1>4, SupportedInv
  <1>5. CASE UNCHANGED vars
    <2>1. TypeOK'
      BY <1>5 DEF vars, Inv, TypeOK
    <2>. QED
      BY <1>5, <2>1 DEF vars, Inv, NothingYet, ExactPlain, RightFile, Compiled,
         OnlyRules, Extractors, StartsIfSound, Chosen, Rules, Sound
  <1>. QED
    BY <1>1, <1>2, <1>3, <1>4, <1>5 DEF Next

LEMMA Invariant == Spec => []Inv
  BY InitInv, NextInv, PTL DEF Spec

-----------------------------------------------------------------------------
(* The variables keep their types; a rule of the tree is at the node of    *)
(* its own pattern, whatever the parameters are called                     *)
(* (pathrules.go:41-64).                                                   *)
THEOREM TypeCorrect == Spec => []TypeOK
  BY Invariant, PTL DEF Inv

(* For every rules file and every order of its rules, the proxy starts if  *)
(* there is nothing wrong in the file that counts, and not otherwise       *)
(* (main.go:253-295, pathrules.go:25-66).                                  *)
THEOREM OrderIrrelevant == Spec => []StartsIfSound
  BY Invariant, PTL DEF Inv

(* The reference that the lookup is compared with names one rule at most.  *)
THEOREM OneWinner ==
    ASSUME NEW path, \A p \in Rules : p \in Seq(Segment),
           NEW p \in Winners(path), NEW q \in Winners(path)
    PROVE  p = q
  <1>. SUFFICES ASSUME p # q PROVE FALSE
    OBVIOUS
  <1>1. Prefers(p, q) /\ Prefers(q, p)
    BY DEF Winners
  <1>2. PICK i \in DOMAIN p :
           /\ p[i] \notin Parameter /\ q[i] \in Parameter
           /\ \A j \in 1..(i - 1) : p[j] \in Parameter <=> q[j] \in Parameter
    BY <1>1 DEF Prefers
  <1>3. PICK k \in DOMAIN q :
           /\ q[k] \notin Parameter /\ p[k] \in Parameter
           /\ \A j \in 1..(k - 1) : q[j] \in Parameter <=> p[j] \in Parameter
    BY <1>1 DEF Prefers
  <1>4. i \in Nat \ {0} /\ k \in Nat \ {0}
    BY DEF Winners
  <1>5. i < k \/ k < i \/ i = k
    BY <1>4
  <1>6. CASE i < k
    BY <1>2, <1>3, <1>4, <1>6
  <1>7. CASE k < i
    BY <1>2, <1>3, <1>4, <1>7
  <1>. QED
    BY <1>2, <1>3, <1>5, <1>6, <1>7

-----------------------------------------------------------------------------
(* The lookup.  The function that matchTemplate defines by recursion is    *)
(* shown to exist by giving it, as Best; that it is the one that is chosen *)
(* follows by induction from the end of the path.                          *)

(* There is a least number in a set.                                       *)
LEMMA Least ==
    ASSUME NEW T, T \subseteq Nat, T # {}
    PROVE  \E x \in T : \A y \in T : ~(y < x)
  <1>1. PICK x \in T : \A y \in T : ~(<<y, x>> \in OpToRel(<, Nat))
    <2>. HIDE DEF OpToRel
    <2>. QED
      BY NatLessThanWellFounded, WFMin
  <1>2. ASSUME NEW y \in T, y < x PROVE <<y, x>> \in OpToRel(<, Nat)
    BY <1>2, Zenon DEF OpToRel
  <1>. QED
    BY <1>1, <1>2, Zenon

(* Induction over a set of numbers.                                        *)
LEMMA Induction ==
    ASSUME NEW S, 0 \in S, \A n \in Nat : n \in S => n + 1 \in S
    PROVE  Nat \subseteq S
  <1>. SUFFICES ASSUME Nat \ S # {} PROVE FALSE
    OBVIOUS
  <1>1. PICK x \in Nat \ S : \A y \in Nat \ S : ~(y < x)
    BY Least
  <1>. QED
    BY <1>1

(* What a node is matched to, given what those below it are.               *)
Turn(match, node, path) ==
    IF Len(node) = Len(path)
    THEN IF node \in DOMAIN templates THEN {templates[node]} ELSE {}
    ELSE LET segment == path[Len(node) + 1]
             static == Append(node, segment)
             parameter == Append(node, Any)
             preferred == IF static \in Nodes THEN match[static] ELSE {}
         IN IF preferred # {} THEN preferred
            ELSE IF segment # Empty /\ parameter \in Nodes THEN match[parameter]
            ELSE {}

LEMMA MatchSolves ==
    ASSUME NEW path, NEW g, g = [node \in Nodes |-> Turn(g, node, path)]
    PROVE  \E f : f = [node \in Nodes |-> Turn(f, node, path)] /\ matchTemplate(path) = f[<<>>]
  <1>. DEFINE f == CHOOSE f : f = [node \in Nodes |-> Turn(f, node, path)]
  <1>1. matchTemplate(path) = f[<<>>]
    BY DEF matchTemplate, Turn
  <1>. HIDE DEF Nodes
  <1>2. f = [node \in Nodes |-> Turn(f, node, path)]
    <2>. DEFINE P(h) == h = [node \in Nodes |-> Turn(h, node, path)]
    <2>. HIDE DEF P
    <2>1. P(g)  BY DEF P
    <2>2. P(CHOOSE h : P(h))  BY <2>1
    <2>. QED BY <2>2 DEF P
  <1>. QED
    BY <1>1, <1>2

-----------------------------------------------------------------------------
Letters(path) == Segment \cup {Any} \cup Segments(path)

IsTree == \A n \in DOMAIN templates : n \in Seq(Segment \cup {Any})

IsPath(path) == path \in Seq(Segments(path) \ {Any})

(* The templates below a node that cover the rest of a path.               *)
Below(node, path) ==
    {n \in DOMAIN templates :
       /\ Len(n) = Len(path)
       /\ \A i \in 1..Len(node) : n[i] = node[i]
       /\ \A i \in (Len(node) + 1)..Len(path) :
             n[i] = path[i] \/ (n[i] = Any /\ path[i] # Empty)}

(* Prefers, of nodes.                                                      *)
Ahead(n, m) ==
    \E i \in DOMAIN n : /\ n[i] # Any /\ m[i] = Any
                        /\ \A j \in 1..(i - 1) : n[j] = Any <=> m[j] = Any

Firsts(node, path) ==
    {n \in Below(node, path) : \A m \in Below(node, path) \ {n} : Ahead(n, m)}

Best(node, path) == {templates[n] : n \in Firsts(node, path)}

LEMMA NodeSeq ==
    ASSUME IsTree, NEW node \in Nodes, NEW path
    PROVE  node \in Seq(Letters(path))
  <1>1. CASE node = <<>>
    BY <1>1, EmptySeq
  <1>2. ASSUME NEW n \in DOMAIN templates, NEW i \in 0..Len(n), node = SubSeq(n, 1, i)
        PROVE  node \in Seq(Letters(path))
    <2>1. n \in Seq(Segment \cup {Any})
      BY DEF IsTree
    <2>2. i \in Int /\ \A j \in 1..i : n[j] \in Letters(path)
      BY <2>1, ElementOfSeq, LenProperties DEF Letters
    <2>. QED
      BY <1>2, <2>2, SubSeqProperties
  <1>. QED
    BY <1>1, <1>2 DEF Nodes

(* What a template begins with is a node.                                  *)
LEMMA PrefixIsNode ==
    ASSUME IsTree, NEW path, NEW node \in Seq(Letters(path)), NEW n \in DOMAIN templates,
           Len(node) <= Len(n), \A i \in 1..Len(node) : n[i] = node[i]
    PROVE  node \in Nodes
  <1>1. n \in Seq(Letters(path)) /\ Len(n) \in Nat /\ Len(node) \in Nat
    BY LenProperties, SeqMonotonic DEF IsTree, Letters
  <1>. DEFINE s == SubSeq(n, 1, Len(node))
  <1>2. \A i \in 1..Len(node) : n[i] \in Letters(path)
    BY <1>1, ElementOfSeq
  <1>3. /\ s \in Seq(Letters(path))
        /\ Len(s) = Len(node)
        /\ \A i \in 1..Len(node) : s[i] = n[i]
    <2>1. 1 \in Int /\ Len(node) \in Int
      BY <1>1
    <2>2. /\ s \in Seq(Letters(path))
          /\ Len(s) = IF 1 <= Len(node) THEN Len(node) - 1 + 1 ELSE 0
          /\ \A i \in 1..(Len(node) - 1 + 1) : s[i] = n[1 + i - 1]
      BY <1>2, <2>1, SubSeqProperties
    <2>. HIDE DEF s
    <2>. QED
      BY <1>1, <2>2
  <1>. HIDE DEF s
  <1>4. s = node
    BY <1>3, SeqEqual
  <1>5. Len(node) \in 0..Len(n)
    BY <1>1
  <1>6. node \in {SubSeq(n, 1, i) : i \in 0..Len(n)}
    BY <1>4, <1>5, Zenon DEF s
  <1>. QED
    BY <1>6, Zenon DEF Nodes

-----------------------------------------------------------------------------
(* One step down the tree.                                                 *)
LEMMA Down ==
    ASSUME IsTree, NEW path, IsPath(path), NEW node \in Nodes, Len(node) < Len(path),
           NEW edge \in {path[Len(node) + 1], Any}
    PROVE  LET next == Append(node, edge) IN
           /\ next \in Seq(Letters(path))
           /\ Len(next) = Len(node) + 1
           /\ (edge = Any /\ path[Len(node) + 1] = Empty)
              \/ Below(next, path) = {n \in Below(node, path) : n[Len(node) + 1] = edge}
           /\ Below(next, path) # {} => next \in Nodes
  <1>. DEFINE next == Append(node, edge)
              at == Len(node) + 1
  <1>1. /\ node \in Seq(Letters(path)) /\ Len(node) \in Nat /\ Len(path) \in Nat
        /\ path \in Seq(Segments(path)) /\ at \in 1..Len(path)
    BY NodeSeq, LenProperties, SeqMonotonic DEF IsPath
  <1>0. edge = path[at] \/ edge = Any
    OBVIOUS
  <1>2. edge \in Letters(path)
    BY <1>1, ElementOfSeq DEF Letters
  <1>3. /\ next \in Seq(Letters(path))
        /\ Len(next) = at
        /\ \A i \in 1..Len(node) : next[i] = node[i]
        /\ next[at] = edge
    BY <1>1, <1>2, AppendProperties
  <1>. HIDE DEF next
  <1>4. \A n : (\A i \in 1..at : n[i] = next[i])
               <=> (\A i \in 1..Len(node) : n[i] = node[i]) /\ n[at] = edge
    BY <1>1, <1>3
  <1>5. \A n : /\ n[at] = path[at] \/ (n[at] = Any /\ path[at] # Empty)
               /\ \A i \in (at + 1)..Len(path) : n[i] = path[i] \/ (n[i] = Any /\ path[i] # Empty)
               <=> \A i \in at..Len(path) : n[i] = path[i] \/ (n[i] = Any /\ path[i] # Empty)
    BY <1>1
  <1>6. ASSUME ~(edge = Any /\ path[at] = Empty)
        PROVE  Below(next, path) = {n \in Below(node, path) : n[at] = edge}
    <2>1. ASSUME NEW n
          PROVE  n \in Below(next, path) <=> n \in Below(node, path) /\ n[at] = edge
      <3>1. n[at] = edge => n[at] = path[at] \/ (n[at] = Any /\ path[at] # Empty)
        BY <1>0, <1>6, Zenon
      <3>2. n \in Below(next, path)
            <=> /\ n \in DOMAIN templates /\ Len(n) = Len(path)
                /\ \A i \in 1..at : n[i] = next[i]
                /\ \A i \in (at + 1)..Len(path) :
                      n[i] = path[i] \/ (n[i] = Any /\ path[i] # Empty)
        BY <1>3, Zenon DEF Below
      <3>. QED
        BY <1>4, <1>5, <3>1, <3>2 DEF Below
    <2>. QED
      BY <2>1
  <1>7. ASSUME NEW n \in Below(next, path)
        PROVE  next \in Nodes
    <2>1. n \in DOMAIN templates /\ Len(n) = Len(path) /\ \A i \in 1..at : n[i] = next[i]
      BY <1>3 DEF Below
    <2>. QED
      BY <1>1, <1>3, <2>1, PrefixIsNode
  <1>. QED
    BY <1>3, <1>6, <1>7 DEF next

(* Of two templates below a node that part there the static one is ahead.  *)
LEMMA StaticAhead ==
    ASSUME IsTree, NEW path, IsPath(path), NEW node \in Nodes, Len(node) < Len(path),
           NEW n \in Below(node, path), NEW m \in Below(node, path),
           n[Len(node) + 1] = path[Len(node) + 1], m[Len(node) + 1] # path[Len(node) + 1]
    PROVE  Ahead(n, m) /\ ~Ahead(m, n)
  <1>. DEFINE at == Len(node) + 1
  <1>1. /\ Len(node) \in Nat /\ Len(path) \in Nat /\ at \in 1..Len(path)
        /\ path[at] \in Segments(path) \ {Any}
    <2>1. node \in Seq(Letters(path)) /\ path \in Seq(Segments(path) \ {Any})
      BY NodeSeq DEF IsPath
    <2>2. Len(node) \in Nat /\ Len(path) \in Nat /\ at \in 1..Len(path)
      BY <2>1, LenProperties
    <2>. QED
      BY <2>1, <2>2, ElementOfSeq
  <1>2. /\ DOMAIN n = 1..Len(path) /\ DOMAIN m = 1..Len(path)
        /\ \A i \in 1..Len(node) : n[i] = m[i]
    BY LenProperties DEF IsTree, Below
  <1>3. n[at] # Any /\ m[at] = Any
    BY <1>1 DEF Below
  <1>4. Ahead(n, m)
    BY <1>1, <1>2, <1>3 DEF Ahead
  <1>5. ASSUME NEW i \in DOMAIN m, m[i] # Any, n[i] = Any,
               \A j \in 1..(i - 1) : m[j] = Any <=> n[j] = Any
        PROVE  FALSE
    <2>1. i < at \/ i = at \/ i > at
      BY <1>1, <1>2
    <2>2. CASE i < at
      BY <1>1, <1>2, <1>5, <2>2
    <2>3. CASE i > at
      BY <1>1, <1>2, <1>3, <1>5, <2>3
    <2>. QED
      BY <1>3, <1>5, <2>1, <2>2, <2>3
  <1>. QED
    BY <1>4, <1>5 DEF Ahead

(* The best below a node is the best below the edge that it takes.         *)
LEMMA BestDown ==
    ASSUME IsTree, NEW path, IsPath(path), NEW node \in Nodes, Len(node) < Len(path)
    PROVE  LET static == Append(node, path[Len(node) + 1])
               parameter == Append(node, Any)
           IN /\ Below(static, path) # {} => Best(node, path) = Best(static, path)
              /\ Below(static, path) = {} /\ path[Len(node) + 1] # Empty
                    => /\ Best(node, path) = Best(parameter, path)
                       /\ Below(node, path) = Below(parameter, path)
              /\ Below(static, path) = {} /\ path[Len(node) + 1] = Empty
                    => Below(node, path) = {}
  <1>. DEFINE at == Len(node) + 1
              static == Append(node, path[at])
              parameter == Append(node, Any)
  <1>1. path[at] # Any /\ Len(node) \in Nat /\ Len(path) \in Nat
    <2>1. node \in Seq(Letters(path)) /\ path \in Seq(Segments(path) \ {Any})
      BY NodeSeq DEF IsPath
    <2>2. Len(node) \in Nat /\ Len(path) \in Nat /\ at \in 1..Len(path)
      BY <2>1, LenProperties
    <2>. QED
      BY <2>1, <2>2, ElementOfSeq
  <1>2. Below(static, path) = {n \in Below(node, path) : n[at] = path[at]}
    BY <1>1, Down
  <1>3. path[at] # Empty => Below(parameter, path) = {n \in Below(node, path) : n[at] = Any}
    BY Down
  <1>4. \A n \in Below(node, path) : n[at] = path[at] \/ (n[at] = Any /\ path[at] # Empty)
    BY <1>1 DEF Below
  <1>. HIDE DEF static, parameter, at
  <1>5. ASSUME Below(static, path) # {}
        PROVE  Firsts(node, path) = Firsts(static, path)
    <2>1. \A n \in Below(static, path), m \in Below(node, path) \ Below(static, path) :
             Ahead(n, m) /\ ~Ahead(m, n)
      BY <1>2, StaticAhead DEF at
    <2>2. Below(static, path) \subseteq Below(node, path)
      BY <1>2
    <2>3. ASSUME NEW n \in Firsts(node, path) PROVE n \in Firsts(static, path)
      <3>1. PICK m \in Below(static, path) : TRUE
        BY <1>5
      <3>2. n \in Below(static, path)
        BY <2>1, <2>2, <3>1 DEF Firsts
      <3>. QED
        BY <2>2, <3>2 DEF Firsts
    <2>4. ASSUME NEW n \in Firsts(static, path) PROVE n \in Firsts(node, path)
      BY <2>1, <2>2 DEF Firsts
    <2>. QED
      BY <2>3, <2>4
  <1>6. ASSUME Below(static, path) = {}, path[at] # Empty
        PROVE  Below(node, path) = Below(parameter, path)
    BY <1>2, <1>3, <1>4, <1>6
  <1>7. ASSUME Below(static, path) = {}, path[at] = Empty
        PROVE  Below(node, path) = {}
    BY <1>2, <1>4, <1>7
  <1>8. Below(static, path) # {} => Best(node, path) = Best(static, path)
    BY <1>5 DEF Best
  <1>9. Below(node, path) = Below(parameter, path) => Best(node, path) = Best(parameter, path)
    BY DEF Best, Firsts
  <1>. QED
    BY <1>6, <1>7, <1>8, <1>9 DEF static, parameter, at

(* At the end of the path there is at most the node itself.                *)
LEMMA BestHere ==
    ASSUME IsTree, NEW path, IsPath(path), NEW node \in Nodes, Len(node) = Len(path)
    PROVE  /\ Below(node, path) = {node} \cap DOMAIN templates
           /\ Best(node, path) = IF node \in DOMAIN templates THEN {templates[node]} ELSE {}
  <1>1. node \in Seq(Letters(path)) /\ Len(node) \in Nat
    BY NodeSeq, LenProperties
  <1>2. ASSUME NEW n \in Below(node, path) PROVE n = node
    <2>1. n \in Seq(Letters(path)) /\ Len(n) = Len(node) /\ \A i \in 1..Len(node) : n[i] = node[i]
      BY SeqMonotonic DEF Below, IsTree, Letters
    <2>. QED
      BY <1>1, <2>1, SeqEqual
  <1>3. node \in DOMAIN templates => node \in Below(node, path)
    BY <1>1 DEF Below
  <1>4. Below(node, path) \subseteq DOMAIN templates
    BY DEF Below
  <1>5. Below(node, path) = {node} \cap DOMAIN templates
    BY <1>2, <1>3, <1>4
  <1>6. Firsts(node, path) = {node} \cap DOMAIN templates
    BY <1>5 DEF Firsts
  <1>. QED
    BY <1>5, <1>6 DEF Best

(* If anything is below a node then so is a best of it.                    *)
LEMMA BestExists ==
    ASSUME IsTree, NEW path, IsPath(path)
    PROVE  \A node \in Nodes : Len(node) <= Len(path) /\ Below(node, path) # {}
                                  => Best(node, path) # {}
  <1>. DEFINE Holds(node) == Below(node, path) # {} => Best(node, path) # {}
              S == {d \in Nat : \A node \in Nodes : Len(node) + d = Len(path) => Holds(node)}
  <1>1. Len(path) \in Nat /\ \A node \in Nodes : Len(node) \in Nat
    BY NodeSeq, LenProperties DEF IsPath
  <1>2. 0 \in S
    <2>1. ASSUME NEW node \in Nodes, Len(node) = Len(path) PROVE Holds(node)
      BY <2>1, BestHere
    <2>. HIDE DEF Holds
    <2>. QED
      BY <1>1, <2>1
  <1>3. ASSUME NEW d \in Nat, d \in S PROVE d + 1 \in S
    <2>1. ASSUME NEW node \in Nodes, Len(node) + (d + 1) = Len(path) PROVE Holds(node)
      <3>. DEFINE static == Append(node, path[Len(node) + 1])
                  parameter == Append(node, Any)
      <3>1. Len(node) < Len(path)
        BY <1>1, <2>1
      <3>2. /\ Len(static) = Len(node) + 1 /\ (Below(static, path) # {} => static \in Nodes)
            /\ Len(parameter) = Len(node) + 1
            /\ Below(parameter, path) # {} => parameter \in Nodes
        BY <3>1, Down
      <3>3. /\ Below(static, path) # {} => Best(static, path) # {}
            /\ Below(parameter, path) # {} => Best(parameter, path) # {}
        <4>. HIDE DEF static, parameter
        <4>. QED
          BY <1>1, <1>3, <2>1, <3>2
      <3>. QED
        BY <3>1, <3>3, BestDown
    <2>. HIDE DEF Holds
    <2>. QED
      BY <1>1, <2>1
  <1>4. Nat \subseteq S
    <2>. HIDE DEF S
    <2>. QED
      BY <1>2, <1>3, Induction
  <1>5. ASSUME NEW node \in Nodes, Len(node) <= Len(path) PROVE Holds(node)
    <2>1. Len(path) - Len(node) \in Nat /\ Len(node) + (Len(path) - Len(node)) = Len(path)
      BY <1>1, <1>5
    <2>. HIDE DEF Holds
    <2>. QED
      BY <1>4, <2>1
  <1>. QED
    BY <1>5

(* A turn of the lookup finds the best if it is found below.               *)
LEMMA BestTurn ==
    ASSUME IsTree, NEW path, IsPath(path), NEW node \in Nodes, Len(node) <= Len(path),
           NEW match,
           \A next \in Nodes : Len(next) = Len(node) + 1 /\ Len(next) <= Len(path)
                                  => match[next] = Best(next, path)
    PROVE  Turn(match, node, path) = Best(node, path)
  <1>1. CASE Len(node) = Len(path)
    BY <1>1, BestHere DEF Turn
  <1>2. CASE Len(node) # Len(path)
    <2>. DEFINE segment == path[Len(node) + 1]
                static == Append(node, segment)
                parameter == Append(node, Any)
                preferred == IF static \in Nodes THEN match[static] ELSE {}
    <2>1. Len(node) < Len(path) /\ Len(node) \in Nat /\ Len(path) \in Nat
      BY <1>2, NodeSeq, LenProperties DEF IsPath
    <2>2. /\ Len(static) = Len(node) + 1 /\ (Below(static, path) # {} => static \in Nodes)
          /\ Len(parameter) = Len(node) + 1
          /\ segment # Empty => (Below(parameter, path) # {} => parameter \in Nodes)
      BY <2>1, Down
    <2>3. /\ static \in Nodes => match[static] = Best(static, path)
          /\ parameter \in Nodes => match[parameter] = Best(parameter, path)
      <3>. HIDE DEF static, parameter
      <3>. QED
        BY <2>1, <2>2
    <2>4. \A next : Below(next, path) = {} => Best(next, path) = {}
      BY DEF Best, Firsts
    <2>5. static \in Nodes => (Below(static, path) # {} => Best(static, path) # {})
      <3>. HIDE DEF static
      <3>. QED
        BY <2>1, <2>2, BestExists
    <2>6. preferred = Best(static, path) /\ (preferred # {} <=> Below(static, path) # {})
      <3>. HIDE DEF static
      <3>. QED
        BY <2>2, <2>3, <2>4, <2>5
    <2>7. Turn(match, node, path) =
             IF preferred # {} THEN preferred
             ELSE IF segment # Empty /\ parameter \in Nodes THEN match[parameter] ELSE {}
      BY <1>2 DEF Turn
    <2>8. /\ Below(static, path) # {} => Best(node, path) = Best(static, path)
          /\ Below(static, path) = {} /\ segment # Empty
                => Best(node, path) = Best(parameter, path)
          /\ Below(static, path) = {} /\ segment = Empty => Below(node, path) = {}
      BY <2>1, BestDown
    <2>9. segment # Empty => (parameter \notin Nodes => Best(parameter, path) = {})
      BY <2>2, <2>4
    <2>. HIDE DEF preferred, static, parameter, segment
    <2>. QED
      BY <2>3, <2>4, <2>6, <2>7, <2>8, <2>9
  <1>. QED
    BY <1>1, <1>2

(* The recursion is well-defined, and finds the best of the tree.          *)
LEMMA FindsBest ==
    ASSUME IsTree, NEW path, IsPath(path)
    PROVE  matchTemplate(path) = Best(<<>>, path)
  <1>. DEFINE g == [node \in Nodes |-> IF Len(node) <= Len(path) THEN Best(node, path) ELSE {}]
  <1>1. Len(path) \in Nat /\ \A node \in Nodes : Len(node) \in Nat
    BY NodeSeq, LenProperties DEF IsPath
  <1>2. ASSUME NEW node \in Nodes
        PROVE  Turn(g, node, path) = g[node]
    <2>1. CASE Len(node) <= Len(path)
      <3>1. \A next \in Nodes : Len(next) <= Len(path) => g[next] = Best(next, path)
        OBVIOUS
      <3>. HIDE DEF g
      <3>. QED
        BY <2>1, <3>1, BestTurn
    <2>2. CASE ~(Len(node) <= Len(path))
      <3>. DEFINE static == Append(node, path[Len(node) + 1])
                  parameter == Append(node, Any)
      <3>1. Len(static) = Len(node) + 1 /\ Len(parameter) = Len(node) + 1
        <4>1. node \in Seq(Letters(path) \cup {path[Len(node) + 1]})
          BY NodeSeq, SeqMonotonic
        <4>. QED
          BY <4>1, AppendProperties DEF Letters
      <3>2. \A next \in Nodes : Len(next) = Len(node) + 1 => g[next] = {}
        BY <1>1, <2>2
      <3>3. g[node] = {}
        BY <2>2
      <3>4. Len(node) # Len(path)
        BY <1>1, <2>2
      <3>5. Turn(g, node, path) =
               LET preferred == IF static \in Nodes THEN g[static] ELSE {}
               IN IF preferred # {} THEN preferred
                  ELSE IF path[Len(node) + 1] # Empty /\ parameter \in Nodes
                  THEN g[parameter] ELSE {}
        BY <3>4 DEF Turn
      <3>. HIDE DEF g, static, parameter
      <3>. QED
        BY <3>1, <3>2, <3>3, <3>5
    <2>. QED
      BY <2>1, <2>2
  <1>3. g = [node \in Nodes |-> Turn(g, node, path)]
    <2>1. g = [node \in Nodes |-> g[node]]
      OBVIOUS
    <2>. HIDE DEF g
    <2>. QED
      BY <1>2, <2>1
  <1>. HIDE DEF g
  <1>4. PICK f : /\ f = [node \in Nodes |-> Turn(f, node, path)]
                 /\ matchTemplate(path) = f[<<>>]
    BY <1>3, MatchSolves
  <1>. DEFINE S == {d \in Nat : \A node \in Nodes :
                                   Len(node) + d = Len(path) => f[node] = Best(node, path)}
  <1>5. 0 \in S
    <2>1. ASSUME NEW node \in Nodes, Len(node) = Len(path) PROVE f[node] = Best(node, path)
      <3>1. f[node] = Turn(f, node, path)
        BY <1>4
      <3>. QED
        BY <1>1, <2>1, <3>1, BestTurn
    <2>. QED
      BY <1>1, <2>1
  <1>6. ASSUME NEW d \in Nat, d \in S PROVE d + 1 \in S
    <2>1. ASSUME NEW node \in Nodes, Len(node) + (d + 1) = Len(path)
          PROVE  f[node] = Best(node, path)
      <3>1. f[node] = Turn(f, node, path)
        BY <1>4
      <3>2. \A next \in Nodes : Len(next) = Len(node) + 1 => f[next] = Best(next, path)
        BY <1>1, <1>6, <2>1
      <3>3. Len(node) <= Len(path)
        BY <1>1, <2>1
      <3>. QED
        BY <3>1, <3>2, <3>3, BestTurn
    <2>. QED
      BY <1>1, <2>1
  <1>7. Nat \subseteq S
    <2>. HIDE DEF S
    <2>. QED
      BY <1>5, <1>6, Induction
  <1>8. <<>> \in Nodes /\ Len(<<>>) + Len(path) = Len(path)
    BY <1>1, EmptySeq DEF Nodes
  <1>9. f[<<>>] = Best(<<>>, path)
    BY <1>1, <1>7, <1>8
  <1>. QED
    BY <1>4, <1>9

-----------------------------------------------------------------------------
(* The tree and the rules.                                                 *)

(* Every rule has its place once the rules are compiled.                   *)
Placed ==
    /\ \A p \in Rules : /\ p \in Seq(Segment) /\ Segments(p) \cap Malformed = {}
                        /\ IsTemplate(p) => Edges(p) \in DOMAIN templates
                                            /\ templates[Edges(p)] = p
                        /\ ~IsTemplate(p) => p \in exact
    /\ \A n \in DOMAIN templates : templates[n] \in Rules /\ Edges(templates[n]) = n
    /\ exact \subseteq Rules /\ ExactPlain

LEMMA ReadyPlaced ==
    ASSUME Inv, phase = "ready"
    PROVE  Placed
  <1>1. left = {} /\ files[reading] = Chosen
    BY DEF Inv, Extractors, RightFile
  <1>2. exact \subseteq Rules /\ ExactPlain
    BY <1>1 DEF Inv, TypeOK, Rules
  <1>3. \A p \in Rules : p \in Seq(Segment)
    BY RulesAssumption DEF Inv, TypeOK, Rules, Chosen, IsFile
  <1>4. \A n \in DOMAIN templates : templates[n] \in Rules /\ Edges(templates[n]) = n
    BY DEF Inv, TypeOK, OnlyRules
  <1>. QED
    BY <1>1, <1>2, <1>3, <1>4 DEF Inv, Compiled, Placed

(* The edge of a segment of a rule.                                        *)
LEMMA RuleEdges ==
    ASSUME Placed, NEW p \in Rules
    PROVE  /\ Len(p) \in Nat /\ DOMAIN p = 1..Len(p)
           /\ Edges(p) \in Seq(Segment \cup {Any}) /\ Len(Edges(p)) = Len(p)
           /\ \A i \in 1..Len(p) :
                 /\ p[i] \in Parameter => Edges(p)[i] = Any
                 /\ p[i] \notin Parameter => Edges(p)[i] = p[i] /\ p[i] # Any
  <1>1. p \in Seq(Segment)
    BY DEF Placed
  <1>2. Len(p) \in Nat /\ DOMAIN p = 1..Len(p) /\ \A i \in 1..Len(p) : p[i] \in Segment
    BY <1>1, LenProperties
  <1>3. \A i \in 1..Len(p) : p[i] \notin Malformed
    BY <1>2 DEF Placed, Segments
  <1>4. Edges(p) \in [1..Len(p) -> Segment \cup {Any}]
    BY <1>2 DEF Edges, Edge
  <1>5. Edges(p) \in Seq(Segment \cup {Any}) /\ Len(Edges(p)) = Len(p)
    BY <1>2, <1>4
  <1>6. \A i \in 1..Len(p) : /\ p[i] \in Parameter => Edges(p)[i] = Any
                             /\ p[i] \notin Parameter => Edges(p)[i] = p[i]
    BY <1>2 DEF Edges, Edge
  <1>7. \A i \in 1..Len(p) : p[i] \notin Parameter => p[i] # Any
    BY <1>2, <1>3, RulesAssumption DEF Segment
  <1>. QED
    BY <1>2, <1>5, <1>6, <1>7

LEMMA PlacedTree ==
    ASSUME Placed
    PROVE  IsTree
  BY RuleEdges DEF Placed, IsTree

(* A template of the tree is below the root exactly if it covers the path. *)
LEMMA CoversBelow ==
    ASSUME Placed, NEW path, IsPath(path), NEW p \in Rules,
           Edges(p) \in DOMAIN templates
    PROVE  Covers(p, path) <=> Edges(p) \in Below(<<>>, path)
  <1>1. /\ Len(path) \in Nat /\ DOMAIN path = 1..Len(path)
        /\ \A i \in 1..Len(path) : path[i] # Any
    BY LenProperties, ElementOfSeq DEF IsPath
  <1>2. Edges(p) \in Below(<<>>, path)
        <=> /\ Len(p) = Len(path)
            /\ \A i \in 1..Len(path) :
                  Edges(p)[i] = path[i] \/ (Edges(p)[i] = Any /\ path[i] # Empty)
    <2>1. Len(<<>>) = 0
      BY EmptySeq
    <2>2. Len(Edges(p)) = Len(p)
      BY RuleEdges
    <2>. QED
      BY <2>1, <2>2 DEF Below
  <1>3. ASSUME Len(p) = Len(path), NEW i \in 1..Len(path)
        PROVE  (\/ p[i] \notin Parameter /\ p[i] = path[i]
                \/ p[i] \in Parameter /\ path[i] # Empty)
               <=> Edges(p)[i] = path[i] \/ (Edges(p)[i] = Any /\ path[i] # Empty)
    <2>1. /\ p[i] \in Parameter => Edges(p)[i] = Any
          /\ p[i] \notin Parameter => Edges(p)[i] = p[i] /\ p[i] # Any
      BY <1>3, RuleEdges
    <2>2. path[i] # Any
      BY <1>1
    <2>. QED
      BY <2>1, <2>2
  <1>. QED
    BY <1>1, <1>2, <1>3 DEF Covers

LEMMA PrefersAhead ==
    ASSUME Placed, NEW p \in Rules, NEW q \in Rules, Len(p) = Len(q)
    PROVE  Prefers(p, q) <=> Ahead(Edges(p), Edges(q))
  <1>1. /\ Len(p) \in Nat /\ DOMAIN p = 1..Len(p) /\ DOMAIN Edges(p) = DOMAIN p
        /\ \A i \in 1..Len(p) : /\ Edges(p)[i] = Any <=> p[i] \in Parameter
                                /\ Edges(q)[i] = Any <=> q[i] \in Parameter
    <2>1. Len(p) \in Nat /\ DOMAIN p = 1..Len(p) /\ DOMAIN Edges(p) = DOMAIN p
      BY RuleEdges DEF Edges
    <2>2. \A i \in 1..Len(p) : Edges(p)[i] = Any <=> p[i] \in Parameter
      BY RuleEdges
    <2>3. \A i \in 1..Len(p) : Edges(q)[i] = Any <=> q[i] \in Parameter
      BY RuleEdges
    <2>. QED
      BY <2>1, <2>2, <2>3
  <1>2. ASSUME NEW i \in 1..Len(p)
        PROVE  (\A j \in 1..(i - 1) : p[j] \in Parameter <=> q[j] \in Parameter)
               <=> (\A j \in 1..(i - 1) : Edges(p)[j] = Any <=> Edges(q)[j] = Any)
    BY <1>1
  <1>. QED
    BY <1>1, <1>2 DEF Prefers, Ahead

(* A rule without parameters that covers a path is the path.               *)
LEMMA PlainCovers ==
    ASSUME Placed, NEW path, IsPath(path), NEW p \in Rules, Covers(p, path),
           ~IsTemplate(p)
    PROVE  p = path
  <1>1. p \in Seq(Segment \cup Segments(path)) /\ path \in Seq(Segment \cup Segments(path))
    BY SeqMonotonic DEF Placed, IsPath
  <1>2. Len(p) = Len(path) /\ \A i \in DOMAIN path : p[i] = path[i]
    BY <1>1, LenProperties DEF Covers, IsTemplate, Segments
  <1>. QED
    BY <1>1, <1>2, SeqEqual, LenProperties

(* A rule that is the path itself is preferred to all others.              *)
LEMMA ExactWins ==
    ASSUME Placed, NEW path \in exact, IsPath(path)
    PROVE  Winners(path) = {path}
  <1>1. path \in Rules /\ path \in Seq(Segment) /\ ~IsTemplate(path)
    BY DEF Placed, ExactPlain
  <1>2. /\ Len(path) \in Nat /\ DOMAIN path = 1..Len(path)
        /\ \A i \in DOMAIN path : path[i] \notin Parameter
    BY <1>1, LenProperties DEF IsTemplate, Segments
  <1>3. Covers(path, path)
    BY <1>2 DEF Covers
  <1>4. ASSUME NEW q \in Rules \ {path}, Covers(q, path)
        PROVE  Prefers(path, q)
    <2>. DEFINE T == {i \in DOMAIN path : q[i] \in Parameter}
    <2>1. IsTemplate(q)
      BY <1>4, PlainCovers
    <2>2. DOMAIN q = DOMAIN path
      BY <1>2, <1>4, RuleEdges DEF Covers
    <2>3. T # {} /\ T \subseteq Nat
      BY <1>2, <2>1, <2>2 DEF IsTemplate, Segments
    <2>4. PICK i \in T : \A j \in T : ~(j < i)
      <3>. HIDE DEF T
      <3>. QED
        BY <2>3, Least
    <2>5. \A j \in 1..(i - 1) : j \in DOMAIN path /\ j \notin T
      BY <1>2, <2>4
    <2>. QED
      BY <1>2, <2>4, <2>5 DEF Prefers
  <1>5. path \in Winners(path)
    BY <1>1, <1>3, <1>4 DEF Winners
  <1>. QED
    BY <1>5, OneWinner DEF Placed

(* What wins of the templates is first in the tree.                        *)
LEMMA BestWins ==
    ASSUME Placed, NEW path, IsPath(path), path \notin exact
    PROVE  Best(<<>>, path) = Winners(path)
  <1>1. ASSUME NEW p \in Rules, Covers(p, path)
        PROVE  /\ Edges(p) \in Below(<<>>, path) /\ templates[Edges(p)] = p
               /\ Len(p) = Len(path)
    <2>1. IsTemplate(p)
      BY <1>1, PlainCovers DEF Placed
    <2>2. Edges(p) \in DOMAIN templates /\ templates[Edges(p)] = p
      BY <2>1 DEF Placed
    <2>. QED
      BY <1>1, <2>2, CoversBelow DEF Covers
  <1>2. ASSUME NEW n \in Below(<<>>, path)
        PROVE  templates[n] \in Rules /\ Covers(templates[n], path) /\ Edges(templates[n]) = n
    <2>1. n \in DOMAIN templates /\ templates[n] \in Rules /\ Edges(templates[n]) = n
      BY DEF Below, Placed
    <2>. QED
      BY <2>1, CoversBelow
  <1>3. ASSUME NEW n \in Firsts(<<>>, path)
        PROVE  templates[n] \in Winners(path)
    <2>. DEFINE p == templates[n]
    <2>1. n \in Below(<<>>, path) /\ \A m \in Below(<<>>, path) \ {n} : Ahead(n, m)
      BY <1>3 DEF Firsts
    <2>2. p \in Rules /\ Covers(p, path) /\ Edges(p) = n
      BY <1>2, <2>1
    <2>. HIDE DEF p
    <2>3. ASSUME NEW q \in Rules \ {p}, Covers(q, path) PROVE Prefers(p, q)
      <3>1. Edges(q) \in Below(<<>>, path) /\ templates[Edges(q)] = q /\ Len(q) = Len(path)
        BY <1>1, <2>3
      <3>2. Edges(q) # n /\ Len(p) = Len(path)
        BY <3>1, <2>2 DEF p, Covers
      <3>. QED
        BY <2>1, <2>2, <3>1, <3>2, PrefersAhead
    <2>. QED
      BY <2>2, <2>3 DEF Winners, p
  <1>4. ASSUME NEW p \in Winners(path)
        PROVE  p \in Best(<<>>, path)
    <2>1. /\ p \in Rules /\ Covers(p, path)
          /\ \A q \in Rules \ {p} : Covers(q, path) => Prefers(p, q)
      BY <1>4 DEF Winners
    <2>2. Edges(p) \in Below(<<>>, path) /\ templates[Edges(p)] = p /\ Len(p) = Len(path)
      BY <1>1, <2>1
    <2>3. ASSUME NEW m \in Below(<<>>, path) \ {Edges(p)} PROVE Ahead(Edges(p), m)
      <3>. DEFINE q == templates[m]
      <3>1. q \in Rules /\ Covers(q, path) /\ Edges(q) = m
        BY <1>2
      <3>2. q # p /\ Len(q) = Len(path)
        BY <3>1 DEF Covers
      <3>. HIDE DEF q
      <3>. QED
        BY <2>1, <2>2, <3>1, <3>2, PrefersAhead
    <2>4. Edges(p) \in Firsts(<<>>, path)
      BY <2>2, <2>3 DEF Firsts
    <2>. QED
      BY <2>2, <2>4 DEF Best
  <1>. QED
    BY <1>3, <1>4 DEF Best

LEMMA MatchWins ==
    ASSUME Placed, NEW path, IsPath(path)
    PROVE  /\ Match(path) = Winners(path)
           /\ (\E p \in Rules : Covers(p, path)) => Match(path) # {}
  <1>1. CASE path \in exact
    BY <1>1, ExactWins DEF Match
  <1>2. CASE path \notin exact
    <2>1. Match(path) = Best(<<>>, path)
      BY <1>2, PlacedTree, FindsBest DEF Match
    <2>2. ASSUME NEW p \in Rules, Covers(p, path) PROVE Best(<<>>, path) # {}
      <3>1. IsTemplate(p)
        BY <1>2, <2>2, PlainCovers DEF Placed
      <3>2. Edges(p) \in Below(<<>>, path)
        BY <2>2, <3>1, CoversBelow DEF Placed
      <3>3. <<>> \in Nodes /\ Len(<<>>) <= Len(path)
        BY EmptySeq, LenProperties DEF Nodes, IsPath
      <3>. QED
        BY <3>2, <3>3, PlacedTree, BestExists
    <2>. QED
      BY <1>2, <2>1, <2>2, BestWins
  <1>. QED
    BY <1>1, <1>2

(* For every rules file and every path: the lookup in maps and tree, with  *)
(* its preference for static segments and its way back from dead ends,     *)
(* finds the rule that is static the furthest to the left of those that    *)
(* cover the path, and none only if there is none (pathrules.go:76-109).   *)
THEOREM LookupIsMostSpecific == Spec => []MatchIsMostSpecific
  <1>1. Inv => MatchIsMostSpecific
    BY ReadyPlaced, MatchWins, PathAssumption DEF MatchIsMostSpecific, IsPath
  <1>. QED
    BY <1>1, Invariant, PTL
=============================================================================
