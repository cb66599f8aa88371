--------------------------- MODULE ManifestProofs ---------------------------
(***************************************************************************)
(* Proofs about Manifest: nesting stays free of cycles unless two nestings *)
(* race, and the reader finds exactly what a manifest stands for.          *)
(***************************************************************************)
EXTENDS Manifest, TLAPS

USE NodesApart, TopIsNoNode, ManifestsApart, MaxOpsAssumption

-----------------------------------------------------------------------------
\* The invariants.

\* What a session's walk has found still holds at its COMMIT, unless another
\* nesting was committed since.
WalkHolds ==
  \A w \in Writers : outer[w] # None =>
    /\ inner[w] \in Manifests /\ inner[w] # outer[w]
    /\ crossed[w] \/ outer[w] \notin Within(inner[w])

\* Without a race there is no cycle.
NInv == WalkHolds /\ NestingAcyclicUnlessRaced

\* The nodes and manifests named by a manifest, through the ones in it.
Named(m) == UNION {Targets(x) : x \in Within(m)}

\* What a member that is a node stands for.
Stands(n) ==
  IF ~Active(nodes, n) THEN {}
  ELSE {n} \union (IF n \in Folders THEN ActiveDescendants(nodes, n) ELSE {})

\* The reader starts from nothing.
Rested == asked = None => todo = {} /\ visited = {} /\ result = {}

\* It is on its way through what is named, and what it has passed is expanded.
OnItsWay ==
  asked # None /\ ~torn =>
    /\ asked \in visited \union todo
    /\ visited \union (todo \intersect Manifests) \subseteq Within(asked)
    /\ todo \intersect Nodes \subseteq Named(asked)
    /\ \A x \in visited : \A y \in Targets(x) :
         y \in todo \/ y \in visited \/ (y \in Nodes /\ Stands(y) \subseteq result)
    /\ \A r \in result : \E n \in Nodes \intersect Named(asked) : r \in Stands(n)

RInv == Rested /\ OnItsWay

IInv == TypeOK /\ NInv /\ RInv

-----------------------------------------------------------------------------
\* Types.

\* A table with one more row, or with rows set inactive, is a table.
LEMMA PutNodeType ==
  ASSUME TypeOK, NEW n \in Nodes, NEW row \in Row, PutNode(n, row),
         n \in Docs => row.parent # Top
  PROVE  TypeOK'
<1>1. nodes' = [nodes EXCEPT ![n] = row] /\ nodes \in [Nodes -> MaybeRow]
  BY DEF PutNode, TypeOK, Table
<1>2. nodes' \in [Nodes -> MaybeRow]
  BY <1>1 DEF MaybeRow
<1>3. \A d \in Docs : nodes'[d] # None => nodes'[d].parent # Top
  BY <1>1 DEF TypeOK, Table, Nodes
<1>4. nodes' \in Table
  BY <1>2, <1>3 DEF Table
<1>5. QED
  BY <1>4 DEF PutNode, Committed, TypeOK, adding, reading

\* Every step of the nodes keeps the types.
LEMMA NodeStepType ==
  ASSUME TypeOK, NodeStep
  PROVE  TypeOK'
<1>1. \A n \in Nodes : nodes[n] # None => nodes[n] \in Row /\ (n \in Docs => nodes[n].parent # Top)
  BY DEF TypeOK, Table, MaybeRow
<1>2. ASSUME NEW n \in Nodes, NEW p \in Folders \union {Top}, CreateNode(n, p)
      PROVE  TypeOK'
  <2>1. [parent |-> p, active |-> TRUE] \in Row
    BY DEF Row
  <2>2. n \in Docs => p # Top
    BY <1>2 DEF CreateNode
  <2>3. QED
    BY <1>2, <2>1, <2>2, PutNodeType DEF CreateNode
<1>3. ASSUME NEW n \in Nodes, NEW p \in Folders \union {Top}, MoveNode(n, p)
      PROVE  TypeOK'
  <2>1. [nodes[n] EXCEPT !.parent = p] \in Row /\ [nodes[n] EXCEPT !.parent = p].parent = p
    BY <1>1, <1>3 DEF MoveNode, Row
  <2>2. n \in Docs => p # Top
    BY <1>3 DEF MoveNode
  <2>3. QED
    BY <1>3, <2>1, <2>2, PutNodeType DEF MoveNode
<1>4. ASSUME NEW n \in Nodes, RestoreNode(n)
      PROVE  TypeOK'
  <2>1. /\ [nodes[n] EXCEPT !.active = TRUE] \in Row
        /\ [nodes[n] EXCEPT !.active = TRUE].parent = nodes[n].parent
    BY <1>1, <1>4 DEF RestoreNode, Row
  <2>2. QED
    BY <1>1, <1>4, <2>1, PutNodeType DEF RestoreNode
<1>5. ASSUME NEW n \in Nodes, DeleteNode(n)
      PROVE  TypeOK'
  <2>1. ActiveDescendants(nodes, n) \union {n} \subseteq {m \in Nodes : nodes[m] # None}
    BY <1>5 DEF DeleteNode, ActiveDescendants, Active
  <2>2. nodes' = [m \in Nodes |-> IF m \in ActiveDescendants(nodes, n) \union {n}
                                    THEN [nodes[m] EXCEPT !.active = FALSE] ELSE nodes[m]]
    BY <1>5 DEF DeleteNode
  <2>3. \A m \in Nodes : nodes[m] # None =>
          /\ [nodes[m] EXCEPT !.active = FALSE] \in Row
          /\ [nodes[m] EXCEPT !.active = FALSE].parent = nodes[m].parent
    BY <1>1 DEF Row
  <2>4. \A m \in Nodes : /\ nodes'[m] \in MaybeRow
                         /\ nodes'[m] # None => nodes[m] # None /\ nodes'[m].parent = nodes[m].parent
    BY <2>1, <2>2, <2>3 DEF TypeOK, Table, MaybeRow
  <2>5. nodes' \in [Nodes -> MaybeRow]
    BY <2>2, <2>4
  <2>6. nodes' \in Table
    BY <1>1, <2>4, <2>5 DEF Table, Nodes
  <2>7. QED
    BY <1>5, <2>6 DEF DeleteNode, Committed, TypeOK, adding, reading
<1>6. QED
  BY <1>2, <1>3, <1>4, <1>5 DEF NodeStep

\* Every step of the members keeps them.
LEMMA MemberStepType ==
  ASSUME TypeOK, WalkHolds, MemberStep
  PROVE  TypeOK'
<1> USE DEF TypeOK, Committed, adding, reading
<1>1. ASSUME NEW m \in Manifests, CreateManifest(m)
      PROVE  TypeOK'
  BY <1>1 DEF CreateManifest
<1>2. ASSUME NEW m \in Manifests, NEW n \in Nodes, AddNode(m, n)
      PROVE  TypeOK'
  <2>1. <<m, n>> \in MemberRow
    BY DEF MemberRow
  <2>2. QED
    BY <1>2, <2>1 DEF AddNode
<1>3. ASSUME NEW m \in Manifests, NEW t, RemoveMember(m, t)
      PROVE  TypeOK'
  BY <1>3 DEF RemoveMember
<1>4. ASSUME NEW w \in Writers, NEW m \in Manifests, NEW c \in Manifests, BeginNest(w, m, c)
      PROVE  TypeOK'
  BY <1>4 DEF BeginNest
<1>5. ASSUME NEW w \in Writers, RefuseNest(w)
      PROVE  TypeOK'
  BY <1>5 DEF RefuseNest, EndNest
<1>6. ASSUME NEW w \in Writers, Nest(w)
      PROVE  TypeOK'
  <2>1. outer[w] \in Manifests /\ inner[w] \in Manifests /\ inner[w] # outer[w]
    BY <1>6 DEF Nest, WalkHolds
  <2>2. <<outer[w], inner[w]>> \in MemberRow
    BY <2>1 DEF MemberRow
  <2>3. members' \subseteq MemberRow
    BY <1>6, <2>2 DEF Nest
  <2>4. outer' \in [Writers -> Manifests \union {None}] /\ inner' \in [Writers -> Manifests \union {None}]
    BY <1>6 DEF Nest, EndNest
  <2>5. crossed' \in [Writers -> BOOLEAN] /\ raced' \in BOOLEAN
    BY <1>6 DEF Nest
  <2>6. QED
    BY <1>6, <2>3, <2>4, <2>5 DEF Nest
<1>7. QED
  BY <1>1, <1>2, <1>3, <1>4, <1>5, <1>6 DEF MemberStep

\* So does every step of the reader.
LEMMA ReaderType ==
  ASSUME TypeOK, ReadStep \/ \E m \in Manifests : Ask(m)
  PROVE  TypeOK'
<1> USE DEF TypeOK, adding
<1>1. ASSUME NEW m \in Manifests, Ask(m)
      PROVE  TypeOK'
  BY <1>1 DEF Ask
<1>2. ASSUME NEW m \in Manifests, ExpandManifest(m)
      PROVE  TypeOK'
  <2>1. Targets(m) \subseteq Manifests \union Nodes
    BY DEF Targets, MemberRow
  <2>2. QED
    BY <1>2, <2>1 DEF ExpandManifest
<1>3. ASSUME NEW n \in Nodes, ExpandNode(n)
      PROVE  TypeOK'
  <2>1. ActiveDescendants(nodes, n) \subseteq Nodes
    BY DEF ActiveDescendants
  <2>2. QED
    BY <1>3, <2>1 DEF ExpandNode
<1>4. CASE Answer
  BY <1>4 DEF Answer
<1>5. QED
  BY <1>1, <1>2, <1>3, <1>4 DEF ReadStep

-----------------------------------------------------------------------------
\* The smallest closed set of manifests.

\* Whatever is within m, is within it by its members, and m is.
LEMMA WithinClosed ==
  ASSUME TypeOK, NEW m \in Manifests
  PROVE  m \in Within(m) /\ \A y \in Within(m) : NestedIn(y) \subseteq Within(m)
<1>1. m \in Within(m)
  BY DEF Within
<1>2. ASSUME NEW y \in Within(m), NEW z \in NestedIn(y) PROVE z \in Within(m)
  <2>1. z \in Manifests
    BY <1>2 DEF NestedIn
  <2>2. ASSUME NEW C \in SUBSET Manifests, m \in C, \A x \in C : NestedIn(x) \subseteq C
        PROVE  z \in C
    BY <1>2, <2>2 DEF Within
  <2>3. QED
    BY <2>1, <2>2 DEF Within
<1>3. QED
  BY <1>1, <1>2

\* With fewer members there is less within.
LEMMA WithinShrinks ==
  ASSUME \A x \in Manifests : NestedIn(x)' \subseteq NestedIn(x), NEW m \in Manifests
  PROVE  Within(m)' \subseteq Within(m)
<1> SUFFICES ASSUME NEW x \in Within(m)',
                    NEW C \in SUBSET Manifests, m \in C, \A y \in C : NestedIn(y) \subseteq C
             PROVE  x \in C
  BY DEF Within
<1>1. \A y \in C : NestedIn(y)' \subseteq C
  OBVIOUS
<1>2. QED
  BY <1>1 DEF Within

\* A member outside of what is within c, and c added to it, close no cycle.
LEMMA NestKeepsAcyclic ==
  ASSUME NestingAcyclic, NEW m \in Manifests, NEW c \in Manifests, m \notin Within(c),
         \A x \in Manifests : NestedIn(x)' \subseteq NestedIn(x) \union {c},
         \A x \in Manifests : x # m => NestedIn(x)' = NestedIn(x)
  PROVE  NestingAcyclic'
<1> SUFFICES ASSUME NEW S \in SUBSET Manifests, \A x \in S : NestedIn(x)' \intersect S # {}
             PROVE  S = {}
  BY DEF NestingAcyclic
<1>1. PICK C \in SUBSET Manifests : c \in C /\ (\A y \in C : NestedIn(y) \subseteq C) /\ m \notin C
  BY DEF Within
<1>2. S \intersect C = {}
  <2>1. \A x \in S \intersect C : NestedIn(x) \intersect (S \intersect C) # {}
    BY <1>1
  <2>2. QED
    BY <2>1 DEF NestingAcyclic
<1>3. \A x \in S : NestedIn(x) \intersect S # {}
  BY <1>1, <1>2
<1>4. QED
  BY <1>3 DEF NestingAcyclic

-----------------------------------------------------------------------------
\* Nesting.

\* Where no member is added that is a manifest, walks still hold and no cycle
\* comes about.
LEMMA NoNestKeepsNInv ==
  ASSUME TypeOK, NInv, UNCHANGED <<outer, inner, crossed, raced>>,
         \A x \in Manifests : NestedIn(x)' \subseteq NestedIn(x)
  PROVE  NInv'
<1>1. WalkHolds'
  <2> SUFFICES ASSUME NEW w \in Writers, outer[w] # None
               PROVE  /\ inner[w] \in Manifests /\ inner[w] # outer[w]
                      /\ crossed[w] \/ outer[w] \notin Within(inner[w])'
    BY DEF WalkHolds
  <2>1. /\ inner[w] \in Manifests /\ inner[w] # outer[w]
        /\ crossed[w] \/ outer[w] \notin Within(inner[w])
    BY DEF NInv, WalkHolds
  <2>2. \A m \in Manifests : Within(m)' \subseteq Within(m)
    BY WithinShrinks
  <2>3. QED
    BY <2>1, <2>2
<1>2. NestingAcyclicUnlessRaced'
  <2>1. NestingAcyclic => NestingAcyclic'
    <3> SUFFICES ASSUME NestingAcyclic, NEW S \in SUBSET Manifests,
                        \A x \in S : NestedIn(x)' \intersect S # {}
                 PROVE  S = {}
      BY DEF NestingAcyclic
    <3>1. \A x \in S : NestedIn(x) \intersect S # {}
      OBVIOUS
    <3>2. QED
      BY <3>1 DEF NestingAcyclic
  <2>2. QED
    BY <2>1 DEF NInv, NestingAcyclicUnlessRaced
<1>3. QED
  BY <1>1, <1>2 DEF NInv

\* What is within a manifest depends on the members only.
LEMMA SameMembers ==
  ASSUME UNCHANGED members
  PROVE  /\ \A x : Targets(x)' = Targets(x) /\ NestedIn(x)' = NestedIn(x)
         /\ \A x : Within(x)' = Within(x)
<1>1. \A x : Targets(x)' = Targets(x)
  BY DEF Targets
<1>2. \A x : NestedIn(x)' = NestedIn(x)
  BY <1>1 DEF NestedIn
<1>3. QED
  BY <1>1, <1>2 DEF Within

\* A call that begins has walked; a nesting that lands crosses all others.
LEMMA MemberStepNInv ==
  ASSUME TypeOK, NInv, MemberStep
  PROVE  NInv'
<1> USE DEF TypeOK
<1>1. ASSUME NEW m \in Manifests, CreateManifest(m)
      PROVE  NInv'
  BY <1>1, SameMembers, NoNestKeepsNInv DEF CreateManifest, adding
<1>2. ASSUME NEW m \in Manifests, NEW n \in Nodes, AddNode(m, n)
      PROVE  NInv'
  <2>1. members' = members \union {<<m, n>>} /\ UNCHANGED <<outer, inner, crossed, raced>>
    BY <1>2 DEF AddNode, adding
  <2>2. n \notin Manifests
    OBVIOUS
  <2>3. \A x \in Manifests : Targets(x)' \subseteq Targets(x) \union {n}
    BY <2>1 DEF Targets
  <2>4. \A x \in Manifests : NestedIn(x)' \subseteq NestedIn(x)
    BY <2>2, <2>3 DEF NestedIn
  <2>5. QED
    BY <2>1, <2>4, NoNestKeepsNInv
<1>3. ASSUME NEW m \in Manifests, NEW t, RemoveMember(m, t)
      PROVE  NInv'
  <2>1. members' \subseteq members /\ UNCHANGED <<outer, inner, crossed, raced>>
    BY <1>3 DEF RemoveMember, adding
  <2>2. \A x \in Manifests : NestedIn(x)' \subseteq NestedIn(x)
    BY <2>1 DEF NestedIn, Targets
  <2>3. QED
    BY <2>1, <2>2, NoNestKeepsNInv
<1>4. ASSUME NEW w \in Writers, NEW m \in Manifests, NEW c \in Manifests, BeginNest(w, m, c)
      PROVE  NInv'
  <2>1. \A x : Within(x)' = Within(x) /\ NestedIn(x)' = NestedIn(x)
    BY <1>4, SameMembers DEF BeginNest
  <2>2. m # c /\ m \notin Within(c)
    BY <1>4, WithinClosed DEF BeginNest
  <2>3. /\ outer' = [outer EXCEPT ![w] = m] /\ inner' = [inner EXCEPT ![w] = c]
        /\ crossed' = [crossed EXCEPT ![w] = FALSE] /\ raced' = raced
    BY <1>4 DEF BeginNest
  <2>4. WalkHolds'
    BY <2>1, <2>2, <2>3 DEF NInv, WalkHolds
  <2>5. NestingAcyclicUnlessRaced'
    BY <2>1, <2>3 DEF NInv, NestingAcyclicUnlessRaced, NestingAcyclic
  <2>6. QED
    BY <2>4, <2>5 DEF NInv
<1>5. ASSUME NEW w \in Writers, RefuseNest(w)
      PROVE  NInv'
  <2>1. \A x : Within(x)' = Within(x) /\ NestedIn(x)' = NestedIn(x)
    BY <1>5, SameMembers DEF RefuseNest
  <2>2. /\ outer' = [outer EXCEPT ![w] = None] /\ inner' = [inner EXCEPT ![w] = None]
        /\ crossed' = [crossed EXCEPT ![w] = FALSE] /\ raced' = raced
    BY <1>5 DEF RefuseNest, EndNest
  <2>3. WalkHolds'
    BY <2>1, <2>2 DEF NInv, WalkHolds
  <2>4. NestingAcyclicUnlessRaced'
    BY <2>1, <2>2 DEF NInv, NestingAcyclicUnlessRaced, NestingAcyclic
  <2>5. QED
    BY <2>3, <2>4 DEF NInv
<1>6. ASSUME NEW w \in Writers, Nest(w)
      PROVE  NInv'
  <2>1. /\ outer' = [outer EXCEPT ![w] = None] /\ inner' = [inner EXCEPT ![w] = None]
        /\ crossed' = [v \in Writers |-> v # w /\ outer[v] # None]
        /\ raced' = (raced \/ crossed[w])
        /\ members' = members \union {<<outer[w], inner[w]>>}
    BY <1>6 DEF Nest, EndNest
  <2>2. /\ outer[w] \in Manifests /\ inner[w] \in Manifests
        /\ crossed[w] \/ outer[w] \notin Within(inner[w])
    BY <1>6 DEF Nest, NInv, WalkHolds
  <2>3. WalkHolds'
    BY <2>1 DEF NInv, WalkHolds
  <2>4. ASSUME ~raced, ~crossed[w]
        PROVE  NestingAcyclic'
    <3>1. \A x \in Manifests : Targets(x)' \subseteq Targets(x) \union {inner[w]}
      BY <2>1 DEF Targets
    <3>2. \A x \in Manifests : NestedIn(x)' \subseteq NestedIn(x) \union {inner[w]}
      BY <3>1 DEF NestedIn
    <3>3. \A x \in Manifests : x # outer[w] => Targets(x)' = Targets(x)
      BY <2>1 DEF Targets
    <3>4. \A x \in Manifests : x # outer[w] => NestedIn(x)' = NestedIn(x)
      BY <3>3 DEF NestedIn
    <3>5. NestingAcyclic
      BY <2>4 DEF NInv, NestingAcyclicUnlessRaced
    <3>6. QED
      BY <2>2, <2>4, <3>2, <3>4, <3>5, NestKeepsAcyclic
  <2>5. NestingAcyclicUnlessRaced'
    BY <2>1, <2>4 DEF NestingAcyclicUnlessRaced
  <2>6. QED
    BY <2>3, <2>5 DEF NInv
<1>7. QED
  BY <1>1, <1>2, <1>3, <1>4, <1>5, <1>6 DEF MemberStep

\* Nodes and readers change no member.
LEMMA OtherStepNInv ==
  ASSUME TypeOK, NInv,
         NodeStep \/ ReadStep \/ (\E m \in Manifests : Ask(m)) \/ UNCHANGED vars
  PROVE  NInv'
<1>1. UNCHANGED <<members, outer, inner, crossed, raced>>
  BY DEF NodeStep, CreateNode, MoveNode, DeleteNode, RestoreNode, PutNode, ReadStep,
         ExpandManifest, ExpandNode, Answer, Ask, vars, adding
<1>2. QED
  BY <1>1, SameMembers, NoNestKeepsNInv

\* Types and nesting, at the start and after every step.
LEMMA InitNInv == Init => TypeOK /\ NInv
<1> SUFFICES ASSUME Init PROVE TypeOK /\ NInv
  OBVIOUS
<1>1. TypeOK
  <2>1. nodes \in Table
    BY DEF Init
  <2>2. ops \in 0..MaxOps
    BY DEF Init
  <2>3. /\ outer \in [Writers -> Manifests \union {None}]
        /\ inner \in [Writers -> Manifests \union {None}]
        /\ crossed \in [Writers -> BOOLEAN]
    BY DEF Init
  <2>4. made \subseteq Manifests /\ members \subseteq MemberRow
    BY DEF Init
  <2>5. /\ asked \in Manifests \union {None} /\ todo \subseteq Manifests \union Nodes
        /\ visited \subseteq Manifests /\ result \subseteq Nodes
    BY DEF Init
  <2>6. raced \in BOOLEAN /\ torn \in BOOLEAN
    BY DEF Init
  <2>7. QED
    BY <2>1, <2>2, <2>3, <2>4, <2>5, <2>6 DEF TypeOK
<1>2. \A x : NestedIn(x) = {}
  BY DEF Init, NestedIn, Targets
<1>3. QED
  BY <1>1, <1>2 DEF Init, NInv, WalkHolds, NestingAcyclicUnlessRaced, NestingAcyclic

\* Every step keeps types and nesting.
LEMMA NextNInv ==
  ASSUME TypeOK, NInv, [Next]_vars
  PROVE  TypeOK' /\ NInv'
<1>1. CASE MemberStep
  BY <1>1, MemberStepType, MemberStepNInv DEF NInv
<1>2. CASE NodeStep
  BY <1>2, NodeStepType, OtherStepNInv
<1>3. CASE ReadStep \/ \E m \in Manifests : Ask(m)
  BY <1>3, ReaderType, OtherStepNInv
<1>4. CASE UNCHANGED vars
  <2>1. TypeOK'
    BY <1>4 DEF TypeOK, vars, adding, reading
  <2>2. QED
    BY <1>4, <2>1, OtherStepNInv
<1>5. QED
  BY <1>1, <1>2, <1>3, <1>4 DEF Next

\* Every variable keeps its type: files stay in folders, no manifest becomes a
\* member of itself.
THEOREM TypeCorrect == Spec => []TypeOK
<1>1. Init => TypeOK /\ NInv
  BY InitNInv
<1>2. (TypeOK /\ NInv) /\ [Next]_vars => (TypeOK /\ NInv)'
  BY NextNInv
<1>3. QED
  BY <1>1, <1>2, PTL DEF Spec

\* add_manifest_member keeps the nesting free of cycles of any length, unless
\* another nesting is committed between its walk and its COMMIT.
THEOREM NestingStaysAcyclic == Spec => []NestingAcyclicUnlessRaced
<1>1. Init => TypeOK /\ NInv
  BY InitNInv
<1>2. (TypeOK /\ NInv) /\ [Next]_vars => (TypeOK /\ NInv)'
  BY NextNInv
<1>3. NInv => NestingAcyclicUnlessRaced
  BY DEF NInv
<1>4. QED
  BY <1>1, <1>2, <1>3, PTL DEF Spec

\* A call removes one member at most, of one manifest.
THEOREM OneMemberGoes == Spec => OneMemberAtATime
<1>1. TypeOK /\ [Next]_vars => [\A r, s \in members \ members' : r = s]_vars
  <2> SUFFICES ASSUME TypeOK, Next PROVE \A r, s \in members \ members' : r = s
    OBVIOUS
  <2>1. ASSUME NEW m \in Manifests, NEW targets, RemoveMember(m, targets)
        PROVE  \A r, s \in members \ members' : r = s
    <3>1. PICK t \in targets : targets = {t}
      BY <2>1 DEF RemoveMember
    <3>2. \A r \in members \ members' : r[1] = m /\ r[2] = t
      BY <2>1, <3>1 DEF RemoveMember
    <3>3. \A r \in members : r = <<r[1], r[2]>>
      BY DEF TypeOK, MemberRow
    <3>4. QED
      BY <3>2, <3>3
  <2>2. CASE members \subseteq members'
    BY <2>2
  <2>3. CASE MemberStep
    BY <2>1, <2>2, <2>3 DEF MemberStep, CreateManifest, AddNode, RefuseNest, Nest, BeginNest
  <2>4. CASE NodeStep \/ ReadStep \/ \E m \in Manifests : Ask(m)
    BY <2>2, <2>4 DEF NodeStep, CreateNode, MoveNode, DeleteNode, RestoreNode, PutNode,
                      ReadStep, ExpandManifest, ExpandNode, Answer, Ask
  <2>5. QED
    BY <2>3, <2>4 DEF Next
<1>2. QED
  BY <1>1, TypeCorrect, PTL DEF Spec, OneMemberAtATime

-----------------------------------------------------------------------------
\* The reader.

\* Each statement of a reader brings it closer to its answer, whatever was
\* committed before it and whatever cycles the nesting has.
THEOREM ReaderAdvances == Spec => ResolveAdvances
<1> DEFINE Advances ==
      (asked # None /\ reading' # reading) =>
        \/ asked' = None
        \/ visited \subseteq visited' /\ visited # visited'
        \/ visited = visited' /\ todo' \subseteq todo /\ todo' # todo
<1>1. [Next]_vars => [Advances]_vars
  <2> SUFFICES ASSUME Next PROVE Advances
    OBVIOUS
  <2>1. ASSUME NEW m \in Manifests, ExpandManifest(m)
        PROVE  Advances
    <3>1. CASE m \in visited
      <4>1. visited' = visited /\ todo' = todo \ {m} /\ m \in todo
        BY <2>1, <3>1 DEF ExpandManifest
      <4>2. QED
        BY <4>1
    <3>2. CASE m \notin visited
      <4>1. visited' = visited \union {m}
        BY <2>1 DEF ExpandManifest
      <4>2. QED
        BY <3>2, <4>1
    <3>3. QED
      BY <3>1, <3>2
  <2>2. ASSUME NEW n \in Nodes, ExpandNode(n)
        PROVE  Advances
    BY <2>2 DEF ExpandNode
  <2>3. CASE Answer
    BY <2>3 DEF Answer
  <2>4. CASE \E m \in Manifests : Ask(m)
    BY <2>4 DEF Ask
  <2>5. CASE UNCHANGED reading
    BY <2>5
  <2>6. NodeStep => UNCHANGED reading
    BY DEF NodeStep, CreateNode, MoveNode, DeleteNode, RestoreNode, PutNode
  <2>7. MemberStep => UNCHANGED reading
    BY DEF MemberStep, CreateManifest, AddNode, RemoveMember, BeginNest, RefuseNest, Nest
  <2>8. QED
    BY <2>1, <2>2, <2>3, <2>4, <2>5, <2>6, <2>7 DEF Next, ReadStep
<1>2. QED
  BY <1>1, PTL DEF Spec, ResolveAdvances

\* The folders above an active node are those it is below.
LEMMA AboveIsNotBelow ==
  ASSUME TypeOK, NEW f \in Folders, NEW n \in Nodes, Active(nodes, n)
  PROVE  f \in Above(n) <=> nodes[n].parent \in Below(nodes, f) \union {f}
<1> DEFINE B == Below(nodes, f) \union {f}
<1>1. /\ \A k \in Nodes : nodes[k] # None /\ nodes[k].parent # Top =>
           nodes[k].parent \in Folders
      /\ nodes[n] # None
      /\ Folders \subseteq Nodes /\ Top \notin Folders
  BY DEF TypeOK, Table, MaybeRow, Row, Nodes, Active
<1>2. ASSUME f \in Above(n), nodes[n].parent \notin B
      PROVE  FALSE
  <2> DEFINE C == Folders \ B
  <2>1. ASSUME NEW k \in C \union {n}, nodes[k] # None, nodes[k].parent # Top
        PROVE  nodes[k].parent \in C
    <3>1. nodes[k].parent \in Folders
      BY <1>1, <2>1
    <3>2. CASE k = n
      BY <1>2, <3>1, <3>2
    <3>3. CASE k \in C
      <4> SUFFICES ASSUME nodes[k].parent \in B PROVE FALSE
        BY <3>1
      <4>1. PICK D \in SUBSET Folders : Closed(nodes, f, D) /\ k \notin D
        BY <3>3 DEF Below
      <4>2. nodes[k].parent \in D \union {f}
        BY <4>1 DEF Below
      <4>3. QED
        BY <2>1, <3>3, <4>1, <4>2 DEF Closed
    <3>4. QED
      BY <3>2, <3>3
  <2>2. C \in SUBSET Folders
    OBVIOUS
  <2>3. f \in C
    BY <1>2, <2>1, <2>2 DEF Above
  <2>4. QED
    BY <2>3
<1>3. ASSUME nodes[n].parent \in B,
             NEW C \in SUBSET Folders,
             \A k \in C \union {n} : nodes[k] # None /\ nodes[k].parent # Top => nodes[k].parent \in C
      PROVE  f \in C
  <2> SUFFICES ASSUME f \notin C PROVE FALSE
    OBVIOUS
  <2> DEFINE X == Folders \ C
  <2>1. Closed(nodes, f, X)
    BY <1>1, <1>3 DEF Closed
  <2>2. nodes[n].parent \in X
    BY <1>3, <2>1 DEF Below
  <2>3. QED
    BY <1>1, <1>3, <2>2
<1>4. QED
  BY <1>2, <1>3 DEF Above

\* Where nothing the reader looks at has changed, it is still on its way.
LEMMA NothingReadChanged ==
  ASSUME RInv, UNCHANGED <<members, nodes, reading, torn>>
  PROVE  RInv'
<1>1. \A x : Targets(x)' = Targets(x) /\ Within(x)' = Within(x)
  BY SameMembers
<1>2. \A x : Named(x)' = Named(x) /\ Stands(x)' = Stands(x)
  BY <1>1 DEF Named, Stands
<1>3. Rested'
  BY DEF RInv, Rested, reading
<1>4. OnItsWay'
  BY <1>1, <1>2 DEF RInv, OnItsWay, reading
<1>5. QED
  BY <1>3, <1>4 DEF RInv

\* A reader's own statements keep it on its way.
LEMMA ReaderStepRInv ==
  ASSUME TypeOK, RInv, ReadStep \/ \E m \in Manifests : Ask(m)
  PROVE  RInv'
<1> USE DEF RInv, TypeOK
<1>1. \A x : /\ Targets(x)' = Targets(x) /\ Within(x)' = Within(x)
             /\ Named(x)' = Named(x) /\ Stands(x)' = Stands(x)
  <2>1. UNCHANGED <<members, nodes>>
    BY DEF ReadStep, ExpandManifest, ExpandNode, Answer, Ask
  <2>2. \A x : Targets(x)' = Targets(x) /\ Within(x)' = Within(x)
    BY <2>1, SameMembers
  <2>3. QED
    BY <2>1, <2>2 DEF Named, Stands
<1>2. ASSUME NEW m \in Manifests, Ask(m)
      PROVE  RInv'
  <2>1. asked' = m /\ todo' = {m} /\ visited' = {} /\ result' = {}
    BY <1>2 DEF Ask, Rested
  <2>2. todo' \intersect Manifests = {m} /\ todo' \intersect Nodes = {}
    BY <2>1
  <2>3. m \in Within(m)
    BY WithinClosed
  <2>4. QED
    BY <1>1, <2>1, <2>2, <2>3 DEF Rested, OnItsWay
<1>3. ASSUME NEW m \in Manifests, ExpandManifest(m)
      PROVE  RInv'
  <2>1. /\ m \in todo /\ visited' = visited \union {m}
        /\ todo' = (todo \ {m}) \union (IF m \in visited THEN {} ELSE Targets(m))
        /\ UNCHANGED <<asked, result, torn>>
    BY <1>3 DEF ExpandManifest
  <2>2. asked # None
    BY <2>1 DEF Rested
  <2>3. ASSUME ~torn
        PROVE  OnItsWay'
    <3>1. m \in Within(asked) /\ asked \in Manifests
      BY <2>1, <2>2, <2>3 DEF OnItsWay
    <3>2. NestedIn(m) \subseteq Within(asked)
      BY <3>1, WithinClosed
    <3>3. Targets(m) \subseteq Named(asked)
      BY <3>1 DEF Named
    <3>4. asked \in visited' \union todo'
      BY <2>1, <2>2, <2>3 DEF OnItsWay
    <3>5. visited' \union (todo' \intersect Manifests) \subseteq Within(asked)
      BY <2>1, <2>2, <2>3, <3>1, <3>2 DEF OnItsWay, NestedIn
    <3>6. todo' \intersect Nodes \subseteq Named(asked)
      BY <2>1, <2>2, <2>3, <3>3 DEF OnItsWay
    <3>7. ASSUME NEW x \in visited', NEW y \in Targets(x)
          PROVE  y \in todo' \/ y \in visited' \/ (y \in Nodes /\ Stands(y) \subseteq result)
      <4>1. CASE x \in visited
        BY <2>1, <2>2, <2>3, <3>7, <4>1 DEF OnItsWay
      <4>2. CASE x = m /\ m \notin visited
        BY <2>1, <3>7, <4>2
      <4>3. QED
        BY <2>1, <4>1, <4>2
    <3>8. \A r \in result : \E n \in Nodes \intersect Named(asked) : r \in Stands(n)
      BY <2>2, <2>3 DEF OnItsWay
    <3>9. QED
      BY <1>1, <2>1, <3>4, <3>5, <3>6, <3>7, <3>8 DEF OnItsWay
  <2>4. Rested' /\ OnItsWay'
    BY <2>1, <2>2, <2>3 DEF Rested, OnItsWay
  <2>5. QED
    BY <2>4
<1>4. ASSUME NEW n \in Nodes, ExpandNode(n)
      PROVE  RInv'
  <2>1. /\ n \in todo /\ todo' = todo \ {n}
        /\ result' = result \union Stands(n)
        /\ UNCHANGED <<asked, visited, torn>>
    BY <1>4 DEF ExpandNode, Stands
  <2>2. asked # None
    BY <2>1 DEF Rested
  <2>3. ASSUME ~torn
        PROVE  OnItsWay'
    <3>1. asked \in visited' \union todo'
      BY <2>1, <2>2, <2>3 DEF OnItsWay
    <3>2. /\ visited' \union (todo' \intersect Manifests) \subseteq Within(asked)
          /\ todo' \intersect Nodes \subseteq Named(asked)
      BY <2>1, <2>2, <2>3 DEF OnItsWay
    <3>3. \A x \in visited' : \A y \in Targets(x) :
            y \in todo' \/ y \in visited' \/ (y \in Nodes /\ Stands(y) \subseteq result')
      BY <2>1, <2>2, <2>3 DEF OnItsWay
    <3>4. n \in Nodes \intersect Named(asked)
      BY <2>1, <2>2, <2>3 DEF OnItsWay
    <3>5. \A r \in result : \E k \in Nodes \intersect Named(asked) : r \in Stands(k)
      BY <2>2, <2>3 DEF OnItsWay
    <3>6. \A r \in result' : \E k \in Nodes \intersect Named(asked) : r \in Stands(k)
      BY <2>1, <3>4, <3>5
    <3>7. QED
      BY <1>1, <2>1, <3>1, <3>2, <3>3, <3>6 DEF OnItsWay
  <2>4. Rested' /\ OnItsWay'
    BY <2>1, <2>2, <2>3 DEF Rested, OnItsWay
  <2>5. QED
    BY <2>4
<1>5. CASE Answer
  BY <1>5 DEF Answer, Rested, OnItsWay
<1>6. QED
  BY <1>2, <1>3, <1>4, <1>5 DEF ReadStep

\* Whatever else happens changes nothing the reader looks at, or marks it torn.
LEMMA OthersRInv ==
  ASSUME RInv, NodeStep \/ MemberStep \/ UNCHANGED vars
  PROVE  RInv'
<1>1. CASE Committed /\ UNCHANGED reading
  BY <1>1 DEF RInv, Rested, OnItsWay, Committed, reading
<1>2. CASE UNCHANGED <<members, nodes, reading, torn>>
  BY <1>2, NothingReadChanged
<1>3. NodeStep => Committed /\ UNCHANGED reading
  BY DEF NodeStep, CreateNode, MoveNode, DeleteNode, RestoreNode, PutNode
<1>4. MemberStep => \/ Committed /\ UNCHANGED reading
                    \/ UNCHANGED <<members, nodes, reading, torn>>
  BY DEF MemberStep, CreateManifest, AddNode, RemoveMember, BeginNest, RefuseNest, Nest
<1>5. UNCHANGED vars => UNCHANGED <<members, nodes, reading, torn>>
  BY DEF vars
<1>6. QED
  BY <1>1, <1>2, <1>3, <1>4, <1>5

\* With nothing left to expand, everything within is expanded, and the result
\* is what the nodes named there stand for.
LEMMA WholeResult ==
  ASSUME TypeOK, RInv, asked # None, todo = {}, ~torn
  PROVE  result = UNION {Stands(n) : n \in Nodes \intersect Named(asked)}
<1>1. /\ asked \in visited /\ visited \subseteq Within(asked)
      /\ \A x \in visited : \A y \in Targets(x) :
           y \in visited \/ (y \in Nodes /\ Stands(y) \subseteq result)
      /\ \A r \in result : \E n \in Nodes \intersect Named(asked) : r \in Stands(n)
  BY DEF RInv, OnItsWay
<1>2. \A x \in visited : NestedIn(x) \subseteq visited
  BY <1>1 DEF NestedIn, Nodes
<1>3. Within(asked) \subseteq visited
  BY <1>1, <1>2 DEF Within, TypeOK
<1>4. ASSUME NEW n \in Nodes \intersect Named(asked)
      PROVE  Stands(n) \subseteq result
  BY <1>1, <1>3 DEF Named, TypeOK
<1>5. QED
  BY <1>1, <1>4

\* What the nodes named in a manifest stand for is its expansion.
LEMMA StandsForExpansion ==
  ASSUME TypeOK, NEW m \in Manifests
  PROVE  UNION {Stands(n) : n \in Nodes \intersect Named(m)} = Expansion(m)
<1>1. ASSUME NEW n \in Nodes \intersect Named(m), NEW r \in Stands(n)
      PROVE  r \in Expansion(m)
  <2>1. Active(nodes, r) /\ r \in Nodes
    BY <1>1 DEF Stands, ActiveDescendants
  <2>2. CASE r = n
    BY <2>1, <2>2 DEF Expansion, Named
  <2>3. CASE r # n
    <3>1. n \in Folders /\ Active(nodes, n) /\ nodes[r].parent \in Below(nodes, n) \union {n}
      BY <1>1, <2>3 DEF Stands, ActiveDescendants
    <3>2. n \in Above(r)
      BY <2>1, <3>1, AboveIsNotBelow
    <3>3. QED
      BY <2>1, <3>1, <3>2 DEF Expansion, Named
  <2>4. QED
    BY <2>2, <2>3
<1>2. ASSUME NEW r \in Expansion(m)
      PROVE  \E n \in Nodes \intersect Named(m) : r \in Stands(n)
  <2>1. r \in Nodes /\ Active(nodes, r)
    BY DEF Expansion
  <2>2. CASE r \in Named(m)
    BY <2>1, <2>2 DEF Stands
  <2>3. CASE r \notin Named(m)
    <3>1. PICK f \in Above(r) \intersect Named(m) : Active(nodes, f)
      BY <2>3 DEF Expansion, Named
    <3>2. f \in Folders /\ f \in Nodes
      BY DEF Above, Nodes
    <3>3. r \in ActiveDescendants(nodes, f)
      BY <2>1, <3>1, <3>2, AboveIsNotBelow DEF ActiveDescendants
    <3>4. QED
      BY <3>1, <3>2, <3>3 DEF Stands
  <2>4. QED
    BY <2>2, <2>3
<1>3. QED
  BY <1>1, <1>2

\* A manifest expands to exactly the active nodes that are named in it or in
\* a manifest within it, or have an active folder named there above them,
\* unless something is committed while resolve_manifest reads.
THEOREM ManifestsResolve == Spec => []ResolveExact
<1>1. Init => IInv
  BY InitNInv DEF Init, IInv, RInv, Rested, OnItsWay
<1>2. IInv /\ [Next]_vars => IInv'
  <2> SUFFICES ASSUME IInv, [Next]_vars PROVE IInv'
    OBVIOUS
  <2>1. TypeOK' /\ NInv'
    BY NextNInv DEF IInv
  <2>2. RInv'
    BY ReaderStepRInv, OthersRInv DEF Next, IInv
  <2>3. QED
    BY <2>1, <2>2 DEF IInv
<1>3. IInv => ResolveExact
  <2> SUFFICES ASSUME TypeOK, RInv, asked # None, todo = {}, ~torn
               PROVE  result = Expansion(asked)
    BY DEF ResolveExact, IInv
  <2>1. asked \in Manifests
    BY DEF TypeOK
  <2>2. QED
    BY <2>1, WholeResult, StandsForExpansion
<1>4. QED
  BY <1>1, <1>2, <1>3, PTL DEF Spec
=============================================================================
