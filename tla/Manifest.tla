------------------------------ MODULE Manifest ------------------------------
(***************************************************************************)
(* Manifests: named sets of files, folders and other manifests (the        *)
(* manifest half of kb.storage.dal, with kb.service and the routes).       *)
(* Sessions add members, one member per transaction; a reader expands a    *)
(* manifest one statement at a time while members and nodes change.        *)
(***************************************************************************)

EXTENDS Naturals, NodeTable

CONSTANTS
  Manifests,  \* the manifests that can be created, told apart by their name
  Writers,    \* the sessions that nest one manifest in another
  MaxOps      \* bound: the transactions that change members or nodes

ASSUME ManifestsApart == Manifests \intersect (Nodes \union {Top, None}) = {}
ASSUME MaxOpsAssumption == MaxOps \in Nat

VARIABLES
  nodes,    \* the committed folders and files
  made,     \* the committed manifests
  members,  \* the committed manifest_members rows, <<manifest, target>>
  outer,    \* the manifest each session is adding to, None between two calls
  inner,    \* the manifest it is adding
  asked,    \* the manifest the reader is expanding, None if none
  todo,     \* the members it has still to expand
  visited,  \* the manifests it has expanded
  result,   \* the nodes it has found
  ops,      \* the transactions so far
  crossed,  \* history: another nesting was committed since this one began
  raced,    \* history: such a nesting was committed
  torn      \* history: something was committed since the reader began

adding == <<outer, inner, crossed>>
reading == <<asked, todo, visited, result>>
vars == <<nodes, made, members, adding, reading, ops, raced, torn>>

\* A member is a file, a folder or a manifest, never two of them and never the
\* manifest itself, and is there once.
MemberRow == {r \in Manifests \X (Nodes \union Manifests) : r[1] # r[2]}

Targets(m) == {r[2] : r \in {s \in members : s[1] = m}}
NestedIn(m) == Targets(m) \intersect Manifests

\* Mutant: the inner manifest's own members only.
WithinDirectly(m) == {m} \union NestedIn(m)

\* _manifest_transitively_contains: the manifests reached from m, as the smallest
\* closed set.  It takes one SELECT for each; a nesting that is committed between
\* two of them is one that crosses this call.
Within(m) ==
  {x \in Manifests : \A C \in SUBSET Manifests :
     m \in C /\ (\A y \in C : NestedIn(y) \subseteq C) => x \in C}

\* A folder is at the top or in a folder that was there before it.
Created(table) ==
  /\ \A n \in Nodes : table[n] # None =>
       table[n].active /\ table[n].parent \in {Top} \union {f \in Folders : table[f] # None}
  /\ \A f \in Folders : f \notin Below(table, f)

Init ==
  /\ nodes \in {t \in Table : Created(t)}
  /\ made = {}
  /\ members = {}
  /\ outer = [w \in Writers |-> None]
  /\ inner = [w \in Writers |-> None]
  /\ asked = None
  /\ todo = {}
  /\ visited = {}
  /\ result = {}
  /\ ops = 0
  /\ crossed = [w \in Writers |-> FALSE]
  /\ raced = FALSE
  /\ torn = FALSE

\* One more transaction commits.
Committed ==
  /\ ops < MaxOps
  /\ ops' = ops + 1
  /\ torn' = (asked # None)

-----------------------------------------------------------------------------
\* The tree below the manifests; Tree has these operations step by step.

PutNode(n, row) ==
  /\ Committed
  /\ nodes' = [nodes EXCEPT ![n] = row]
  /\ UNCHANGED <<made, members, adding, reading, raced>>

CreateNode(n, p) ==
  /\ nodes[n] = None
  /\ IF p = Top THEN n \in Folders ELSE Active(nodes, p)
  /\ PutNode(n, [parent |-> p, active |-> TRUE])

\* Mutant: a file may be moved out of its folder to the top.
MoveNodeAnywhere(n, p) ==
  /\ nodes[n] # None
  /\ p # nodes[n].parent
  /\ p # Top => Active(nodes, p) /\ p \notin Below(nodes, n) \union {n}
  /\ PutNode(n, [nodes[n] EXCEPT !.parent = p])

MoveNode(n, p) ==
  /\ nodes[n] # None
  /\ p # nodes[n].parent
  /\ IF p = Top THEN n \in Folders ELSE Active(nodes, p) /\ p \notin Below(nodes, n) \union {n}
  /\ PutNode(n, [nodes[n] EXCEPT !.parent = p])

RestoreNode(n) ==
  /\ nodes[n] # None /\ ~nodes[n].active
  /\ nodes[n].parent # Top => Active(nodes, nodes[n].parent)
  /\ PutNode(n, [nodes[n] EXCEPT !.active = TRUE])

\* A deletion takes the descendants; members keep pointing at what is deleted.
DeleteNode(n) ==
  /\ Active(nodes, n)
  /\ Committed
  /\ nodes' = [m \in Nodes |-> IF m \in ActiveDescendants(nodes, n) \union {n}
                                 THEN [nodes[m] EXCEPT !.active = FALSE] ELSE nodes[m]]
  /\ UNCHANGED <<made, members, adding, reading, raced>>

-----------------------------------------------------------------------------
\* create_manifest: the name is unique.
CreateManifest(m) ==
  /\ m \notin made
  /\ made' = made \union {m}
  /\ UNCHANGED <<nodes, members, adding, reading, ops, raced, torn>>

\* add_manifest_member with a node, which may be deleted: no walk, so looking
\* the node up, the INSERT and the COMMIT are one step.
AddNode(m, n) ==
  /\ m \in made /\ nodes[n] # None
  /\ <<m, n>> \notin members
  /\ Committed
  /\ members' = members \union {<<m, n>>}
  /\ UNCHANGED <<nodes, made, adding, reading, raced>>

\* add_manifest_member with a manifest, and the walk finds that the inner one
\* does not contain the outer one.  Otherwise, or if one of them was never
\* created, the session rolls back and nothing has changed.
BeginNest(w, m, c) ==
  /\ outer[w] = None /\ {m, c} \subseteq made
  /\ m \notin Within(c)
  /\ outer' = [outer EXCEPT ![w] = m]
  /\ inner' = [inner EXCEPT ![w] = c]
  /\ crossed' = [crossed EXCEPT ![w] = FALSE]
  /\ UNCHANGED <<nodes, made, members, reading, ops, raced, torn>>

EndNest(w) ==
  /\ outer' = [outer EXCEPT ![w] = None]
  /\ inner' = [inner EXCEPT ![w] = None]

\* The row is there already: the session rolls back.
RefuseNest(w) ==
  /\ outer[w] # None
  /\ <<outer[w], inner[w]>> \in members
  /\ EndNest(w)
  /\ crossed' = [crossed EXCEPT ![w] = FALSE]
  /\ UNCHANGED <<nodes, made, members, reading, ops, raced, torn>>

\* Nobody sees the row before the COMMIT, so the INSERT is one step with it.
Nest(w) ==
  /\ outer[w] # None
  /\ <<outer[w], inner[w]>> \notin members
  /\ Committed
  /\ members' = members \union {<<outer[w], inner[w]>>}
  /\ raced' = (raced \/ crossed[w])
  /\ crossed' = [v \in Writers |-> v # w /\ outer[v] # None]
  /\ EndNest(w)
  /\ UNCHANGED <<nodes, made, reading>>

\* Mutant: with neither a node nor a manifest the query has no filter.
RemoveMemberUnfiltered(m, targets) ==
  /\ Committed
  /\ members' = {r \in members : r[1] = m => targets # {} /\ r[2] \notin targets}
  /\ UNCHANGED <<nodes, made, adding, reading, raced>>

\* remove_manifest_member: exactly one target is given, and a node must exist.
RemoveMember(m, targets) ==
  /\ \E t \in targets : targets = {t} /\ (t \in Nodes => nodes[t] # None)
  /\ Committed
  /\ members' = {r \in members : ~(r[1] = m /\ r[2] \in targets)}
  /\ UNCHANGED <<nodes, made, adding, reading, raced>>

-----------------------------------------------------------------------------
\* resolve_manifest.

Ask(m) ==
  /\ asked = None
  /\ asked' = m
  /\ todo' = {m}
  /\ torn' = FALSE
  /\ UNCHANGED <<nodes, made, members, adding, visited, result, ops, raced>>

\* Mutant: nothing stops a manifest from being expanded again.
ExpandManifestAgain(m) ==
  /\ m \in todo \intersect Manifests
  /\ todo' = (todo \ {m}) \union Targets(m)
  /\ visited' = visited \union {m}
  /\ UNCHANGED <<nodes, made, members, adding, asked, result, ops, raced, torn>>

\* One SELECT for the members of a manifest that was not expanded before.
ExpandManifest(m) ==
  /\ m \in todo \intersect Manifests
  /\ todo' = (todo \ {m}) \union (IF m \in visited THEN {} ELSE Targets(m))
  /\ visited' = visited \union {m}
  /\ UNCHANGED <<nodes, made, members, adding, asked, result, ops, raced, torn>>

\* Mutant: a deleted folder is expanded like any other.
ExpandAnyNode(n) ==
  /\ n \in todo \intersect Nodes
  /\ todo' = todo \ {n}
  /\ result' = result \union (IF n \in Folders \/ Active(nodes, n)
                                THEN {n} \union ActiveDescendants(nodes, n) ELSE {})
  /\ UNCHANGED <<nodes, made, members, adding, asked, visited, ops, raced, torn>>

\* An active file, or an active folder with its active descendants.
ExpandNode(n) ==
  /\ n \in todo \intersect Nodes
  /\ todo' = todo \ {n}
  /\ result' = result \union (IF ~Active(nodes, n) THEN {}
                              ELSE {n} \union (IF n \in Folders THEN ActiveDescendants(nodes, n) ELSE {}))
  /\ UNCHANGED <<nodes, made, members, adding, asked, visited, ops, raced, torn>>

Answer ==
  /\ asked # None /\ todo = {}
  /\ asked' = None
  /\ visited' = {}
  /\ result' = {}
  /\ UNCHANGED <<nodes, made, members, adding, todo, ops, raced, torn>>

-----------------------------------------------------------------------------
ReadStep == (\E m \in Manifests : ExpandManifest(m)) \/ (\E n \in Nodes : ExpandNode(n)) \/ Answer

NodeStep ==
  \/ \E n \in Nodes, p \in Folders \union {Top} : CreateNode(n, p) \/ MoveNode(n, p)
  \/ \E n \in Nodes : DeleteNode(n) \/ RestoreNode(n)

\* node_id and child_manifest_id may be given or not.
MemberStep ==
  \/ \E m \in Manifests : CreateManifest(m) \/ \E n \in Nodes : AddNode(m, n)
  \/ \E m \in Manifests, t \in Nodes \union {None}, c \in Manifests \union {None} :
       RemoveMember(m, {t, c} \ {None})
  \/ \E w \in Writers :
       \/ RefuseNest(w) \/ Nest(w)
       \/ \E m, c \in Manifests : BeginNest(w, m, c)

Next == ReadStep \/ NodeStep \/ MemberStep \/ \E m \in Manifests : Ask(m)

Spec == Init /\ [][Next]_vars

-----------------------------------------------------------------------------
\* Properties.

\* Whatever the sessions and the reader have committed or loaded, files have a
\* folder and no manifest is a member of itself.
TypeOK ==
  /\ nodes \in Table
  /\ made \subseteq Manifests
  /\ members \subseteq MemberRow
  /\ outer \in [Writers -> Manifests \union {None}]
  /\ inner \in [Writers -> Manifests \union {None}]
  /\ asked \in Manifests \union {None}
  /\ todo \subseteq Manifests \union Nodes
  /\ visited \subseteq Manifests
  /\ result \subseteq Nodes
  /\ ops \in 0..MaxOps
  /\ crossed \in [Writers -> BOOLEAN]
  /\ raced \in BOOLEAN
  /\ torn \in BOOLEAN

\* No set of manifests in which every one has a member of the set.
NestingAcyclic ==
  \A S \in SUBSET Manifests : (\A m \in S : NestedIn(m) \intersect S # {}) => S = {}

\* add_manifest_member keeps the nesting free of cycles of any length, unless
\* two nestings overlap: the walk takes no lock.
NestingAcyclicUnlessRaced == raced \/ NestingAcyclic

\* The folders above n: again a smallest closed set.
Above(n) ==
  {f \in Folders : \A C \in SUBSET Folders :
     (\A k \in C \union {n} : nodes[k] # None /\ nodes[k].parent # Top => nodes[k].parent \in C)
       => f \in C}

\* What a manifest stands for: the active nodes that are a member of it, or of a
\* manifest in it, or have an active member above them.
Expansion(m) ==
  LET named == UNION {Targets(x) : x \in Within(m)} IN
  {n \in Nodes : Active(nodes, n) /\
     (n \in named \/ \E f \in Above(n) \intersect named : Active(nodes, f))}

\* With the shared visited set, through shared and even cyclic nesting, the
\* reader finds exactly that, if nothing was committed meanwhile.
ResolveExact == asked # None /\ todo = {} /\ ~torn => result = Expansion(asked)

\* A call removes one member at most, whatever arguments it was given.
OneMemberAtATime == [][\A r, s \in members \ members' : r = s]_vars

\* A reader gets its answer, whatever cycle a race has left and whatever is
\* committed while it reads: each of its statements expands one more manifest,
\* or leaves one thing less to expand.
ResolveAdvances ==
  [][(asked # None /\ reading' # reading) =>
       \/ asked' = None
       \/ visited \subseteq visited' /\ visited # visited'
       \/ visited = visited' /\ todo' \subseteq todo /\ todo' # todo]_vars
=============================================================================
