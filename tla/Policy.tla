------------------------------- MODULE Policy -------------------------------
(***************************************************************************)
(* Who may change a node: kb.policy, and the node operations of            *)
(* kb.service that ask it.  An operation reads and checks first and is     *)
(* written and committed later; other sessions commit in between.  The     *)
(* locks and snapshots between the two are Tree's.                         *)
(***************************************************************************)

EXTENDS Naturals, FiniteSets, NodeTable

CONSTANTS
  Humans,  \* the sessions whose actor is "human"
  Agents,  \* the sessions whose actor is "agent"
  MaxFields,  \* bound: the columns one update changes
  MaxOps      \* bound: the operations, committed or checked

Sessions == Humans \union Agents

ASSUME ActorsApart == Humans \intersect Agents = {}
ASSUME SessionsFinite == IsFiniteSet(Sessions)
ASSUME MaxOpsAssumption == MaxOps \in Nat

FolderKinds == {"skeleton", "manual", "auto_updated"}
FileKinds == {"manual", "auto_updated"}
KindsOf(n) == IF n \in Folders THEN FolderKinds ELSE FileKinds

\* The columns the policy tells apart; `text` is all that only EDIT changes.
Node == [parent : Folders \union {Top}, active : BOOLEAN, kind : FolderKinds,
         lock : BOOLEAN, title : 0..1, text : 0..1]
Editable == {"title", "text", "kind", "lock"}

ASSUME NoneIsNoNode == None \notin Node

Plain(p) ==
  [parent |-> p, active |-> TRUE, kind |-> "manual", lock |-> FALSE, title |-> 0, text |-> 0]

VARIABLES
  rows,   \* the committed folders and files
  plan,   \* what each session has checked and not yet committed
  stale,  \* history: the nodes others have changed since it checked
  ops     \* the operations committed so far

vars == <<rows, plan, stale, ops>>

-----------------------------------------------------------------------------
\* kb.policy.check.

Structural == {"rename", "move", "delete"}

\* The policy looks at the node and, for a file, at its own folder; a lock or a
\* kind further up the tree means nothing.
Shields(n) == {n} \union (IF n \in Docs THEN {rows[n].parent} ELSE {})

\* Mutant: the folder's lock is left out.
NodeLocked(n) == rows[n].lock

Locked(n) == \E s \in Shields(n) : rows[s].lock

DeniedToAgents(action, n) == action \in {"set kind", "set lock"} \/ Locked(n)

\* Mutant: deleting is not counted as structural.
DeniedUnlessDelete(action, n) ==
  \/ \E s \in Shields(n) : rows[s].kind = "auto_updated"
  \/ n \in Folders /\ rows[n].kind = "skeleton" /\ action \in Structural \ {"delete"}
  \/ n \in Docs /\ action = "create inside"

DeniedToAll(action, n) ==
  \/ \E s \in Shields(n) : rows[s].kind = "auto_updated"
  \/ n \in Folders /\ rows[n].kind = "skeleton" /\ action \in Structural
  \/ n \in Docs /\ action = "create inside"

Allowed(w, action, n) ==
  ~DeniedToAll(action, n) /\ (w \in Agents => ~DeniedToAgents(action, n))

-----------------------------------------------------------------------------
\* The operations up to the point where all checks have passed.

Plan(w, p) ==
  /\ plan[w] = None
  /\ ops + Cardinality({v \in Sessions : plan[v] # None}) < MaxOps
  /\ plan' = [plan EXCEPT ![w] = p]
  /\ stale' = [stale EXCEPT ![w] = {}]
  /\ UNCHANGED <<rows, ops>>

\* Mutant: only update_node refuses the reserved kind.
CheckCreateAnyKind(w, n, p, kind, lock) ==
  /\ rows[n] = None /\ kind \in KindsOf(n)
  /\ IF p = Top THEN n \in Folders ELSE
       /\ Active(rows, p)
       /\ Allowed(w, "create inside", p)
       /\ kind # "manual" => Allowed(w, "set kind", p)
       /\ lock => Allowed(w, "set lock", p)
  /\ Plan(w, [op |-> "create", node |-> n, row |-> [Plain(p) EXCEPT !.kind = kind, !.lock = lock]])

\* create_file, create_folder.  At the top there is nothing to ask.
CheckCreate(w, n, p, kind, lock) ==
  /\ rows[n] = None /\ kind \in KindsOf(n)
  /\ kind # "auto_updated"
  /\ IF p = Top THEN n \in Folders ELSE
       /\ Active(rows, p)
       /\ Allowed(w, "create inside", p)
       /\ kind # "manual" => Allowed(w, "set kind", p)
       /\ lock => Allowed(w, "set lock", p)
  /\ Plan(w, [op |-> "create", node |-> n, row |-> [Plain(p) EXCEPT !.kind = kind, !.lock = lock]])

ActionOf(field) ==
  CASE field = "title" -> "rename" [] field = "kind" -> "set kind"
    [] field = "lock" -> "set lock" [] OTHER -> "edit"

\* update_node: each field that changes needs its action, against the node as
\* it is before any of them.
CheckUpdate(w, n, changed, kind) ==
  /\ rows[n] # None
  /\ Cardinality(changed) \in 1..MaxFields
  /\ "kind" \in changed => kind \in KindsOf(n) \ {"auto_updated", rows[n].kind}
  /\ \A field \in changed : Allowed(w, ActionOf(field), n)
  /\ Plan(w, [op |-> "update", node |-> n, changed |-> changed,
              row |-> [rows[n] EXCEPT !.title = IF "title" \in changed THEN 1 - @ ELSE @,
                                      !.text = IF "text" \in changed THEN 1 - @ ELSE @,
                                      !.lock = IF "lock" \in changed THEN ~@ ELSE @,
                                      !.kind = IF "kind" \in changed THEN kind ELSE @]])

\* Mutant: a file may leave its folder for the top.
CheckMoveAnywhere(w, n, p) ==
  /\ rows[n] # None /\ p # rows[n].parent
  /\ Allowed(w, "move", n)
  /\ p # Top => Active(rows, p) /\ Allowed(w, "create inside", p)
  /\ Plan(w, [op |-> "move", node |-> n, to |-> p])

\* move_node: the node and the folder it goes to.
CheckMove(w, n, p) ==
  /\ rows[n] # None /\ p # rows[n].parent
  /\ Allowed(w, "move", n)
  /\ IF p = Top THEN n \in Folders ELSE Active(rows, p) /\ Allowed(w, "create inside", p)
  /\ Plan(w, [op |-> "move", node |-> n, to |-> p])

\* delete_node: the node only, not what the cascade takes.
CheckDelete(w, n) ==
  /\ rows[n] # None
  /\ Allowed(w, "delete", n)
  /\ Plan(w, [op |-> "delete", node |-> n])

\* restore_node: the folder it comes back to, which must be active.
CheckRestore(w, n) ==
  /\ rows[n] # None
  /\ LET p == rows[n].parent IN p # Top => Active(rows, p) /\ Allowed(w, "create inside", p)
  /\ Plan(w, [op |-> "restore", node |-> n])

-----------------------------------------------------------------------------
\* The write and its COMMIT.

\* Mutant: the whole row goes back as it was read.
UpdatedRow(n, p) == p.row

\* Only the columns that were changed are written, over the row as it now is.
Updated(n, p) ==
  [c \in DOMAIN rows[n] |-> IF c \in p.changed THEN p.row[c] ELSE rows[n][c]]

\* What operation p makes of the tables.
Written(p) ==
  LET n == p.node
      gone == IF p.op = "delete" THEN ActiveDescendants(rows, n) \union {n} ELSE {}
  IN
  [m \in Nodes |->
     IF m \in gone THEN [rows[m] EXCEPT !.active = FALSE]
     ELSE IF m # n THEN rows[m]
     ELSE CASE p.op = "create" -> p.row
            [] p.op = "update" -> Updated(n, p)
            [] p.op = "move" -> [rows[n] EXCEPT !.parent = p.to]
            [] p.op = "restore" -> [rows[n] EXCEPT !.active = TRUE]]

\* A folder's move is checked for a cycle under the advisory lock; an id is
\* issued once.
Writable(p) ==
  /\ p.op = "create" => rows[p.node] = None
  /\ p.op = "move" => p.to \notin Below(rows, p.node) \union {p.node}

Commit(w) ==
  /\ plan[w] # None /\ Writable(plan[w])
  /\ ops' = ops + 1
  /\ rows' = Written(plan[w])
  /\ plan' = [plan EXCEPT ![w] = None]
  /\ stale' = [v \in Sessions |->
       IF v = w \/ plan[v] = None THEN {} ELSE stale[v] \union {n \in Nodes : rows'[n] # rows[n]}]

Rollback(w) ==
  /\ plan[w] # None
  /\ plan' = [plan EXCEPT ![w] = None]
  /\ stale' = [stale EXCEPT ![w] = {}]
  /\ UNCHANGED <<rows, ops>>

-----------------------------------------------------------------------------
\* Any tree people may have built before the sessions start.
Old == {r \in Node : r.active /\ r.kind # "auto_updated" /\ r.title = 0 /\ r.text = 0}

Built(table) ==
  /\ \A n \in Nodes : table[n] # None =>
       \/ n \in Folders /\ table[n].parent = Top
       \/ table[n].parent \in Folders /\ table[table[n].parent] # None
  /\ \A f \in Folders : f \notin Below(table, f)

Init ==
  /\ rows \in {t \in [Nodes -> {None} \union Old] :
                 Built(t) /\ \A n \in Docs : t[n] # None => t[n].kind = "manual"}
  /\ plan = [w \in Sessions |-> None]
  /\ stale = [w \in Sessions |-> {}]
  /\ ops = 0

Step(w) ==
  \/ \E n \in Nodes, p \in Folders \union {Top}, k \in FolderKinds, l \in BOOLEAN :
       CheckCreate(w, n, p, k, l)
  \/ \E n \in Nodes, changed \in SUBSET Editable, k \in FolderKinds :
       CheckUpdate(w, n, changed, k)
  \/ \E n \in Nodes, p \in Folders \union {Top} : CheckMove(w, n, p)
  \/ \E n \in Nodes : CheckDelete(w, n) \/ CheckRestore(w, n)
  \/ Commit(w) \/ Rollback(w)

Next == \E w \in Sessions : Step(w)

Spec == Init /\ [][Next]_vars

-----------------------------------------------------------------------------
\* Properties.

PlanOK(p) ==
  /\ p.node \in Nodes
  /\ p.op \in {"create", "update", "move", "delete", "restore"}
  /\ p.op \in {"create", "update"} => p.row \in Node
  /\ p.op = "update" => p.changed \subseteq Editable
  /\ p.op = "move" => p.to \in Folders \union {Top}

\* The states are well formed: every operation that passed its checks leaves a file
\* in a folder, and a kind only where the table has it.
TypeOK ==
  /\ DOMAIN rows = Nodes /\ \A n \in Nodes : rows[n] # None => rows[n] \in Node
  /\ \A n \in Docs : rows[n] # None => rows[n].parent # Top /\ rows[n].kind \in FileKinds
  /\ DOMAIN plan = Sessions /\ \A w \in Sessions : plan[w] # None => PlanOK(plan[w])
  /\ stale \in [Sessions -> SUBSET Nodes]
  /\ ops \in 0..MaxOps

\* Neither creating nor updating a node, by anybody, brings the kind that is
\* reserved for auto-update jobs into the tree.
NothingAutoUpdated == \A n \in Nodes : rows[n] # None => rows[n].kind # "auto_updated"

\* Session w commits its plan in this step.
Commits(w) == plan[w] # None /\ ops' # ops /\ plan'[w] # plan[w]

\* The step changes node n otherwise than by taking it along with a folder.
Changes(w, n) == Commits(w) /\ n = plan[w].node /\ rows[n] # None /\ rows'[n] # rows[n]

\* What an agent must leave alone: a locked node, and a file in a locked folder.
OffLimits(n) == rows[n].lock \/ (n \in Docs /\ rows[rows[n].parent].lock)

\* What the session has checked has changed since: the node, or a file's folder.
Disturbed(w, n) == n \in stale[w] \/ (n \in Docs /\ rows[n].parent \in stale[w])

\* Whatever sequence of calls came before, a commit of an agent changes no node
\* that is locked, itself or by its folder: but for bringing it back, and but
\* for a lock that was committed after the agent's check.
AgentsKeepOut ==
  [][\A w \in Agents, n \in Nodes :
       Changes(w, n) /\ OffLimits(n) => Disturbed(w, n) \/ plan[w].op = "restore"]_vars

\* No commit of an agent undoes a lock or a kind, even one that was committed
\* after the agent had read the node.
AgentsNeverUnlock ==
  [][\A w \in Agents, n \in Nodes :
       Commits(w) /\ rows[n] # None => rows'[n].lock = rows[n].lock /\ rows'[n].kind = rows[n].kind]_vars

\* Nobody renames, moves or deletes a skeleton folder, even together with
\* making it manual in the same call; only a deletion above it takes it along.
SkeletonsStand ==
  [][\A w \in Sessions, f \in Folders :
       Changes(w, f) /\ rows[f].kind = "skeleton" /\ ~Disturbed(w, f) =>
         /\ rows'[f].title = rows[f].title /\ rows'[f].parent = rows[f].parent
         /\ rows[f].active => rows'[f].active]_vars
=============================================================================
