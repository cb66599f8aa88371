---------------------------- MODULE PolicyProofs ----------------------------
(***************************************************************************)
(* Proofs about Policy: what an agent's calls, and anybody's, leave as it  *)
(* is, for any number of sessions and nodes and any sequence of calls.     *)
(***************************************************************************)
EXTENDS Policy, FiniteSetTheorems, TLAPS

USE ActorsApart, NodesApart, TopIsNoNode, NoneIsNoNode

-----------------------------------------------------------------------------
\* The inductive invariant.

\* The tables hold nodes, and files are in folders.
RowsTyped ==
  /\ DOMAIN rows = Nodes
  /\ \A n \in Nodes : rows[n] # None => rows[n] \in Node
  /\ \A n \in Docs : rows[n] # None => rows[n].parent # Top

\* A plan is well formed, takes no file to the top and brings no reserved kind;
\* what it changes is there, for nothing is ever removed from the tables.
Sound(p) ==
  /\ PlanOK(p)
  /\ p.op # "create" => rows[p.node] # None
  /\ p.op = "create" => p.row.kind # "auto_updated"
  /\ p.op = "create" /\ p.node \in Docs => p.row.parent # Top
  /\ p.op = "update" /\ "kind" \in p.changed => p.row.kind # "auto_updated"
  /\ p.op = "move" /\ p.node \in Docs => p.to # Top

PlansTyped ==
  /\ DOMAIN plan = Sessions
  /\ stale \in [Sessions -> SUBSET Nodes]
  /\ \A w \in Sessions : plan[w] # None => Sound(plan[w])

\* An agent's update changes neither kind nor lock.
AgentPlans ==
  \A w \in Agents :
    plan[w] # None /\ plan[w].op = "update" => plan[w].changed \intersect {"kind", "lock"} = {}

\* What an agent is about to change was not locked when it checked, so it is
\* locked now only if it was changed since.
AgentsChecked ==
  \A w \in Agents :
    /\ plan[w] # None /\ plan[w].op \in {"update", "move", "delete"}
    /\ ~Disturbed(w, plan[w].node)
    => ~OffLimits(plan[w].node)

\* What is about to happen to a folder that is still as checked, and is a skeleton.
SkeletonsChecked ==
  \A w \in Sessions :
    /\ plan[w] # None /\ plan[w].op # "create" /\ plan[w].node \in Folders
    /\ rows[plan[w].node].kind = "skeleton" /\ plan[w].node \notin stale[w]
    => /\ plan[w].op \in {"update", "restore"}
       /\ plan[w].op = "update" => "title" \notin plan[w].changed

IInv ==
  /\ RowsTyped /\ PlansTyped /\ NothingAutoUpdated
  /\ AgentPlans /\ AgentsChecked /\ SkeletonsChecked

-----------------------------------------------------------------------------
\* The checks.

\* Planning preserves the invariant if the plan is as the invariant says.
LEMMA Planned ==
  ASSUME IInv, NEW w \in Sessions, NEW p, Plan(w, p), Sound(p),
         w \in Agents /\ p.op = "update" => p.changed \intersect {"kind", "lock"} = {},
         w \in Agents /\ p.op \in {"update", "move", "delete"} => ~OffLimits(p.node),
         p.op # "create" /\ p.node \in Folders /\ rows[p.node].kind = "skeleton" =>
           /\ p.op \in {"update", "restore"}
           /\ p.op = "update" => "title" \notin p.changed
  PROVE  IInv'
<1>1. /\ rows' = rows
      /\ DOMAIN plan' = Sessions
      /\ \A v \in Sessions : plan'[v] = IF v = w THEN p ELSE plan[v]
      /\ \A v \in Sessions : stale'[v] = IF v = w THEN {} ELSE stale[v]
      /\ stale' \in [Sessions -> SUBSET Nodes]
  BY DEF Plan, IInv, PlansTyped
<1>2. RowsTyped' /\ NothingAutoUpdated'
  BY <1>1 DEF IInv, RowsTyped, NothingAutoUpdated
<1>3. PlansTyped'
  <2> SUFFICES ASSUME NEW v \in Sessions, plan'[v] # None
               PROVE  Sound(plan[v])'
    BY <1>1 DEF PlansTyped
  <2>1. Sound(plan'[v])
    BY <1>1 DEF IInv, PlansTyped
  <2> QED
    BY <1>1, <2>1 DEF Sound, PlanOK
<1>4. AgentPlans'
  BY <1>1 DEF IInv, AgentPlans, Sessions
<1>5. AgentsChecked'
  BY <1>1 DEF IInv, AgentsChecked, Disturbed, OffLimits, Sessions
<1>6. SkeletonsChecked'
  BY <1>1 DEF IInv, SkeletonsChecked
<1> QED
  BY <1>2, <1>3, <1>4, <1>5, <1>6 DEF IInv

\* What a permission to change a node implies.
LEMMA Permitted ==
  ASSUME IInv, NEW w \in Sessions, NEW n \in Nodes, NEW action, Allowed(w, action, n)
  PROVE  /\ w \in Agents => ~OffLimits(n) /\ action \notin {"set kind", "set lock"}
         /\ n \in Folders /\ rows[n].kind = "skeleton" => action \notin Structural
<1>1. w \in Agents => action \notin {"set kind", "set lock"} /\ ~Locked(n)
  BY DEF Allowed, DeniedToAgents
<1>2. ~Locked(n) => ~OffLimits(n)
  BY DEF Locked, Shields, OffLimits
<1>3. n \in Folders /\ rows[n].kind = "skeleton" => action \notin Structural
  BY DEF Allowed, DeniedToAll
<1> QED
  BY <1>1, <1>2, <1>3

LEMMA CreateKeeps ==
  ASSUME IInv, NEW w \in Sessions, NEW n \in Nodes, NEW p \in Folders \union {Top},
         NEW kind \in FolderKinds, NEW lock \in BOOLEAN, CheckCreate(w, n, p, kind, lock)
  PROVE  IInv'
<1> DEFINE row == [Plain(p) EXCEPT !.kind = kind, !.lock = lock]
           q == [op |-> "create", node |-> n, row |-> row]
<1>1. row \in Node /\ row.kind = kind /\ row.parent = p
  <2>1. Plain(p) \in Node /\ Plain(p).parent = p
    BY DEF Plain, Node, FolderKinds
  <2> QED
    BY <2>1 DEF Node
<1>2. kind # "auto_updated" /\ (n \in Docs => p # Top) /\ Plan(w, q)
  BY DEF CheckCreate, Nodes
<1>3. Sound(q)
  BY <1>1, <1>2 DEF Sound, PlanOK
<1> QED
  BY <1>2, <1>3, Planned

LEMMA UpdateKeeps ==
  ASSUME IInv, NEW w \in Sessions, NEW n \in Nodes, NEW changed \in SUBSET Editable,
         NEW kind \in FolderKinds, CheckUpdate(w, n, changed, kind)
  PROVE  IInv'
<1> DEFINE row == [rows[n] EXCEPT !.title = IF "title" \in changed THEN 1 - @ ELSE @,
                                  !.text = IF "text" \in changed THEN 1 - @ ELSE @,
                                  !.lock = IF "lock" \in changed THEN ~@ ELSE @,
                                  !.kind = IF "kind" \in changed THEN kind ELSE @]
           q == [op |-> "update", node |-> n, changed |-> changed, row |-> row]
<1>1. rows[n] # None /\ rows[n] \in Node
  BY DEF CheckUpdate, IInv, RowsTyped
<1>2. row \in Node
  <2>1. /\ 1 - rows[n].title \in 0..1 /\ 1 - rows[n].text \in 0..1
        /\ rows[n].lock \in BOOLEAN /\ rows[n].kind \in FolderKinds
    BY <1>1 DEF Node
  <2> QED
    BY <1>1, <2>1 DEF Node
<1>3. "kind" \in changed => row.kind # "auto_updated"
  BY <1>1 DEF CheckUpdate, Node
<1>4. Plan(w, q)
  BY DEF CheckUpdate
<1>5. Sound(q)
  BY <1>1, <1>2, <1>3 DEF Sound, PlanOK
<1>6. PICK field \in changed : Allowed(w, ActionOf(field), n)
  <2>1. changed # {}
    BY FS_EmptySet DEF CheckUpdate
  <2> QED
    BY <2>1 DEF CheckUpdate
<1>7. w \in Agents => ~OffLimits(n)
  BY <1>6, Permitted
<1>8. w \in Agents => changed \intersect {"kind", "lock"} = {}
  <2>1. \A f \in {"kind", "lock"} : ActionOf(f) \in {"set kind", "set lock"}
    BY DEF ActionOf
  <2> QED
    BY <2>1, Permitted DEF CheckUpdate
<1>9. n \in Folders /\ rows[n].kind = "skeleton" => "title" \notin changed
  <2>1. ActionOf("title") \in Structural
    BY DEF ActionOf, Structural
  <2> QED
    BY <2>1, Permitted DEF CheckUpdate
<1> HIDE DEF row
<1> QED
  BY <1>4, <1>5, <1>7, <1>8, <1>9, Planned

LEMMA MoveKeeps ==
  ASSUME IInv, NEW w \in Sessions, NEW n \in Nodes, NEW p \in Folders \union {Top},
         CheckMove(w, n, p)
  PROVE  IInv'
<1> DEFINE q == [op |-> "move", node |-> n, to |-> p]
<1>1. rows[n] # None /\ (n \in Docs => p # Top) /\ Plan(w, q) /\ Allowed(w, "move", n)
  BY DEF CheckMove, Nodes
<1>2. Sound(q)
  BY <1>1 DEF Sound, PlanOK
<1>3. /\ w \in Agents => ~OffLimits(n)
      /\ ~(n \in Folders /\ rows[n].kind = "skeleton")
  BY <1>1, Permitted DEF Structural
<1> QED
  BY <1>1, <1>2, <1>3, Planned

LEMMA DeleteKeeps ==
  ASSUME IInv, NEW w \in Sessions, NEW n \in Nodes, CheckDelete(w, n)
  PROVE  IInv'
<1> DEFINE q == [op |-> "delete", node |-> n]
<1>1. rows[n] # None /\ Plan(w, q) /\ Allowed(w, "delete", n)
  BY DEF CheckDelete
<1>2. Sound(q)
  BY <1>1 DEF Sound, PlanOK
<1>3. /\ w \in Agents => ~OffLimits(n)
      /\ ~(n \in Folders /\ rows[n].kind = "skeleton")
  BY <1>1, Permitted DEF Structural
<1> QED
  BY <1>1, <1>2, <1>3, Planned

LEMMA RestoreKeeps ==
  ASSUME IInv, NEW w \in Sessions, NEW n \in Nodes, CheckRestore(w, n)
  PROVE  IInv'
<1> DEFINE q == [op |-> "restore", node |-> n]
<1>1. rows[n] # None /\ Plan(w, q)
  BY DEF CheckRestore
<1>2. Sound(q)
  BY <1>1 DEF Sound, PlanOK
<1> QED
  BY <1>1, <1>2, Planned

-----------------------------------------------------------------------------
\* The commit.

\* What an operation makes of a node that is there, column by column.
LEMMA Outcome ==
  ASSUME IInv, NEW w \in Sessions, Commit(w), NEW m \in Nodes, rows[m] # None
  PROVE  /\ rows'[m] \in Node
         /\ plan[w].op = "create" => rows'[m] = rows[m]
         /\ rows'[m].kind # rows[m].kind =>
              /\ plan[w].op = "update" /\ plan[w].node = m /\ "kind" \in plan[w].changed
              /\ rows'[m].kind = plan[w].row.kind
         /\ rows'[m].lock # rows[m].lock =>
              plan[w].op = "update" /\ plan[w].node = m /\ "lock" \in plan[w].changed
         /\ rows'[m].title # rows[m].title =>
              plan[w].op = "update" /\ plan[w].node = m /\ "title" \in plan[w].changed
         /\ rows'[m].parent # rows[m].parent =>
              plan[w].op = "move" /\ plan[w].node = m /\ rows'[m].parent = plan[w].to
         /\ rows[m].active /\ ~rows'[m].active => plan[w].op = "delete"
<1> DEFINE q == plan[w]
<1>1. /\ q # None /\ Sound(q) /\ Writable(q) /\ rows' = Written(q)
      /\ rows[m] \in Node
  BY DEF Commit, IInv, PlansTyped, RowsTyped
<1>2. rows'[m] = IF m \in (IF q.op = "delete" THEN ActiveDescendants(rows, q.node) \union {q.node} ELSE {})
                 THEN [rows[m] EXCEPT !.active = FALSE]
                 ELSE IF m # q.node THEN rows[m]
                 ELSE CASE q.op = "create" -> q.row
                        [] q.op = "update" -> Updated(q.node, q)
                        [] q.op = "move" -> [rows[q.node] EXCEPT !.parent = q.to]
                        [] q.op = "restore" -> [rows[q.node] EXCEPT !.active = TRUE]
  BY <1>1 DEF Written
<1>3. q.op \in {"create", "update", "move", "delete", "restore"}
  BY <1>1 DEF Sound, PlanOK
<1> HIDE DEF q
<1>4. CASE rows'[m] = rows[m]
  BY <1>1, <1>4
<1>5. CASE q.op = "delete" /\ rows'[m] = [rows[m] EXCEPT !.active = FALSE]
  BY <1>1, <1>5 DEF Node, q
<1>6. CASE q.op = "update" /\ q.node = m /\ rows'[m] = Updated(m, q)
  <2>1. q.row \in Node /\ q.changed \subseteq Editable
    BY <1>1, <1>6 DEF Sound, PlanOK
  <2>2. DOMAIN rows[m] = {"parent", "active", "kind", "lock", "title", "text"}
    BY <1>1 DEF Node
  <2>3. \A c \in {"parent", "active", "kind", "lock", "title", "text"} :
          rows'[m][c] = IF c \in q.changed THEN q.row[c] ELSE rows[m][c]
    BY <1>6, <2>2 DEF Updated
  <2> QED
    BY <1>1, <1>6, <2>1, <2>2, <2>3 DEF Updated, Node, Editable, q
<1>7. CASE q.op = "move" /\ q.node = m /\ rows'[m] = [rows[m] EXCEPT !.parent = q.to]
  <2>1. q.to \in Folders \union {Top}
    BY <1>1, <1>7 DEF Sound, PlanOK
  <2> QED
    BY <1>1, <1>7, <2>1 DEF Node, q
<1>8. CASE q.op = "restore" /\ q.node = m /\ rows'[m] = [rows[m] EXCEPT !.active = TRUE]
  BY <1>1, <1>8 DEF Node, q
<1>9. q.op = "create" => m # q.node
  BY <1>1 DEF Writable
<1> QED
  BY <1>2, <1>3, <1>4, <1>5, <1>6, <1>7, <1>8, <1>9

\* What it makes of a node that is not there: a new one, or nothing.
LEMMA Created ==
  ASSUME IInv, NEW w \in Sessions, Commit(w), NEW m \in Nodes, rows[m] = None
  PROVE  \/ rows'[m] = None
         \/ plan[w].op = "create" /\ plan[w].node = m /\ rows'[m] = plan[w].row
<1> DEFINE q == plan[w]
<1>1. q # None /\ Sound(q) /\ rows' = Written(q)
  BY DEF Commit, IInv, PlansTyped
<1>2. m = q.node => q.op = "create"
  BY <1>1 DEF Sound
<1>3. q.op = "delete" => m \notin ActiveDescendants(rows, q.node) \union {q.node}
  BY <1>2 DEF ActiveDescendants, Active
<1> HIDE DEF q
<1>4. CASE m = q.node
  BY <1>1, <1>2, <1>4 DEF Written, q
<1>5. CASE m # q.node
  BY <1>1, <1>3, <1>5 DEF Written
<1> QED
  BY <1>4, <1>5

LEMMA CommitRows ==
  ASSUME IInv, NEW w \in Sessions, Commit(w)
  PROVE  RowsTyped' /\ NothingAutoUpdated'
<1>1. Sound(plan[w])
  BY DEF Commit, IInv, PlansTyped
<1>2. DOMAIN rows' = Nodes
  BY DEF Commit, Written
<1>3. ASSUME NEW m \in Nodes, rows'[m] # None
      PROVE  /\ rows'[m] \in Node
             /\ m \in Docs => rows'[m].parent # Top
             /\ rows'[m].kind # "auto_updated"
  <2>1. CASE rows[m] = None
    BY <1>1, <1>3, <2>1, Created DEF Sound, PlanOK
  <2>2. CASE rows[m] # None
    <3>1. rows[m].kind # "auto_updated" /\ (m \in Docs => rows[m].parent # Top)
      BY <2>2 DEF IInv, RowsTyped, NothingAutoUpdated
    <3> QED
      BY <1>1, <2>2, <3>1, Outcome DEF Sound
  <2> QED
    BY <2>1, <2>2
<1> QED
  BY <1>2, <1>3 DEF RowsTyped, NothingAutoUpdated, Nodes

\* A plan still sound when the tables have moved on, and still as checked when
\* what it was checked against has not.
LEMMA CommitKeeps ==
  ASSUME IInv, NEW w \in Sessions, Commit(w)
  PROVE  IInv'
<1>1. /\ DOMAIN plan' = Sessions
      /\ \A v \in Sessions : plan'[v] = IF v = w THEN None ELSE plan[v]
      /\ \A v \in Sessions : plan'[v] # None =>
           stale'[v] = stale[v] \union {n \in Nodes : rows'[n] # rows[n]}
      /\ stale' \in [Sessions -> SUBSET Nodes]
  <2>1. DOMAIN plan = Sessions /\ stale \in [Sessions -> SUBSET Nodes]
    BY DEF IInv, PlansTyped
  <2> QED
    BY <2>1 DEF Commit
<1>2. RowsTyped' /\ NothingAutoUpdated'
  BY CommitRows
<1>3. \A m \in Nodes : rows[m] # None => rows'[m] # None
  BY Outcome
<1>4. PlansTyped'
  <2> SUFFICES ASSUME NEW v \in Sessions, plan'[v] # None
               PROVE  Sound(plan[v])'
    BY <1>1 DEF PlansTyped
  <2>1. plan'[v] = plan[v] /\ Sound(plan[v])
    BY <1>1 DEF IInv, PlansTyped
  <2> QED
    BY <1>3, <2>1 DEF Sound, PlanOK
<1>5. AgentPlans'
  BY <1>1 DEF IInv, AgentPlans, Sessions
<1>6. AgentsChecked'
  <2> SUFFICES ASSUME NEW v \in Agents, plan'[v] # None,
                      plan'[v].op \in {"update", "move", "delete"},
                      ~Disturbed(v, plan[v].node)'
               PROVE  ~OffLimits(plan[v].node)'
    BY DEF AgentsChecked
  <2> DEFINE n == plan[v].node
  <2>1. v \in Sessions /\ plan'[v] = plan[v] /\ plan[v] # None /\ Sound(plan[v])
    BY <1>1 DEF Sessions, IInv, PlansTyped
  <2>2. n \in Nodes /\ rows[n] # None
    BY <2>1 DEF Sound, PlanOK
  <2>3. n \notin stale[v] /\ rows'[n] = rows[n]
    BY <1>1, <2>1, <2>2 DEF Disturbed
  <2>4. ASSUME n \in Docs
        PROVE  /\ rows[n].parent \notin stale[v]
               /\ rows'[rows[n].parent] = rows[rows[n].parent]
    <3>1. rows[n].parent \in Nodes
      BY <2>2, <2>4 DEF IInv, RowsTyped, Node, Nodes
    <3> QED
      BY <1>1, <2>1, <2>3, <2>4, <3>1 DEF Disturbed
  <2>5. ~OffLimits(n)
    BY <2>1, <2>3, <2>4 DEF IInv, AgentsChecked, Disturbed
  <2> QED
    BY <2>1, <2>3, <2>4, <2>5 DEF OffLimits
<1>7. SkeletonsChecked'
  <2> SUFFICES ASSUME NEW v \in Sessions, plan'[v] # None, plan'[v].op # "create",
                      plan'[v].node \in Folders, rows'[plan'[v].node].kind = "skeleton",
                      plan'[v].node \notin stale'[v]
               PROVE  /\ plan'[v].op \in {"update", "restore"}
                      /\ plan'[v].op = "update" => "title" \notin plan'[v].changed
    BY DEF SkeletonsChecked
  <2>1. plan'[v] = plan[v] /\ plan[v] # None
    BY <1>1
  <2>2. plan[v].node \notin stale[v] /\ rows'[plan[v].node] = rows[plan[v].node]
    BY <1>1, <2>1 DEF Nodes
  <2> QED
    BY <2>1, <2>2 DEF IInv, SkeletonsChecked
<1> QED
  BY <1>2, <1>4, <1>5, <1>6, <1>7 DEF IInv

LEMMA RollbackKeeps ==
  ASSUME IInv, NEW w \in Sessions, Rollback(w)
  PROVE  IInv'
<1>1. /\ rows' = rows
      /\ DOMAIN plan' = Sessions
      /\ \A v \in Sessions : plan'[v] = IF v = w THEN None ELSE plan[v]
      /\ \A v \in Sessions : plan'[v] # None => stale'[v] = stale[v]
      /\ stale' \in [Sessions -> SUBSET Nodes]
  BY DEF Rollback, IInv, PlansTyped
<1>2. RowsTyped' /\ NothingAutoUpdated'
  BY <1>1 DEF IInv, RowsTyped, NothingAutoUpdated
<1>3. PlansTyped'
  <2> SUFFICES ASSUME NEW v \in Sessions, plan'[v] # None
               PROVE  Sound(plan[v])'
    BY <1>1 DEF PlansTyped
  <2>1. plan'[v] = plan[v] /\ Sound(plan[v])
    BY <1>1 DEF IInv, PlansTyped
  <2> QED
    BY <1>1, <2>1 DEF Sound, PlanOK
<1>4. AgentPlans'
  BY <1>1 DEF IInv, AgentPlans, Sessions
<1>5. AgentsChecked'
  BY <1>1 DEF IInv, AgentsChecked, Disturbed, OffLimits, Sessions
<1>6. SkeletonsChecked'
  BY <1>1 DEF IInv, SkeletonsChecked
<1> QED
  BY <1>2, <1>3, <1>4, <1>5, <1>6 DEF IInv

-----------------------------------------------------------------------------
\* The invariant holds throughout.

LEMMA InitInv == Init => IInv
<1> SUFFICES ASSUME Init PROVE IInv
  OBVIOUS
<1>1. /\ rows \in [Nodes -> {None} \union Old]
      /\ \A n \in Nodes : rows[n] # None =>
           (n \in Folders /\ rows[n].parent = Top) \/ rows[n].parent \in Folders
      /\ plan = [w \in Sessions |-> None]
      /\ stale = [w \in Sessions |-> {}]
  <2>1. rows \in [Nodes -> {None} \union Old] /\ Built(rows)
    BY Zenon DEF Init
  <2> QED
    BY <2>1 DEF Init, Built
<1>2. ASSUME NEW n \in Nodes, rows[n] # None
      PROVE  /\ rows[n] \in Node /\ rows[n].kind # "auto_updated"
             /\ n \in Docs => rows[n].parent # Top
  <2>1. rows[n] \in Node /\ rows[n].kind # "auto_updated"
    BY <1>1, <1>2 DEF Old
  <2>2. n \in Docs => rows[n].parent # Top
    BY <1>1, <1>2 DEF Nodes
  <2> QED
    BY <2>1, <2>2
<1>3. RowsTyped /\ NothingAutoUpdated
  <2>1. DOMAIN rows = Nodes /\ Docs \subseteq Nodes
    BY <1>1 DEF Nodes
  <2> QED
    BY <1>2, <2>1 DEF RowsTyped, NothingAutoUpdated
<1>4. PlansTyped /\ AgentPlans /\ AgentsChecked /\ SkeletonsChecked
  BY <1>1 DEF PlansTyped, AgentPlans, AgentsChecked, SkeletonsChecked, Sessions
<1> QED
  BY <1>3, <1>4 DEF IInv

LEMMA NextInv == IInv /\ [Next]_vars => IInv'
<1> SUFFICES ASSUME IInv, [Next]_vars PROVE IInv'
  OBVIOUS
<1>1. CASE UNCHANGED vars
  BY <1>1 DEF vars, IInv, RowsTyped, PlansTyped, NothingAutoUpdated, AgentPlans,
              AgentsChecked, SkeletonsChecked, Sound, PlanOK, Disturbed, OffLimits
<1>2. ASSUME NEW w \in Sessions, Step(w) PROVE IInv'
  BY <1>2, CreateKeeps, UpdateKeeps, MoveKeeps, DeleteKeeps, RestoreKeeps, CommitKeeps,
     RollbackKeeps DEF Step
<1> QED
  BY <1>1, <1>2 DEF Next

LEMMA Invariance == Spec => []IInv
<1> QED
  BY InitInv, NextInv, PTL DEF Spec

-----------------------------------------------------------------------------
\* Type correctness.

\* A file has a file's kind, and so has what a plan makes of one.
KindsFit ==
  /\ \A n \in Docs : rows[n] # None => rows[n].kind \in FileKinds
  /\ \A w \in Sessions :
       /\ plan[w] # None /\ plan[w].node \in Docs
       /\ plan[w].op = "create" \/ (plan[w].op = "update" /\ "kind" \in plan[w].changed)
       => plan[w].row.kind \in FileKinds

\* Every plan has its place among the operations.
Busy == {w \in Sessions : plan[w] # None}
Within == ops \in Nat /\ ops + Cardinality(Busy) <= MaxOps

\* A new plan keeps both, if its kind fits.
LEMMA PlannedFits ==
  ASSUME IInv, KindsFit, Within, NEW w \in Sessions, NEW p, Plan(w, p),
         /\ p.node \in Docs
         /\ p.op = "create" \/ (p.op = "update" /\ "kind" \in p.changed)
         => p.row.kind \in FileKinds
  PROVE  KindsFit' /\ Within'
<1>1. /\ rows' = rows /\ ops' = ops /\ plan[w] = None
      /\ ops + Cardinality(Busy) < MaxOps
      /\ \A v \in Sessions : plan'[v] = IF v = w THEN p ELSE plan[v]
  BY DEF Plan, IInv, PlansTyped, Busy
<1>2. KindsFit'
  BY <1>1 DEF KindsFit
<1>3. IsFiniteSet(Busy) /\ w \notin Busy /\ Busy' \in SUBSET (Busy \union {w})
  <2>1. Busy \in SUBSET Sessions
    BY DEF Busy
  <2>2. IsFiniteSet(Busy)
    BY <2>1, SessionsFinite, FS_Subset
  <2>3. w \notin Busy /\ Busy' \in SUBSET (Busy \union {w})
    BY <1>1 DEF Busy
  <2> QED
    BY <2>2, <2>3
<1>4. /\ Cardinality(Busy) \in Nat /\ Cardinality(Busy') \in Nat
      /\ Cardinality(Busy') <= Cardinality(Busy) + 1
  <2>1. IsFiniteSet(Busy \union {w}) /\ Cardinality(Busy \union {w}) = Cardinality(Busy) + 1
    BY <1>3, FS_AddElement
  <2>2. IsFiniteSet(Busy') /\ Cardinality(Busy') <= Cardinality(Busy \union {w})
    BY <1>3, <2>1, FS_Subset
  <2> QED
    BY <1>3, <2>1, <2>2, FS_CardinalityType
<1> QED
  BY <1>1, <1>2, <1>4, MaxOpsAssumption DEF Within

\* So do the end of a plan and its commit.
LEMMA EndedFits ==
  ASSUME IInv, KindsFit, Within, NEW w \in Sessions, Commit(w) \/ Rollback(w)
  PROVE  KindsFit' /\ Within'
<1>1. /\ ops' \in {ops, ops + 1} /\ plan[w] # None
      /\ \A v \in Sessions : plan'[v] = IF v = w THEN None ELSE plan[v]
  BY DEF Commit, Rollback, IInv, PlansTyped
<1>2. ASSUME NEW n \in Docs, rows'[n] # None
      PROVE  rows'[n].kind \in FileKinds
  <2>1. CASE rows' = rows
    BY <1>2, <2>1 DEF KindsFit
  <2>2. CASE Commit(w) /\ rows[n] = None
    BY <1>1, <1>2, <2>2, Created DEF KindsFit, Nodes
  <2>3. CASE Commit(w) /\ rows[n] # None
    <3>1. rows[n].kind \in FileKinds
      BY <2>3 DEF KindsFit
    <3> QED
      BY <1>1, <2>3, <3>1, Outcome DEF KindsFit, Nodes
  <2> QED
    BY <2>1, <2>2, <2>3 DEF Rollback
<1>3. KindsFit'
  BY <1>1, <1>2 DEF KindsFit
<1>4. IsFiniteSet(Busy) /\ w \in Busy /\ Busy' = Busy \ {w}
  <2>1. Busy \in SUBSET Sessions
    BY DEF Busy
  <2> QED
    BY <1>1, <2>1, SessionsFinite, FS_Subset DEF Busy
<1>5. Cardinality(Busy') = Cardinality(Busy) - 1 /\ Cardinality(Busy) \in Nat
  BY <1>4, FS_RemoveElement, FS_CardinalityType
<1> QED
  BY <1>1, <1>3, <1>5, MaxOpsAssumption DEF Within

\* At the start files are manual and nothing is planned.
LEMMA InitFits == Init => KindsFit /\ Within
<1> SUFFICES ASSUME Init PROVE KindsFit /\ Within
  OBVIOUS
<1>1. /\ \A n \in Docs : rows[n] # None => rows[n].kind = "manual"
      /\ \A w \in Sessions : plan[w] = None
      /\ ops = 0
  BY DEF Init
<1>2. Busy = {}
  BY <1>1 DEF Busy
<1> QED
  BY <1>1, <1>2, FS_EmptySet, MaxOpsAssumption DEF KindsFit, Within, FileKinds

\* One step per check, and one for the rest.
LEMMA NextFits == IInv /\ KindsFit /\ Within /\ [Next]_vars => KindsFit' /\ Within'
<1> SUFFICES ASSUME IInv, KindsFit, Within, [Next]_vars PROVE KindsFit' /\ Within'
  OBVIOUS
<1>1. CASE UNCHANGED vars
  BY <1>1 DEF vars, KindsFit, Within, Busy
<1>2. ASSUME NEW w \in Sessions, NEW n \in Nodes, NEW p \in Folders \union {Top},
             NEW k \in FolderKinds, NEW l \in BOOLEAN, CheckCreate(w, n, p, k, l)
      PROVE  KindsFit' /\ Within'
  <2> DEFINE row == [Plain(p) EXCEPT !.kind = k, !.lock = l]
             q == [op |-> "create", node |-> n, row |-> row]
  <2>1. Plan(w, q) /\ (n \in Docs => k \in FileKinds)
    BY <1>2 DEF CheckCreate, KindsOf
  <2>2. row.kind = k
    BY DEF Plain
  <2> QED
    BY <2>1, <2>2, PlannedFits
<1>3. ASSUME NEW w \in Sessions, NEW n \in Nodes, NEW changed \in SUBSET Editable,
             NEW k \in FolderKinds, CheckUpdate(w, n, changed, k)
      PROVE  KindsFit' /\ Within'
  <2> DEFINE row == [rows[n] EXCEPT !.title = IF "title" \in changed THEN 1 - @ ELSE @,
                                    !.text = IF "text" \in changed THEN 1 - @ ELSE @,
                                    !.lock = IF "lock" \in changed THEN ~@ ELSE @,
                                    !.kind = IF "kind" \in changed THEN k ELSE @]
             q == [op |-> "update", node |-> n, changed |-> changed, row |-> row]
  <2>1. rows[n] \in Node /\ Plan(w, q)
    BY <1>3 DEF CheckUpdate, IInv, RowsTyped
  <2>2. "kind" \in changed /\ n \in Docs => row.kind \in FileKinds
    BY <1>3, <2>1 DEF CheckUpdate, KindsOf, Node
  <2> QED
    BY <2>1, <2>2, PlannedFits
<1>4. ASSUME NEW w \in Sessions, NEW n \in Nodes, NEW p \in Folders \union {Top}, CheckMove(w, n, p)
      PROVE  KindsFit' /\ Within'
  BY <1>4, PlannedFits DEF CheckMove
<1>5. ASSUME NEW w \in Sessions, NEW n \in Nodes, CheckDelete(w, n) \/ CheckRestore(w, n)
      PROVE  KindsFit' /\ Within'
  BY <1>5, PlannedFits DEF CheckDelete, CheckRestore
<1>6. ASSUME NEW w \in Sessions, Commit(w) \/ Rollback(w)
      PROVE  KindsFit' /\ Within'
  BY <1>6, EndedFits
<1> QED
  BY <1>1, <1>2, <1>3, <1>4, <1>5, <1>6 DEF Next, Step

\* Every node is one of the table's, a file is in a folder and has a file's kind,
\* and every plan is one its checks can have let through (service.py, models.py).
THEOREM TypeCorrect == Spec => []TypeOK
<1>1. Spec => [](KindsFit /\ Within)
  BY InitFits, NextFits, Invariance, PTL DEF Spec
<1>2. IInv /\ KindsFit /\ Within => TypeOK
  <2> SUFFICES ASSUME IInv, KindsFit, Within PROVE TypeOK
    OBVIOUS
  <2>1. Busy \in SUBSET Sessions /\ IsFiniteSet(Busy)
    BY SessionsFinite, FS_Subset DEF Busy
  <2>2. ops \in 0..MaxOps
    BY <2>1, FS_CardinalityType, MaxOpsAssumption DEF Within
  <2> QED
    BY <2>2 DEF IInv, RowsTyped, PlansTyped, Sound, KindsFit, TypeOK
<1> QED
  BY <1>1, <1>2, Invariance, PTL
-----------------------------------------------------------------------------
\* A step in which a session commits is its own commit.
LEMMA OwnCommit ==
  ASSUME IInv, [Next]_vars, NEW w \in Sessions, Commits(w)
  PROVE  Commit(w)
<1>1. ops' # ops /\ plan'[w] # plan[w]
  BY DEF Commits
<1>2. PICK v \in Sessions : Step(v)
  BY <1>1 DEF Next, vars
<1>3. Commit(v)
  BY <1>1, <1>2 DEF Step, CheckCreate, CheckUpdate, CheckMove, CheckDelete, CheckRestore,
                    Plan, Rollback
<1>4. v = w
  BY <1>1, <1>3 DEF Commit, IInv, PlansTyped
<1> QED
  BY <1>3, <1>4

\* No call brings the kind reserved for auto-update jobs into the tree
\* (service.py refuses it in create_file, create_folder and update_node).
THEOREM NoReservedKind == Spec => []NothingAutoUpdated
<1>1. IInv => NothingAutoUpdated
  BY DEF IInv
<1> QED
  BY <1>1, Invariance, PTL

\* No commit of an agent takes a lock away or changes a kind, not even one that
\* was set after the agent's check: an update writes the changed columns only.
THEOREM LocksOutliveAgents == Spec => AgentsNeverUnlock
<1>1. ASSUME IInv, [Next]_vars, NEW w \in Agents, NEW n \in Nodes, Commits(w), rows[n] # None
      PROVE  rows'[n].lock = rows[n].lock /\ rows'[n].kind = rows[n].kind
  <2>1. Commit(w) /\ plan[w] # None
    BY <1>1, OwnCommit DEF Commits, Sessions
  <2>2. plan[w].op = "update" => plan[w].changed \intersect {"kind", "lock"} = {}
    BY <1>1, <2>1 DEF IInv, AgentPlans
  <2> QED
    BY <1>1, <2>1, <2>2, Outcome DEF Sessions
<1>2. IInv /\ [Next]_vars => [\A w \in Agents, n \in Nodes :
        Commits(w) /\ rows[n] # None =>
          rows'[n].lock = rows[n].lock /\ rows'[n].kind = rows[n].kind]_vars
  BY <1>1
<1> QED
  BY <1>2, Invariance, PTL DEF Spec, AgentsNeverUnlock

\* Whatever calls came before, an agent's commit changes nothing locked (the
\* check of policy.py), but for restoring it and for what was changed since.
THEOREM LockedStaysAsItIs == Spec => AgentsKeepOut
<1>1. ASSUME IInv, [Next]_vars, NEW w \in Agents, NEW n \in Nodes, Changes(w, n), OffLimits(n)
      PROVE  Disturbed(w, n) \/ plan[w].op = "restore"
  <2>1. Commit(w) /\ plan[w] # None /\ n = plan[w].node /\ rows[n] # None /\ rows'[n] # rows[n]
    BY <1>1, OwnCommit DEF Changes, Commits, Sessions
  <2>2. plan[w].op # "create"
    BY <1>1, <2>1, Outcome DEF Sessions
  <2>3. plan[w].op \in {"create", "update", "move", "delete", "restore"}
    BY <1>1, <2>1 DEF IInv, PlansTyped, Sound, PlanOK, Sessions
  <2> QED
    BY <1>1, <2>1, <2>2, <2>3 DEF IInv, AgentsChecked
<1>2. IInv /\ [Next]_vars => [\A w \in Agents, n \in Nodes :
        Changes(w, n) /\ OffLimits(n) => Disturbed(w, n) \/ plan[w].op = "restore"]_vars
  BY <1>1
<1> QED
  BY <1>2, Invariance, PTL DEF Spec, AgentsKeepOut

\* A skeleton folder keeps name and place, and is not deleted by itself: the
\* structural actions are refused on the kind it had before the call.
THEOREM SkeletonsKeepTheirPlace == Spec => SkeletonsStand
<1>1. ASSUME IInv, [Next]_vars, NEW w \in Sessions, NEW f \in Folders, Changes(w, f),
             rows[f].kind = "skeleton", ~Disturbed(w, f)
      PROVE  /\ rows'[f].title = rows[f].title /\ rows'[f].parent = rows[f].parent
             /\ rows[f].active => rows'[f].active
  <2>1. /\ Commit(w) /\ plan[w] # None /\ f = plan[w].node /\ f \in Nodes
        /\ rows[f] # None /\ rows'[f] # rows[f]
    BY <1>1, OwnCommit DEF Changes, Commits, Nodes
  <2>2. plan[w].op # "create"
    BY <1>1, <2>1, Outcome
  <2>3. /\ plan[w].op \in {"update", "restore"}
        /\ plan[w].op = "update" => "title" \notin plan[w].changed
    BY <1>1, <2>1, <2>2 DEF IInv, SkeletonsChecked, Disturbed
  <2>4. /\ rows'[f].title # rows[f].title =>
             plan[w].op = "update" /\ "title" \in plan[w].changed
        /\ rows'[f].parent # rows[f].parent => plan[w].op = "move"
        /\ rows[f].active /\ ~rows'[f].active => plan[w].op = "delete"
    BY <1>1, <2>1, Outcome
  <2> QED
    BY <2>3, <2>4
<1>2. IInv /\ [Next]_vars => [\A w \in Sessions, f \in Folders :
        Changes(w, f) /\ rows[f].kind = "skeleton" /\ ~Disturbed(w, f) =>
          /\ rows'[f].title = rows[f].title /\ rows'[f].parent = rows[f].parent
          /\ rows[f].active => rows'[f].active]_vars
  BY <1>1
<1> QED
  BY <1>2, Invariance, PTL DEF Spec, SkeletonsStand
=============================================================================
