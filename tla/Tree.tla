-------------------------------- MODULE Tree --------------------------------
(***************************************************************************)
(* The tree of folders and files: kb.storage.dal with the node operations  *)
(* of kb.service, in transactions under READ COMMITTED.  A statement sees  *)
(* the committed rows under the session's own changes; an UPDATE holds its *)
(* row until the transaction ends; nothing else locks a row.  Rows are     *)
(* never removed, only marked deleted.                                     *)
(***************************************************************************)

EXTENDS Naturals, NodeTable

CONSTANTS
  Writers,  \* the sessions
  MaxOps    \* bound: the operations of one transaction

ASSUME NoneIsNothing == None \notin Row \union Writers \union Nodes \union {Top}
ASSUME MaxOpsAssumption == MaxOps \in Nat

VARIABLES
  rows,     \* the committed `folders` and `files` tables
  tx,       \* the rows each open transaction has flushed, and so locked
  mover,    \* the session that holds the advisory lock of folder moves
  pc,       \* the step of its operation each session is at
  target,   \* the node of that operation
  dest,     \* where it moves to
  listed,   \* delete: the nodes the service is going to mark touched
  cascade,  \* delete: the descendants the dal is going to mark deleted
  touched,  \* session.info["kb.touched_node_ids"]
  ops,      \* the operations its transaction has begun
  raced     \* history: a deletion and a placement have overlapped

op == <<pc, target, dest, listed, cascade>>
vars == <<rows, tx, mover, op, touched, ops, raced>>

\* Table `base` as it reads under the changes of one transaction.
Overlay(base, changes) ==
  [n \in Nodes |-> IF changes[n] # None THEN changes[n] ELSE base[n]]

View(w) == Overlay(rows, tx[w])

Unlocked(w, n) == \A v \in Writers \ {w} : tx[v][n] = None

\* Mutant: the children only, as if the query were not recursive.
ActiveChildren(table, n) ==
  {m \in Nodes : Active(table, m) /\ table[m].parent = n}

Steps == {"open", "lock", "cycle", "move", "delete", "cascade", "restore"}

Init ==
  /\ rows = Nothing
  /\ tx = [w \in Writers |-> Nothing]
  /\ mover = None
  /\ pc = [w \in Writers |-> "open"]
  /\ target = [w \in Writers |-> None]
  /\ dest = [w \in Writers |-> None]
  /\ listed = [w \in Writers |-> {}]
  /\ cascade = [w \in Writers |-> {}]
  /\ touched = [w \in Writers |-> {}]
  /\ ops = [w \in Writers |-> 0]
  /\ raced = FALSE

-----------------------------------------------------------------------------
\* A session between two operations begins another one.
Begin(w) ==
  /\ pc[w] = "open"
  /\ ops[w] < MaxOps
  /\ ops' = [ops EXCEPT ![w] = @ + 1]

-----------------------------------------------------------------------------
\* create_file, create_folder.

\* Mutant: a missing folder is a root for any node.
MayHoldFileAtTop(w, p, n) == p # Top => p \in Folders /\ Active(View(w), p)

\* A file goes into an active folder, a folder there or to the top.
MayHold(w, p, n) == IF p = Top THEN n \in Folders ELSE p \in Folders /\ Active(View(w), p)

\* An insert is seen and locked by nobody else until the COMMIT, so checking
\* the parent and inserting are one step.  The id is fresh.
CreateNode(w, n, p) ==
  /\ Begin(w)
  /\ View(w)[n] = None
  /\ Unlocked(w, n)
  /\ MayHold(w, p, n)
  /\ tx' = [tx EXCEPT ![w][n] = [parent |-> p, active |-> TRUE]]
  /\ touched' = [touched EXCEPT ![w] = @ \union {n}]
  /\ UNCHANGED <<rows, mover, op>>

-----------------------------------------------------------------------------
\* update_node: title, content, kind and lock are columns the tree does not
\* depend on, so all it does here is to lock the row.

UpdateNode(w, n) ==
  /\ Begin(w)
  /\ View(w)[n] # None
  /\ Unlocked(w, n)
  /\ tx' = [tx EXCEPT ![w][n] = View(w)[n]]
  /\ touched' = [touched EXCEPT ![w] = @ \union {n}]
  /\ UNCHANGED <<rows, mover, op>>

-----------------------------------------------------------------------------
\* move_node.  It marks nothing touched: chunks do not depend on the path.

\* Moving a folder below another takes the advisory lock next; a file, or a
\* folder to the top, goes straight to the UPDATE.
CheckMove(w, n, p) ==
  /\ Begin(w)
  /\ View(w)[n] # None
  /\ p \notin {n, View(w)[n].parent}
  /\ MayHold(w, p, n)
  /\ target' = [target EXCEPT ![w] = n]
  /\ dest' = [dest EXCEPT ![w] = p]
  /\ pc' = [pc EXCEPT ![w] = IF n \in Folders /\ p # Top THEN "lock" ELSE "move"]
  /\ UNCHANGED <<rows, tx, mover, listed, cascade, touched>>

\* Mutant: a lock per session, which excludes nobody.
LockMovesAlone(w) ==
  /\ pc[w] = "lock"
  /\ mover' = w
  /\ pc' = [pc EXCEPT ![w] = "cycle"]
  /\ UNCHANGED <<rows, tx, target, dest, listed, cascade, touched, ops>>

\* pg_advisory_xact_lock: held, like the row locks, until the transaction ends.
LockMoves(w) ==
  /\ pc[w] = "lock"
  /\ mover \in {None, w}
  /\ mover' = w
  /\ pc' = [pc EXCEPT ![w] = "cycle"]
  /\ UNCHANGED <<rows, tx, target, dest, listed, cascade, touched, ops>>

\* The folders below the target are read after the lock was granted.  If the
\* destination is among them the call raises, and the session rolls back.
CheckCycle(w) ==
  /\ pc[w] = "cycle"
  /\ dest[w] \notin Below(View(w), target[w])
  /\ pc' = [pc EXCEPT ![w] = "move"]
  /\ UNCHANGED <<rows, tx, mover, target, dest, listed, cascade, touched, ops>>

\* The operation is over and its arguments are gone.
Done(w) ==
  /\ pc' = [pc EXCEPT ![w] = "open"]
  /\ target' = [target EXCEPT ![w] = None]
  /\ dest' = [dest EXCEPT ![w] = None]
  /\ listed' = [listed EXCEPT ![w] = {}]
  /\ cascade' = [cascade EXCEPT ![w] = {}]

\* Only the changed column is written, over the row as it then is.
MoveNode(w) ==
  /\ pc[w] = "move"
  /\ Unlocked(w, target[w])
  /\ tx' = [tx EXCEPT ![w][target[w]] = [View(w)[target[w]] EXCEPT !.parent = dest[w]]]
  /\ Done(w)
  /\ UNCHANGED <<rows, mover, touched, ops>>

-----------------------------------------------------------------------------
\* delete_node.

\* Mutant: the descendants are left to the dal.
CheckDeleteShallow(w, n) ==
  /\ Begin(w)
  /\ View(w)[n] # None
  /\ target' = [target EXCEPT ![w] = n]
  /\ listed' = [listed EXCEPT ![w] = {n} \union ActiveChildren(View(w), n)]
  /\ pc' = [pc EXCEPT ![w] = "delete"]
  /\ UNCHANGED <<rows, tx, mover, dest, cascade, touched>>

\* service.delete_node lists what it is going to mark touched ...
CheckDelete(w, n) ==
  /\ Begin(w)
  /\ View(w)[n] # None
  /\ target' = [target EXCEPT ![w] = n]
  /\ listed' = [listed EXCEPT ![w] = {n} \union ActiveDescendants(View(w), n)]
  /\ pc' = [pc EXCEPT ![w] = "delete"]
  /\ UNCHANGED <<rows, tx, mover, dest, cascade, touched>>

\* ... then dal.delete_node marks the node, which the next query flushes, and
\* lists the descendants once more, in a statement of its own ...
DeleteNode(w) ==
  LET n == target[w]
      marked == [View(w) EXCEPT ![n].active = FALSE]
  IN
  /\ pc[w] = "delete"
  /\ Unlocked(w, n)
  /\ tx' = [tx EXCEPT ![w][n] = marked[n]]
  /\ cascade' = [cascade EXCEPT ![w] = ActiveDescendants(marked, n)]
  /\ pc' = [pc EXCEPT ![w] = "cascade"]
  /\ UNCHANGED <<rows, mover, target, dest, listed, touched, ops>>

\* ... and marks these.  What was listed first is what is recorded.
DeleteCascade(w) ==
  /\ pc[w] = "cascade"
  /\ \A m \in cascade[w] : Unlocked(w, m)
  /\ tx' = [tx EXCEPT ![w] =
       [m \in Nodes |-> IF m \in cascade[w] THEN [View(w)[m] EXCEPT !.active = FALSE]
                                            ELSE @[m]]]
  /\ touched' = [touched EXCEPT ![w] = @ \union listed[w]]
  /\ Done(w)
  /\ UNCHANGED <<rows, mover, ops>>

-----------------------------------------------------------------------------
\* restore_node.

\* Mutant: the folder may be deleted, as it could before it was checked.
CheckRestoreAnywhere(w, n) ==
  /\ Begin(w)
  /\ View(w)[n] # None
  /\ ~View(w)[n].active
  /\ target' = [target EXCEPT ![w] = n]
  /\ pc' = [pc EXCEPT ![w] = "restore"]
  /\ UNCHANGED <<rows, tx, mover, dest, listed, cascade, touched>>

\* The node's folder, if it has one, must be active.
CheckRestore(w, n) ==
  /\ Begin(w)
  /\ View(w)[n] # None
  /\ ~View(w)[n].active
  /\ View(w)[n].parent # Top => Active(View(w), View(w)[n].parent)
  /\ target' = [target EXCEPT ![w] = n]
  /\ pc' = [pc EXCEPT ![w] = "restore"]
  /\ UNCHANGED <<rows, tx, mover, dest, listed, cascade, touched>>

\* Restoring an active node writes nothing, but the node is marked touched.
RestoreActive(w, n) ==
  /\ Begin(w)
  /\ Active(View(w), n)
  /\ View(w)[n].parent # Top => Active(View(w), View(w)[n].parent)
  /\ touched' = [touched EXCEPT ![w] = @ \union {n}]
  /\ UNCHANGED <<rows, tx, mover, op>>

\* Just this node: its descendants stay deleted.
RestoreNode(w) ==
  /\ pc[w] = "restore"
  /\ Unlocked(w, target[w])
  /\ tx' = [tx EXCEPT ![w][target[w]] = [View(w)[target[w]] EXCEPT !.active = TRUE]]
  /\ touched' = [touched EXCEPT ![w] = @ \union {target[w]}]
  /\ Done(w)
  /\ UNCHANGED <<rows, mover, ops>>

-----------------------------------------------------------------------------
\* The end of a transaction: all its locks go.

Release(w) ==
  /\ tx' = [tx EXCEPT ![w] = Nothing]
  /\ mover' = IF mover = w THEN None ELSE mover
  /\ touched' = [touched EXCEPT ![w] = {}]
  /\ ops' = [ops EXCEPT ![w] = 0]

Commit(w) ==
  /\ pc[w] = "open"
  /\ rows' = View(w)
  /\ Release(w)
  /\ UNCHANGED op

\* Any error: a cycle, a lock timeout, a deadlock PostgreSQL breaks, a crash.
Rollback(w) ==
  /\ Release(w)
  /\ Done(w)
  /\ UNCHANGED rows

Step(w) ==
  \/ \E n \in Nodes :
       UpdateNode(w, n) \/ CheckDelete(w, n) \/ CheckRestore(w, n) \/ RestoreActive(w, n)
  \/ \E n \in Nodes, p \in Folders \union {Top} : CreateNode(w, n, p) \/ CheckMove(w, n, p)
  \/ LockMoves(w) \/ CheckCycle(w) \/ MoveNode(w)
  \/ DeleteNode(w) \/ DeleteCascade(w) \/ RestoreNode(w)
  \/ Commit(w) \/ Rollback(w)

\* Session w is taking nodes away, or is putting some in place.
Deleting(w) ==
  pc[w] \in {"delete", "cascade"} \/ \E n \in Nodes : tx[w][n] # None /\ ~tx[w][n].active
Placing(w) ==
  \/ pc[w] \in {"lock", "cycle", "move", "restore"}
  \/ \E n \in Nodes : Active(tx[w], n) /\ tx[w][n] # rows[n]

Race == \E w, v \in Writers : w # v /\ Deleting(w) /\ Placing(v)

Next == (\E w \in Writers : Step(w)) /\ raced' = (raced \/ Race')

Spec == Init /\ [][Next]_vars

-----------------------------------------------------------------------------
\* Properties.

TypeOK ==
  /\ rows \in Table
  /\ tx \in [Writers -> Table]
  /\ mover \in Writers \union {None}
  /\ pc \in [Writers -> Steps]
  /\ target \in [Writers -> Nodes \union {None}]
  /\ dest \in [Writers -> Folders \union {Top, None}]
  /\ listed \in [Writers -> SUBSET Nodes]
  /\ cascade \in [Writers -> SUBSET Nodes]
  /\ touched \in [Writers -> SUBSET Nodes]
  /\ ops \in [Writers -> 0..MaxOps]
  /\ raced \in BOOLEAN

\* No set of folders in which everyone's parent is again in the set.
NoCycle(table) ==
  \A S \in SUBSET Folders :
    (\A m \in S : table[m] # None /\ table[m].parent \in S) => S = {}

\* However moves interleave, the committed folders never form a cycle, so that
\* listing ancestors and descendants terminates.
Acyclic == NoCycle(rows)

\* An active node is at the top or in an active folder, where list_children,
\* manifests and search can get at it.
Reachable ==
  \A n \in Nodes : Active(rows, n) =>
    rows[n].parent = Top \/ Active(rows, rows[n].parent)

\* Moves, creations and restores among themselves, and deletions among
\* themselves, keep every active node reachable, in whatever order they commit.
ReachableUnlessRaced == raced \/ Reachable

\* The nodes a COMMIT of w would bring back, or take away.
Back(w) == {n \in Nodes : Active(tx[w], n) /\ ~Active(rows, n)}
Gone(w) == {n \in Nodes : tx[w][n] # None /\ ~tx[w][n].active /\ Active(rows, n)}

\* delete_node records "exactly the descendants the cascade soft-deletes", for
\* the index to follow: a session between two operations has noted them all.
CascadeRecorded == \A w \in Writers : pc[w] = "open" => Gone(w) \subseteq touched[w]

\* What every operation changes is recorded, but for a node that is placed
\* between the two listings of a cascade.
ChangesRecorded ==
  /\ \A w \in Writers : pc[w] = "open" => Back(w) \subseteq touched[w]
  /\ raced \/ CascadeRecorded
=============================================================================
