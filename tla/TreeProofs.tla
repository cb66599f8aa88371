----------------------------- MODULE TreeProofs -----------------------------
(***************************************************************************)
(* Proofs about Tree: types; that no interleaving of moves, creations,     *)
(* deletions and restores ever closes a cycle of folders; that active      *)
(* nodes stay reachable, and what changes is recorded, unless a deletion   *)
(* overlaps a placement.                                                   *)
(***************************************************************************)
EXTENDS Tree, TLAPS

USE NodesApart, TopIsNoNode, NoneIsNothing, MaxOpsAssumption

-----------------------------------------------------------------------------
\* Facts about tables.

\* Folders whose parent is known: what NoCycle and Below look at.
ParentsKnown(table) ==
  \A m \in Folders : table[m] # None /\ table[m].parent # Top =>
    table[table[m].parent] # None

\* Changes c to table t create folders, or leave a folder's parent as it was
\* or take it to the top.
Tame(t, c) ==
  \A m \in Folders : t[m] # None /\ c[m] # None => c[m].parent \in {t[m].parent, Top}

\* A table made of two tables is a table.
LEMMA OverlayType ==
  ASSUME NEW t \in Table, NEW c \in Table
  PROVE  Overlay(t, c) \in Table
<1>1. t \in [Nodes -> MaybeRow] /\ c \in [Nodes -> MaybeRow]
  BY DEF Table
<1>2. Overlay(t, c) \in [Nodes -> MaybeRow]
  BY <1>1 DEF Overlay
<1>3. ASSUME NEW n \in Docs, Overlay(t, c)[n] # None
      PROVE  Overlay(t, c)[n].parent # Top
  <2>1. n \in Nodes
    BY DEF Nodes
  <2>2. CASE c[n] # None
    BY <2>1, <2>2 DEF Overlay, Table
  <2>3. CASE c[n] = None
    BY <1>3, <2>1, <2>3 DEF Overlay, Table
  <2> QED
    BY <2>2, <2>3
<1> QED
  BY <1>2, <1>3 DEF Table

\* The folders below n have every folder whose parent is n or below n.
LEMMA BelowClosed ==
  ASSUME NEW t \in Table, NEW n \in Nodes
  PROVE  Closed(t, n, Below(t, n))
<1> SUFFICES ASSUME NEW m \in Folders, t[m] # None,
                    t[m].parent \in Below(t, n) \union {n},
                    NEW C \in SUBSET Folders, Closed(t, n, C)
             PROVE  m \in C
  BY DEF Closed, Below
<1>1. t[m].parent \in C \union {n}
  BY DEF Below
<1> QED
  BY <1>1 DEF Closed

\* Taking folders to the top, or changing anything but parents, makes no cycle.
LEMMA TameKeepsNoCycle ==
  ASSUME NEW t \in Table, NEW u \in Table, NoCycle(t),
         \A m \in Folders : u[m] # None => t[m] # None, Tame(t, u)
  PROVE  NoCycle(u)
<1> SUFFICES ASSUME NEW S \in SUBSET Folders,
                    \A m \in S : u[m] # None /\ u[m].parent \in S
             PROVE  S = {}
  BY DEF NoCycle
<1>1. \A m \in S : t[m] # None /\ t[m].parent \in S
  BY DEF Tame, Nodes
<1> QED
  BY <1>1 DEF NoCycle

\* A folder moved below one that is not below it makes no cycle: a cycle would
\* have had to exist among the folders that are not below it.
LEMMA MoveKeepsNoCycle ==
  ASSUME NEW t \in Table, NEW u \in Table, NEW n \in Folders, NEW p \in Folders,
         NoCycle(t), n # p, p \notin Below(t, n),
         u[n].parent = p,
         \A m \in Folders \ {n} : u[m] = t[m]
  PROVE  NoCycle(u)
<1> SUFFICES ASSUME NEW S \in SUBSET Folders,
                    \A m \in S : u[m] # None /\ u[m].parent \in S
             PROVE  S = {}
  BY DEF NoCycle
<1>1. CASE n \notin S
  BY <1>1 DEF NoCycle
<1>2. CASE n \in S
  <2> DEFINE T == S \ (Below(t, n) \union {n})
  <2>1. p \in T
    BY <1>2
  <2>2. ASSUME NEW m \in T
        PROVE  t[m] # None /\ t[m].parent \in T
    <3>1. t[m] # None /\ t[m].parent \in S
      OBVIOUS
    <3>2. t[m].parent \notin Below(t, n) \union {n}
      BY <3>1, BelowClosed DEF Closed, Nodes
    <3> QED
      BY <3>1, <3>2
  <2>3. T \in SUBSET Folders
    OBVIOUS
  <2>4. T = {}
    BY <2>2, <2>3 DEF NoCycle
  <2> QED
    BY <2>1, <2>4
<1> QED
  BY <1>1, <1>2

\* A new folder has no children yet, so it is on no cycle.
LEMMA CreateKeepsNoCycle ==
  ASSUME NEW t \in Table, NEW u \in Table, NEW n \in Nodes,
         NoCycle(t), ParentsKnown(t), t[n] = None,
         u[n] # None, u[n].parent # n,
         \A m \in Folders \ {n} : u[m] = t[m]
  PROVE  NoCycle(u)
<1> SUFFICES ASSUME NEW S \in SUBSET Folders,
                    \A m \in S : u[m] # None /\ u[m].parent \in S
             PROVE  S = {}
  BY DEF NoCycle
<1> DEFINE T == S \ {n}
<1>1. ASSUME NEW m \in T
      PROVE  t[m] # None /\ t[m].parent \in T
  BY DEF ParentsKnown
<1>2. T = {}
  BY <1>1 DEF NoCycle
<1> QED
  BY <1>2

\* Two sessions' changes, one of them tame, close no cycle together if neither
\* did alone.
LEMMA MergeKeepsNoCycle ==
  ASSUME NEW t \in Table, NEW r \in Table, NEW c \in Table,
         NoCycle(t), ParentsKnown(t), Tame(t, c), NoCycle(Overlay(r, c))
  PROVE  NoCycle(Overlay(t, c))
<1> DEFINE u == Overlay(t, c)
<1> SUFFICES ASSUME NEW S \in SUBSET Folders,
                    \A m \in S : u[m] # None /\ u[m].parent \in S
             PROVE  S = {}
  BY DEF NoCycle
<1> DEFINE T == {m \in S : t[m] # None}
<1>1. ASSUME NEW m \in T
      PROVE  t[m] # None /\ t[m].parent \in T
  <2>1. u[m].parent = t[m].parent
    BY DEF Tame, Overlay, Nodes
  <2>2. t[m].parent \in Folders /\ t[m].parent # Top
    BY <2>1 DEF Nodes
  <2> QED
    BY <2>1, <2>2 DEF ParentsKnown
<1>2. T = {}
  BY <1>1 DEF NoCycle
<1>3. \A m \in S : Overlay(r, c)[m] # None /\ Overlay(r, c)[m].parent \in S
  BY <1>2 DEF Overlay, Nodes
<1> QED
  BY <1>3 DEF NoCycle

\* Nor does a tame change put a known folder below another.
LEMMA MergeKeepsBelow ==
  ASSUME NEW t \in Table, NEW c \in Table, NEW n \in Folders, NEW p \in Folders,
         ParentsKnown(t), Tame(t, c), t[n] # None, t[p] # None,
         p \notin Below(t, n)
  PROVE  p \notin Below(Overlay(t, c), n)
<1> DEFINE u == Overlay(t, c)
<1>1. PICK C \in SUBSET Folders : Closed(t, n, C) /\ p \notin C
  BY DEF Below
<1> DEFINE D == C \union {m \in Folders : t[m] = None}
<1>2. Closed(u, n, D)
  <2> SUFFICES ASSUME NEW m \in Folders, t[m] # None, u[m] # None,
                      u[m].parent \in D \union {n}
               PROVE  m \in C
    BY DEF Closed
  <2>1. u[m].parent = t[m].parent
    BY DEF Tame, Overlay, Nodes
  <2>2. t[m].parent \in C \union {n}
    BY <2>1 DEF ParentsKnown, Nodes
  <2> QED
    BY <1>1, <2>2 DEF Closed
<1>3. p \notin D
  BY <1>1
<1> QED
  BY <1>2, <1>3 DEF Below

-----------------------------------------------------------------------------
\* The inductive invariant.

\* No row is locked by two sessions.
RowLocks ==
  \A w, v \in Writers, n \in Nodes : w # v => tx[w][n] = None \/ tx[v][n] = None

\* Every folder's parent is known to whoever knows the folder.
Known == ParentsKnown(rows) /\ \A w \in Writers : ParentsKnown(View(w))

\* Neither the committed folders nor those any session sees form a cycle.
NoCycles == NoCycle(rows) /\ \A w \in Writers : NoCycle(View(w))

\* Only the session with the advisory lock puts a known folder below another.
OnlyMoverMoves == \A w \in Writers : w # mover => Tame(rows, tx[w])

StoreInv ==
  /\ rows \in Table
  /\ tx \in [Writers -> Table]
  /\ mover \in Writers \union {None}
  /\ RowLocks
  /\ Known
  /\ NoCycles
  /\ OnlyMoverMoves

\* The arguments of the operation w is in the middle of.
Args(w) ==
  /\ pc[w] # "open" => target[w] \in Nodes /\ View(w)[target[w]] # None
  /\ pc[w] \in {"lock", "cycle"} => target[w] \in Folders /\ dest[w] \in Folders
  /\ pc[w] = "move" =>
       dest[w] \in Folders \union {Top} /\ (target[w] \in Docs => dest[w] # Top)
  /\ pc[w] \in {"lock", "cycle", "move"} =>
       dest[w] # target[w] /\ (dest[w] # Top => View(w)[dest[w]] # None)
  /\ \A m \in cascade[w] : View(w)[m] # None

\* A folder about to be moved below another: w has the lock, and the cycle
\* check holds in what w sees now, not just in what it saw when it checked.
Checked(w) ==
  /\ pc[w] = "cycle" => mover = w
  /\ pc[w] = "move" /\ target[w] \in Folders /\ dest[w] # Top =>
       mover = w /\ dest[w] \notin Below(View(w), target[w])

OpTypes ==
  /\ pc \in [Writers -> Steps]
  /\ target \in [Writers -> Nodes \union {None}]
  /\ dest \in [Writers -> Folders \union {Top, None}]
  /\ listed \in [Writers -> SUBSET Nodes]
  /\ cascade \in [Writers -> SUBSET Nodes]
  /\ touched \in [Writers -> SUBSET Nodes]
  /\ ops \in [Writers -> 0..MaxOps]
  /\ raced \in BOOLEAN

IInv ==
  /\ StoreInv
  /\ OpTypes
  /\ \A w \in Writers : Args(w) /\ Checked(w)

\* A table without rows has no cycle.
LEMMA NothingIsFine ==
  /\ Nothing \in Table
  /\ ParentsKnown(Nothing)
  /\ NoCycle(Nothing)
  /\ \A t \in Table : Overlay(t, Nothing) = t
<1>1. Nothing \in Table
  BY DEF Nothing, Table, MaybeRow, Nodes
<1>2. ParentsKnown(Nothing)
  BY DEF ParentsKnown, Nothing, Nodes
<1>3. NoCycle(Nothing)
  BY DEF NoCycle, Nothing, Nodes
<1>4. ASSUME NEW t \in Table
      PROVE  Overlay(t, Nothing) = t
  BY DEF Overlay, Nothing, Table
<1> QED
  BY <1>1, <1>2, <1>3, <1>4

\* The invariant holds at the start.
LEMMA InitInv == Init => IInv
<1> SUFFICES ASSUME Init PROVE IInv
  OBVIOUS
<1>1. \A w \in Writers : tx[w] = Nothing /\ View(w) = Nothing
  BY NothingIsFine DEF Init, View
<1>2. RowLocks
  BY <1>1 DEF RowLocks, Nothing
<1>3. Known /\ NoCycles
  BY <1>1, NothingIsFine DEF Known, NoCycles, Init
<1>4. OnlyMoverMoves
  BY <1>1 DEF OnlyMoverMoves, Tame, Init, Nothing, Nodes
<1>5. StoreInv
  BY <1>2, <1>3, <1>4, NothingIsFine DEF StoreInv, Init
<1>6. OpTypes
  <2>1. pc \in [Writers -> Steps] /\ raced \in BOOLEAN
    BY DEF Init, Steps
  <2>2. ops \in [Writers -> 0..MaxOps]
    BY DEF Init
  <2>3. target \in [Writers -> Nodes \union {None}] /\ dest \in [Writers -> Folders \union {Top, None}]
    BY DEF Init
  <2>4. listed \in [Writers -> SUBSET Nodes] /\ cascade \in [Writers -> SUBSET Nodes]
    BY DEF Init
  <2>5. touched \in [Writers -> SUBSET Nodes]
    BY DEF Init
  <2> QED
    BY <2>1, <2>2, <2>3, <2>4, <2>5 DEF OpTypes
<1>7. \A w \in Writers : Args(w) /\ Checked(w)
  BY DEF Args, Checked, Init
<1> QED
  BY <1>5, <1>6, <1>7 DEF IInv

-----------------------------------------------------------------------------
\* What a session's own changes preserve.

\* Session w changes the rows in D, which no other session has locked.
LEMMA FlushKeepsStore ==
  ASSUME StoreInv, NEW w \in Writers, NEW D \in SUBSET Nodes,
         \A n \in D : Unlocked(w, n),
         tx' \in [Writers -> Table], rows' = rows, mover' = mover,
         \A v \in Writers \ {w} : tx'[v] = tx[v],
         \A n \in Nodes \ D : tx'[w][n] = tx[w][n],
         ParentsKnown(View(w)'), NoCycle(View(w)'),
         w # mover => Tame(rows, tx'[w])
  PROVE  StoreInv' /\ \A v \in Writers \ {w} : View(v)' = View(v)
<1> USE DEF StoreInv
<1>1. \A v \in Writers \ {w} : View(v)' = View(v)
  BY DEF View
<1>2. RowLocks'
  BY DEF RowLocks, Unlocked
<1>3. Known' /\ NoCycles'
  BY <1>1 DEF Known, NoCycles
<1>4. OnlyMoverMoves'
  BY DEF OnlyMoverMoves
<1> QED
  BY <1>1, <1>2, <1>3, <1>4

\* One row written: what w sees is what it saw, with that row in it.
LEMMA WriteRow ==
  ASSUME StoreInv, NEW w \in Writers, NEW n \in Nodes, NEW r \in Row,
         n \in Docs => r.parent # Top,
         tx' = [tx EXCEPT ![w][n] = r], rows' = rows
  PROVE  /\ tx' \in [Writers -> Table]
         /\ \A v \in Writers \ {w} : tx'[v] = tx[v]
         /\ tx'[w][n] = r
         /\ \A m \in Nodes \ {n} : tx'[w][m] = tx[w][m]
         /\ View(w)' \in Table
         /\ View(w)'[n] = r
         /\ \A m \in Nodes \ {n} : View(w)'[m] = View(w)[m]
<1> DEFINE c == [tx[w] EXCEPT ![n] = r]
<1>1. tx \in [Writers -> Table] /\ rows \in Table
  BY DEF StoreInv
<1>2. tx[w] \in Table /\ tx[w] \in [Nodes -> MaybeRow]
  BY <1>1 DEF Table
<1>3. c \in Table
  <2>1. c \in [Nodes -> MaybeRow]
    BY <1>2 DEF MaybeRow
  <2>2. \A m \in Docs : c[m] # None => c[m].parent # Top
    BY <1>2 DEF Table, Nodes
  <2> QED
    BY <2>1, <2>2 DEF Table
<1>4. tx' = [tx EXCEPT ![w] = c]
  OBVIOUS
<1>5. c[n] = r /\ \A m \in Nodes \ {n} : c[m] = tx[w][m]
  BY <1>2
<1> HIDE DEF c
<1>6. tx'[w] = c /\ tx' \in [Writers -> Table] /\ \A v \in Writers \ {w} : tx'[v] = tx[v]
  BY <1>1, <1>3, <1>4
<1>7. View(w)' = Overlay(rows, c)
  BY <1>6 DEF View
<1>8. View(w)' \in Table
  BY <1>1, <1>3, <1>7, OverlayType
<1>9. View(w)'[n] = r /\ \A m \in Nodes \ {n} : View(w)'[m] = View(w)[m]
  BY <1>5, <1>7 DEF Overlay, View
<1> QED
  BY <1>5, <1>6, <1>8, <1>9

\* What a session sees is a table.
LEMMA ViewType ==
  ASSUME StoreInv, NEW w \in Writers
  PROVE  View(w) \in Table
BY OverlayType DEF StoreInv, View

\* What a session is doing is not disturbed while it sees the same rows.
LEMMA OthersUndisturbed ==
  ASSUME NEW v \in Writers, Args(v), Checked(v), View(v)' = View(v),
         pc'[v] = pc[v], target'[v] = target[v], dest'[v] = dest[v],
         cascade'[v] = cascade[v], mover = v => mover' = v
  PROVE  Args(v)' /\ Checked(v)'
BY DEF Args, Checked

-----------------------------------------------------------------------------
\* Each operation keeps the invariant.  `raced` is left to the whole step.

OpTypesButRaced ==
  /\ pc \in [Writers -> Steps]
  /\ target \in [Writers -> Nodes \union {None}]
  /\ dest \in [Writers -> Folders \union {Top, None}]
  /\ listed \in [Writers -> SUBSET Nodes]
  /\ cascade \in [Writers -> SUBSET Nodes]
  /\ touched \in [Writers -> SUBSET Nodes]
  /\ ops \in [Writers -> 0..MaxOps]

StepInv == StoreInv /\ OpTypesButRaced /\ \A w \in Writers : Args(w) /\ Checked(w)

\* Nothing that the invariant looks at but the operation of w changes.
LEMMA ReadStep ==
  ASSUME StoreInv, \A v \in Writers : Args(v) /\ Checked(v), NEW w \in Writers,
         UNCHANGED <<rows, tx>>, mover' \in Writers \union {None},
         mover \in {None, w} \/ mover' = mover, mover' \in {mover, w},
         \A v \in Writers \ {w} : /\ pc'[v] = pc[v] /\ target'[v] = target[v]
                                   /\ dest'[v] = dest[v] /\ cascade'[v] = cascade[v],
         Args(w)', Checked(w)'
  PROVE  StoreInv' /\ \A v \in Writers : Args(v)' /\ Checked(v)'
<1>1. \A v \in Writers : View(v)' = View(v)
  BY DEF View
<1>2. OnlyMoverMoves'
  <2> SUFFICES ASSUME NEW v \in Writers, v # mover'
               PROVE  Tame(rows, tx[v])
    BY DEF OnlyMoverMoves
  <2>1. CASE v # mover
    BY <2>1 DEF StoreInv, OnlyMoverMoves
  <2>2. CASE v = mover
    BY <2>2
  <2> QED
    BY <2>1, <2>2
<1>3. StoreInv'
  BY <1>1, <1>2 DEF StoreInv, RowLocks, Known, NoCycles
<1>4. ASSUME NEW v \in Writers \ {w}
      PROVE  Args(v)' /\ Checked(v)'
  BY <1>1, OthersUndisturbed
<1> QED
  BY <1>3, <1>4

\* A session begins an operation.
LEMMA BeginType ==
  ASSUME OpTypesButRaced, NEW w \in Writers, Begin(w)
  PROVE  pc[w] = "open" /\ ops' \in [Writers -> 0..MaxOps]
BY DEF Begin, OpTypesButRaced

\* A parent that may hold n is known, and is a parent n may have.
LEMMA MayHoldMeans ==
  ASSUME NEW w \in Writers, NEW n \in Nodes, NEW p \in Folders \union {Top}, MayHold(w, p, n)
  PROVE  /\ n \in Docs => p # Top
         /\ p # Top => View(w)[p] # None
BY DEF MayHold, Active

\* create_file, create_folder.
LEMMA CreateStep ==
  ASSUME StepInv, NEW w \in Writers, NEW n \in Nodes, NEW p \in Folders \union {Top},
         CreateNode(w, n, p)
  PROVE  StepInv'
<1> DEFINE r == [parent |-> p, active |-> TRUE]
<1> USE DEF StepInv
<1>1. /\ pc[w] = "open" /\ View(w)[n] = None /\ Unlocked(w, n) /\ MayHold(w, p, n)
      /\ tx' = [tx EXCEPT ![w][n] = r] /\ rows' = rows /\ mover' = mover
      /\ pc' = pc /\ target' = target /\ dest' = dest
      /\ listed' = listed /\ cascade' = cascade
      /\ touched' = [touched EXCEPT ![w] = @ \union {n}]
  BY DEF CreateNode, Begin, op
<1>2. r \in Row /\ r # None /\ r.parent = p
  <2>1. r \in Row /\ r.parent = p
    BY DEF Row
  <2> QED
    BY <2>1
<1> HIDE DEF r
<1>3. (n \in Docs => p # Top) /\ (p # Top => View(w)[p] # None)
  BY <1>1, MayHoldMeans
<1>4. /\ tx' \in [Writers -> Table]
      /\ \A v \in Writers \ {w} : tx'[v] = tx[v]
      /\ tx'[w][n] = r
      /\ \A m \in Nodes \ {n} : tx'[w][m] = tx[w][m]
      /\ View(w)' \in Table
      /\ View(w)'[n] = r
      /\ \A m \in Nodes \ {n} : View(w)'[m] = View(w)[m]
  BY <1>1, <1>2, <1>3, WriteRow
<1>5. View(w) \in Table /\ ParentsKnown(View(w)) /\ NoCycle(View(w))
  BY ViewType DEF StoreInv, Known, NoCycles
<1>6. ParentsKnown(View(w)')
  <2> SUFFICES ASSUME NEW m \in Folders, View(w)'[m] # None, View(w)'[m].parent # Top
               PROVE  View(w)'[View(w)'[m].parent] # None
    BY DEF ParentsKnown
  <2>1. CASE m = n
    BY <1>2, <1>3, <1>4, <2>1 DEF Nodes
  <2>2. CASE m # n
    <3>1. View(w)[m] # None /\ View(w)[m].parent = View(w)'[m].parent
      BY <1>4, <2>2 DEF Nodes
    <3>2. View(w)[m].parent \in Folders
      BY <1>5, <3>1 DEF Table, MaybeRow, Row, Nodes
    <3> QED
      BY <1>2, <1>4, <1>5, <3>1, <3>2 DEF ParentsKnown, Nodes
  <2> QED
    BY <2>1, <2>2
<1>7. NoCycle(View(w)')
  <2>1. p # n
    BY <1>1, <1>3
  <2>2. View(w)'[n] # None /\ View(w)'[n].parent # n
    BY <1>2, <1>4, <2>1
  <2>3. \A m \in Folders \ {n} : View(w)'[m] = View(w)[m]
    BY <1>4 DEF Nodes
  <2> DEFINE t == View(w)
             u == View(w)'
  <2>4. t \in Table /\ u \in Table /\ NoCycle(t) /\ ParentsKnown(t) /\ t[n] = None
    BY <1>1, <1>4, <1>5
  <2>5. u[n] # None /\ u[n].parent # n /\ \A m \in Folders \ {n} : u[m] = t[m]
    BY <2>2, <2>3
  <2> HIDE DEF t, u
  <2>6. NoCycle(u)
    BY <2>4, <2>5, CreateKeepsNoCycle
  <2> QED
    BY <2>6 DEF u
<1>8. w # mover => Tame(rows, tx'[w])
  <2>1. rows[n] = None
    BY <1>1 DEF View, Overlay
  <2> QED
    BY <1>4, <2>1 DEF Tame, StoreInv, OnlyMoverMoves, Nodes
<1>9. StoreInv' /\ \A v \in Writers \ {w} : View(v)' = View(v)
  <2> DEFINE D == {n}
  <2>1. D \in SUBSET Nodes /\ \A m \in D : Unlocked(w, m)
    BY <1>1
  <2>2. \A m \in Nodes \ D : tx'[w][m] = tx[w][m]
    BY <1>4
  <2> HIDE DEF D
  <2> QED
    BY <1>1, <1>4, <1>6, <1>7, <1>8, <2>1, <2>2, FlushKeepsStore
<1>10. \A v \in Writers \ {w} : Args(v)' /\ Checked(v)'
  BY <1>1, <1>9, OthersUndisturbed
<1>11. Args(w)' /\ Checked(w)'
  <2>1. \A m \in Nodes : View(w)[m] # None => View(w)'[m] # None
    BY <1>2, <1>4
  <2>2. \A m \in cascade[w] : View(w)'[m] # None
    BY <2>1 DEF Args, OpTypesButRaced
  <2> QED
    BY <1>1, <2>2 DEF Args, Checked
<1>12. OpTypesButRaced'
  <2>1. ops' \in [Writers -> 0..MaxOps]
    BY BeginType DEF CreateNode
  <2>2. touched' \in [Writers -> SUBSET Nodes]
    BY <1>1 DEF OpTypesButRaced
  <2> QED
    BY <1>1, <2>1, <2>2 DEF OpTypesButRaced
<1> QED
  BY <1>9, <1>10, <1>11, <1>12

\* move_node, up to the UPDATE.
LEMMA CheckMoveStep ==
  ASSUME StepInv, NEW w \in Writers, NEW n \in Nodes, NEW p \in Folders \union {Top},
         CheckMove(w, n, p)
  PROVE  StepInv'
<1> USE DEF StepInv
<1>1. /\ View(w)[n] # None /\ p # n /\ MayHold(w, p, n)
      /\ rows' = rows /\ tx' = tx /\ mover' = mover
      /\ target' = [target EXCEPT ![w] = n] /\ dest' = [dest EXCEPT ![w] = p]
      /\ pc' = [pc EXCEPT ![w] = IF n \in Folders /\ p # Top THEN "lock" ELSE "move"]
      /\ listed' = listed /\ cascade' = cascade /\ touched' = touched
  BY DEF CheckMove
<1>2. (n \in Docs => p # Top) /\ (p # Top => View(w)[p] # None)
  BY <1>1, MayHoldMeans
<1>3. OpTypesButRaced'
  <2>1. ops' \in [Writers -> 0..MaxOps]
    BY BeginType DEF CheckMove
  <2>2. pc' \in [Writers -> Steps]
    BY <1>1 DEF OpTypesButRaced, Steps
  <2>3. target' \in [Writers -> Nodes \union {None}] /\ dest' \in [Writers -> Folders \union {Top, None}]
    BY <1>1 DEF OpTypesButRaced
  <2> QED
    BY <1>1, <2>1, <2>2, <2>3 DEF OpTypesButRaced
<1>4. /\ target'[w] = n /\ dest'[w] = p
      /\ pc'[w] = IF n \in Folders /\ p # Top THEN "lock" ELSE "move"
      /\ \A v \in Writers \ {w} : pc'[v] = pc[v] /\ target'[v] = target[v] /\ dest'[v] = dest[v]
  BY <1>1 DEF OpTypesButRaced
<1>5. View(w)' = View(w)
  BY <1>1 DEF View
<1>6. Args(w)'
  BY <1>1, <1>2, <1>4, <1>5 DEF Args, Nodes
<1>7. Checked(w)'
  BY <1>4 DEF Checked
<1> QED
  BY <1>1, <1>3, <1>4, <1>6, <1>7, ReadStep DEF StoreInv

\* The lock is granted: no other session is between its check and its UPDATE.
LEMMA LockMovesStep ==
  ASSUME StepInv, NEW w \in Writers, LockMoves(w)
  PROVE  StepInv'
<1> USE DEF StepInv
<1>1. /\ pc[w] = "lock" /\ mover \in {None, w} /\ mover' = w
      /\ pc' = [pc EXCEPT ![w] = "cycle"]
      /\ rows' = rows /\ tx' = tx /\ target' = target /\ dest' = dest
      /\ listed' = listed /\ cascade' = cascade /\ touched' = touched /\ ops' = ops
  BY DEF LockMoves
<1>2. OpTypesButRaced'
  BY <1>1 DEF OpTypesButRaced, Steps
<1>3. pc'[w] = "cycle" /\ \A v \in Writers \ {w} : pc'[v] = pc[v]
  BY <1>1 DEF OpTypesButRaced
<1>4. View(w)' = View(w)
  BY <1>1 DEF View
<1>5. Args(w)' /\ Checked(w)'
  BY <1>1, <1>3, <1>4 DEF Args, Checked
<1> QED
  BY <1>1, <1>2, <1>3, <1>5, ReadStep DEF StoreInv

\* The check is passed under the lock.
LEMMA CheckCycleStep ==
  ASSUME StepInv, NEW w \in Writers, CheckCycle(w)
  PROVE  StepInv'
<1> USE DEF StepInv
<1>1. /\ pc[w] = "cycle" /\ dest[w] \notin Below(View(w), target[w])
      /\ pc' = [pc EXCEPT ![w] = "move"]
      /\ rows' = rows /\ tx' = tx /\ mover' = mover /\ target' = target /\ dest' = dest
      /\ listed' = listed /\ cascade' = cascade /\ touched' = touched /\ ops' = ops
  BY DEF CheckCycle
<1>2. OpTypesButRaced'
  BY <1>1 DEF OpTypesButRaced, Steps
<1>3. pc'[w] = "move" /\ \A v \in Writers \ {w} : pc'[v] = pc[v]
  BY <1>1 DEF OpTypesButRaced
<1>4. View(w)' = View(w)
  BY <1>1 DEF View
<1>5. Args(w)' /\ Checked(w)'
  BY <1>1, <1>3, <1>4 DEF Args, Checked, Nodes
<1> QED
  BY <1>1, <1>2, <1>3, <1>5, ReadStep DEF StoreInv

-----------------------------------------------------------------------------
\* The UPDATEs.

\* A session without the advisory lock that leaves parents as it saw them, or
\* takes folders to the top, stays tame.
LEMMA StaysTame ==
  ASSUME StoreInv, NEW w \in Writers, w # mover,
         \A m \in Folders : tx'[w][m] # None /\ rows[m] # None =>
           tx'[w][m] = tx[w][m] \/ tx'[w][m].parent \in {View(w)[m].parent, Top}
  PROVE  Tame(rows, tx'[w])
<1> SUFFICES ASSUME NEW m \in Folders, rows[m] # None, tx'[w][m] # None
             PROVE  tx'[w][m].parent \in {rows[m].parent, Top}
  BY DEF Tame
<1>1. tx[w][m] # None => tx[w][m].parent \in {rows[m].parent, Top}
  BY DEF StoreInv, OnlyMoverMoves, Tame
<1>2. View(w)[m].parent \in {rows[m].parent, Top}
  BY <1>1 DEF View, Overlay, Nodes
<1> QED
  BY <1>1, <1>2

\* Marking known, unlocked rows deleted or active again keeps the tables right.
LEMMA FlagsKeepStore ==
  ASSUME StoreInv, NEW w \in Writers, NEW D \in SUBSET Nodes,
         \A n \in D : Unlocked(w, n) /\ View(w)[n] # None,
         tx' \in [Writers -> Table], rows' = rows, mover' = mover,
         \A v \in Writers \ {w} : tx'[v] = tx[v],
         \A n \in Nodes \ D : tx'[w][n] = tx[w][n],
         \A n \in D : tx'[w][n] # None /\ tx'[w][n].parent = View(w)[n].parent
  PROVE  /\ StoreInv'
         /\ \A v \in Writers \ {w} : View(v)' = View(v)
         /\ \A m \in Nodes : View(w)[m] # None => View(w)'[m] # None
<1> DEFINE t == View(w)
           u == View(w)'
<1>1. \A m \in Nodes : u[m] # None <=> t[m] # None
  BY DEF View, Overlay
<1>2. \A m \in Nodes : t[m] # None => u[m].parent = t[m].parent
  BY DEF View, Overlay
<1>3. t \in Table /\ u \in Table /\ ParentsKnown(t) /\ NoCycle(t)
  <2>1. u = Overlay(rows, tx'[w]) /\ rows \in Table /\ tx'[w] \in Table
    BY DEF View, StoreInv
  <2> QED
    BY <2>1, OverlayType, ViewType DEF StoreInv, Known, NoCycles
<1>4. w # mover => Tame(rows, tx'[w])
  <2>1. \A m \in Folders : tx'[w][m] = tx[w][m] \/ tx'[w][m].parent \in {View(w)[m].parent, Top}
    BY DEF Nodes
  <2> QED
    BY <2>1, StaysTame
<1> HIDE DEF t, u
<1>5. ParentsKnown(u)
  <2> SUFFICES ASSUME NEW m \in Folders, u[m] # None, u[m].parent # Top
               PROVE  u[u[m].parent] # None
    BY DEF ParentsKnown
  <2>1. m \in Nodes /\ t[m] # None /\ t[m].parent = u[m].parent
    BY <1>1, <1>2 DEF Nodes
  <2>2. t[m].parent \in Nodes
    BY <1>3, <2>1 DEF Table, MaybeRow, Row, Nodes
  <2> QED
    BY <1>1, <1>3, <2>1, <2>2 DEF ParentsKnown
<1>6. NoCycle(u)
  <2>1. \A m \in Folders : u[m] # None => t[m] # None
    BY <1>1 DEF Nodes
  <2>2. Tame(t, u)
    BY <1>2 DEF Tame, Nodes
  <2> QED
    BY <1>3, <2>1, <2>2, TameKeepsNoCycle
<1>7. ParentsKnown(View(w)') /\ NoCycle(View(w)')
  BY <1>5, <1>6 DEF u
<1>8. StoreInv' /\ \A v \in Writers \ {w} : View(v)' = View(v)
  BY <1>4, <1>7, FlushKeepsStore
<1> QED
  BY <1>1, <1>8 DEF t, u

\* An operation is over: its session is open again, the others as before.
LEMMA DoneMeans ==
  ASSUME OpTypesButRaced, NEW w \in Writers, Done(w)
  PROVE  /\ pc'[w] = "open" /\ cascade'[w] = {}
         /\ \A v \in Writers \ {w} : /\ pc'[v] = pc[v] /\ target'[v] = target[v]
                                   /\ dest'[v] = dest[v] /\ cascade'[v] = cascade[v]
         /\ pc' \in [Writers -> Steps]
         /\ target' \in [Writers -> Nodes \union {None}]
         /\ dest' \in [Writers -> Folders \union {Top, None}]
         /\ listed' \in [Writers -> SUBSET Nodes]
         /\ cascade' \in [Writers -> SUBSET Nodes]
<1> USE DEF Done, OpTypesButRaced
<1>1. pc' \in [Writers -> Steps] /\ pc'[w] = "open" /\ \A v \in Writers \ {w} : pc'[v] = pc[v]
  BY DEF Steps
<1>2. /\ target' \in [Writers -> Nodes \union {None}]
      /\ \A v \in Writers \ {w} : target'[v] = target[v]
  OBVIOUS
<1>3. /\ dest' \in [Writers -> Folders \union {Top, None}]
      /\ \A v \in Writers \ {w} : dest'[v] = dest[v]
  OBVIOUS
<1>4. listed' \in [Writers -> SUBSET Nodes]
  OBVIOUS
<1>5. /\ cascade' \in [Writers -> SUBSET Nodes] /\ cascade'[w] = {}
      /\ \A v \in Writers \ {w} : cascade'[v] = cascade[v]
  OBVIOUS
<1> QED
  BY <1>1, <1>2, <1>3, <1>4, <1>5

\* A session with no operation under way has nothing to be disturbed.
LEMMA IdleIsFine ==
  ASSUME NEW w \in Writers, pc'[w] = "open", cascade'[w] = {}
  PROVE  Args(w)' /\ Checked(w)'
BY DEF Args, Checked

\* The end of every operation that flushed: the tables are right, and other
\* sessions see what they saw.
LEMMA FlushStep ==
  ASSUME StepInv, NEW w \in Writers, Done(w), StoreInv', mover' = mover,
         \A v \in Writers \ {w} : View(v)' = View(v),
         touched' \in [Writers -> SUBSET Nodes], ops' = ops
  PROVE  StepInv'
<1> USE DEF StepInv
<1>1. OpTypesButRaced'
  BY DoneMeans DEF OpTypesButRaced
<1>2. Args(w)' /\ Checked(w)'
  BY DoneMeans, IdleIsFine
<1>3. ASSUME NEW v \in Writers \ {w}
      PROVE  Args(v)' /\ Checked(v)'
  BY DoneMeans, OthersUndisturbed
<1> QED
  BY <1>1, <1>2, <1>3

\* The UPDATE of a move that was checked.
LEMMA MoveNodeStep ==
  ASSUME StepInv, NEW w \in Writers, MoveNode(w)
  PROVE  StepInv'
<1> DEFINE n == target[w]
           p == dest[w]
           r == [View(w)[n] EXCEPT !.parent = p]
           t == View(w)
           u == View(w)'
<1> USE DEF StepInv
<1>1. /\ pc[w] = "move" /\ Unlocked(w, n)
      /\ tx' = [tx EXCEPT ![w][n] = r] /\ Done(w)
      /\ rows' = rows /\ mover' = mover /\ touched' = touched /\ ops' = ops
  BY DEF MoveNode
<1>2. /\ n \in Nodes /\ t[n] # None /\ p \in Folders \union {Top} /\ p # n
      /\ n \in Docs => p # Top
      /\ p # Top => t[p] # None
      /\ n \in Folders /\ p # Top => mover = w /\ p \notin Below(t, n)
  BY <1>1 DEF Args, Checked
<1>3. t \in Table /\ ParentsKnown(t) /\ NoCycle(t)
  BY ViewType DEF StoreInv, Known, NoCycles
<1>4. r \in Row /\ r # None /\ r.parent = p
  <2>1. t[n] \in Row
    BY <1>2, <1>3 DEF Table, MaybeRow
  <2>2. r \in Row /\ r.parent = p
    BY <1>2, <2>1 DEF Row
  <2> QED
    BY <2>2
<1>5. /\ tx' \in [Writers -> Table]
      /\ \A v \in Writers \ {w} : tx'[v] = tx[v]
      /\ tx'[w][n] = r
      /\ \A m \in Nodes \ {n} : tx'[w][m] = tx[w][m]
      /\ u \in Table
      /\ u[n] = r
      /\ \A m \in Nodes \ {n} : u[m] = t[m]
  <2>1. StoreInv /\ n \in Nodes /\ r \in Row /\ (n \in Docs => r.parent # Top)
    BY <1>2, <1>4
  <2>2. tx' = [tx EXCEPT ![w][n] = r] /\ rows' = rows
    BY <1>1
  <2> HIDE DEF n, p, r
  <2> QED
    BY <2>1, <2>2, WriteRow DEF t, u
<1>6. w # mover => Tame(rows, tx'[w])
  <2>1. ASSUME w # mover, NEW m \in Folders, tx'[w][m] # None
        PROVE  tx'[w][m] = tx[w][m] \/ tx'[w][m].parent \in {View(w)[m].parent, Top}
    BY <1>2, <1>4, <1>5, <2>1 DEF Nodes
  <2> QED
    BY <2>1, StaysTame
<1> HIDE DEF n, p, r, t, u
<1>7. ParentsKnown(u)
  <2> SUFFICES ASSUME NEW m \in Folders, u[m] # None, u[m].parent # Top
               PROVE  u[u[m].parent] # None
    BY DEF ParentsKnown
  <2>0. \A q \in Nodes : t[q] # None => u[q] # None
    BY <1>4, <1>5
  <2>1. CASE m = n
    BY <1>2, <1>4, <1>5, <2>0, <2>1 DEF Nodes
  <2>2. CASE m # n
    <3>1. t[m] # None /\ t[m].parent = u[m].parent
      BY <1>5, <2>2 DEF Nodes
    <3>2. t[m].parent \in Nodes
      BY <1>3, <3>1 DEF Table, MaybeRow, Row, Nodes
    <3> QED
      BY <1>3, <2>0, <3>1, <3>2 DEF ParentsKnown
  <2> QED
    BY <2>1, <2>2
<1>8. NoCycle(u)
  <2>1. \A m \in Folders \ {n} : u[m] = t[m]
    BY <1>5 DEF Nodes
  <2>2. CASE n \in Folders /\ p # Top
    <3>1. p \in Folders
      BY <1>2, <2>2
    <3> QED
      BY <1>2, <1>3, <1>4, <1>5, <2>1, <2>2, <3>1, MoveKeepsNoCycle
  <2>3. CASE ~(n \in Folders /\ p # Top)
    <3>1. \A m \in Folders : u[m] # None => t[m] # None
      BY <1>2, <2>1
    <3>2. Tame(t, u)
      BY <1>4, <1>5, <2>1, <2>3 DEF Tame
    <3> QED
      BY <1>3, <1>5, <3>1, <3>2, TameKeepsNoCycle
  <2> QED
    BY <2>2, <2>3
<1>9. StoreInv' /\ \A v \in Writers \ {w} : View(v)' = View(v)
  <2> DEFINE D == {n}
  <2>1. D \in SUBSET Nodes /\ \A m \in D : Unlocked(w, m)
    BY <1>1, <1>2
  <2>2. \A m \in Nodes \ D : tx'[w][m] = tx[w][m]
    BY <1>5
  <2>3. ParentsKnown(View(w)') /\ NoCycle(View(w)')
    BY <1>7, <1>8 DEF u
  <2> HIDE DEF D
  <2> QED
    BY <1>1, <1>5, <1>6, <2>1, <2>2, <2>3, FlushKeepsStore
<1>10. touched' \in [Writers -> SUBSET Nodes]
  BY <1>1 DEF OpTypesButRaced
<1> QED
  BY <1>1, <1>9, <1>10, FlushStep

\* delete_node, up to the first UPDATE.
LEMMA CheckDeleteStep ==
  ASSUME StepInv, NEW w \in Writers, NEW n \in Nodes, CheckDelete(w, n)
  PROVE  StepInv'
<1> USE DEF StepInv
<1>1. /\ View(w)[n] # None
      /\ rows' = rows /\ tx' = tx /\ mover' = mover
      /\ target' = [target EXCEPT ![w] = n]
      /\ listed' = [listed EXCEPT ![w] = {n} \union ActiveDescendants(View(w), n)]
      /\ pc' = [pc EXCEPT ![w] = "delete"]
      /\ dest' = dest /\ cascade' = cascade /\ touched' = touched
  BY DEF CheckDelete
<1>2. OpTypesButRaced'
  <2>1. ops' \in [Writers -> 0..MaxOps]
    BY BeginType DEF CheckDelete
  <2>2. {n} \union ActiveDescendants(View(w), n) \in SUBSET Nodes
    BY DEF ActiveDescendants
  <2>3. listed' \in [Writers -> SUBSET Nodes] /\ target' \in [Writers -> Nodes \union {None}]
    BY <1>1, <2>2 DEF OpTypesButRaced
  <2>4. pc' \in [Writers -> Steps]
    BY <1>1 DEF OpTypesButRaced, Steps
  <2> QED
    BY <1>1, <2>1, <2>3, <2>4 DEF OpTypesButRaced
<1>3. /\ target'[w] = n /\ pc'[w] = "delete"
      /\ \A v \in Writers \ {w} : pc'[v] = pc[v] /\ target'[v] = target[v]
  BY <1>1 DEF OpTypesButRaced
<1>4. View(w)' = View(w)
  BY <1>1 DEF View
<1>5. Args(w)' /\ Checked(w)'
  BY <1>1, <1>3, <1>4 DEF Args, Checked
<1> QED
  BY <1>1, <1>2, <1>3, <1>5, ReadStep DEF StoreInv

\* restore_node, up to the UPDATE.
LEMMA CheckRestoreStep ==
  ASSUME StepInv, NEW w \in Writers, NEW n \in Nodes, CheckRestore(w, n)
  PROVE  StepInv'
<1> USE DEF StepInv
<1>1. /\ View(w)[n] # None
      /\ rows' = rows /\ tx' = tx /\ mover' = mover
      /\ target' = [target EXCEPT ![w] = n]
      /\ pc' = [pc EXCEPT ![w] = "restore"]
      /\ dest' = dest /\ listed' = listed /\ cascade' = cascade /\ touched' = touched
  BY DEF CheckRestore
<1>2. OpTypesButRaced'
  <2>1. ops' \in [Writers -> 0..MaxOps]
    BY BeginType DEF CheckRestore
  <2>2. target' \in [Writers -> Nodes \union {None}]
    BY <1>1 DEF OpTypesButRaced
  <2>3. pc' \in [Writers -> Steps]
    BY <1>1 DEF OpTypesButRaced, Steps
  <2> QED
    BY <1>1, <2>1, <2>2, <2>3 DEF OpTypesButRaced
<1>3. /\ target'[w] = n /\ pc'[w] = "restore"
      /\ \A v \in Writers \ {w} : pc'[v] = pc[v] /\ target'[v] = target[v]
  BY <1>1 DEF OpTypesButRaced
<1>4. View(w)' = View(w)
  BY <1>1 DEF View
<1>5. Args(w)' /\ Checked(w)'
  BY <1>1, <1>3, <1>4 DEF Args, Checked
<1> QED
  BY <1>1, <1>2, <1>3, <1>5, ReadStep DEF StoreInv

\* A row seen is a row, of a kind its node may have, whatever its flag becomes.
LEMMA FlagType ==
  ASSUME StoreInv, NEW w \in Writers, NEW n \in Nodes, View(w)[n] # None, NEW b \in BOOLEAN
  PROVE  /\ [View(w)[n] EXCEPT !.active = b] \in Row
         /\ [View(w)[n] EXCEPT !.active = b] # None
         /\ [View(w)[n] EXCEPT !.active = b].parent = View(w)[n].parent
         /\ n \in Docs => View(w)[n].parent # Top
<1>1. View(w) \in Table
  BY ViewType
<1>2. View(w)[n] \in Row /\ (n \in Docs => View(w)[n].parent # Top)
  BY <1>1 DEF Table, MaybeRow
<1>3. /\ [View(w)[n] EXCEPT !.active = b] \in Row
      /\ [View(w)[n] EXCEPT !.active = b].parent = View(w)[n].parent
  BY <1>2 DEF Row
<1> QED
  BY <1>2, <1>3

\* One known, unlocked row gets another flag.
LEMMA FlagOne ==
  ASSUME StoreInv, NEW w \in Writers, NEW n \in Nodes, NEW r \in Row,
         r.parent = View(w)[n].parent, n \in Docs => r.parent # Top,
         Unlocked(w, n), View(w)[n] # None, rows' = rows, mover' = mover,
         tx' = [tx EXCEPT ![w][n] = r]
  PROVE  /\ StoreInv'
         /\ \A v \in Writers \ {w} : View(v)' = View(v)
         /\ \A m \in Nodes : View(w)[m] # None => View(w)'[m] # None
<1>1. tx' \in [Writers -> Table] /\ \A v \in Writers \ {w} : tx'[v] = tx[v]
  BY WriteRow
<1>2. \A m \in Nodes \ {n} : tx'[w][m] = tx[w][m]
  BY WriteRow
<1>3. tx'[w][n] = r
  BY DEF StoreInv, Table
<1> DEFINE D == {n}
<1>4. D \in SUBSET Nodes /\ \A m \in D : Unlocked(w, m) /\ View(w)[m] # None
  OBVIOUS
<1>5. /\ \A m \in Nodes \ D : tx'[w][m] = tx[w][m]
      /\ \A m \in D : tx'[w][m] # None /\ tx'[w][m].parent = View(w)[m].parent
  BY <1>2, <1>3
<1> HIDE DEF D
<1> QED
  BY <1>1, <1>4, <1>5, FlagsKeepStore

\* update_node: the row is locked, and what w sees stays the same.
LEMMA UpdateNodeStep ==
  ASSUME StepInv, NEW w \in Writers, NEW n \in Nodes, UpdateNode(w, n)
  PROVE  StepInv'
<1> USE DEF StepInv
<1>1. /\ pc[w] = "open" /\ View(w)[n] # None /\ Unlocked(w, n)
      /\ tx' = [tx EXCEPT ![w][n] = View(w)[n]]
      /\ rows' = rows /\ mover' = mover
      /\ pc' = pc /\ target' = target /\ dest' = dest
      /\ listed' = listed /\ cascade' = cascade
      /\ touched' = [touched EXCEPT ![w] = @ \union {n}]
  BY DEF UpdateNode, Begin, op
<1>2. PICK r \in Row : r = View(w)[n] /\ (n \in Docs => r.parent # Top)
  BY <1>1, ViewType DEF Table, MaybeRow
<1>3. tx' = [tx EXCEPT ![w][n] = r]
  BY <1>1, <1>2
<1>4. /\ StoreInv'
      /\ \A v \in Writers \ {w} : View(v)' = View(v)
      /\ \A m \in Nodes : View(w)[m] # None => View(w)'[m] # None
  BY <1>1, <1>2, <1>3, FlagOne
<1>5. \A v \in Writers \ {w} : Args(v)' /\ Checked(v)'
  BY <1>1, <1>4, OthersUndisturbed
<1>6. Args(w)' /\ Checked(w)'
  <2>1. \A m \in cascade[w] : View(w)'[m] # None
    BY <1>4 DEF Args, OpTypesButRaced
  <2> QED
    BY <1>1, <2>1 DEF Args, Checked
<1>7. OpTypesButRaced'
  <2>1. ops' \in [Writers -> 0..MaxOps]
    BY BeginType DEF UpdateNode
  <2>2. touched' \in [Writers -> SUBSET Nodes]
    BY <1>1 DEF OpTypesButRaced
  <2> QED
    BY <1>1, <2>1, <2>2 DEF OpTypesButRaced
<1> QED
  BY <1>4, <1>5, <1>6, <1>7

\* restore_node of an active node: nothing but a note.
LEMMA RestoreActiveStep ==
  ASSUME StepInv, NEW w \in Writers, NEW n \in Nodes, RestoreActive(w, n)
  PROVE  StepInv'
<1> USE DEF StepInv
<1>1. /\ rows' = rows /\ tx' = tx /\ mover' = mover
      /\ pc' = pc /\ target' = target /\ dest' = dest
      /\ listed' = listed /\ cascade' = cascade
      /\ touched' = [touched EXCEPT ![w] = @ \union {n}]
  BY DEF RestoreActive, op
<1>2. OpTypesButRaced'
  <2>1. ops' \in [Writers -> 0..MaxOps]
    BY BeginType DEF RestoreActive
  <2>2. touched' \in [Writers -> SUBSET Nodes]
    BY <1>1 DEF OpTypesButRaced
  <2> QED
    BY <1>1, <2>1, <2>2 DEF OpTypesButRaced
<1>3. View(w)' = View(w)
  BY <1>1 DEF View
<1>4. Args(w)' /\ Checked(w)'
  BY <1>1, <1>3 DEF Args, Checked
<1> QED
  BY <1>1, <1>2, <1>4, ReadStep DEF StoreInv

\* The UPDATE of a restore.
LEMMA RestoreNodeStep ==
  ASSUME StepInv, NEW w \in Writers, RestoreNode(w)
  PROVE  StepInv'
<1> USE DEF StepInv
<1>1. /\ pc[w] = "restore" /\ Unlocked(w, target[w])
      /\ tx' = [tx EXCEPT ![w][target[w]] = [View(w)[target[w]] EXCEPT !.active = TRUE]]
      /\ touched' = [touched EXCEPT ![w] = @ \union {target[w]}]
      /\ Done(w) /\ rows' = rows /\ mover' = mover /\ ops' = ops
  BY DEF RestoreNode
<1>2. target[w] \in Nodes /\ View(w)[target[w]] # None
  BY <1>1 DEF Args
<1>3. StoreInv' /\ \A v \in Writers \ {w} : View(v)' = View(v)
  <2>1. PICK n \in Nodes : n = target[w]
    BY <1>2
  <2>2. PICK r \in Row : r = [View(w)[n] EXCEPT !.active = TRUE]
    BY <1>2, <2>1, FlagType
  <2>3. r.parent = View(w)[n].parent /\ (n \in Docs => r.parent # Top)
    BY <1>2, <2>1, <2>2, FlagType
  <2>4. tx' = [tx EXCEPT ![w][n] = r]
    BY <1>1, <2>1, <2>2
  <2> QED
    BY <1>1, <1>2, <2>1, <2>3, <2>4, FlagOne
<1>4. touched' \in [Writers -> SUBSET Nodes]
  BY <1>1, <1>2 DEF OpTypesButRaced
<1> QED
  BY <1>1, <1>3, <1>4, FlushStep

\* The UPDATE of the deleted node, and the list of what goes with it.
LEMMA DeleteNodeStep ==
  ASSUME StepInv, NEW w \in Writers, DeleteNode(w)
  PROVE  StepInv'
<1> DEFINE n == target[w]
           marked == [View(w) EXCEPT ![n].active = FALSE]
<1> USE DEF StepInv
<1>1. /\ pc[w] = "delete" /\ Unlocked(w, n)
      /\ tx' = [tx EXCEPT ![w][n] = marked[n]]
      /\ cascade' = [cascade EXCEPT ![w] = ActiveDescendants(marked, n)]
      /\ pc' = [pc EXCEPT ![w] = "cascade"]
      /\ rows' = rows /\ mover' = mover /\ target' = target /\ dest' = dest
      /\ listed' = listed /\ touched' = touched /\ ops' = ops
  BY DEF DeleteNode
<1>2. n \in Nodes /\ View(w)[n] # None
  BY <1>1 DEF Args
<1>3. View(w) \in [Nodes -> MaybeRow]
  BY ViewType DEF Table
<1>4. /\ marked[n] = [View(w)[n] EXCEPT !.active = FALSE]
      /\ \A m \in Nodes \ {n} : marked[m] = View(w)[m]
  BY <1>2, <1>3
<1>5. /\ StoreInv'
      /\ \A v \in Writers \ {w} : View(v)' = View(v)
      /\ \A m \in Nodes : View(w)[m] # None => View(w)'[m] # None
  <2>1. PICK m \in Nodes : m = n
    BY <1>2
  <2>2. PICK r \in Row : r = [View(w)[m] EXCEPT !.active = FALSE]
    BY <1>2, <2>1, FlagType
  <2>3. r.parent = View(w)[m].parent /\ (m \in Docs => r.parent # Top)
    BY <1>2, <2>1, <2>2, FlagType
  <2>4. tx' = [tx EXCEPT ![w][m] = r]
    BY <1>1, <1>4, <2>1, <2>2
  <2>5. Unlocked(w, m) /\ View(w)[m] # None /\ rows' = rows /\ mover' = mover
    BY <1>1, <1>2, <2>1
  <2> HIDE DEF n, marked
  <2> QED
    BY <2>3, <2>4, <2>5, FlagOne
<1> HIDE DEF marked
<1>6. \A m \in ActiveDescendants(marked, n) : m \in Nodes /\ View(w)[m] # None
  BY <1>2, <1>4 DEF ActiveDescendants, Active
<1>7. /\ pc'[w] = "cascade" /\ pc' \in [Writers -> Steps]
      /\ cascade'[w] = ActiveDescendants(marked, n) /\ cascade' \in [Writers -> SUBSET Nodes]
      /\ \A v \in Writers \ {w} : pc'[v] = pc[v] /\ cascade'[v] = cascade[v]
  BY <1>1, <1>6 DEF OpTypesButRaced, Steps
<1>8. OpTypesButRaced'
  BY <1>1, <1>7 DEF OpTypesButRaced
<1>9. Args(w)' /\ Checked(w)'
  BY <1>1, <1>2, <1>5, <1>6, <1>7 DEF Args, Checked
<1>10. ASSUME NEW v \in Writers \ {w}
       PROVE  Args(v)' /\ Checked(v)'
  BY <1>1, <1>5, <1>7, OthersUndisturbed
<1> QED
  BY <1>5, <1>8, <1>9, <1>10

\* The UPDATE of everything below the deleted node.
LEMMA DeleteCascadeStep ==
  ASSUME StepInv, NEW w \in Writers, DeleteCascade(w)
  PROVE  StepInv'
<1> DEFINE D == cascade[w]
           c == [m \in Nodes |-> IF m \in D THEN [View(w)[m] EXCEPT !.active = FALSE]
                                            ELSE tx[w][m]]
<1> USE DEF StepInv
<1>1. /\ \A m \in D : Unlocked(w, m)
      /\ tx' = [tx EXCEPT ![w] = c]
      /\ touched' = [touched EXCEPT ![w] = @ \union listed[w]]
      /\ Done(w) /\ rows' = rows /\ mover' = mover /\ ops' = ops
  BY DEF DeleteCascade
<1>2. D \in SUBSET Nodes /\ \A m \in D : View(w)[m] # None
  BY DEF Args, OpTypesButRaced
<1>3. \A m \in D : c[m] \in Row /\ c[m] # None /\ c[m].parent = View(w)[m].parent
                   /\ (m \in Docs => c[m].parent # Top)
  BY <1>2, FlagType
<1>4. tx[w] \in Table /\ tx \in [Writers -> Table]
  BY DEF StoreInv
<1>5. c \in Table
  <2>1. c \in [Nodes -> MaybeRow]
    BY <1>3, <1>4 DEF Table, MaybeRow
  <2>2. \A m \in Docs : c[m] # None => c[m].parent # Top
    BY <1>3, <1>4 DEF Table, Nodes
  <2> QED
    BY <2>1, <2>2 DEF Table
<1>6. \A m \in Nodes \ D : c[m] = tx[w][m]
  OBVIOUS
<1> HIDE DEF c, D
<1>7. tx' \in [Writers -> Table] /\ tx'[w] = c /\ \A v \in Writers \ {w} : tx'[v] = tx[v]
  BY <1>1, <1>4, <1>5
<1>8. StoreInv' /\ \A v \in Writers \ {w} : View(v)' = View(v)
  BY <1>1, <1>2, <1>3, <1>6, <1>7, FlagsKeepStore
<1>9. touched' \in [Writers -> SUBSET Nodes]
  BY <1>1 DEF OpTypesButRaced
<1> QED
  BY <1>1, <1>8, <1>9, FlushStep

-----------------------------------------------------------------------------
\* The end of a transaction.

\* The advisory lock, the row locks and the notes of w are gone.
LEMMA ReleaseMeans ==
  ASSUME StepInv, NEW w \in Writers, Release(w)
  PROVE  /\ tx' \in [Writers -> Table] /\ tx'[w] = Nothing
         /\ \A v \in Writers \ {w} : tx'[v] = tx[v]
         /\ mover' \in Writers \union {None} /\ mover' # w
         /\ \A v \in Writers \ {w} : mover' = v <=> mover = v
         /\ touched' \in [Writers -> SUBSET Nodes]
         /\ ops' \in [Writers -> 0..MaxOps]
<1> USE DEF Release, StepInv, StoreInv, OpTypesButRaced
<1>1. /\ tx' \in [Writers -> Table] /\ tx'[w] = Nothing
      /\ \A v \in Writers \ {w} : tx'[v] = tx[v]
  BY NothingIsFine
<1>2. /\ mover' \in Writers \union {None} /\ mover' # w
      /\ \A v \in Writers \ {w} : mover' = v <=> mover = v
  OBVIOUS
<1>3. touched' \in [Writers -> SUBSET Nodes]
  OBVIOUS
<1>4. ops' \in [Writers -> 0..MaxOps]
  OBVIOUS
<1> QED
  BY <1>1, <1>2, <1>3, <1>4

\* Any error, at any point of an operation.
LEMMA RollbackStep ==
  ASSUME StepInv, NEW w \in Writers, Rollback(w)
  PROVE  StepInv'
<1> USE DEF StepInv
<1>1. Release(w) /\ Done(w) /\ rows' = rows
  BY DEF Rollback
<1>2. /\ tx' \in [Writers -> Table] /\ tx'[w] = Nothing
      /\ \A v \in Writers \ {w} : tx'[v] = tx[v]
      /\ mover' \in Writers \union {None}
      /\ \A v \in Writers \ {w} : mover' = v <=> mover = v
  BY <1>1, ReleaseMeans
<1>3. OpTypesButRaced'
  BY <1>1, ReleaseMeans, DoneMeans DEF OpTypesButRaced
<1>4. View(w)' = rows /\ \A v \in Writers \ {w} : View(v)' = View(v)
  BY <1>1, <1>2, NothingIsFine DEF View, StoreInv
<1>5. RowLocks'
  BY <1>2 DEF RowLocks, StoreInv, Nothing
<1>6. Known' /\ NoCycles'
  BY <1>1, <1>4 DEF Known, NoCycles, StoreInv
<1>7. OnlyMoverMoves'
  <2> SUFFICES ASSUME NEW v \in Writers, v # mover'
               PROVE  Tame(rows, tx'[v])
    BY <1>1 DEF OnlyMoverMoves
  <2>1. CASE v = w
    BY <1>2, <2>1 DEF Tame, Nothing, Nodes
  <2>2. CASE v # w
    BY <1>2, <2>2 DEF OnlyMoverMoves, StoreInv
  <2> QED
    BY <2>1, <2>2
<1>8. StoreInv'
  BY <1>1, <1>2, <1>5, <1>6, <1>7 DEF StoreInv
<1>9. ASSUME NEW v \in Writers \ {w}
      PROVE  Args(v)' /\ Checked(v)'
  BY <1>1, <1>2, <1>4, DoneMeans, OthersUndisturbed
<1>10. Args(w)' /\ Checked(w)'
  BY <1>1, DoneMeans, IdleIsFine
<1> QED
  BY <1>3, <1>8, <1>9, <1>10

\* Sessions w and v have changed different rows: what v sees once w commits
\* is what either sees, with the other's changes.
LEMMA SeesBoth ==
  ASSUME StoreInv, NEW w \in Writers, NEW v \in Writers, w # v
  PROVE  /\ Overlay(View(w), tx[v]) = Overlay(View(v), tx[w])
         /\ w # mover => Tame(View(v), tx[w])
<1>1. \A n \in Nodes : tx[w][n] = None \/ tx[v][n] = None
  BY DEF StoreInv, RowLocks
<1>2. Overlay(View(w), tx[v]) = Overlay(View(v), tx[w])
  BY <1>1 DEF View, Overlay
<1>3. ASSUME w # mover
      PROVE  Tame(View(v), tx[w])
  <2> SUFFICES ASSUME NEW m \in Folders, View(v)[m] # None, tx[w][m] # None
               PROVE  tx[w][m].parent \in {View(v)[m].parent, Top}
    BY DEF Tame
  <2>1. View(v)[m] = rows[m]
    BY <1>1 DEF View, Overlay, Nodes
  <2> QED
    BY <1>3, <2>1 DEF StoreInv, OnlyMoverMoves, Tame
<1> QED
  BY <1>2, <1>3

\* COMMIT: every other session sees the changes of w at once.
LEMMA CommitStep ==
  ASSUME StepInv, NEW w \in Writers, Commit(w)
  PROVE  StepInv'
<1> USE DEF StepInv
<1>1. Release(w) /\ rows' = View(w) /\ pc[w] = "open"
      /\ pc' = pc /\ target' = target /\ dest' = dest /\ listed' = listed /\ cascade' = cascade
  BY DEF Commit, op
<1>2. /\ tx' \in [Writers -> Table] /\ tx'[w] = Nothing
      /\ \A v \in Writers \ {w} : tx'[v] = tx[v]
      /\ mover' \in Writers \union {None}
      /\ \A v \in Writers \ {w} : mover' = v <=> mover = v
  BY <1>1, ReleaseMeans
<1>3. OpTypesButRaced'
  BY <1>1, ReleaseMeans DEF OpTypesButRaced
<1>4. /\ rows \in Table /\ \A v \in Writers : View(v) \in Table /\ tx[v] \in Table
      /\ \A v \in Writers : ParentsKnown(View(v)) /\ NoCycle(View(v))
  BY ViewType DEF StoreInv, Known, NoCycles
<1>5. View(w)' = View(w)
  BY <1>1, <1>2, <1>4, NothingIsFine DEF View
<1>6. ASSUME NEW v \in Writers, v # w
      PROVE  /\ View(v)' = Overlay(View(v), tx[w])
             /\ View(v)' = Overlay(View(w), tx[v])
  BY <1>1, <1>2, <1>6, SeesBoth DEF View
<1>7. ASSUME NEW v \in Writers, v # w
      PROVE  \A m \in Nodes : View(v)[m] # None => View(v)'[m] # None
  BY <1>6, <1>7 DEF Overlay
<1>8. ASSUME NEW v \in Writers, v # w
      PROVE  ParentsKnown(View(v)')
  <2> DEFINE t == View(v)
             u == View(w)
             o == View(v)'
  <2>1. \A m \in Nodes : o[m] = t[m] \/ o[m] = u[m]
    BY <1>6, <1>8 DEF Overlay, View
  <2>2. \A m \in Nodes : t[m] # None \/ u[m] # None => o[m] # None
    BY <1>6, <1>8 DEF Overlay, View
  <2>3. t \in Table /\ u \in Table /\ ParentsKnown(t) /\ ParentsKnown(u)
    BY <1>4
  <2> HIDE DEF t, u, o
  <2>4. ParentsKnown(o)
    <3> SUFFICES ASSUME NEW m \in Folders, o[m] # None, o[m].parent # Top
                 PROVE  o[o[m].parent] # None
      BY DEF ParentsKnown
    <3>1. o[m].parent \in Nodes
      BY <2>1, <2>3 DEF Table, MaybeRow, Row, Nodes
    <3>2. t[o[m].parent] # None \/ u[o[m].parent] # None
      BY <2>1, <2>3 DEF ParentsKnown, Nodes
    <3> QED
      BY <2>2, <3>1, <3>2
  <2> QED
    BY <2>4 DEF o
<1>9. ASSUME NEW v \in Writers, v # w
      PROVE  NoCycle(View(v)')
  <2>1. CASE w # mover
    <3>1. Tame(View(v), tx[w])
      BY <1>9, <2>1, SeesBoth
    <3>2. NoCycle(Overlay(rows, tx[w]))
      BY <1>4 DEF View
    <3>3. NoCycle(Overlay(View(v), tx[w]))
      BY <1>4, <3>1, <3>2, MergeKeepsNoCycle
    <3> QED
      BY <1>6, <1>9, <3>3
  <2>2. CASE w = mover
    <3>1. Tame(View(w), tx[v])
      BY <1>9, <2>2, SeesBoth
    <3>2. NoCycle(Overlay(rows, tx[v]))
      BY <1>4 DEF View
    <3>3. NoCycle(Overlay(View(w), tx[v]))
      BY <1>4, <3>1, <3>2, MergeKeepsNoCycle
    <3> QED
      BY <1>6, <1>9, <3>3
  <2> QED
    BY <2>1, <2>2
<1>10. RowLocks'
  BY <1>2 DEF RowLocks, StoreInv, Nothing
<1>11. Known' /\ NoCycles'
  BY <1>1, <1>4, <1>5, <1>8, <1>9 DEF Known, NoCycles
<1>12. OnlyMoverMoves'
  <2> SUFFICES ASSUME NEW v \in Writers, v # mover'
               PROVE  Tame(rows', tx'[v])
    BY DEF OnlyMoverMoves
  <2>1. CASE v = w
    BY <1>2, <2>1 DEF Tame, Nothing, Nodes
  <2>2. CASE v # w
    BY <1>1, <1>2, <2>2, SeesBoth
  <2> QED
    BY <2>1, <2>2
<1>13. StoreInv'
  BY <1>1, <1>2, <1>4, <1>10, <1>11, <1>12 DEF StoreInv
<1>14. ASSUME NEW v \in Writers, v # w
       PROVE  Args(v)' /\ Checked(v)'
  <2>1. Args(v)'
    <3>1. \A m \in cascade[v] : m \in Nodes
      BY DEF OpTypesButRaced
    <3> QED
      BY <1>1, <1>7, <1>14, <3>1 DEF Args, Nodes
  <2>2. Checked(v)'
    <3>1. pc[v] = "cycle" => mover' = v
      BY <1>2, <1>14 DEF Checked
    <3>2. ASSUME pc[v] = "move", target[v] \in Folders, dest[v] # Top
          PROVE  mover' = v /\ dest[v] \notin Below(View(v)', target[v])
      <4>1. mover = v /\ dest[v] \notin Below(View(v), target[v])
        BY <3>2 DEF Checked
      <4>2. /\ dest[v] \in Folders /\ View(v)[dest[v]] # None
            /\ View(v)[target[v]] # None
        BY <3>2 DEF Args
      <4>3. Tame(View(v), tx[w])
        BY <1>14, <4>1, SeesBoth
      <4>4. dest[v] \notin Below(Overlay(View(v), tx[w]), target[v])
        BY <1>4, <3>2, <4>1, <4>2, <4>3, MergeKeepsBelow
      <4> QED
        BY <1>2, <1>6, <1>14, <4>1, <4>4
    <3> QED
      BY <1>1, <3>1, <3>2 DEF Checked
  <2> QED
    BY <2>1, <2>2
<1>15. Args(w)' /\ Checked(w)'
  BY <1>1, <1>5 DEF Args, Checked
<1> QED
  BY <1>3, <1>13, <1>14, <1>15

-----------------------------------------------------------------------------
\* The theorems.

\* Every step of every session keeps the invariant.
LEMMA StepKeepsInv ==
  ASSUME StepInv, NEW w \in Writers, Step(w)
  PROVE  StepInv'
<1>1. ASSUME NEW n \in Nodes,
             \/ UpdateNode(w, n) \/ CheckDelete(w, n)
             \/ CheckRestore(w, n) \/ RestoreActive(w, n)
      PROVE  StepInv'
  BY <1>1, UpdateNodeStep, CheckDeleteStep, CheckRestoreStep, RestoreActiveStep
<1>2. ASSUME NEW n \in Nodes, NEW p \in Folders \union {Top},
             CreateNode(w, n, p) \/ CheckMove(w, n, p)
      PROVE  StepInv'
  BY <1>2, CreateStep, CheckMoveStep
<1>3. CASE LockMoves(w) \/ CheckCycle(w) \/ MoveNode(w)
  BY <1>3, LockMovesStep, CheckCycleStep, MoveNodeStep
<1>4. CASE DeleteNode(w) \/ DeleteCascade(w) \/ RestoreNode(w)
  BY <1>4, DeleteNodeStep, DeleteCascadeStep, RestoreNodeStep
<1>5. CASE Commit(w) \/ Rollback(w)
  BY <1>5, CommitStep, RollbackStep
<1> QED
  BY <1>1, <1>2, <1>3, <1>4, <1>5 DEF Step

\* IInv is an invariant.
LEMMA Invariance == Spec => []IInv
<1>1. Init => IInv
  BY InitInv
<1>2. IInv /\ [Next]_vars => IInv'
  <2> SUFFICES ASSUME IInv, [Next]_vars
               PROVE  IInv'
    OBVIOUS
  <2>1. StepInv /\ raced \in BOOLEAN
    BY DEF IInv, StepInv, OpTypes, OpTypesButRaced
  <2>2. CASE Next
    <3>1. PICK w \in Writers : Step(w)
      BY <2>2 DEF Next
    <3>2. StepInv'
      BY <2>1, <3>1, StepKeepsInv
    <3>3. raced' \in BOOLEAN
      BY <2>2 DEF Next
    <3> QED
      BY <3>2, <3>3 DEF IInv, StepInv, OpTypes, OpTypesButRaced
  <2>3. CASE UNCHANGED vars
    <3>1. StoreInv'
      BY <2>1, <2>3 DEF vars, StepInv, StoreInv, RowLocks, Known, NoCycles, OnlyMoverMoves, View
    <3>2. ASSUME NEW w \in Writers
          PROVE  Args(w)' /\ Checked(w)'
      BY <2>1, <2>3 DEF vars, op, StepInv, Args, Checked, View
    <3>3. OpTypes'
      BY <2>3 DEF vars, op, IInv, OpTypes
    <3> QED
      BY <3>1, <3>2, <3>3 DEF IInv
  <2> QED
    BY <2>2, <2>3
<1> QED
  BY <1>1, <1>2, PTL DEF Spec

\* The variables keep their types: no transaction ever flushes a file without
\* a folder, or a row it has not seen.
THEOREM TypeCorrect == Spec => []TypeOK
<1>1. IInv => TypeOK
  BY DEF IInv, StoreInv, OpTypes, TypeOK
<1> QED
  BY <1>1, Invariance, PTL

\* The advisory lock and the check made under it are enough: for any number of
\* sessions and folders, and transactions of any length, no interleaving of
\* moves with creations, deletions and restores closes a cycle.
THEOREM FoldersStayATree == Spec => []Acyclic
<1>1. IInv => Acyclic
  BY DEF IInv, StoreInv, NoCycles, Acyclic
<1> QED
  BY <1>1, Invariance, PTL

-----------------------------------------------------------------------------
\* What hangs where.

\* Every active node but those in C is at the top, or in an active folder that
\* is not in C.
Hangs(t, C) ==
  \A n \in Nodes \ C : Active(t, n) =>
    t[n].parent = Top \/ (Active(t, t[n].parent) /\ t[n].parent \notin C)

\* L has the active contents of every folder in L.
DownClosed(t, L) ==
  \A n \in Nodes : Active(t, n) /\ t[n].parent \in L => n \in L

\* The nodes that changes c delete, or place in table t.
Drops(c) == {n \in Nodes : c[n] # None /\ ~c[n].active}
Adds(t, c) == {n \in Nodes : Active(c, n) /\ c[n] # t[n]}

\* A row is written, which takes no folder away.
LEMMA WriteHangs ==
  ASSUME NEW t \in Table, NEW u \in Table, NEW n \in Nodes, Hangs(t, {}),
         \A m \in Nodes \ {n} : u[m] = t[m],
         Active(u, n) => u[n].parent = Top \/ Active(t, u[n].parent),
         Active(t, n) => Active(u, n)
  PROVE  Hangs(u, {})
<1> SUFFICES ASSUME NEW m \in Nodes, Active(u, m), u[m].parent # Top
             PROVE  Active(u, u[m].parent)
  BY DEF Hangs
<1>1. Active(t, u[m].parent)
  BY DEF Hangs, Active
<1>2. u[m].parent \in Nodes
  BY DEF Active, Table, MaybeRow, Row, Nodes
<1>3. QED
  BY <1>1, <1>2 DEF Active

\* A deletion lists the active contents of all it lists.
LEMMA ListIsClosed ==
  ASSUME NEW t \in Table, NEW n \in Nodes
  PROVE  DownClosed(t, {n} \union ActiveDescendants(t, n))
<1> SUFFICES ASSUME NEW m \in Nodes, Active(t, m),
                    t[m].parent \in {n} \union ActiveDescendants(t, n)
             PROVE  m \in ActiveDescendants(t, n)
  BY DEF DownClosed
<1>1. CASE t[m].parent = n
  BY <1>1 DEF ActiveDescendants
<1>2. CASE t[m].parent \in ActiveDescendants(t, n)
  <2> DEFINE p == t[m].parent
  <2>1. p \in Folders /\ t[p] # None /\ t[p].parent \in Below(t, n) \union {n}
    BY <1>2 DEF ActiveDescendants, Active, Table, MaybeRow, Row
  <2>2. p \in Below(t, n)
    BY <2>1, BelowClosed DEF Closed
  <2>3. QED
    BY <2>2 DEF ActiveDescendants
<1>3. QED
  BY <1>1, <1>2

\* With n deleted, what still hangs from it is what a second list has, and
\* whatever list was closed before has that, too: no active node was to be
\* found below a deleted folder.
LEMMA DeleteHangs ==
  ASSUME NEW t \in Table, NEW u \in Table, NEW n \in Nodes, Hangs(t, {}),
         \A m \in Nodes \ {n} : u[m] = t[m],
         u[n] # None, ~u[n].active
  PROVE  /\ Hangs(u, ActiveDescendants(u, n))
         /\ \A L : n \in L /\ DownClosed(t, L) => ActiveDescendants(u, n) \subseteq L
<1> DEFINE C == ActiveDescendants(u, n)
<1>1. DownClosed(u, {n} \union C)
  BY ListIsClosed
<1>2. \A m \in Nodes : Active(u, m) => m # n /\ u[m] = t[m] /\ Active(t, m)
  BY DEF Active
<1>3. \A m \in Nodes : Active(u, m) => u[m].parent = Top \/ u[m].parent \in Folders
  BY DEF Active, Table, MaybeRow, Row
<1>4. Hangs(u, C)
  <2> SUFFICES ASSUME NEW m \in Nodes \ C, Active(u, m), u[m].parent # Top
               PROVE  Active(u, u[m].parent) /\ u[m].parent \notin C
    BY DEF Hangs
  <2>1. u[m].parent \notin {n} \union C
    BY <1>1, <1>2 DEF DownClosed
  <2>2. u[m].parent \in Nodes /\ Active(t, u[m].parent)
    BY <1>2, <1>3 DEF Hangs, Nodes
  <2>3. QED
    BY <2>1, <2>2 DEF Active
<1>5. ASSUME NEW L, n \in L, DownClosed(t, L)
      PROVE  C \subseteq L
  <2> DEFINE D == {f \in Folders : f \in L \/ ~Active(t, f)}
  <2>1. Closed(u, n, D)
    <3> SUFFICES ASSUME NEW f \in Folders, u[f] # None, u[f].parent \in D \union {n}, Active(t, f),
                        f # n
                 PROVE  f \in L
      BY <1>5 DEF Closed
    <3>1. u[f] = t[f] /\ t[f].parent \in Nodes
      BY DEF Nodes
    <3>2. Active(t, t[f].parent)
      BY <3>1 DEF Hangs, Nodes
    <3>3. t[f].parent \in L
      BY <1>5, <3>1, <3>2
    <3>4. QED
      BY <1>5, <3>3 DEF DownClosed, Nodes
  <2>2. Below(u, n) \subseteq D
    BY <2>1 DEF Below
  <2> SUFFICES ASSUME NEW m \in C
               PROVE  m \in L
    OBVIOUS
  <2>3. m \in Nodes /\ Active(u, m) /\ u[m].parent \in D \union {n}
    BY <2>2 DEF ActiveDescendants
  <2>4. u[m] = t[m] /\ Active(t, m)
    BY <1>2, <2>3
  <2>5. u[m].parent \in Nodes
    BY <2>3 DEF Nodes
  <2>6. Active(t, t[m].parent)
    BY <2>3, <2>4, <2>5 DEF Hangs
  <2>7. t[m].parent \in L
    BY <1>5, <2>3, <2>4, <2>6
  <2>8. QED
    BY <1>5, <2>3, <2>4, <2>7 DEF DownClosed
<1>6. QED
  BY <1>4, <1>5

\* And when these are deleted, the rest hangs.
LEMMA CascadeHangs ==
  ASSUME NEW t \in Table, NEW u \in Table, NEW C \in SUBSET Nodes, Hangs(t, C),
         \A m \in Nodes \ C : u[m] = t[m],
         \A m \in C : ~Active(u, m)
  PROVE  Hangs(u, {})
<1> SUFFICES ASSUME NEW m \in Nodes, Active(u, m), u[m].parent # Top
             PROVE  Active(u, u[m].parent)
  BY DEF Hangs
<1>1. m \notin C /\ u[m] = t[m] /\ Active(t, m)
  BY DEF Active
<1>2. Active(t, t[m].parent) /\ t[m].parent \notin C
  BY <1>1 DEF Hangs
<1>3. u[m].parent \in Nodes
  BY DEF Active, Table, MaybeRow, Row, Nodes
<1>4. QED
  BY <1>1, <1>2, <1>3 DEF Active

\* The changes of two sessions, of which not one deletes and the other places,
\* together: what hangs for both hangs.
LEMMA MergeHangs ==
  ASSUME NEW r \in Table, NEW a \in Table, NEW b \in Table, NEW C \in SUBSET Nodes,
         \A n \in Nodes : a[n] = None \/ b[n] = None,
         Hangs(Overlay(r, a), C), Hangs(Overlay(r, b), {}),
         C # {} \/ Drops(a) # {} => Adds(r, b) = {},
         Drops(b) # {} => Adds(r, a) = {}
  PROVE  Hangs(Overlay(Overlay(r, a), b), C)
<1> DEFINE t == Overlay(r, a)
           s == Overlay(r, b)
           u == Overlay(Overlay(r, a), b)
<1>1. t \in Table /\ s \in Table /\ u \in Table
  BY OverlayType
<1>2. /\ \A n \in Nodes : t[n] = (IF a[n] # None THEN a[n] ELSE r[n])
      /\ \A n \in Nodes : s[n] = (IF b[n] # None THEN b[n] ELSE r[n])
      /\ \A n \in Nodes : u[n] = (IF b[n] # None THEN b[n] ELSE t[n])
      /\ \A n \in Nodes : u[n] = (IF a[n] # None THEN a[n] ELSE s[n])
  BY DEF Overlay
<1> HIDE DEF t, s, u
<1>3. \A n \in Nodes : Active(u, n) /\ u[n].parent # Top => u[n].parent \in Nodes
  BY <1>1 DEF Active, Table, MaybeRow, Row, Nodes
<1>4. \A n \in Nodes : u[n] = t[n] \/ u[n] = s[n]
  BY <1>2
<1> SUFFICES ASSUME NEW n \in Nodes \ C, Active(u, n), u[n].parent # Top
             PROVE  Active(u, u[n].parent) /\ u[n].parent \notin C
  BY DEF Hangs, u
<1> DEFINE p == u[n].parent
<1>5. p \in Nodes
  BY <1>3
<1>6. CASE Adds(r, a) = {} /\ Adds(r, b) = {}
  <2>1. u[n] = t[n] /\ u[n] = s[n]
    BY <1>2, <1>6 DEF Adds, Active
  <2>2. Active(t, p) /\ p \notin C /\ Active(s, p)
    BY <2>1 DEF Hangs, Active, t, s
  <2>3. QED
    BY <1>4, <1>5, <2>2 DEF Active
<1>7. CASE C = {} /\ Drops(a) = {} /\ Drops(b) = {}
  <2>1. Active(t, p) \/ Active(s, p)
    BY <1>4, <1>7 DEF Hangs, Active, t, s
  <2>2. Active(u, p)
    BY <1>2, <1>5, <1>7, <2>1 DEF Drops, Active
  <2>3. QED
    BY <1>7, <2>2
<1>8. CASE Adds(r, b) = {} /\ Drops(b) = {}
  <2>1. \A m \in Nodes : u[m] = t[m]
    BY <1>2, <1>8 DEF Adds, Drops, Active
  <2>2. QED
    BY <1>5, <2>1 DEF Hangs, Active, t
<1>9. CASE C = {} /\ Adds(r, a) = {} /\ Drops(a) = {}
  <2>1. \A m \in Nodes : u[m] = s[m]
    BY <1>2, <1>9 DEF Adds, Drops, Active
  <2>2. QED
    BY <1>5, <1>9, <2>1 DEF Hangs, Active, s
<1>10. QED
  BY <1>6, <1>7, <1>8, <1>9

-----------------------------------------------------------------------------
\* The sessions.

\* What w has checked before it places a node is still so.
Aims(w) ==
  /\ pc[w] \in {"lock", "cycle", "move"} => dest[w] = Top \/ Active(View(w), dest[w])
  /\ pc[w] = "restore" =>
       LET p == View(w)[target[w]].parent IN p = Top \/ Active(View(w), p)

\* What w has listed first is all it is going to delete.
Lists(w) ==
  /\ pc[w] # "cascade" => cascade[w] = {}
  /\ pc[w] = "delete" => target[w] \in listed[w] /\ DownClosed(View(w), listed[w])
  /\ cascade[w] \subseteq listed[w]
  /\ Gone(w) \subseteq touched[w] \union (IF pc[w] = "cascade" THEN listed[w] ELSE {})

Fine(w) == Hangs(View(w), cascade[w]) /\ Aims(w) /\ Lists(w)

\* While no deletion and placement overlap.
Calm == ~Race /\ Hangs(rows, {}) /\ \A w \in Writers : Fine(w)

\* Nothing is brought back unnoticed.
Noted(w) == Back(w) \subseteq touched[w]

\* A session does not disturb the others before it commits.
LEMMA OthersFine ==
  ASSUME NEW v \in Writers, rows' = rows, tx'[v] = tx[v],
         pc'[v] = pc[v], target'[v] = target[v], dest'[v] = dest[v],
         listed'[v] = listed[v], cascade'[v] = cascade[v], touched'[v] = touched[v]
  PROVE  (Fine(v) => Fine(v)') /\ (Noted(v) => Noted(v)')
<1>1. View(v)' = View(v) /\ Gone(v)' = Gone(v) /\ Back(v)' = Back(v)
  BY DEF View, Gone, Back
<1>2. QED
  BY <1>1 DEF Fine, Aims, Lists, Noted

\* A row that w writes is the only one it may bring back or take away.
LEMMA WriteNotes ==
  ASSUME StoreInv, NEW w \in Writers, NEW n \in Nodes, NEW r \in Row,
         n \in Docs => r.parent # Top,
         tx' = [tx EXCEPT ![w][n] = r], rows' = rows
  PROVE  /\ \A m \in Back(w)' : m \in Back(w) \/ (m = n /\ r.active /\ ~Active(View(w), n))
         /\ \A m \in Gone(w)' : m \in Gone(w) \/ (m = n /\ ~r.active /\ Active(View(w), n))
<1>1. tx'[w][n] = r /\ \A m \in Nodes \ {n} : tx'[w][m] = tx[w][m]
  <2>1. tx'[w][n] = r
    BY DEF StoreInv, Table
  <2>2. \A m \in Nodes \ {n} : tx'[w][m] = tx[w][m]
    BY WriteRow
  <2>3. QED
    BY <2>1, <2>2
<1>2. r # None
  OBVIOUS
<1>3. View(w)[n] = IF tx[w][n] # None THEN tx[w][n] ELSE rows[n]
  BY DEF View, Overlay
<1>4. ASSUME NEW m \in Back(w)'
      PROVE  m \in Back(w) \/ (m = n /\ r.active /\ ~Active(View(w), n))
  BY <1>1, <1>2, <1>3 DEF Back, Active
<1>5. ASSUME NEW m \in Gone(w)'
      PROVE  m \in Gone(w) \/ (m = n /\ ~r.active /\ Active(View(w), n))
  BY <1>1, <1>2, <1>3 DEF Gone, Active
<1>6. QED
  BY <1>4, <1>5

\* Between two operations nothing is aimed at or listed.
LEMMA OpenIsFine ==
  ASSUME NEW w \in Writers, pc[w] = "open", cascade[w] = {}, Hangs(View(w), {}),
         Gone(w) \subseteq touched[w]
  PROVE  Fine(w)
  BY DEF Fine, Aims, Lists

\* Row r takes no node from under another, and hangs where it is active.
FitsIn(w, n, r) ==
  /\ r.active => View(w)[n] = r \/ r.parent = Top \/ Active(View(w), r.parent)
  /\ Active(View(w), n) => r.active

\* A row is written between two operations, by one that begins and ends there.
LEMMA WriteWhileOpen ==
  ASSUME StepInv, NEW w \in Writers, NEW n \in Nodes, NEW r \in Row,
         n \in Docs => r.parent # Top,
         tx' = [tx EXCEPT ![w][n] = r], rows' = rows,
         touched' = [touched EXCEPT ![w] = @ \union {n}],
         pc[w] = "open", UNCHANGED op, FitsIn(w, n, r)
  PROVE  (Fine(w) => Fine(w)') /\ (Noted(w) => Noted(w)')
<1>0. StoreInv /\ OpTypesButRaced
  BY DEF StepInv
<1>1. /\ View(w)' \in Table /\ View(w) \in Table /\ View(w)'[n] = r
      /\ \A m \in Nodes \ {n} : View(w)'[m] = View(w)[m]
  <2>1. View(w) \in Table
    BY <1>0, ViewType
  <2>2. View(w)' \in Table
    BY <1>0, WriteRow
  <2>3. View(w)'[n] = r
    <3>1. tx'[w][n] = r
      BY <1>0 DEF StoreInv, Table
    <3>2. r # None
      OBVIOUS
    <3>3. QED
      BY <3>1, <3>2 DEF View, Overlay
  <2>4. \A m \in Nodes \ {n} : View(w)'[m] = View(w)[m]
    BY <1>0, WriteRow
  <2>5. QED
    BY <2>1, <2>2, <2>3, <2>4
<1>2. r # None
  OBVIOUS
<1>3. /\ pc'[w] = "open" /\ cascade'[w] = cascade[w] /\ touched'[w] = touched[w] \union {n}
  BY <1>0 DEF op, OpTypesButRaced
<1>4. Back(w)' \subseteq Back(w) \union {n} /\ Gone(w)' \subseteq Gone(w) \union {n}
  BY <1>0, WriteNotes
<1>5. Noted(w) => Noted(w)'
  BY <1>3, <1>4 DEF Noted
<1>6. ASSUME Fine(w)
      PROVE  Fine(w)'
  <2>1. cascade[w] = {} /\ Hangs(View(w), {}) /\ Gone(w) \subseteq touched[w]
    BY <1>6 DEF Fine, Lists
  <2>2. Active(View(w)', n) => View(w)'[n].parent = Top \/ Active(View(w), View(w)'[n].parent)
    BY <1>1, <2>1 DEF Active, Hangs, FitsIn
  <2>3. Active(View(w), n) => Active(View(w)', n)
    BY <1>1, <1>2 DEF Active, FitsIn
  <2>4. Hangs(View(w)', {})
    BY <1>1, <2>1, <2>2, <2>3, WriteHangs
  <2>5. Gone(w)' \subseteq touched'[w]
    BY <1>3, <1>4, <2>1
  <2>6. QED
    BY <1>3, <2>1, <2>4, <2>5 DEF Fine, Aims, Lists
<1>7. QED
  BY <1>5, <1>6

\* create_file, create_folder, update_node, and restore_node of an active node.
LEMMA OneStepFine ==
  ASSUME StepInv, NEW w \in Writers, NEW n \in Nodes,
         \/ \E p \in Folders \union {Top} : CreateNode(w, n, p)
         \/ UpdateNode(w, n)
         \/ RestoreActive(w, n)
  PROVE  (Fine(w) => Fine(w)') /\ (Noted(w) => Noted(w)')
<1> USE DEF StepInv
<1>1. ASSUME NEW p \in Folders \union {Top}, CreateNode(w, n, p)
      PROVE  (Fine(w) => Fine(w)') /\ (Noted(w) => Noted(w)')
  <2> DEFINE r == [parent |-> p, active |-> TRUE]
  <2>1. /\ pc[w] = "open" /\ View(w)[n] = None /\ MayHold(w, p, n)
        /\ tx' = [tx EXCEPT ![w][n] = r] /\ rows' = rows /\ UNCHANGED op
        /\ touched' = [touched EXCEPT ![w] = @ \union {n}]
    BY <1>1 DEF CreateNode, Begin
  <2>2. r \in Row /\ r.parent = p /\ r.active
    BY DEF Row
  <2>3. (n \in Docs => p # Top) /\ (p = Top \/ Active(View(w), p))
    BY <2>1 DEF MayHold
  <2> HIDE DEF r
  <2>4. FitsIn(w, n, r)
    BY <2>1, <2>2, <2>3 DEF Active, FitsIn
  <2>5. QED
    BY <2>1, <2>2, <2>3, <2>4, WriteWhileOpen
<1>2. CASE UpdateNode(w, n)
  <2>1. /\ pc[w] = "open" /\ View(w)[n] # None
        /\ tx' = [tx EXCEPT ![w][n] = View(w)[n]] /\ rows' = rows /\ UNCHANGED op
        /\ touched' = [touched EXCEPT ![w] = @ \union {n}]
    BY <1>2 DEF UpdateNode, Begin
  <2>2. PICK r \in Row : r = View(w)[n] /\ (n \in Docs => r.parent # Top)
    BY <2>1, ViewType DEF Table, MaybeRow
  <2>3. FitsIn(w, n, r)
    BY <2>2 DEF Active, FitsIn
  <2>4. tx' = [tx EXCEPT ![w][n] = r]
    BY <2>1, <2>2
  <2>5. QED
    BY <2>1, <2>2, <2>3, <2>4, WriteWhileOpen
<1>3. CASE RestoreActive(w, n)
  <2>1. /\ UNCHANGED <<rows, tx, op>> /\ pc[w] = "open"
        /\ touched' = [touched EXCEPT ![w] = @ \union {n}]
    BY <1>3 DEF RestoreActive, Begin
  <2>2. /\ View(w)' = View(w) /\ Back(w)' = Back(w) /\ Gone(w)' = Gone(w)
        /\ touched[w] \subseteq touched'[w]
    BY <2>1 DEF View, Back, Gone, OpTypesButRaced
  <2>3. QED
    BY <2>1, <2>2 DEF Fine, Aims, Lists, Noted, op
<1>4. QED
  BY <1>1, <1>2, <1>3

\* The checks before a placement or a deletion: what is checked is what is
\* then relied on.
LEMMA CheckFine ==
  ASSUME StepInv, NEW w \in Writers,
         \/ \E n \in Nodes : CheckDelete(w, n) \/ CheckRestore(w, n)
         \/ \E n \in Nodes, p \in Folders \union {Top} : CheckMove(w, n, p)
         \/ LockMoves(w) \/ CheckCycle(w)
  PROVE  (Fine(w) => Fine(w)') /\ (Noted(w) => Noted(w)')
<1> USE DEF StepInv
<1>1. UNCHANGED <<rows, tx, touched>>
  BY DEF CheckDelete, CheckRestore, CheckMove, LockMoves, CheckCycle
<1>2. /\ View(w)' = View(w) /\ Back(w)' = Back(w) /\ Gone(w)' = Gone(w) /\ touched'[w] = touched[w]
  BY <1>1 DEF View, Back, Gone
<1>3. Noted(w) => Noted(w)'
  BY <1>2 DEF Noted
<1>4. ASSUME Fine(w), NEW n \in Nodes, CheckDelete(w, n)
      PROVE  Fine(w)'
  <2>1. /\ pc[w] = "open" /\ pc'[w] = "delete" /\ target'[w] = n
        /\ cascade' = cascade
    BY <1>4 DEF CheckDelete, Begin, OpTypesButRaced
  <2>2. listed'[w] = {n} \union ActiveDescendants(View(w), n)
    BY <1>4 DEF CheckDelete, OpTypesButRaced
  <2>3. cascade[w] = {} /\ Gone(w) \subseteq touched[w] /\ Hangs(View(w), {})
    BY <1>4, <2>1 DEF Fine, Lists
  <2>4. DownClosed(View(w), listed'[w])
    BY <2>2, ViewType, ListIsClosed
  <2>5. QED
    BY <1>2, <2>1, <2>2, <2>3, <2>4 DEF Fine, Aims, Lists
<1>5. ASSUME Fine(w), NEW n \in Nodes, CheckRestore(w, n)
      PROVE  Fine(w)'
  <2>1. /\ pc[w] = "open" /\ pc'[w] = "restore" /\ target'[w] = n
        /\ View(w)[n].parent = Top \/ Active(View(w), View(w)[n].parent)
        /\ cascade' = cascade /\ listed' = listed
    BY <1>5 DEF CheckRestore, Begin, OpTypesButRaced
  <2>2. cascade[w] = {} /\ Gone(w) \subseteq touched[w] /\ Hangs(View(w), {})
    BY <1>5, <2>1 DEF Fine, Lists
  <2>3. QED
    BY <1>2, <2>1, <2>2 DEF Fine, Aims, Lists
<1>6. ASSUME Fine(w), NEW n \in Nodes, NEW p \in Folders \union {Top}, CheckMove(w, n, p)
      PROVE  Fine(w)'
  <2>1. /\ pc[w] = "open" /\ pc'[w] \in {"lock", "move"} /\ dest'[w] = p
        /\ p = Top \/ Active(View(w), p)
        /\ cascade' = cascade /\ listed' = listed
    BY <1>6 DEF CheckMove, Begin, OpTypesButRaced, MayHold
  <2>2. cascade[w] = {} /\ Gone(w) \subseteq touched[w] /\ Hangs(View(w), {})
    BY <1>6, <2>1 DEF Fine, Lists
  <2>3. QED
    BY <1>2, <2>1, <2>2 DEF Fine, Aims, Lists
<1>7. ASSUME Fine(w), LockMoves(w) \/ CheckCycle(w)
      PROVE  Fine(w)'
  <2>1. /\ pc[w] \in {"lock", "cycle"} /\ pc'[w] \in {"cycle", "move"}
        /\ dest' = dest /\ cascade' = cascade /\ listed' = listed
    BY <1>7 DEF LockMoves, CheckCycle, OpTypesButRaced
  <2>2. QED
    BY <1>2, <1>7, <2>1 DEF Fine, Aims, Lists
<1>8. QED
  BY <1>3, <1>4, <1>5, <1>6, <1>7

\* The UPDATE of a move: the destination is still active.
LEMMA MoveNodeFine ==
  ASSUME StepInv, NEW w \in Writers, MoveNode(w)
  PROVE  (Fine(w) => Fine(w)') /\ (Noted(w) => Noted(w)')
<1> DEFINE t == View(w)
<1>1. StoreInv /\ OpTypesButRaced /\ Args(w)
  BY DEF StepInv
<1>2. /\ pc[w] = "move" /\ Done(w) /\ rows' = rows /\ touched' = touched
      /\ tx' = [tx EXCEPT ![w][target[w]] = [t[target[w]] EXCEPT !.parent = dest[w]]]
  BY DEF MoveNode
<1>3. PICK n \in Nodes : n = target[w]
  BY <1>1, <1>2 DEF Args
<1>4. PICK p \in Folders \union {Top} : p = dest[w]
  BY <1>1, <1>2 DEF Args
<1>5. t \in Table /\ t[n] \in Row /\ p # n /\ (n \in Docs => p # Top)
  BY <1>1, <1>2, <1>3, <1>4, ViewType DEF Args, Table, MaybeRow
<1>6. PICK r \in Row : r = [t[n] EXCEPT !.parent = p]
  BY <1>5 DEF Row
<1>7. r.parent = p /\ r.active = t[n].active /\ r # None /\ t[n] # None
  BY <1>5, <1>6 DEF Row
<1>8. tx' = [tx EXCEPT ![w][n] = r]
  BY <1>2, <1>3, <1>4, <1>6
<1>9. View(w)' \in Table /\ \A m \in Nodes \ {n} : View(w)'[m] = t[m]
  <2>1. (n \in Docs => r.parent # Top) /\ rows' = rows
    BY <1>2, <1>5, <1>7
  <2> HIDE DEF t
  <2>2. View(w)' \in Table
    BY <1>1, <1>8, <2>1, WriteRow
  <2>3. \A m \in Nodes \ {n} : View(w)'[m] = View(w)[m]
    BY <1>1, <1>8, <2>1, WriteRow
  <2>4. QED
    BY <2>2, <2>3 DEF t
<1>10. View(w)'[n] = r
  <2>1. tx'[w][n] = r
    BY <1>1, <1>8 DEF StoreInv, Table
  <2>2. QED
    BY <1>7, <2>1 DEF View, Overlay
<1>11. Back(w)' \subseteq Back(w) /\ Gone(w)' \subseteq Gone(w)
  BY <1>1, <1>2, <1>5, <1>7, <1>8, WriteNotes DEF Active
<1>12. pc'[w] = "open" /\ cascade'[w] = {} /\ touched'[w] = touched[w]
  BY <1>1, <1>2, DoneMeans
<1>13. Noted(w) => Noted(w)'
  BY <1>11, <1>12 DEF Noted
<1>14. ASSUME Fine(w)
       PROVE  Fine(w)'
  <2>1. /\ Hangs(t, {}) /\ Gone(w) \subseteq touched[w]
        /\ p = Top \/ Active(t, p)
    BY <1>2, <1>4, <1>14 DEF Fine, Lists, Aims
  <2>2. /\ Active(View(w)', n) => View(w)'[n].parent = Top \/ Active(t, View(w)'[n].parent)
        /\ Active(t, n) => Active(View(w)', n)
    BY <1>7, <1>10, <2>1 DEF Active
  <2> HIDE DEF t
  <2>3. Hangs(View(w)', {})
    BY <1>5, <1>9, <2>1, <2>2, WriteHangs
  <2>4. QED
    BY <1>11, <1>12, <2>1, <2>3 DEF Fine, Aims, Lists
<1>15. QED
  BY <1>13, <1>14

\* The UPDATE of a restore: the node's folder is still active.
LEMMA RestoreNodeFine ==
  ASSUME StepInv, NEW w \in Writers, RestoreNode(w)
  PROVE  (Fine(w) => Fine(w)') /\ (Noted(w) => Noted(w)')
<1> DEFINE t == View(w)
<1>1. StoreInv /\ OpTypesButRaced /\ Args(w)
  BY DEF StepInv
<1>2. /\ pc[w] = "restore" /\ Done(w) /\ rows' = rows
      /\ touched' = [touched EXCEPT ![w] = @ \union {target[w]}]
      /\ tx' = [tx EXCEPT ![w][target[w]] = [t[target[w]] EXCEPT !.active = TRUE]]
  BY DEF RestoreNode
<1>3. PICK n \in Nodes : n = target[w]
  BY <1>1, <1>2 DEF Args
<1>4. t \in Table /\ t[n] \in Row /\ (n \in Docs => t[n].parent # Top)
  BY <1>1, <1>2, <1>3, ViewType DEF Args, Table, MaybeRow
<1>5. PICK r \in Row : r = [t[n] EXCEPT !.active = TRUE]
  BY <1>4 DEF Row
<1>6. r.parent = t[n].parent /\ r.active /\ r # None
  BY <1>4, <1>5 DEF Row
<1>7. tx' = [tx EXCEPT ![w][n] = r]
  BY <1>2, <1>3, <1>5
<1>8. View(w)' \in Table /\ \A m \in Nodes \ {n} : View(w)'[m] = t[m]
  <2>1. (n \in Docs => r.parent # Top) /\ rows' = rows
    BY <1>2, <1>4, <1>6
  <2> HIDE DEF t
  <2>2. View(w)' \in Table
    BY <1>1, <1>7, <2>1, WriteRow
  <2>3. \A m \in Nodes \ {n} : View(w)'[m] = View(w)[m]
    BY <1>1, <1>7, <2>1, WriteRow
  <2>4. QED
    BY <2>2, <2>3 DEF t
<1>9. View(w)'[n] = r
  <2>1. tx'[w][n] = r
    BY <1>1, <1>7 DEF StoreInv, Table
  <2>2. QED
    BY <1>6, <2>1 DEF View, Overlay
<1>10. Back(w)' \subseteq Back(w) \union {n} /\ Gone(w)' \subseteq Gone(w)
  BY <1>1, <1>2, <1>4, <1>6, <1>7, WriteNotes
<1>11. pc'[w] = "open" /\ cascade'[w] = {} /\ touched'[w] = touched[w] \union {n}
  BY <1>1, <1>2, <1>3, DoneMeans DEF OpTypesButRaced
<1>12. Noted(w) => Noted(w)'
  BY <1>10, <1>11 DEF Noted
<1>13. ASSUME Fine(w)
       PROVE  Fine(w)'
  <2>1. /\ Hangs(t, {}) /\ Gone(w) \subseteq touched[w]
        /\ t[n].parent = Top \/ Active(t, t[n].parent)
    BY <1>2, <1>3, <1>13 DEF Fine, Lists, Aims
  <2>2. /\ Active(View(w)', n) => View(w)'[n].parent = Top \/ Active(t, View(w)'[n].parent)
        /\ Active(t, n) => Active(View(w)', n)
    BY <1>6, <1>9, <2>1 DEF Active
  <2> HIDE DEF t
  <2>3. Hangs(View(w)', {})
    BY <1>4, <1>8, <2>1, <2>2, WriteHangs
  <2>4. QED
    BY <1>10, <1>11, <2>1, <2>3 DEF Fine, Aims, Lists
<1>14. QED
  BY <1>12, <1>13

\* The UPDATE of the deleted node: what hangs from it is in both lists.
LEMMA DeleteNodeFine ==
  ASSUME StepInv, NEW w \in Writers, DeleteNode(w)
  PROVE  (Fine(w) => Fine(w)') /\ (Noted(w) => Noted(w)')
<1> DEFINE t == View(w)
<1>1. StoreInv /\ OpTypesButRaced /\ Args(w)
  BY DEF StepInv
<1>2. pc[w] = "delete" /\ rows' = rows /\ touched' = touched /\ listed' = listed
  BY DEF DeleteNode
<1>3. PICK n \in Nodes : n = target[w]
  BY <1>1, <1>2 DEF Args
<1>4. t \in Table /\ t[n] \in Row /\ (n \in Docs => t[n].parent # Top)
      /\ t \in [Nodes -> MaybeRow]
  BY <1>1, <1>2, <1>3, ViewType DEF Args, Table, MaybeRow
<1>5. PICK r \in Row : r = [t[n] EXCEPT !.active = FALSE]
  BY <1>4 DEF Row
<1>6. ~r.active /\ r.parent = t[n].parent /\ r # None
  BY <1>4, <1>5 DEF Row
<1>7. PICK marked : /\ marked = [t EXCEPT ![n].active = FALSE]
                    /\ tx' = [tx EXCEPT ![w][n] = marked[n]]
                    /\ cascade' = [cascade EXCEPT ![w] = ActiveDescendants(marked, n)]
                    /\ pc' = [pc EXCEPT ![w] = "cascade"]
  BY <1>3 DEF DeleteNode
<1>8. marked \in [Nodes -> MaybeRow] /\ marked[n] = r /\ \A m \in Nodes \ {n} : marked[m] = t[m]
  BY <1>4, <1>5, <1>7 DEF MaybeRow
<1>9. tx' = [tx EXCEPT ![w][n] = r]
  BY <1>7, <1>8
<1>10. View(w)' = marked /\ marked \in Table
  <2>1. View(w)' \in Table /\ \A m \in Nodes \ {n} : View(w)'[m] = t[m]
    BY <1>1, <1>2, <1>4, <1>6, <1>9, WriteRow
  <2>2. tx'[w][n] = r
    BY <1>1, <1>9 DEF StoreInv, Table
  <2>3. View(w)'[n] = r
    BY <1>6, <2>2 DEF View, Overlay
  <2>4. View(w)' \in [Nodes -> MaybeRow] /\ \A m \in Nodes : View(w)'[m] = marked[m]
    BY <1>8, <2>1, <2>3 DEF Table
  <2>5. View(w)' = marked
    BY <1>8, <2>4
  <2>6. QED
    BY <2>1, <2>5
<1>11. Back(w)' \subseteq Back(w) /\ Gone(w)' \subseteq Gone(w) \union {n}
  BY <1>1, <1>2, <1>4, <1>6, <1>9, WriteNotes
<1>12. /\ pc'[w] = "cascade" /\ cascade'[w] = ActiveDescendants(marked, n)
       /\ touched'[w] = touched[w] /\ listed'[w] = listed[w]
  BY <1>1, <1>2, <1>7 DEF OpTypesButRaced
<1>13. Noted(w) => Noted(w)'
  BY <1>11, <1>12 DEF Noted
<1>14. ASSUME Fine(w)
       PROVE  Fine(w)'
  <2>1. /\ Hangs(t, {}) /\ Gone(w) \subseteq touched[w]
        /\ n \in listed[w] /\ DownClosed(t, listed[w])
    BY <1>2, <1>3, <1>14 DEF Fine, Lists
  <2> HIDE DEF t
  <2>2. /\ Hangs(marked, ActiveDescendants(marked, n))
        /\ ActiveDescendants(marked, n) \subseteq listed[w]
    BY <1>4, <1>6, <1>8, <1>10, <2>1, DeleteHangs
  <2>3. QED
    BY <1>10, <1>11, <1>12, <2>1, <2>2 DEF Fine, Aims, Lists
<1>15. QED
  BY <1>13, <1>14

\* The UPDATE of what hangs from it.
LEMMA DeleteCascadeFine ==
  ASSUME StepInv, NEW w \in Writers, DeleteCascade(w)
  PROVE  (Fine(w) => Fine(w)') /\ (Noted(w) => Noted(w)')
<1>1. /\ StoreInv /\ OpTypesButRaced /\ \A m \in cascade[w] : View(w)[m] # None
      /\ StoreInv'
  BY DeleteCascadeStep DEF StepInv, Args
<1>2. PICK C \in SUBSET Nodes : C = cascade[w]
  BY <1>1 DEF OpTypesButRaced
<1>3. PICK t \in Table : t = View(w)
  BY <1>1, ViewType
<1>4. PICK u \in Table : u = View(w)'
  BY <1>1, OverlayType DEF StoreInv, View
<1>5. /\ Done(w) /\ rows' = rows
      /\ touched' = [touched EXCEPT ![w] = @ \union listed[w]]
  BY DEF DeleteCascade
<1>6. tx' = [tx EXCEPT ![w] =
        [m \in Nodes |-> IF m \in C THEN [t[m] EXCEPT !.active = FALSE] ELSE tx[w][m]]]
  BY <1>2, <1>3 DEF DeleteCascade
<1>7. tx'[w] = [m \in Nodes |-> IF m \in C THEN [t[m] EXCEPT !.active = FALSE] ELSE tx[w][m]]
  BY <1>1, <1>6 DEF StoreInv
<1>8. ASSUME NEW m \in C
      PROVE  tx'[w][m] # None /\ ~tx'[w][m].active
  <2>1. t[m] \in Row
    BY <1>1, <1>2, <1>3 DEF Table, MaybeRow
  <2>2. tx'[w][m] = [t[m] EXCEPT !.active = FALSE]
    BY <1>7
  <2>3. QED
    BY <2>1, <2>2 DEF Row
<1>9. \A m \in Nodes \ C : tx'[w][m] = tx[w][m]
  BY <1>7
<1>10. /\ \A m \in C : ~Active(u, m)
       /\ \A m \in Nodes \ C : u[m] = t[m]
  BY <1>3, <1>4, <1>5, <1>8, <1>9 DEF View, Overlay, Active
<1>11. Back(w)' \subseteq Back(w) /\ Gone(w)' \subseteq Gone(w) \union C
  BY <1>5, <1>8, <1>9 DEF Back, Gone, Active
<1>12. pc'[w] = "open" /\ cascade'[w] = {} /\ touched'[w] = touched[w] \union listed[w]
  BY <1>1, <1>5, DoneMeans DEF OpTypesButRaced
<1>13. Noted(w) => Noted(w)'
  BY <1>11, <1>12 DEF Noted
<1>14. ASSUME Fine(w)
       PROVE  Fine(w)'
  <2>1. Hangs(t, C) /\ Gone(w) \subseteq touched[w] \union listed[w] /\ C \subseteq listed[w]
    BY <1>2, <1>3, <1>14 DEF Fine, Lists
  <2>2. Hangs(u, {})
    BY <1>10, <2>1, CascadeHangs
  <2>3. QED
    BY <1>4, <1>11, <1>12, <2>1, <2>2 DEF Fine, Aims, Lists
<1>15. QED
  BY <1>13, <1>14

\* A rollback leaves a session with nothing, under committed rows that hang.
LEMMA RollbackFine ==
  ASSUME StepInv, NEW w \in Writers, Rollback(w)
  PROVE  (Hangs(rows, {}) => Fine(w)') /\ Noted(w)'
<1>1. StoreInv /\ OpTypesButRaced /\ rows' = rows /\ Release(w) /\ Done(w)
  BY DEF StepInv, Rollback
<1>2. tx'[w] = Nothing /\ pc'[w] = "open" /\ cascade'[w] = {}
  BY <1>1, ReleaseMeans, DoneMeans
<1>3. View(w)' = rows
  BY <1>1, <1>2, NothingIsFine DEF View, StoreInv
<1>4. Back(w)' = {} /\ Gone(w)' = {}
  BY <1>2 DEF Back, Gone, Nothing, Active
<1>5. QED
  BY <1>1, <1>2, <1>3, <1>4 DEF Noted, Fine, Aims, Lists

\* COMMIT: what the others see still hangs, what they have checked is still
\* active, and what they have listed is still all there is.
LEMMA CommitFine ==
  ASSUME StepInv, NEW w \in Writers, Commit(w)
  PROVE  /\ \A v \in Writers : Noted(v) => Noted(v)'
         /\ Calm => Hangs(rows', {}) /\ \A v \in Writers : Fine(v)'
<1>1. StoreInv /\ OpTypesButRaced /\ Release(w) /\ rows' = View(w) /\ pc[w] = "open"
      /\ UNCHANGED op
  BY DEF StepInv, Commit
<1>2. /\ tx'[w] = Nothing /\ \A v \in Writers \ {w} : tx'[v] = tx[v]
      /\ \A v \in Writers \ {w} : touched'[v] = touched[v]
  BY <1>1, ReleaseMeans DEF Release, OpTypesButRaced
<1>3. pc' = pc /\ target' = target /\ dest' = dest /\ listed' = listed /\ cascade' = cascade
  BY <1>1 DEF op
<1>4. Back(w)' = {} /\ Gone(w)' = {}
  BY <1>2 DEF Back, Gone, Nothing, Active
<1>5. View(w)' = View(w)
  BY <1>1, <1>2, ViewType, NothingIsFine DEF View
<1>6. ASSUME NEW v \in Writers \ {w}
      PROVE  \A n \in Nodes : tx[v][n] = None \/ tx[w][n] = None
  BY <1>1 DEF StoreInv, RowLocks
<1>7. ASSUME NEW v \in Writers \ {w}
      PROVE  Back(v)' = Back(v) /\ Gone(v)' = Gone(v)
  <2>1. \A n \in Nodes : tx[v][n] # None => rows'[n] = rows[n]
    BY <1>1, <1>6 DEF View, Overlay
  <2>2. QED
    BY <1>2, <2>1 DEF Back, Gone, Active
<1>8. \A v \in Writers : Noted(v) => Noted(v)'
  BY <1>2, <1>4, <1>7 DEF Noted
<1>9. ASSUME Calm
      PROVE  Hangs(rows', {}) /\ Fine(w)'
  <2>1. Hangs(View(w), {}) /\ cascade[w] = {}
    BY <1>1, <1>9 DEF Calm, Fine, Lists
  <2>2. QED
    BY <1>1, <1>3, <1>4, <1>5, <2>1 DEF Fine, Aims, Lists
<1>10. ASSUME Calm, NEW v \in Writers \ {w}
       PROVE  Fine(v)'
  <2>1. PICK u : u = Overlay(Overlay(rows, tx[v]), tx[w])
    OBVIOUS
  <2>2. View(v)' = u
    BY <1>1, <1>2, <2>1, SeesBoth DEF View
  <2>3. /\ rows \in Table /\ tx[v] \in Table /\ tx[w] \in Table
        /\ cascade[v] \in SUBSET Nodes
    BY <1>1 DEF StoreInv, OpTypesButRaced
  <2>4. /\ Fine(v) /\ Hangs(View(v), cascade[v]) /\ Hangs(View(w), {})
        /\ Aims(v) /\ Lists(v) /\ ~(Deleting(v) /\ Placing(w)) /\ ~(Deleting(w) /\ Placing(v))
    BY <1>1, <1>10 DEF Calm, Race, Fine, Lists
  <2>5. Deleting(v) => Adds(rows, tx[w]) = {}
    BY <2>4 DEF Placing, Adds
  <2>6. Deleting(w) => Adds(rows, tx[v]) = {}
    BY <2>4 DEF Placing, Adds
  <2>7. (Drops(tx[v]) # {} => Deleting(v)) /\ (Drops(tx[w]) # {} => Deleting(w))
    BY DEF Deleting, Drops
  <2>8. cascade[v] # {} => Deleting(v)
    BY <2>4 DEF Lists, Deleting
  <2>9. Hangs(u, cascade[v])
    BY <1>6, <2>1, <2>3, <2>4, <2>5, <2>6, <2>7, <2>8, MergeHangs DEF View
  <2>10. \A n \in Nodes : u[n] = IF tx[w][n] # None THEN tx[w][n] ELSE View(v)[n]
    BY <2>1 DEF View, Overlay
  <2>11. Aims(v)'
    <3>1. ASSUME Placing(v), NEW p \in Nodes, Active(View(v), p)
          PROVE  Active(u, p)
      <4>1. Drops(tx[w]) = {}
        BY <2>4, <2>7, <3>1
      <4>2. QED
        BY <2>10, <3>1, <4>1 DEF Drops, Active
    <3>2. ASSUME pc[v] \in {"lock", "cycle", "move"}, dest[v] # Top
          PROVE  Active(u, dest[v])
      <4>1. dest[v] \in Nodes
        BY <3>2 DEF StepInv, Args, Nodes
      <4>2. Placing(v) /\ Active(View(v), dest[v])
        BY <2>4, <3>2 DEF Placing, Aims
      <4>3. QED
        BY <3>1, <4>1, <4>2
    <3>3. ASSUME pc[v] = "restore", u[target[v]].parent # Top
          PROVE  Active(u, u[target[v]].parent)
      <4>1. target[v] \in Nodes /\ View(v)[target[v]] # None
        BY <3>3 DEF StepInv, Args
      <4>2. View(v)[target[v]] \in Row
        BY <1>1, <4>1, ViewType DEF Table, MaybeRow
      <4>3. Placing(v)
        BY <3>3 DEF Placing
      <4>4. CASE tx[w][target[v]] # None
        <5>1. Active(u, target[v])
          BY <2>4, <2>7, <2>10, <4>1, <4>3, <4>4 DEF Drops, Active
        <5>2. cascade[v] = {}
          BY <2>4, <3>3 DEF Lists
        <5>3. QED
          BY <2>9, <3>3, <4>1, <5>1, <5>2 DEF Hangs
      <4>5. CASE tx[w][target[v]] = None
        <5>1. u[target[v]] = View(v)[target[v]]
          BY <2>10, <4>1, <4>5
        <5>2. Active(View(v), u[target[v]].parent)
          BY <2>4, <3>3, <5>1 DEF Aims
        <5>3. u[target[v]].parent \in Nodes
          BY <3>3, <4>2, <5>1 DEF Row, Nodes
        <5>4. QED
          BY <3>1, <4>3, <5>2, <5>3
      <4>6. QED
        BY <4>4, <4>5
    <3>4. QED
      BY <1>3, <2>2, <3>2, <3>3 DEF Aims
  <2>12. Lists(v)'
    <3>1. ASSUME pc[v] = "delete"
          PROVE  DownClosed(u, listed[v])
      <4>1. Adds(rows, tx[w]) = {}
        BY <2>5, <3>1 DEF Deleting
      <4>2. ASSUME NEW n \in Nodes, Active(u, n)
            PROVE  u[n] = View(v)[n]
        <5>1. CASE tx[w][n] # None
          <6>1. tx[w][n] = rows[n]
            BY <2>10, <4>1, <4>2, <5>1 DEF Adds, Active
          <6>2. tx[v][n] = None
            BY <1>6, <5>1
          <6>3. QED
            BY <2>10, <5>1, <6>1, <6>2 DEF View, Overlay
        <5>2. CASE tx[w][n] = None
          BY <2>10, <5>2
        <5>3. QED
          BY <5>1, <5>2
      <4>3. DownClosed(View(v), listed[v])
        BY <2>4, <3>1 DEF Lists
      <4>4. QED
        BY <4>2, <4>3 DEF DownClosed, Active
    <3>2. QED
      BY <1>2, <1>3, <1>7, <2>2, <2>4, <3>1 DEF Lists
  <2>13. QED
    BY <1>3, <2>2, <2>9, <2>11, <2>12 DEF Fine
<1>11. QED
  BY <1>8, <1>9, <1>10

-----------------------------------------------------------------------------
\* The theorems about what is reachable and what is recorded.

\* Every step of w leaves the others as they were, or ends its transaction.
LEMMA OthersStay ==
  ASSUME StepInv, NEW w \in Writers, Step(w), ~Commit(w), NEW v \in Writers \ {w}
  PROVE  /\ rows' = rows /\ tx'[v] = tx[v] /\ pc'[v] = pc[v] /\ target'[v] = target[v]
         /\ dest'[v] = dest[v] /\ listed'[v] = listed[v] /\ cascade'[v] = cascade[v]
         /\ touched'[v] = touched[v]
<1> USE DEF StepInv, OpTypesButRaced, StoreInv
<1>1. CASE Rollback(w)
  BY <1>1, ReleaseMeans, DoneMeans DEF Rollback, Release, Done
<1>2. CASE MoveNode(w) \/ DeleteCascade(w) \/ RestoreNode(w)
  BY <1>2 DEF MoveNode, DeleteCascade, RestoreNode, Done
<1>3. CASE DeleteNode(w) \/ LockMoves(w) \/ CheckCycle(w)
  BY <1>3 DEF DeleteNode, LockMoves, CheckCycle
<1>4. ASSUME NEW n \in Nodes,
             UpdateNode(w, n) \/ CheckDelete(w, n) \/ CheckRestore(w, n) \/ RestoreActive(w, n)
      PROVE  /\ rows' = rows /\ tx'[v] = tx[v] /\ pc'[v] = pc[v] /\ target'[v] = target[v]
             /\ dest'[v] = dest[v] /\ listed'[v] = listed[v] /\ cascade'[v] = cascade[v]
             /\ touched'[v] = touched[v]
  BY <1>4 DEF UpdateNode, CheckDelete, CheckRestore, RestoreActive, op
<1>5. ASSUME NEW n \in Nodes, NEW p \in Folders \union {Top}, CreateNode(w, n, p) \/ CheckMove(w, n, p)
      PROVE  /\ rows' = rows /\ tx'[v] = tx[v] /\ pc'[v] = pc[v] /\ target'[v] = target[v]
             /\ dest'[v] = dest[v] /\ listed'[v] = listed[v] /\ cascade'[v] = cascade[v]
             /\ touched'[v] = touched[v]
  BY <1>5 DEF CreateNode, CheckMove, op
<1>6. QED
  BY <1>1, <1>2, <1>3, <1>4, <1>5 DEF Step

\* Every step of every session leaves all sessions fine, if it does not make a
\* deletion and a placement overlap, and none unnoticed.
LEMMA StepStaysCalm ==
  ASSUME StepInv, NEW w \in Writers, Step(w)
  PROVE  /\ Calm => Hangs(rows', {}) /\ \A v \in Writers : Fine(v)'
         /\ (\A v \in Writers : Noted(v)) => \A v \in Writers : Noted(v)'
<1>1. CASE Commit(w)
  BY <1>1, CommitFine
<1>2. CASE ~Commit(w)
  <2>1. ASSUME NEW v \in Writers \ {w}
        PROVE  (Fine(v) => Fine(v)') /\ (Noted(v) => Noted(v)')
    BY <1>2, <2>1, OthersStay, OthersFine
  <2>2. (Calm => Fine(w)') /\ (Noted(w) => Noted(w)')
    <3>1. Calm => Fine(w) /\ Hangs(rows, {})
      BY DEF Calm
    <3>2. CASE Rollback(w)
      BY <3>1, <3>2, RollbackFine
    <3>3. CASE MoveNode(w) \/ RestoreNode(w) \/ DeleteNode(w) \/ DeleteCascade(w)
      BY <3>1, <3>3, MoveNodeFine, RestoreNodeFine, DeleteNodeFine, DeleteCascadeFine
    <3>4. ASSUME NEW n \in Nodes, UpdateNode(w, n) \/ RestoreActive(w, n)
          PROVE  (Calm => Fine(w)') /\ (Noted(w) => Noted(w)')
      BY <3>1, <3>4, OneStepFine
    <3>5. ASSUME NEW n \in Nodes, NEW p \in Folders \union {Top}, CreateNode(w, n, p)
          PROVE  (Calm => Fine(w)') /\ (Noted(w) => Noted(w)')
      BY <3>1, <3>5, OneStepFine
    <3>6. CASE \/ \E n \in Nodes : CheckDelete(w, n) \/ CheckRestore(w, n)
               \/ \E n \in Nodes, p \in Folders \union {Top} : CheckMove(w, n, p)
               \/ LockMoves(w) \/ CheckCycle(w)
      BY <3>1, <3>6, CheckFine
    <3>7. QED
      BY <1>2, <3>2, <3>3, <3>4, <3>5, <3>6 DEF Step
  <2>3. rows' = rows
    <3>1. CASE \E n \in Nodes :
                 UpdateNode(w, n) \/ CheckDelete(w, n) \/ CheckRestore(w, n) \/ RestoreActive(w, n)
      BY <3>1 DEF UpdateNode, CheckDelete, CheckRestore, RestoreActive
    <3>2. CASE \E n \in Nodes, p \in Folders \union {Top} : CreateNode(w, n, p) \/ CheckMove(w, n, p)
      BY <3>2 DEF CreateNode, CheckMove
    <3>3. QED
      BY <1>2, <3>1, <3>2 DEF Step, LockMoves, CheckCycle, MoveNode, DeleteNode, DeleteCascade,
                              RestoreNode, Rollback
  <2>4. Calm => Hangs(rows', {}) /\ \A v \in Writers : Fine(v)
    BY <2>3 DEF Calm
  <2>5. QED
    BY <2>1, <2>2, <2>4
<1>3. QED
  BY <1>1, <1>2

\* That is an invariant.
Followed == (\A w \in Writers : Noted(w)) /\ (raced \/ Calm)

\* It holds at the start, and every step keeps it.
LEMMA Following == Spec => []Followed
<1>1. Init => Followed
  <2> SUFFICES ASSUME Init PROVE Followed
    OBVIOUS
  <2>1. /\ \A w \in Writers : tx[w] = Nothing /\ pc[w] = "open" /\ cascade[w] = {}
        /\ rows = Nothing /\ \A w \in Writers : View(w) = Nothing
    BY NothingIsFine DEF Init, View
  <2>2. \A n \in Nodes : Nothing[n] = None
    BY DEF Nothing
  <2>3. Hangs(Nothing, {}) /\ ~Race
    BY <2>1, <2>2 DEF Hangs, Race, Deleting, Placing, Active
  <2>4. \A w \in Writers : Back(w) = {} /\ Gone(w) = {}
    BY <2>1, <2>2 DEF Back, Gone, Active
  <2>5. \A w \in Writers : Fine(w) /\ Noted(w)
    BY <2>1, <2>3, <2>4 DEF Fine, Aims, Lists, Noted
  <2>6. QED
    BY <2>1, <2>3, <2>5 DEF Followed, Calm
<1>2. IInv /\ Followed /\ [Next]_vars => Followed'
  <2> SUFFICES ASSUME IInv, Followed, [Next]_vars PROVE Followed'
    OBVIOUS
  <2>1. StepInv
    BY DEF IInv, StepInv, OpTypes, OpTypesButRaced
  <2>2. CASE Next
    <3>1. PICK w \in Writers : Step(w)
      BY <2>2 DEF Next
    <3>2. raced' = (raced \/ Race')
      BY <2>2 DEF Next
    <3>3. QED
      BY <2>1, <3>1, <3>2, StepStaysCalm DEF Followed, Calm
  <2>3. CASE UNCHANGED vars
    <3>1. /\ UNCHANGED <<rows, tx, mover, pc, target, dest, listed, cascade, touched, ops, raced>>
      BY <2>3 DEF vars, op
    <3>2. \A w \in Writers : (Fine(w) => Fine(w)') /\ (Noted(w) => Noted(w)')
      BY <3>1, OthersFine
    <3>3. Race' = Race /\ (Hangs(rows, {}) => Hangs(rows, {})')
      BY <3>1 DEF Race, Deleting, Placing
    <3>4. QED
      BY <3>1, <3>2, <3>3 DEF Followed, Calm
  <2>4. QED
    BY <2>2, <2>3
<1>3. QED
  BY <1>1, <1>2, Invariance, PTL DEF Spec

\* For any number of sessions and nodes: as long as no transaction deletes while
\* another one places, every active node can be reached from the top, in
\* whatever order operations interleave and commit.
THEOREM ActiveStaysReachable == Spec => []ReachableUnlessRaced
<1>1. Followed => ReachableUnlessRaced
  BY DEF Followed, Calm, Hangs, ReachableUnlessRaced, Reachable
<1>2. QED
  BY <1>1, Following, PTL

\* A session between two operations has noted every node its COMMIT brings back,
\* and unless deletions and placements overlapped every node it takes away: the
\* list that delete_node made before the dal's is never too short.
THEOREM NothingGoesUnrecorded == Spec => []ChangesRecorded
<1>1. Followed => ChangesRecorded
  BY DEF Followed, Noted, Calm, Fine, Lists, ChangesRecorded, CascadeRecorded
<1>2. QED
  BY <1>1, Following, PTL
=============================================================================
