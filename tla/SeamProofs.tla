----------------------------- MODULE SeamProofs -----------------------------
(***************************************************************************)
(* Proofs about WriteSeam, for any number of sessions, files and texts:    *)
(* originals are kept, an aborted write leaves none, committed text is     *)
(* findable and the index exact, and readers see one atomic store; and     *)
(* about GarbageCollection: the collector beside any number of writers     *)
(* never takes what a row names or a write in flight has staged.           *)
(***************************************************************************)
EXTENDS GarbageCollection, TLAPS

-----------------------------------------------------------------------------
\* Types of the operators the actions are built from.

\* A map without rows is a map of rows.
LEMMA NothingType == Nothing \in [Files -> MaybeRow]
  BY DEF Nothing, MaybeRow

\* A transaction's changes over a table give a table.
LEMMA OverlayType ==
  ASSUME NEW base \in [Files -> MaybeRow], NEW changes \in [Files -> MaybeRow]
  PROVE  Overlay(base, changes) \in [Files -> MaybeRow]
  BY DEF Overlay

\* A row asks for chunks of its own file.
LEMMA ChunksOfType ==
  ASSUME NEW f \in Files, NEW row \in MaybeRow
  PROVE  ChunksOf(f, row) \subseteq Files \X Texts
  BY DEF ChunksOf, MaybeRow, Row

\* Changing one cell of a table of tables leaves the others as they were.
LEMMA ExceptElsewhere ==
  ASSUME NEW S, NEW T, NEW R, NEW g \in [S -> [T -> R]],
         NEW s \in S, NEW t \in T, NEW new,
         NEW u \in S, NEW x \in T, u # s \/ x # t
  PROVE  [g EXCEPT ![s][t] = new][u][x] = g[u][x]
<1>1. CASE u # s
  BY <1>1
<1>2. CASE u = s
  <2>1. [g EXCEPT ![s][t] = new][s] = [g[s] EXCEPT ![t] = new]
    OBVIOUS
  <2>2. [g[s] EXCEPT ![t] = new][x] = g[s][x]
    BY <1>2
  <2>3. QED
    BY <1>2, <2>1, <2>2
<1>3. QED
  BY <1>1, <1>2

-----------------------------------------------------------------------------
\* Type correctness.

\* The types are right at the start.
LEMMA InitTypeOK == Init => TypeOK
  BY NothingType DEF Init, TypeOK, Phases

\* An ingest step keeps the types.
LEMMA IngestTypeOK ==
  ASSUME TypeOK, NEW w \in Writers, Ingest(w)
  PROVE  TypeOK'
<1> USE DEF TypeOK, stores, info, settling, Phases
<1>1. CASE BeginIngest(w)
  <2>1. PICK S \in SUBSET (Files \ issued) : \E B \in SUBSET S : \E t \in Texts :
          /\ S # {}
          /\ issued' = issued \union S
          /\ plan' = [plan EXCEPT ![w] = NewRows(S, B, t)]
          /\ touched' = [touched EXCEPT ![w] = S]
          /\ created' = [created EXCEPT ![w] = S]
    BY <1>1 DEF BeginIngest
  <2>2. PICK B \in SUBSET S, t \in Texts : plan' = [plan EXCEPT ![w] = NewRows(S, B, t)]
    BY <2>1
  <2>3. NewRows(S, B, t) \in [Files -> MaybeRow]
    BY DEF NewRows, MaybeRow, Row
  <2>4. plan' \in [Writers -> [Files -> MaybeRow]]
    BY <2>2, <2>3
  <2>5. QED
    BY <1>1, <2>1, <2>4 DEF BeginIngest
<1>2. CASE IndexPlan(w)
  <2>1. UNION {ChunksOf(f, plan[w][f]) : f \in Files} \subseteq Files \X Texts
    BY ChunksOfType
  <2>2. PlannedOriginals(w) \subseteq Files
    BY DEF PlannedOriginals
  <2>3. QED
    BY <1>2, <2>1, <2>2 DEF IndexPlan
<1>3. CASE IndexPlanFails(w)
  <2>1. UNION {ChunksOf(f, plan[w][f]) : f \in Files} \subseteq Files \X Texts
    BY ChunksOfType
  <2>2. QED
    BY <1>3, <2>1 DEF IndexPlanFails
<1>4. CASE UploadsEnd(w)
  BY <1>4 DEF UploadsEnd
<1>5. CASE Materialize(w)
  BY <1>5, NothingType DEF Materialize
<1>6. ASSUME NEW f \in Files, PutOriginal(w, f)
      PROVE  TypeOK'
  BY <1>6 DEF PutOriginal
<1>7. ASSUME NEW f \in Files, PutOriginalFails(w, f)
      PROVE  TypeOK'
  BY <1>7 DEF PutOriginalFails
<1>8. QED
  BY <1>1, <1>2, <1>3, <1>4, <1>5, <1>6, <1>7 DEF Ingest

\* A step of a request's body keeps the types.
LEMMA RequestTypeOK ==
  ASSUME TypeOK, NEW w \in Writers, Request(w)
  PROVE  TypeOK'
<1> USE DEF TypeOK, stores, info, settling, Phases
<1>1. CASE BeginRequest(w)
  BY <1>1 DEF BeginRequest
<1>2. ASSUME NEW f \in Files, CreateFile(w, f)
      PROVE  TypeOK'
  <2>1. PICK t \in Texts :
          tx' = [tx EXCEPT ![w][f] = [text |-> t, active |-> TRUE, blob |-> FALSE]]
    BY <1>2 DEF CreateFile
  <2>2. [text |-> t, active |-> TRUE, blob |-> FALSE] \in MaybeRow
    BY DEF MaybeRow, Row
  <2>3. tx' \in [Writers -> [Files -> MaybeRow]]
    BY <2>1, <2>2
  <2>4. QED
    BY <1>2, <2>3 DEF CreateFile
<1>3. ASSUME NEW f \in Files, ChangeFile(w, f)
      PROVE  TypeOK'
  <2>1. PICK new \in Row : tx' = [tx EXCEPT ![w][f] = new]
    BY <1>3 DEF ChangeFile
  <2>2. new \in MaybeRow
    BY DEF MaybeRow
  <2>3. tx' \in [Writers -> [Files -> MaybeRow]]
    BY <2>1, <2>2
  <2>4. QED
    BY <1>3, <2>3 DEF ChangeFile
<1>4. QED
  BY <1>1, <1>2, <1>3 DEF Request

\* So does a step that ends a transaction.
LEMMA EndTransactionTypeOK ==
  ASSUME TypeOK, NEW w \in Writers, EndTransaction(w)
  PROVE  TypeOK'
<1> USE DEF TypeOK, stores, info, settling, Phases
<1>1. TouchedChunks(w) \subseteq Files \X Texts
  <2>1. \A f \in touched[w] : View(w, f) \in MaybeRow
    BY OverlayType DEF View
  <2>2. QED
    BY <2>1, ChunksOfType DEF TouchedChunks
<1>2. CASE StageTouched(w)
  BY <1>1, <1>2 DEF StageTouched
<1>3. CASE StageTouchedFails(w)
  BY <1>1, <1>3 DEF StageTouchedFails
<1>4. CASE Commit(w)
  BY <1>4, NothingType, OverlayType DEF Commit
<1>5. CASE CommitLost(w)
  BY <1>5 DEF CommitLost
<1>6. CASE Rollback(w)
  BY <1>6, NothingType DEF Rollback
<1>7. CASE EndUnstaged(w)
  BY <1>7, NothingType DEF EndUnstaged, ForgetInfo
<1>8. QED
  BY <1>2, <1>3, <1>4, <1>5, <1>6, <1>7 DEF EndTransaction

\* So does a settling step.
LEMMA SettleTypeOK ==
  ASSUME TypeOK, NEW w \in Writers, Settle(w)
  PROVE  TypeOK'
<1> USE DEF TypeOK, stores, info, settling, Phases
<1>1. CASE SettleRead(w)
  BY <1>1, NothingType DEF SettleRead, Applying, MaybeRow
<1>2. CASE SettleReadFails(w)
  BY <1>2 DEF SettleReadFails, Applying
<1>3. ASSUME NEW f \in Files, ReconcileFile(w, f)
      PROVE  TypeOK'
  <2>1. ChunksOf(f, seen[w][f]) \subseteq Files \X Texts
    BY ChunksOfType
  <2>2. QED
    BY <1>3, <2>1 DEF ReconcileFile
<1>4. ASSUME NEW f \in Files, ReconcileFileFails(w, f)
      PROVE  TypeOK'
  <2>1. ChunksOf(f, seen[w][f]) \subseteq Files \X Texts
    BY ChunksOfType
  <2>2. QED
    BY <1>4, <2>1 DEF ReconcileFileFails
<1>5. CASE SettleOriginals(w)
  BY <1>5, NothingType DEF SettleOriginals, SettleEnds, ForgetInfo
<1>6. CASE SettleOriginalsFails(w)
  BY <1>6, NothingType DEF SettleOriginalsFails, SettleEnds, ForgetInfo
<1>7. QED
  BY <1>1, <1>2, <1>3, <1>4, <1>5, <1>6 DEF Settle

\* So does the server deciding a COMMIT, and a crash.
LEMMA ServerCrashTypeOK ==
  ASSUME TypeOK, NEW w \in Writers, Server(w) \/ Crash(w)
  PROVE  TypeOK'
<1> USE DEF TypeOK, stores, info, settling, Phases
<1>1. CASE ServerCommits(w)
  BY <1>1, NothingType, OverlayType DEF ServerCommits
<1>2. CASE ServerAborts(w)
  BY <1>2, NothingType DEF ServerAborts
<1>3. CASE Crash(w)
  <2>1. tx' \in [Writers -> [Files -> MaybeRow]]
    BY <1>3, NothingType DEF Crash
  <2>2. residue' \subseteq Files
    BY <1>3 DEF Crash
  <2>3. pc' \in [Writers -> Phases]
    BY <1>3 DEF Crash
  <2>4. QED
    BY <1>3, <2>1, <2>2, <2>3, NothingType DEF Crash, ForgetInfo
<1>4. QED
  BY <1>1, <1>2, <1>3 DEF Server

\* Every variable keeps its type, whatever the sessions do.
THEOREM TypeCorrect == Spec => []TypeOK
<1>1. Init => TypeOK
  BY InitTypeOK
<1>2. TypeOK /\ [Next]_vars => TypeOK'
  <2> SUFFICES ASSUME TypeOK, [Next]_vars PROVE TypeOK'
    OBVIOUS
  <2>1. CASE Next
    BY <2>1, IngestTypeOK, RequestTypeOK, EndTransactionTypeOK, SettleTypeOK,
       ServerCrashTypeOK DEF Next
  <2>2. CASE UNCHANGED vars
    BY <2>2 DEF TypeOK, vars, stores, info, settling
  <2>3. QED
    BY <2>1, <2>2
<1>3. QED
  BY <1>1, <1>2, PTL DEF Spec

-----------------------------------------------------------------------------
\* The inductive invariant behind NoLostOriginal.  It holds where the server
\* decides a COMMIT before the client settles (CommitLandsFirst).

\* The files w alone answers for: planned, uploaded, or created by its open
\* transaction.
Claims(w) == {f \in Files : \/ plan[w][f] # NoRow
                            \/ f \in uploaded[w]
                            \/ tx[w][f] # NoRow /\ rows[f] = NoRow}

\* Ids in use have been issued.
Issued ==
  \A f \in Files : (rows[f] # NoRow \/ \E w \in Writers : tx[w][f] # NoRow \/ f \in Claims(w))
                     => f \in issued

\* No two sessions answer for the same new file.
OneOwner ==
  \A v, w \in Writers : v # w => Claims(v) \intersect Claims(w) = {}

\* No two transactions have changed the same row.
RowLocks ==
  \A v, w \in Writers : v # w => \A f \in Files : tx[v][f] = NoRow \/ tx[w][f] = NoRow

\* A change of a row keeps what the row says of its original.
SameOriginal ==
  \A w \in Writers, f \in Files :
    tx[w][f] # NoRow /\ rows[f] # NoRow => tx[w][f].blob = rows[f].blob

\* What is planned is not yet in the table, and is planned only in the phases
\* of an ingest that lead to Materialize or to the undo.
PlanIsNew ==
  \A w \in Writers, f \in Files :
    plan[w][f] # NoRow =>
      /\ rows[f] = NoRow
      /\ pc[w] \in {"indexing", "uploading", "open", "undo_read", "undo_apply"}

\* Where a session may have flushed rows, and where a COMMIT is in doubt.
TxPhases ==
  \A w \in Writers :
    /\ w \in inDoubt => pc[w] \in {"idle", "settle_read"}
    /\ pc[w] \notin {"open", "staged", "failed"} /\ w \notin inDoubt => tx[w] = Nothing

\* Nothing is recorded before the uploads; while they run, what is recorded is
\* stored and what is left is planned.
UploadsRecorded ==
  \A w \in Writers :
    /\ pc[w] \in {"idle", "indexing"} => uploaded[w] = {}
    /\ pc[w] = "uploading" => /\ uploaded[w] \subseteq objects
                              /\ puts[w] \subseteq {f \in Files : plan[w][f] # NoRow}

\* Once they have ended without an error, every planned original is stored.
PlanBacked ==
  \A w \in Writers, f \in Files :
    pc[w] = "open" /\ HasOriginal(plan[w][f]) => f \in objects

\* A flushed row that names an original finds it.
TxBacked ==
  \A w \in Writers, f \in Files : HasOriginal(tx[w][f]) => f \in objects

IInv ==
  /\ Issued
  /\ OneOwner
  /\ RowLocks
  /\ SameOriginal
  /\ PlanIsNew
  /\ TxPhases
  /\ UploadsRecorded
  /\ PlanBacked
  /\ TxBacked
  /\ NoLostOriginal

\* The invariant holds at the start.
LEMMA InitIInv == Init => IInv
  BY DEF Init, Nothing, IInv, Issued, OneOwner, RowLocks, SameOriginal, PlanIsNew,
         TxPhases, UploadsRecorded, PlanBacked, TxBacked, NoLostOriginal, Claims,
         HasOriginal

\* The ingest steps.  A plan is made of fresh ids, so it is nobody else's; the
\* uploads end without an error only when every planned original is stored; so
\* the rows Materialize flushes are backed.
LEMMA IngestIInv ==
  ASSUME TypeOK, IInv, NEW w \in Writers, Ingest(w)
  PROVE  IInv'
<1> USE DEF TypeOK, stores, info, settling, IInv, Issued, OneOwner, RowLocks, SameOriginal, PlanIsNew, TxPhases,
          UploadsRecorded, PlanBacked, TxBacked, NoLostOriginal, Claims, HasOriginal
<1>1. CASE BeginIngest(w)
  BY <1>1 DEF BeginIngest, NewRows, Nothing
<1>2. CASE IndexPlan(w)
  <2>1. UploadsRecorded'
    <3>1. PlannedOriginals(w) \subseteq {f \in Files : plan[w][f] # NoRow}
      BY DEF PlannedOriginals
    <3>2. puts'[w] = PlannedOriginals(w) /\ pc'[w] = "uploading"
      BY <1>2 DEF IndexPlan
    <3>3. uploaded[w] \subseteq objects
      BY <1>2 DEF IndexPlan
    <3>4. QED
      BY <1>2, <3>1, <3>2, <3>3 DEF IndexPlan
  <2>2. QED
    BY <1>2, <2>1 DEF IndexPlan
<1>3. CASE IndexPlanFails(w)
  BY <1>3 DEF IndexPlanFails
<1>4. CASE UploadsEnd(w)
  <2>1. PlanBacked'
    BY <1>4 DEF UploadsEnd, PlannedOriginals
  <2>2. \E p \in {"open", "undo_read"} : pc' = [pc EXCEPT ![w] = p]
    BY <1>4 DEF UploadsEnd
  <2>3. PlanIsNew' /\ TxPhases'
    BY <1>4, <2>2 DEF UploadsEnd
  <2>4. UploadsRecorded'
    BY <1>4, <2>2 DEF UploadsEnd
  <2>5. QED
    BY <1>4, <2>1, <2>3, <2>4 DEF UploadsEnd
<1>5. CASE Materialize(w)
  BY <1>5 DEF Materialize, Nothing
<1>6. ASSUME NEW f \in Files, PutOriginal(w, f)
      PROVE  IInv'
  BY <1>6 DEF PutOriginal
<1>7. ASSUME NEW f \in Files, PutOriginalFails(w, f)
      PROVE  IInv'
  BY <1>7 DEF PutOriginalFails
<1>8. QED
  BY <1>1, <1>2, <1>3, <1>4, <1>5, <1>6, <1>7 DEF Ingest

\* A request creates rows under fresh ids, and changes only rows it can lock.
LEMMA RequestIInv ==
  ASSUME TypeOK, IInv, NEW w \in Writers, Request(w)
  PROVE  IInv'
<1> USE DEF TypeOK, stores, info, settling, IInv, Issued, OneOwner, RowLocks, SameOriginal, PlanIsNew, TxPhases,
          UploadsRecorded, PlanBacked, TxBacked, NoLostOriginal, Claims, HasOriginal
<1>1. CASE BeginRequest(w)
  <2>1. PlanIsNew' /\ TxPhases'
    BY <1>1 DEF BeginRequest
  <2>2. PlanBacked'
    BY <1>1 DEF BeginRequest
  <2>3. QED
    BY <1>1, <2>1, <2>2 DEF BeginRequest
<1>2. ASSUME NEW f \in Files, CreateFile(w, f)
      PROVE  IInv'
  <2>1. rows[f] = NoRow /\ \A v \in Writers : tx[v][f] = NoRow /\ f \notin Claims(v)
    BY <1>2 DEF CreateFile
  <2>2. SameOriginal'
    <3> PICK new : tx' = [tx EXCEPT ![w][f] = new]
      BY <1>2 DEF CreateFile
    <3>1. \A v \in Writers, g \in Files :
            v # w \/ g # f => tx'[v][g] = tx[v][g]
      <4> SUFFICES ASSUME NEW v \in Writers, NEW g \in Files, v # w \/ g # f
                   PROVE  tx'[v][g] = tx[v][g]
        OBVIOUS
      <4>1. QED
        BY ExceptElsewhere
    <3>2. rows' = rows
      BY <1>2 DEF CreateFile
    <3>3. QED
      BY <2>1, <3>1, <3>2
  <2>3. OneOwner' /\ RowLocks'
    BY <1>2, <2>1 DEF CreateFile
  <2>4. Issued' /\ PlanIsNew'
    BY <1>2 DEF CreateFile
  <2>5. TxPhases'
    BY <1>2 DEF CreateFile, Writing
  <2>6. UploadsRecorded' /\ PlanBacked' /\ TxBacked' /\ NoLostOriginal'
    BY <1>2 DEF CreateFile
  <2>7. QED
    BY <2>2, <2>3, <2>4, <2>5, <2>6
<1>3. ASSUME NEW f \in Files, ChangeFile(w, f)
      PROVE  IInv'
  BY <1>3 DEF ChangeFile, Writing, Unlocked, View, Overlay, Changed, Row
<1>4. QED
  BY <1>1, <1>2, <1>3 DEF Request

\* The steps that end a transaction.  COMMIT moves backed rows to the table.
LEMMA EndTransactionIInv ==
  ASSUME TypeOK, IInv, NEW w \in Writers, EndTransaction(w)
  PROVE  IInv'
<1> USE DEF TypeOK, stores, info, settling, IInv, Issued, OneOwner, RowLocks, SameOriginal, PlanIsNew, TxPhases,
          UploadsRecorded, PlanBacked, TxBacked, NoLostOriginal, Claims, HasOriginal
<1>1. CASE StageTouched(w)
  BY <1>1 DEF StageTouched, Nothing
<1>2. CASE StageTouchedFails(w)
  BY <1>2 DEF StageTouchedFails, Nothing
<1>3. CASE Commit(w)
  BY <1>3 DEF Commit, Overlay, Nothing
<1>4. CASE CommitLost(w)
  BY <1>4 DEF CommitLost
<1>5. CASE Rollback(w)
  BY <1>5 DEF Rollback, Nothing
<1>6. CASE EndUnstaged(w)
  BY <1>6 DEF EndUnstaged, ForgetInfo, Nothing
<1>7. QED
  BY <1>1, <1>2, <1>3, <1>4, <1>5, <1>6 DEF EndTransaction

\* What an undo deletes backs nothing: no committed row, since it was checked;
\* no flushed row, since the file is w's alone while it has no row.
LEMMA OrphansBackNothing ==
  ASSUME TypeOK, IInv, NEW w \in Writers, tx[w] = Nothing, NEW f \in Orphans(w)
  PROVE  /\ ~HasOriginal(rows[f])
         /\ \A v \in Writers : ~HasOriginal(tx[v][f])
         /\ \A v \in Writers \ {w} : plan[v][f] = NoRow /\ f \notin uploaded[v]
<1> USE DEF TypeOK, IInv, HasOriginal
<1>1. f \in Files /\ f \in uploaded[w] /\ ~HasOriginal(rows[f])
  BY DEF Orphans
<1>2. f \in Claims(w)
  BY <1>1 DEF Claims
<1>3. \A v \in Writers \ {w} : f \notin Claims(v)
  BY <1>2 DEF OneOwner
<1>4. ASSUME NEW v \in Writers, HasOriginal(tx[v][f])
      PROVE  FALSE
  <2>1. v # w
    BY <1>1, <1>4 DEF Nothing
  <2>2. rows[f] # NoRow
    BY <1>1, <1>3, <1>4, <2>1 DEF Claims
  <2>3. tx[v][f].blob = rows[f].blob
    BY <1>1, <1>4, <2>2 DEF SameOriginal
  <2>4. QED
    BY <1>1, <1>4, <2>2, <2>3
<1>5. \A v \in Writers \ {w} : plan[v][f] = NoRow /\ f \notin uploaded[v]
  BY <1>1, <1>3 DEF Claims
<1>6. QED
  BY <1>1, <1>4, <1>5

\* The last step of settling, whatever part of the orphans it deletes.
LEMMA SettleOriginalsIInv ==
  ASSUME TypeOK, IInv, NEW w \in Writers,
         pc[w] \in {"undo_apply", "settle_apply"},
         NEW gone \in SUBSET Orphans(w),
         objects' = objects \ gone,
         SettleEnds(w),
         plan' = [plan EXCEPT ![w] = Nothing],
         UNCHANGED <<rows, issued, tx, inDoubt, puts>>
  PROVE  IInv'
<1> USE DEF TypeOK, SettleEnds, ForgetInfo, IInv
<1>1. w \notin inDoubt /\ tx[w] = Nothing
  BY DEF TxPhases
<1>2. \A f \in gone : /\ ~HasOriginal(rows[f])
                      /\ \A v \in Writers : ~HasOriginal(tx[v][f])
                      /\ \A v \in Writers \ {w} : plan[v][f] = NoRow /\ f \notin uploaded[v]
  BY <1>1, OrphansBackNothing
<1>3. \A v \in Writers : Claims(v)' \subseteq Claims(v)
  BY DEF Claims, Nothing
<1>4. Issued' /\ OneOwner'
  BY <1>3 DEF Issued, OneOwner
<1>5. RowLocks' /\ SameOriginal'
  BY DEF RowLocks, SameOriginal
<1>6. PlanIsNew'
  BY DEF PlanIsNew, Nothing
<1>7. TxPhases'
  BY <1>1 DEF TxPhases
<1>8. UploadsRecorded'
  BY <1>2 DEF UploadsRecorded, Nothing
<1>9. PlanBacked'
  BY <1>2 DEF PlanBacked, HasOriginal, Nothing
<1>10. TxBacked' /\ NoLostOriginal'
  BY <1>2 DEF TxBacked, NoLostOriginal
<1>11. QED
  BY <1>4, <1>5, <1>6, <1>7, <1>8, <1>9, <1>10

\* The settling steps.
LEMMA SettleIInv ==
  ASSUME TypeOK, IInv, CommitLandsFirst, NEW w \in Writers, Settle(w)
  PROVE  IInv'
<1>1. CASE SettleOriginals(w)
  <2>1. PICK gone \in SUBSET Orphans(w) : objects' = objects \ gone
    BY <1>1 DEF SettleOriginals
  <2>2. QED
    BY <1>1, <2>1, SettleOriginalsIInv DEF SettleOriginals
<1>2. CASE SettleOriginalsFails(w)
  <2>1. PICK gone \in SUBSET Orphans(w) : objects' = objects \ gone
    BY <1>2 DEF SettleOriginalsFails
  <2>2. QED
    BY <1>2, <2>1, SettleOriginalsIInv DEF SettleOriginalsFails
<1> USE DEF TypeOK, stores, info, settling, IInv, Issued, OneOwner, RowLocks, SameOriginal, PlanIsNew, TxPhases,
          UploadsRecorded, PlanBacked, TxBacked, NoLostOriginal, Claims, HasOriginal
<1>3. CASE SettleRead(w)
  BY <1>3 DEF SettleRead, Applying
<1>4. CASE SettleReadFails(w)
  BY <1>4 DEF SettleReadFails, Applying
<1>5. ASSUME NEW f \in Files, ReconcileFile(w, f)
      PROVE  IInv'
  BY <1>5 DEF ReconcileFile
<1>6. ASSUME NEW f \in Files, ReconcileFileFails(w, f)
      PROVE  IInv'
  BY <1>6 DEF ReconcileFileFails
<1>7. QED
  BY <1>1, <1>2, <1>3, <1>4, <1>5, <1>6 DEF Settle

\* The server's decision moves backed rows to the table, or drops them; a crash
\* only gives claims up.
LEMMA ServerCrashIInv ==
  ASSUME TypeOK, IInv, NEW w \in Writers, Server(w) \/ Crash(w)
  PROVE  IInv'
<1> USE DEF TypeOK, stores, info, settling, IInv, Issued, OneOwner, RowLocks, SameOriginal, PlanIsNew, TxPhases,
          UploadsRecorded, PlanBacked, TxBacked, NoLostOriginal, Claims, HasOriginal
<1>1. CASE ServerCommits(w)
  <2>1. PlanIsNew'
    <3>1. \A f \in Files : plan[w][f] = NoRow \/ pc[w] = "undo_read"
      BY <1>1 DEF ServerCommits
    <3>2. \A v \in Writers, f \in Files :
            plan[v][f] # NoRow /\ tx[w][f] # NoRow => v = w
      OBVIOUS
    <3>3. \A f \in Files : plan[w][f] = NoRow
      BY <1>1 DEF ServerCommits
    <3>4. QED
      BY <1>1, <3>2, <3>3 DEF ServerCommits, Overlay
  <2>2. QED
    BY <1>1, <2>1 DEF ServerCommits, Overlay, Nothing
<1>2. CASE ServerAborts(w)
  BY <1>2 DEF ServerAborts, Nothing
<1>3. CASE Crash(w)
  <2>1. \A v \in Writers, f \in Files : tx'[v][f] # NoRow => tx'[v][f] = tx[v][f]
    <3>1. tx' = tx \/ tx' = [tx EXCEPT ![w] = Nothing]
      BY <1>3 DEF Crash
    <3>2. QED
      BY <3>1 DEF Nothing
  <2>2. \A v \in Writers, f \in Files : plan'[v][f] # NoRow => v # w /\ plan'[v][f] = plan[v][f]
    BY <1>3 DEF Crash, Nothing
  <2>3. \A v \in Writers : uploaded'[v] \subseteq uploaded[v]
    BY <1>3 DEF Crash, ForgetInfo
  <2>4. rows' = rows /\ objects' = objects /\ issued' = issued /\ inDoubt' = inDoubt
    BY <1>3 DEF Crash
  <2>5. \A v \in Writers : Claims(v)' \subseteq Claims(v)
    BY <2>1, <2>2, <2>3, <2>4
  <2>6. Issued' /\ OneOwner'
    BY <2>1, <2>4, <2>5
  <2>7. RowLocks' /\ SameOriginal'
    BY <2>1, <2>4
  <2>8. PlanIsNew' /\ TxPhases'
    BY <1>3, <2>2, <2>4 DEF Crash, Nothing
  <2>9. \A v \in Writers : v # w => /\ pc'[v] = pc[v]
                                    /\ uploaded'[v] = uploaded[v]
                                    /\ puts'[v] = puts[v]
                                    /\ plan'[v] = plan[v]
    BY <1>3 DEF Crash, ForgetInfo
  <2>10. UploadsRecorded'
    <3>1. pc'[w] = "idle" /\ uploaded'[w] = {}
      BY <1>3 DEF Crash, ForgetInfo
    <3>2. \A v \in Writers : v # w =>
            /\ pc[v] \in {"idle", "indexing"} => uploaded[v] = {}
            /\ pc[v] = "uploading" => /\ uploaded[v] \subseteq objects
                                      /\ puts[v] \subseteq {f \in Files : plan[v][f] # NoRow}
      OBVIOUS
    <3>3. ASSUME NEW v \in Writers, v # w
          PROVE  /\ pc'[v] \in {"idle", "indexing"} => uploaded'[v] = {}
                 /\ pc'[v] = "uploading" => /\ uploaded'[v] \subseteq objects'
                                            /\ puts'[v] \subseteq {f \in Files : plan'[v][f] # NoRow}
      <4>1. /\ pc'[v] = pc[v] /\ uploaded'[v] = uploaded[v]
            /\ puts'[v] = puts[v] /\ plan'[v] = plan[v] /\ objects' = objects
        BY <2>4, <2>9, <3>3
      <4>2. QED
        BY ONLY <3>2, <3>3, <4>1
    <3>4. QED
      BY <3>1, <3>3
  <2>11. PlanBacked' /\ TxBacked' /\ NoLostOriginal'
    BY <1>3, <2>1, <2>2, <2>4 DEF Crash
  <2>12. QED
    BY <2>6, <2>7, <2>8, <2>10, <2>11
<1>4. QED
  BY <1>1, <1>2, <1>3 DEF Server

\* Every step keeps the invariant.
LEMMA NextIInv ==
  ASSUME TypeOK, IInv, CommitLandsFirst, [Next]_vars
  PROVE  IInv'
<1>1. CASE Next
  BY <1>1, IngestIInv, RequestIInv, EndTransactionIInv, SettleIInv, ServerCrashIInv
     DEF Next
<1>2. CASE UNCHANGED vars
  BY <1>2 DEF vars, stores, info, settling, IInv, Issued, OneOwner, RowLocks,
     SameOriginal, PlanIsNew, TxPhases, UploadsRecorded, PlanBacked, TxBacked,
     NoLostOriginal, Claims
<1>3. QED
  BY <1>1, <1>2

\* No committed row, active or deleted, ever loses its original: not to an undo
\* that runs beside other writes, not to a COMMIT whose reply was lost, not to a
\* failed settling or a crash -- as long as a COMMIT under way is decided before
\* its client settles.
THEOREM OriginalsAreKept ==
  ASSUME CommitLandsFirst
  PROVE  Spec => []NoLostOriginal
<1>1. Init => IInv
  BY InitIInv
<1>2. TypeOK /\ IInv /\ [Next]_vars => IInv'
  BY NextIInv
<1>3. IInv => NoLostOriginal
  BY DEF IInv
<1>4. QED
  BY <1>1, <1>2, <1>3, TypeCorrect, PTL DEF Spec


-----------------------------------------------------------------------------
\* What the sessions keep in mind.

\* An idle session has nothing to settle.
IdleIsClean == \A w \in Writers : pc[w] = "idle" => touched[w] = {}

\* What is planned, created, or left to reconcile is among the touched files,
\* and these have been issued.
TouchedFirst ==
  \A w \in Writers :
    /\ Planned(w) \subseteq touched[w]
    /\ created[w] \subseteq touched[w]
    /\ todo[w] \subseteq touched[w]
    /\ touched[w] \subseteq issued

\* What is flushed is touched, but for the COMMIT a killed session has sent.
TxTouched ==
  \A w \in Writers, f \in Files : tx[w][f] # NoRow =>
    f \in touched[w] \/ (w \in inDoubt /\ pc[w] = "idle" /\ f \in residue)

\* An ingest flushes its plan before anything else.
PlanFirst == \A w \in Writers : plan[w] # Nothing => tx[w] = Nothing

\* Only a settling has files left to reconcile.
TodoPhases ==
  \A w \in Writers :
    pc[w] \notin {"undo_read", "undo_apply", "settle_read", "settle_apply"} => todo[w] = {}

Books == IdleIsClean /\ TouchedFirst /\ TxTouched /\ PlanFirst /\ TodoPhases

-----------------------------------------------------------------------------
\* What becomes of originals.

\* The new row w has for f: planned, or flushed.
NewRow(w, f) == IF plan[w][f] # NoRow THEN plan[w][f] ELSE tx[w][f]

\* Until the COMMIT a session has uploaded originals of its own new rows only;
\* after it, of rows that are there.
UploadsNamed ==
  \A w \in Writers :
    /\ pc[w] = "uploading" => puts[w] \subseteq PlannedOriginals(w)
    /\ pc[w] \in {"uploading", "open", "staged"} =>
         \A f \in uploaded[w] : HasOriginal(NewRow(w, f))
    /\ committed[w] => /\ pc[w] \in {"settle_read", "settle_apply"}
                       /\ \A f \in uploaded[w] : HasOriginal(rows[f])

OInv == UploadsNamed /\ NoStrayOriginal

-----------------------------------------------------------------------------
\* What becomes of chunks, where no file is changed while another session has
\* it to settle.

\* No file is touched or changed by two sessions.
OneWriter ==
  \A v, w \in Writers : v # w =>
    \A f \in touched[w] : f \notin touched[v] /\ tx[v][f] = NoRow

\* What a COMMIT may publish is staged.
StagedFindable ==
  \A w \in Writers, f \in Files :
    pc[w] = "staged" \/ w \in inDoubt => ChunksOf(f, tx[w][f]) \subseteq chunks

\* What a reconcile has loaded is still what is committed.
SeenIsCurrent ==
  \A w \in Writers : pc[w] \in {"undo_apply", "settle_apply"} =>
    \A f \in todo[w] : seen[w][f] = rows[f]

FInv == OneWriter /\ StagedFindable /\ SeenIsCurrent /\ AlwaysFindable

-----------------------------------------------------------------------------
ChunksAt(f) == chunks \intersect ({f} \X Texts)

\* The index holds of f what the committed row asks for.
Exact(f) == ChunksAt(f) = ChunksOf(f, rows[f])

\* A file nobody has to settle is exact.
UntouchedExact ==
  \A f \in Files \ residue : (\A w \in Writers : f \notin touched[w]) => Exact(f)

\* A file w has to settle is exact before anything of w is staged, and once w
\* has settled it or found no need to.  A created one has until the COMMIT no
\* chunks but those of its new row: it is staged exactly.
InHand(w, f) ==
  /\ pc[w] = "open" /\ ~staged[w] => Exact(f)
  /\ pc[w] \in {"settle_read", "settle_apply"} /\ f \notin todo[w] => Exact(f)
  /\ pc[w] \in {"indexing", "uploading", "open", "staged"} /\ f \in created[w] =>
       rows[f] = NoRow /\ ChunksAt(f) \subseteq ChunksOf(f, NewRow(w, f))

TouchedInHand ==
  \A w \in Writers : \A f \in touched[w] \ residue : InHand(w, f)

\* A COMMIT in doubt leaves everything to settle.
DoubtSettlesAll ==
  \A w \in inDoubt : pc[w] = "settle_read" => todo[w] = touched[w]

\* An ingest counts as staged from its start.
IngestIsStaged ==
  \A w \in Writers : pc[w] \in {"indexing", "uploading"} => staged[w]

EInv == UntouchedExact /\ TouchedInHand /\ DoubtSettlesAll /\ IngestIsStaged

-----------------------------------------------------------------------------
\* The books are kept.

LEMMA InitBooks == Init => Books
  BY DEF Init, Nothing, Books, IdleIsClean, TouchedFirst, TxTouched, PlanFirst, TodoPhases, Planned

LEMMA IngestBooks ==
  ASSUME TypeOK, IInv, Books, NEW w \in Writers, Ingest(w)
  PROVE  Books'
<1> USE DEF TypeOK, stores, info, settling, TxPhases, Books, IdleIsClean, TouchedFirst,
            TxTouched, PlanFirst, TodoPhases, Planned
<1>0. TxPhases
  BY DEF IInv
<1>1. CASE BeginIngest(w)
  <2>1. IdleIsClean'
    BY <1>0, <1>1 DEF BeginIngest, NewRows, Nothing
  <2>2. TouchedFirst'
    BY <1>0, <1>1 DEF BeginIngest, NewRows, Nothing
  <2>3. TxTouched'
    BY <1>0, <1>1 DEF BeginIngest, NewRows, Nothing
  <2>4. PlanFirst'
    <3>1. tx' = tx
      BY <1>1 DEF BeginIngest
    <3>2. tx[w] = Nothing
      BY <1>0, <1>1 DEF BeginIngest
    <3>3. PICK p : plan' = [plan EXCEPT ![w] = p]
      BY <1>1 DEF BeginIngest
    <3> QED
      BY <3>1, <3>2, <3>3
  <2>5. TodoPhases'
    BY <1>0, <1>1 DEF BeginIngest, NewRows, Nothing
  <2> QED
    BY <2>1, <2>2, <2>3, <2>4, <2>5
<1>2. CASE IndexPlan(w)
  BY <1>2 DEF IndexPlan
<1>3. CASE IndexPlanFails(w)
  BY <1>3 DEF IndexPlanFails
<1>4. CASE UploadsEnd(w)
  <2>1. IdleIsClean'
    BY <1>4 DEF UploadsEnd
  <2>2. TouchedFirst'
    <3>1. /\ todo' = todo \/ todo' = [todo EXCEPT ![w] = touched[w]]
          /\ UNCHANGED <<plan, created, touched, issued>>
      BY <1>4 DEF UploadsEnd
    <3>2. CASE todo' = todo
      BY <3>1, <3>2
    <3>3. CASE todo' = [todo EXCEPT ![w] = touched[w]]
      BY <3>1, <3>3
    <3> QED
      BY <3>1, <3>2, <3>3
  <2>3. TxTouched'
    BY <1>4 DEF UploadsEnd
  <2>4. PlanFirst'
    BY <1>4 DEF UploadsEnd
  <2>5. TodoPhases'
    BY <1>4 DEF UploadsEnd
  <2> QED
    BY <2>1, <2>2, <2>3, <2>4, <2>5
<1>5. CASE Materialize(w)
  BY <1>5 DEF Materialize, Nothing
<1>6. ASSUME NEW f \in Files, PutOriginal(w, f)
      PROVE  Books'
  BY <1>6 DEF PutOriginal
<1>7. ASSUME NEW f \in Files, PutOriginalFails(w, f)
      PROVE  Books'
  BY <1>7 DEF PutOriginalFails
<1>8. QED
  BY <1>1, <1>2, <1>3, <1>4, <1>5, <1>6, <1>7 DEF Ingest

LEMMA RequestBooks ==
  ASSUME TypeOK, IInv, Books, NEW w \in Writers, Request(w)
  PROVE  Books'
<1> USE DEF TypeOK, stores, info, settling, Issued, Books, IdleIsClean, TouchedFirst,
            TxTouched, PlanFirst, TodoPhases, Planned
<1>0. Issued
  BY DEF IInv
<1>1. CASE BeginRequest(w)
  BY <1>1 DEF BeginRequest
<1>2. ASSUME NEW f \in Files, CreateFile(w, f)
      PROVE  Books'
  BY <1>2 DEF CreateFile, Writing
<1>3. ASSUME NEW f \in Files, ChangeFile(w, f)
      PROVE  Books'
  BY <1>0, <1>3 DEF ChangeFile, Writing, View, Overlay
<1>4. QED
  BY <1>1, <1>2, <1>3 DEF Request

LEMMA EndTransactionBooks ==
  ASSUME TypeOK, IInv, Books, NEW w \in Writers, EndTransaction(w)
  PROVE  Books'
<1> USE DEF TypeOK, stores, info, settling, TxPhases, Books, IdleIsClean, TouchedFirst,
            TxTouched, PlanFirst, TodoPhases, Planned
<1>0. TxPhases
  BY DEF IInv
<1>1. CASE StageTouched(w)
  BY <1>1 DEF StageTouched
<1>2. CASE StageTouchedFails(w)
  BY <1>2 DEF StageTouchedFails
<1>3. CASE Commit(w)
  BY <1>0, <1>3 DEF Commit, Nothing
<1>4. CASE CommitLost(w)
  BY <1>4 DEF CommitLost
<1>5. CASE Rollback(w)
  BY <1>0, <1>5 DEF Rollback, Nothing
<1>6. CASE EndUnstaged(w)
  <2>1. IdleIsClean'
    BY <1>0, <1>6 DEF EndUnstaged, ForgetInfo, Nothing
  <2>2. TouchedFirst'
    <3>1. todo[w] = {}
      BY <1>6 DEF EndUnstaged
    <3>2. plan' = [plan EXCEPT ![w] = Nothing]
      BY <1>6 DEF EndUnstaged
    <3>3. /\ touched' = [touched EXCEPT ![w] = {}]
          /\ created' = [created EXCEPT ![w] = {}]
          /\ todo' = todo /\ issued' = issued
      BY <1>6 DEF EndUnstaged, ForgetInfo
    <3> QED
      BY <3>1, <3>2, <3>3 DEF Nothing
  <2>3. TxTouched'
    BY <1>0, <1>6 DEF EndUnstaged, ForgetInfo, Nothing
  <2>4. PlanFirst'
    BY <1>0, <1>6 DEF EndUnstaged, ForgetInfo, Nothing
  <2>5. TodoPhases'
    BY <1>0, <1>6 DEF EndUnstaged, ForgetInfo, Nothing
  <2> QED
    BY <2>1, <2>2, <2>3, <2>4, <2>5
<1>7. QED
  BY <1>1, <1>2, <1>3, <1>4, <1>5, <1>6 DEF EndTransaction

LEMMA SettleBooks ==
  ASSUME TypeOK, IInv, Books, NEW w \in Writers, Settle(w)
  PROVE  Books'
<1> USE DEF TypeOK, stores, info, settling, TxPhases, Books, IdleIsClean, TouchedFirst,
            TxTouched, PlanFirst, TodoPhases, Planned
<1>0. TxPhases
  BY DEF IInv
<1>1. CASE SettleRead(w)
  BY <1>1 DEF SettleRead, Applying
<1>2. CASE SettleReadFails(w)
  BY <1>2 DEF SettleReadFails, Applying
<1>3. ASSUME NEW f \in Files, ReconcileFile(w, f)
      PROVE  Books'
  BY <1>3 DEF ReconcileFile
<1>4. ASSUME NEW f \in Files, ReconcileFileFails(w, f)
      PROVE  Books'
  BY <1>4 DEF ReconcileFileFails
<1>5. CASE SettleOriginals(w)
  <2>1. IdleIsClean'
    BY <1>0, <1>5 DEF SettleOriginals, SettleEnds, ForgetInfo, Nothing
  <2>2. TouchedFirst'
    BY <1>0, <1>5 DEF SettleOriginals, SettleEnds, ForgetInfo, Nothing
  <2>3. TxTouched'
    <3>1. /\ tx' = tx /\ inDoubt' = inDoubt /\ tx[w] = Nothing /\ residue' = residue
          /\ \A v \in Writers : v # w => touched'[v] = touched[v] /\ pc'[v] = pc[v]
      BY <1>0, <1>5 DEF SettleOriginals, SettleEnds, ForgetInfo
    <3> QED
      BY <3>1 DEF Nothing
  <2>4. PlanFirst'
    BY <1>0, <1>5 DEF SettleOriginals, SettleEnds, ForgetInfo, Nothing
  <2>5. TodoPhases'
    BY <1>0, <1>5 DEF SettleOriginals, SettleEnds, ForgetInfo, Nothing
  <2> QED
    BY <2>1, <2>2, <2>3, <2>4, <2>5
<1>6. CASE SettleOriginalsFails(w)
  <2>1. IdleIsClean'
    BY <1>0, <1>6 DEF SettleOriginalsFails, SettleEnds, ForgetInfo, Nothing
  <2>2. TouchedFirst'
    BY <1>0, <1>6 DEF SettleOriginalsFails, SettleEnds, ForgetInfo, Nothing
  <2>3. TxTouched'
    <3>1. /\ tx' = tx /\ inDoubt' = inDoubt /\ tx[w] = Nothing /\ residue \subseteq residue'
          /\ \A v \in Writers : v # w => touched'[v] = touched[v] /\ pc'[v] = pc[v]
      BY <1>0, <1>6 DEF SettleOriginalsFails, SettleEnds, ForgetInfo
    <3> QED
      BY <3>1 DEF Nothing
  <2>4. PlanFirst'
    BY <1>0, <1>6 DEF SettleOriginalsFails, SettleEnds, ForgetInfo, Nothing
  <2>5. TodoPhases'
    BY <1>0, <1>6 DEF SettleOriginalsFails, SettleEnds, ForgetInfo, Nothing
  <2> QED
    BY <2>1, <2>2, <2>3, <2>4, <2>5
<1>7. QED
  BY <1>1, <1>2, <1>3, <1>4, <1>5, <1>6 DEF Settle

LEMMA ServerCrashBooks ==
  ASSUME TypeOK, IInv, Books, NEW w \in Writers, Server(w) \/ Crash(w)
  PROVE  Books'
<1> USE DEF TypeOK, stores, info, settling, TxPhases, Books, IdleIsClean, TouchedFirst,
            TxTouched, PlanFirst, TodoPhases, Planned
<1>0. TxPhases
  BY DEF IInv
<1>1. CASE ServerCommits(w)
  BY <1>1 DEF ServerCommits, Nothing
<1>2. CASE ServerAborts(w)
  BY <1>2 DEF ServerAborts, Nothing
<1>3. CASE Crash(w)
  <2>1. IdleIsClean'
    BY <1>0, <1>3 DEF Crash, ForgetInfo, Nothing
  <2>2. TouchedFirst'
    BY <1>0, <1>3 DEF Crash, ForgetInfo, Nothing
  <2>3. TxTouched'
    BY <1>0, <1>3 DEF Crash, ForgetInfo, Nothing
  <2>4. PlanFirst'
    BY <1>0, <1>3 DEF Crash, ForgetInfo, Nothing
  <2>5. TodoPhases'
    BY <1>0, <1>3 DEF Crash, ForgetInfo, Nothing
  <2> QED
    BY <2>1, <2>2, <2>3, <2>4, <2>5
<1>4. QED
  BY <1>1, <1>2, <1>3 DEF Server

LEMMA NextBooks ==
  ASSUME TypeOK, IInv, Books, [Next]_vars
  PROVE  Books'
<1>1. CASE Next
  BY <1>1, IngestBooks, RequestBooks, EndTransactionBooks, SettleBooks, ServerCrashBooks
     DEF Next
<1>2. CASE UNCHANGED vars
  <2>1. UNCHANGED <<pc, tx, plan, touched, created, todo, issued, inDoubt, residue>>
    BY <1>2 DEF vars, stores, info, settling
  <2>2. QED
    BY <2>1 DEF Books, IdleIsClean, TouchedFirst, TxTouched, PlanFirst, TodoPhases, Planned
<1>3. QED
  BY <1>1, <1>2

-----------------------------------------------------------------------------
\* An aborted write leaves no original behind.

\* No original is uploaded, and none has its key recorded, when all begins.
LEMMA InitOInv == Init => OInv
  BY DEF Init, OInv, UploadsNamed, NoStrayOriginal

\* A committed row that names an original keeps it, whatever transaction lands.
LEMMA RowsKeepOriginals ==
  ASSUME TypeOK, IInv, NEW w \in Writers, NEW f \in Files,
         rows' = Overlay(rows, tx[w]), HasOriginal(rows[f])
  PROVE  HasOriginal(rows'[f])
  BY NoRowAssumption DEF TypeOK, IInv, SameOriginal, HasOriginal, Overlay, MaybeRow, Row

\* The uploads record what they store; what is planned is flushed unchanged.
LEMMA IngestOInv ==
  ASSUME TypeOK, IInv, Books, OInv, NEW w \in Writers, Ingest(w)
  PROVE  OInv'
<1> USE DEF TypeOK, stores, info, settling, OInv, UploadsNamed, NoStrayOriginal
<1>1. CASE BeginIngest(w)
  <2>1. uploaded[w] = {} /\ uploaded' = uploaded
    BY <1>1 DEF BeginIngest, IInv, UploadsRecorded
  <2>2. PICK p : plan' = [plan EXCEPT ![w] = p]
    BY <1>1 DEF BeginIngest
  <2>3. \A v \in Writers, f \in Files : v # w => NewRow(v, f)' = NewRow(v, f)
    BY <1>1, <2>2 DEF BeginIngest, NewRow
  <2>4. \A v \in Writers : v # w => PlannedOriginals(v)' = PlannedOriginals(v)
    BY <2>2 DEF PlannedOriginals
  <2>5. UploadsNamed'
    BY <1>1, <2>1, <2>3, <2>4 DEF BeginIngest
  <2>6. NoStrayOriginal'
    BY <1>1, <2>1, <2>3 DEF BeginIngest
  <2>7. QED
    BY <2>5, <2>6
<1>2. CASE IndexPlan(w)
  <2>1. \A v \in Writers, f \in Files : NewRow(v, f)' = NewRow(v, f)
    BY <1>2 DEF IndexPlan, NewRow
  <2>2. uploaded[w] = {}
    BY <1>2 DEF IndexPlan, IInv, UploadsRecorded
  <2>3. \A v \in Writers : PlannedOriginals(v)' = PlannedOriginals(v)
    BY <1>2 DEF IndexPlan, PlannedOriginals
  <2>4. QED
    BY <1>2, <2>1, <2>2, <2>3 DEF IndexPlan
<1>3. CASE IndexPlanFails(w)
  <2>1. \A v \in Writers, f \in Files : NewRow(v, f)' = NewRow(v, f)
    BY <1>3 DEF IndexPlanFails, NewRow
  <2>2. \A v \in Writers : PlannedOriginals(v)' = PlannedOriginals(v)
    BY <1>3 DEF IndexPlanFails, PlannedOriginals
  <2>3. QED
    BY <1>3, <2>1, <2>2 DEF IndexPlanFails
<1>4. CASE UploadsEnd(w)
  <2>1. \A v \in Writers, f \in Files : NewRow(v, f)' = NewRow(v, f)
    BY <1>4 DEF UploadsEnd, NewRow
  <2>2. \A v \in Writers : PlannedOriginals(v)' = PlannedOriginals(v)
    BY <1>4 DEF UploadsEnd, PlannedOriginals
  <2>3. UNCHANGED <<rows, objects, puts, uploaded, committed, residue>>
    BY <1>4 DEF UploadsEnd
  <2>4. /\ pc[w] = "uploading"
        /\ pc' = [pc EXCEPT ![w] = "open"] \/ pc' = [pc EXCEPT ![w] = "undo_read"]
    BY <1>4 DEF UploadsEnd
  <2>5. UploadsNamed'
    <3>1. CASE pc' = [pc EXCEPT ![w] = "open"]
      BY <2>1, <2>2, <2>3, <2>4, <3>1
    <3>2. CASE pc' = [pc EXCEPT ![w] = "undo_read"]
      BY <2>1, <2>2, <2>3, <2>4, <3>2
    <3>3. QED
      BY <2>4, <3>1, <3>2
  <2>6. NoStrayOriginal'
    BY <2>1, <2>2, <2>3, <2>4
  <2>7. QED
    BY <2>5, <2>6
<1>5. CASE Materialize(w)
  <2>1. tx[w] = Nothing
    BY <1>5 DEF Materialize, Books, PlanFirst
  <2>2. \A v \in Writers, f \in Files : NewRow(v, f)' = NewRow(v, f)
    BY <1>5, <2>1 DEF Materialize, NewRow, Nothing
  <2>3. \A v \in Writers : v # w => PlannedOriginals(v)' = PlannedOriginals(v)
    BY <1>5 DEF Materialize, PlannedOriginals
  <2>4. QED
    BY <1>5, <2>2, <2>3 DEF Materialize
<1>6. ASSUME NEW f \in Files, PutOriginal(w, f)
      PROVE  OInv'
  <2>1. \A v \in Writers, g \in Files : NewRow(v, g)' = NewRow(v, g)
    BY <1>6 DEF PutOriginal, NewRow
  <2>2. \A v \in Writers : PlannedOriginals(v)' = PlannedOriginals(v)
    BY <1>6 DEF PutOriginal, PlannedOriginals
  <2>3. HasOriginal(NewRow(w, f))
    BY <1>6, NoRowAssumption DEF PutOriginal, PlannedOriginals, NewRow, HasOriginal
  <2>4. UploadsNamed'
    BY <1>6, <2>1, <2>2, <2>3 DEF PutOriginal
  <2>5. NoStrayOriginal'
    BY <1>6 DEF PutOriginal
  <2>6. QED
    BY <2>4, <2>5
<1>7. ASSUME NEW f \in Files, PutOriginalFails(w, f)
      PROVE  OInv'
  <2>1. \A v \in Writers, g \in Files : NewRow(v, g)' = NewRow(v, g)
    BY <1>7 DEF PutOriginalFails, NewRow
  <2>2. \A v \in Writers : PlannedOriginals(v)' = PlannedOriginals(v)
    BY <1>7 DEF PutOriginalFails, PlannedOriginals
  <2>3. UploadsNamed'
    BY <1>7, <2>1, <2>2 DEF PutOriginalFails
  <2>4. NoStrayOriginal'
    BY <1>7 DEF PutOriginalFails
  <2>5. QED
    BY <2>3, <2>4
<1>8. QED
  BY <1>1, <1>2, <1>3, <1>4, <1>5, <1>6, <1>7 DEF Ingest

\* A request names no new original and changes none a row names.
LEMMA RequestOInv ==
  ASSUME TypeOK, IInv, Books, OInv, NEW w \in Writers, Request(w)
  PROVE  OInv'
<1> USE DEF TypeOK, stores, info, settling, OInv, UploadsNamed, NoStrayOriginal
<1>1. CASE BeginRequest(w)
  <2>1. \A v \in Writers, f \in Files : NewRow(v, f)' = NewRow(v, f)
    BY <1>1 DEF BeginRequest, NewRow
  <2>2. \A v \in Writers : PlannedOriginals(v)' = PlannedOriginals(v)
    BY <1>1 DEF BeginRequest, PlannedOriginals
  <2>3. uploaded[w] = {}
    BY <1>1 DEF BeginRequest, IInv, UploadsRecorded
  <2>4. QED
    BY <1>1, <2>1, <2>2, <2>3 DEF BeginRequest
<1>2. ASSUME NEW f \in Files, CreateFile(w, f)
      PROVE  OInv'
  <2>1. f \notin uploaded[w]
    BY <1>2 DEF CreateFile, IInv, Issued, Claims
  <2>2. \A v \in Writers, g \in Files :
          v # w \/ g # f => NewRow(v, g)' = NewRow(v, g)
    <3>1. PICK new : tx' = [tx EXCEPT ![w][f] = new]
      BY <1>2 DEF CreateFile
    <3>2. QED
      BY <1>2, <3>1, ExceptElsewhere DEF CreateFile, NewRow
  <2>3. \A v \in Writers : PlannedOriginals(v)' = PlannedOriginals(v)
    BY <1>2 DEF CreateFile, PlannedOriginals
  <2>4. UploadsNamed'
    BY <1>2, <2>1, <2>2, <2>3 DEF CreateFile
  <2>5. NoStrayOriginal'
    BY <1>2, <2>1, <2>2, <2>3 DEF CreateFile
  <2>6. QED
    BY <2>4, <2>5
<1>3. ASSUME NEW f \in Files, ChangeFile(w, f)
      PROVE  OInv'
  <2>1. PICK new \in Row : Changed(View(w, f), new) /\ tx' = [tx EXCEPT ![w][f] = new]
    BY <1>3 DEF ChangeFile
  <2>2. \A v \in Writers, g \in Files :
          v # w \/ g # f => NewRow(v, g)' = NewRow(v, g)
    BY <1>3, <2>1, ExceptElsewhere DEF ChangeFile, NewRow
  <2>3. HasOriginal(NewRow(w, f)) => HasOriginal(NewRow(w, f)')
    <3>1. plan[w][f] = NoRow /\ plan' = plan
      BY <1>3 DEF ChangeFile, Writing, Nothing
    <3>2. tx'[w][f] = new
      BY <2>1
    <3>3. tx[w][f] # NoRow => new.blob = tx[w][f].blob
      BY <2>1 DEF Changed, View, Overlay
    <3>4. QED
      BY <3>1, <3>2, <3>3, NoRowAssumption DEF NewRow, HasOriginal
  <2>4. \A v \in Writers : PlannedOriginals(v)' = PlannedOriginals(v)
    BY <1>3 DEF ChangeFile, PlannedOriginals
  <2>5. UploadsNamed'
    BY <1>3, <2>2, <2>3, <2>4 DEF ChangeFile
  <2>6. NoStrayOriginal'
    BY <1>3, <2>2, <2>3, <2>4 DEF ChangeFile
  <2>7. QED
    BY <2>5, <2>6
<1>4. QED
  BY <1>1, <1>2, <1>3 DEF Request

\* The end of a transaction: what was uploaded for a row is named by the row
\* once the transaction has landed, and is still recorded if it has not.
LEMMA EndTransactionOInv ==
  ASSUME TypeOK, IInv, Books, OInv, NEW w \in Writers, EndTransaction(w)
  PROVE  OInv'
<1> USE DEF TypeOK, stores, info, settling, OInv, UploadsNamed, NoStrayOriginal
<1>0. \A v \in Writers : tx' = tx /\ plan' = plan =>
        /\ \A f \in Files : NewRow(v, f)' = NewRow(v, f)
        /\ PlannedOriginals(v)' = PlannedOriginals(v)
  BY DEF NewRow, PlannedOriginals
<1>00. \A v \in Writers :
         (tx' = [tx EXCEPT ![w] = Nothing] /\ (plan' = plan \/ plan' = [plan EXCEPT ![w] = Nothing]) /\ v # w) =>
           /\ \A f \in Files : NewRow(v, f)' = NewRow(v, f)
           /\ PlannedOriginals(v)' = PlannedOriginals(v)
  BY DEF NewRow, PlannedOriginals
<1>1. CASE StageTouched(w)
  <2>1. UploadsNamed'
    BY <1>0, <1>1 DEF StageTouched
  <2>2. NoStrayOriginal'
    BY <1>1 DEF StageTouched
  <2>3. QED
    BY <2>1, <2>2
<1>2. CASE StageTouchedFails(w)
  <2>1. UploadsNamed'
    BY <1>0, <1>2 DEF StageTouchedFails
  <2>2. NoStrayOriginal'
    BY <1>2 DEF StageTouchedFails
  <2>3. QED
    BY <2>1, <2>2
<1>3. CASE Commit(w)
  <2>1. \A f \in Files : HasOriginal(rows[f]) => HasOriginal(rows'[f])
    BY <1>3, RowsKeepOriginals DEF Commit
  <2>2. \A f \in uploaded[w] : HasOriginal(rows'[f])
    <3> SUFFICES ASSUME NEW f \in uploaded[w] PROVE HasOriginal(rows'[f])
      OBVIOUS
    <3>1. f \in Files
      OBVIOUS
    <3>2. plan[w][f] = NoRow
      BY <1>3 DEF Commit, IInv, PlanIsNew
    <3>3. HasOriginal(tx[w][f])
      BY <1>3, <3>2 DEF Commit, NewRow
    <3>4. QED
      BY <1>3, <3>1, <3>3 DEF Commit, Overlay, HasOriginal
  <2>3. UploadsNamed'
    BY <1>00, <1>3, <2>1, <2>2 DEF Commit
  <2>4. NoStrayOriginal'
    BY <1>3, <2>1 DEF Commit
  <2>5. QED
    BY <2>3, <2>4
<1>4. CASE CommitLost(w)
  <2>1. UploadsNamed'
    BY <1>0, <1>4 DEF CommitLost
  <2>2. NoStrayOriginal'
    BY <1>4 DEF CommitLost
  <2>3. QED
    BY <2>1, <2>2
<1>5. CASE Rollback(w)
  <2>1. UploadsNamed'
    BY <1>00, <1>5 DEF Rollback
  <2>2. NoStrayOriginal'
    BY <1>5 DEF Rollback
  <2>3. QED
    BY <2>1, <2>2
<1>6. CASE EndUnstaged(w)
  <2>1. UploadsNamed'
    BY <1>00, <1>6 DEF EndUnstaged, ForgetInfo
  <2>2. NoStrayOriginal'
    BY <1>6 DEF EndUnstaged, ForgetInfo
  <2>3. QED
    BY <2>1, <2>2
<1>7. QED
  BY <1>1, <1>2, <1>3, <1>4, <1>5, <1>6 DEF EndTransaction

\* A settling forgets what it uploaded: without a commit it deletes what no row
\* names or reports it; after one every original has its row.
LEMMA SettleOInv ==
  ASSUME TypeOK, IInv, Books, OInv, NEW w \in Writers, Settle(w)
  PROVE  OInv'
<1> USE DEF TypeOK, stores, info, settling, OInv, UploadsNamed, NoStrayOriginal
<1>0. \A v \in Writers :
        (tx' = tx /\ (plan' = plan \/ (plan' = [plan EXCEPT ![w] = Nothing] /\ v # w))) =>
           /\ \A f \in Files : NewRow(v, f)' = NewRow(v, f)
           /\ PlannedOriginals(v)' = PlannedOriginals(v)
  BY DEF NewRow, PlannedOriginals
<1>1. CASE SettleRead(w)
  BY <1>0, <1>1 DEF SettleRead, Applying
<1>2. CASE SettleReadFails(w)
  BY <1>0, <1>2 DEF SettleReadFails, Applying
<1>3. ASSUME NEW f \in Files, ReconcileFile(w, f)
      PROVE  OInv'
  BY <1>0, <1>3 DEF ReconcileFile
<1>4. ASSUME NEW f \in Files, ReconcileFileFails(w, f)
      PROVE  OInv'
  BY <1>0, <1>4 DEF ReconcileFileFails
<1>5. CASE SettleOriginals(w)
  <2>1. UploadsNamed'
    <3>1. /\ uploaded' = [uploaded EXCEPT ![w] = {}]
          /\ ~committed'[w]
          /\ \A v \in Writers : v # w => committed'[v] = committed[v] /\ pc'[v] = pc[v]
          /\ pc'[w] \in {"idle", "failed"}
      BY <1>5 DEF SettleOriginals, SettleEnds, ForgetInfo
    <3>2. tx' = tx /\ puts' = puts /\ plan' = [plan EXCEPT ![w] = Nothing] /\ rows' = rows
      BY <1>5 DEF SettleOriginals
    <3>3. QED
      BY <1>0, <3>1, <3>2
  <2>2. NoStrayOriginal'
    BY <1>5 DEF SettleOriginals, SettleEnds, ForgetInfo, Orphans
  <2>3. QED
    BY <2>1, <2>2
<1>6. CASE SettleOriginalsFails(w)
  <2>1. UploadsNamed'
    <3>1. /\ uploaded' = [uploaded EXCEPT ![w] = {}]
          /\ ~committed'[w]
          /\ \A v \in Writers : v # w => committed'[v] = committed[v] /\ pc'[v] = pc[v]
          /\ pc'[w] \in {"idle", "failed"}
      BY <1>6 DEF SettleOriginalsFails, SettleEnds, ForgetInfo
    <3>2. tx' = tx /\ puts' = puts /\ plan' = [plan EXCEPT ![w] = Nothing] /\ rows' = rows
      BY <1>6 DEF SettleOriginalsFails
    <3>3. QED
      BY <1>0, <3>1, <3>2
  <2>2. NoStrayOriginal'
    BY <1>6 DEF SettleOriginalsFails, SettleEnds, ForgetInfo
  <2>3. QED
    BY <2>1, <2>2
<1>7. QED
  BY <1>1, <1>2, <1>3, <1>4, <1>5, <1>6 DEF Settle

\* A late COMMIT takes no original from a row; a crash leaves residue.
LEMMA ServerCrashOInv ==
  ASSUME TypeOK, IInv, Books, OInv, NEW w \in Writers, Server(w) \/ Crash(w)
  PROVE  OInv'
<1> USE DEF TypeOK, stores, info, settling, OInv, UploadsNamed, NoStrayOriginal
<1>0. \A v \in Writers :
        ((tx' = tx \/ tx' = [tx EXCEPT ![w] = Nothing])
          /\ (plan' = plan \/ plan' = [plan EXCEPT ![w] = Nothing]) /\ v # w) =>
           /\ \A f \in Files : NewRow(v, f)' = NewRow(v, f)
           /\ PlannedOriginals(v)' = PlannedOriginals(v)
  BY DEF NewRow, PlannedOriginals
<1>1. CASE ServerCommits(w)
  <2>1. \A f \in Files : HasOriginal(rows[f]) => HasOriginal(rows'[f])
    BY <1>1, RowsKeepOriginals DEF ServerCommits
  <2>2. pc[w] \in {"idle", "settle_read"}
    BY <1>1 DEF ServerCommits, IInv, TxPhases
  <2>3. UploadsNamed'
    BY <1>0, <1>1, <2>1, <2>2 DEF ServerCommits
  <2>4. NoStrayOriginal'
    BY <1>1, <2>1 DEF ServerCommits
  <2>5. QED
    BY <2>3, <2>4
<1>2. CASE ServerAborts(w)
  <2>1. pc[w] \in {"idle", "settle_read"}
    BY <1>2 DEF ServerAborts, IInv, TxPhases
  <2>2. UploadsNamed'
    BY <1>0, <1>2, <2>1 DEF ServerAborts
  <2>3. NoStrayOriginal'
    BY <1>2 DEF ServerAborts
  <2>4. QED
    BY <2>2, <2>3
<1>3. CASE Crash(w)
  <2>1. UploadsNamed'
    BY <1>0, <1>3 DEF Crash, ForgetInfo
  <2>2. NoStrayOriginal'
    BY <1>3 DEF Crash, ForgetInfo
  <2>3. QED
    BY <2>1, <2>2
<1>4. QED
  BY <1>1, <1>2, <1>3 DEF Server

\* Every step keeps the invariant about originals.
LEMMA NextOInv ==
  ASSUME TypeOK, IInv, Books, OInv, [Next]_vars
  PROVE  OInv'
<1>1. CASE Next
  BY <1>1, IngestOInv, RequestOInv, EndTransactionOInv, SettleOInv, ServerCrashOInv
     DEF Next
<1>2. CASE UNCHANGED vars
  <2>1. UNCHANGED <<rows, objects, pc, tx, plan, puts, uploaded, committed, residue>>
    BY <1>2 DEF vars, stores, info, settling
  <2>2. QED
    BY <2>1 DEF OInv, UploadsNamed, NoStrayOriginal, NewRow, PlannedOriginals
<1>3. QED
  BY <1>1, <1>2

\* An original that is in the bucket is named by a committed row, is still in
\* the hands of the session that uploaded it, or was reported as left behind (by
\* a crash, a lost reply, a failed undo): no aborted write leaves one silently.
THEOREM NoOriginalIsLeft ==
  ASSUME CommitLandsFirst
  PROVE  Spec => []NoStrayOriginal
<1>1. Init => IInv /\ Books /\ OInv
  BY InitIInv, InitBooks, InitOInv
<1>2. TypeOK /\ (IInv /\ Books /\ OInv) /\ [Next]_vars => (IInv /\ Books /\ OInv)'
  BY NextIInv, NextBooks, NextOInv
<1>3. OInv => NoStrayOriginal
  BY DEF OInv
<1>4. QED
  BY <1>1, <1>2, <1>3, TypeCorrect, PTL DEF Spec

-----------------------------------------------------------------------------
\* Committed text is findable, where writes of a file do not overlap.

\* At the start no file is touched and no row is there to be found.
LEMMA InitFInv == Init => FInv
  BY DEF Init, FInv, OneWriter, StagedFindable, SeenIsCurrent, AlwaysFindable, ChunksOf,
         Nothing

\* Sessions that let go of rows and of touched files do not meet.
LEMMA LettingGo ==
  ASSUME OneWriter,
         \A v \in Writers : touched'[v] \subseteq touched[v],
         \A v \in Writers, f \in Files : tx'[v][f] = tx[v][f] \/ tx'[v][f] = NoRow,
         TypeOK, TypeOK'
  PROVE  OneWriter'
<1> SUFFICES ASSUME NEW v \in Writers, NEW w \in Writers, v # w, NEW f \in touched'[w]
             PROVE  f \notin touched'[v] /\ tx'[v][f] = NoRow
  BY DEF OneWriter
<1>1. f \in touched[w] /\ f \in Files
  BY DEF TypeOK
<1>2. f \notin touched[v] /\ tx[v][f] = NoRow
  BY <1>1 DEF OneWriter
<1>3. QED
  BY <1>1, <1>2

\* A session takes up only ids that are new or that nobody else has to settle.
LEMMA NextOneWriter ==
  ASSUME TypeOK, TypeOK', IInv, Books, OneWriter, ~OverlappingWrites, Next
  PROVE  OneWriter'
<1> USE DEF TypeOK, stores, info, settling
<1>1. PICK w \in Writers :
        Ingest(w) \/ Request(w) \/ EndTransaction(w) \/ Settle(w) \/ Server(w) \/ Crash(w)
  BY DEF Next
<1>2. CASE BeginIngest(w)
  <2>1. PICK S \in SUBSET (Files \ issued) : touched' = [touched EXCEPT ![w] = S]
    BY <1>2 DEF BeginIngest
  <2>2. tx' = tx /\ tx[w] = Nothing
    BY <1>2 DEF BeginIngest, IInv, TxPhases
  <2>3. \A v \in Writers : touched[v] \subseteq issued
    BY DEF Books, TouchedFirst
  <2>4. \A v \in Writers, f \in Files : f \notin issued => tx[v][f] = NoRow
    BY DEF IInv, Issued
  <2>5. QED
    BY <2>1, <2>2, <2>3, <2>4 DEF OneWriter, Nothing
<1>3. CASE Materialize(w)
  <2>1. tx' = [tx EXCEPT ![w] = plan[w]] /\ touched' = touched
    BY <1>3 DEF Materialize
  <2>2. \A f \in Files : plan[w][f] # NoRow => f \in touched[w]
    BY DEF Books, TouchedFirst, Planned
  <2>3. QED
    BY <2>1, <2>2 DEF OneWriter
<1>4. ASSUME NEW f \in Files, CreateFile(w, f)
      PROVE  OneWriter'
  <2>1. PICK new : tx' = [tx EXCEPT ![w][f] = new]
    BY <1>4 DEF CreateFile
  <2>2. touched' = [touched EXCEPT ![w] = @ \union {f}] /\ f \notin issued
    BY <1>4 DEF CreateFile
  <2>3. \A v \in Writers : f \notin touched[v] /\ tx[v][f] = NoRow
    BY <2>2 DEF Books, TouchedFirst, IInv, Issued
  <2>4. \A v \in Writers, g \in Files : v # w \/ g # f => tx'[v][g] = tx[v][g]
    BY <2>1, ExceptElsewhere
  <2>5. QED
    BY <2>2, <2>3, <2>4 DEF OneWriter
<1>5. ASSUME NEW f \in Files, ChangeFile(w, f)
      PROVE  OneWriter'
  <2>1. PICK new : tx' = [tx EXCEPT ![w][f] = new]
    BY <1>5 DEF ChangeFile
  <2>2. touched' = [touched EXCEPT ![w] = @ \union {f}]
    BY <1>5 DEF ChangeFile
  <2>3. \A v \in Writers : v # w => f \notin touched[v] /\ tx[v][f] = NoRow
    BY <1>5 DEF ChangeFile, Writing, Unlocked, Settled
  <2>4. \A v \in Writers, g \in Files : v # w \/ g # f => tx'[v][g] = tx[v][g]
    BY <2>1, ExceptElsewhere
  <2>5. QED
    BY <2>2, <2>3, <2>4 DEF OneWriter
<1>6. CASE UNCHANGED <<tx, touched>>
  BY <1>6 DEF OneWriter
<1>7. CASE /\ tx' = tx \/ tx' = [tx EXCEPT ![w] = Nothing]
           /\ touched' = touched \/ touched' = [touched EXCEPT ![w] = {}]
  <2>1. \A v \in Writers : touched'[v] \subseteq touched[v]
    BY <1>7
  <2>2. \A v \in Writers, f \in Files : tx'[v][f] = tx[v][f] \/ tx'[v][f] = NoRow
    <3>1. CASE tx' = tx
      BY <3>1
    <3>2. CASE tx' = [tx EXCEPT ![w] = Nothing]
      BY <3>2 DEF Nothing
    <3>3. QED
      BY <1>7, <3>1, <3>2
  <2>3. QED
    BY <2>1, <2>2, LettingGo
<1>8. CASE Ingest(w)
  BY <1>2, <1>3, <1>6, <1>8
     DEF Ingest, IndexPlan, IndexPlanFails, UploadsEnd, PutOriginal, PutOriginalFails
<1>9. CASE Request(w)
  BY <1>4, <1>5, <1>6, <1>9 DEF Request, BeginRequest
<1>10. CASE EndTransaction(w)
  BY <1>7, <1>10 DEF EndTransaction, StageTouched, StageTouchedFails, Commit, CommitLost,
                     Rollback, EndUnstaged, ForgetInfo
<1>11. CASE Settle(w)
  BY <1>7, <1>11 DEF Settle, SettleRead, SettleReadFails, SettleOriginals,
                     SettleOriginalsFails, SettleEnds, ForgetInfo, ReconcileFile,
                     ReconcileFileFails
<1>12. CASE Server(w)
  BY <1>7, <1>12 DEF Server, ServerCommits, ServerAborts
<1>13. CASE Crash(w)
  BY <1>7, <1>13 DEF Crash, ForgetInfo
<1>14. QED
  BY <1>1, <1>8, <1>9, <1>10, <1>11, <1>12, <1>13

\* Only a reconcile takes chunks away, and of its own file only.
LEMMA ChunksStay ==
  ASSUME TypeOK, NEW w \in Writers,
         \/ Ingest(w) \/ Request(w) \/ EndTransaction(w) \/ Server(w) \/ Crash(w)
         \/ SettleRead(w) \/ SettleReadFails(w) \/ SettleOriginals(w)
         \/ SettleOriginalsFails(w) \/ \E f \in Files : ReconcileFileFails(w, f)
  PROVE  chunks \subseteq chunks'
<1> USE DEF stores
<1>1. CASE Ingest(w)
  BY <1>1 DEF Ingest, BeginIngest, IndexPlan, IndexPlanFails, UploadsEnd, Materialize,
              PutOriginal, PutOriginalFails
<1>2. CASE Request(w)
  BY <1>2 DEF Request, BeginRequest, CreateFile, ChangeFile
<1>3. CASE EndTransaction(w)
  BY <1>3 DEF EndTransaction, StageTouched, StageTouchedFails, Commit, CommitLost,
              Rollback, EndUnstaged
<1>4. CASE Server(w) \/ Crash(w)
  BY <1>4 DEF Server, ServerCommits, ServerAborts, Crash
<1>5. CASE \/ SettleRead(w) \/ SettleReadFails(w) \/ SettleOriginals(w)
           \/ SettleOriginalsFails(w) \/ \E f \in Files : ReconcileFileFails(w, f)
  BY <1>5 DEF SettleRead, SettleReadFails, SettleOriginals, SettleOriginalsFails,
              ReconcileFileFails
<1>6. QED
  BY <1>1, <1>2, <1>3, <1>4, <1>5

\* A reconcile of another file leaves a file's chunks alone.
LEMMA ReconcileElsewhere ==
  ASSUME TypeOK, NEW w \in Writers, NEW f \in Files, ReconcileFile(w, f),
         NEW g \in Files, g # f
  PROVE  \A t \in Texts : <<g, t>> \in chunks => <<g, t>> \in chunks'
  BY DEF ReconcileFile

\* What may yet be published stays staged: no other session reconciles it.
LEMMA NextStagedFindable ==
  ASSUME TypeOK, IInv, Books, FInv, Next
  PROVE  StagedFindable'
<1> USE DEF TypeOK, stores, info, settling
<1>1. PICK w \in Writers :
        Ingest(w) \/ Request(w) \/ EndTransaction(w) \/ Settle(w) \/ Server(w) \/ Crash(w)
  BY DEF Next
<1> SUFFICES ASSUME NEW v \in Writers, NEW f \in Files, (pc'[v] = "staged" \/ v \in inDoubt')
             PROVE  ChunksOf(f, tx'[v][f]) \subseteq chunks'
  BY DEF StagedFindable
<1>2. CASE StageTouched(w)
  <2>1. CASE v = w
    <3>1. tx'[v][f] = tx[v][f]
      BY <1>2 DEF StageTouched
    <3>2. CASE tx[v][f] = NoRow
      BY <3>1, <3>2 DEF ChunksOf
    <3>3. CASE tx[v][f] # NoRow
      <4>1. f \in touched[w]
        BY <1>2, <2>1, <3>3 DEF StageTouched, Books, TxTouched
      <4>2. View(w, f) = tx[v][f]
        BY <2>1, <3>3 DEF View, Overlay
      <4>3. QED
        BY <1>2, <3>1, <4>1, <4>2 DEF StageTouched, TouchedChunks
    <3>4. QED
      BY <3>2, <3>3
  <2>2. CASE v # w
    BY <1>2, <2>2 DEF StageTouched, FInv, StagedFindable
  <2>3. QED
    BY <2>1, <2>2
<1>3. ASSUME NEW g \in Files, ReconcileFile(w, g)
      PROVE  ChunksOf(f, tx'[v][f]) \subseteq chunks'
  <2>1. tx' = tx /\ pc' = pc /\ inDoubt' = inDoubt
    BY <1>3 DEF ReconcileFile
  <2>2. ChunksOf(f, tx[v][f]) \subseteq chunks
    BY <2>1 DEF FInv, StagedFindable
  <2>3. CASE f # g
    <3>1. \A t \in Texts : <<f, t>> \in chunks => <<f, t>> \in chunks'
      BY <1>3, <2>3, ReconcileElsewhere
    <3>2. tx[v][f] \in MaybeRow
      OBVIOUS
    <3>3. ChunksOf(f, tx[v][f]) \subseteq chunks'
      BY <2>2, <3>1, <3>2, NoRowAssumption DEF ChunksOf, MaybeRow, Row
    <3>4. QED
      BY <2>1, <3>3
  <2>4. CASE f = g
    <3>1. v # w
      BY <1>3, <2>1 DEF ReconcileFile, IInv, TxPhases
    <3>2. f \in touched[w]
      BY <1>3, <2>4 DEF ReconcileFile, Books, TouchedFirst
    <3>3. tx[v][f] = NoRow
      BY <3>1, <3>2 DEF FInv, OneWriter
    <3>4. QED
      BY <2>1, <3>3 DEF ChunksOf
  <2>5. QED
    BY <2>3, <2>4
<1>4. CASE CommitLost(w)
  BY <1>4 DEF CommitLost, FInv, StagedFindable
<1>5. CASE /\ chunks \subseteq chunks'
           /\ \/ tx'[v][f] = NoRow
              \/ /\ pc[v] = "staged" \/ v \in inDoubt
                 /\ tx'[v][f] = tx[v][f]
  BY <1>5 DEF FInv, StagedFindable, ChunksOf
<1>6. CASE Ingest(w) \/ Request(w)
  <2>1. chunks \subseteq chunks'
    BY <1>6, ChunksStay
  <2>2. pc'[v] = "staged" => pc[v] = "staged"
    BY <1>6 DEF Ingest, Request, BeginIngest, IndexPlan, IndexPlanFails, UploadsEnd,
                Materialize, PutOriginal, PutOriginalFails, BeginRequest, CreateFile, ChangeFile
  <2>3. inDoubt' = inDoubt
    BY <1>6 DEF Ingest, Request, BeginIngest, IndexPlan, IndexPlanFails, UploadsEnd,
                Materialize, PutOriginal, PutOriginalFails, BeginRequest, CreateFile, ChangeFile
  <2>4. tx'[v] = tx[v] \/ (v = w /\ pc[v] = "open")
    BY <1>6 DEF Ingest, Request, BeginIngest, IndexPlan, IndexPlanFails, UploadsEnd,
                Materialize, PutOriginal, PutOriginalFails, BeginRequest, CreateFile,
                ChangeFile, Writing
  <2>5. pc[v] = "staged" \/ v \in inDoubt
    BY <2>2, <2>3
  <2>6. pc[v] # "open"
    BY <2>5 DEF IInv, TxPhases
  <2>7. QED
    BY <1>5, <2>1, <2>4, <2>5, <2>6
<1>7. CASE \/ StageTouchedFails(w) \/ Commit(w) \/ Rollback(w) \/ EndUnstaged(w) \/ Server(w) \/ Crash(w)
  <2>1. chunks \subseteq chunks'
    BY <1>7, ChunksStay DEF EndTransaction
  <2>2. tx'[v] = tx[v] \/ tx'[v] = Nothing
    BY <1>7 DEF StageTouchedFails, Commit, Rollback, EndUnstaged, Server, ServerCommits,
                ServerAborts, Crash
  <2>3. pc'[v] = "staged" => pc[v] = "staged"
    BY <1>7 DEF StageTouchedFails, Commit, Rollback, EndUnstaged, Server, ServerCommits,
                ServerAborts, Crash
  <2>4. v \in inDoubt' => v \in inDoubt
    BY <1>7 DEF StageTouchedFails, Commit, Rollback, EndUnstaged, Server, ServerCommits,
                ServerAborts, Crash
  <2>5. QED
    BY <1>5, <2>1, <2>2, <2>3, <2>4 DEF Nothing
<1>8. CASE \/ SettleRead(w) \/ SettleReadFails(w) \/ SettleOriginals(w)
           \/ SettleOriginalsFails(w) \/ \E g \in Files : ReconcileFileFails(w, g)
  <2>1. chunks \subseteq chunks'
    BY <1>8, ChunksStay
  <2>2. tx' = tx /\ inDoubt' = inDoubt
    BY <1>8 DEF SettleRead, SettleReadFails, SettleOriginals, SettleOriginalsFails,
                ReconcileFileFails
  <2>3. pc'[v] = "staged" => pc[v] = "staged"
    BY <1>8 DEF SettleRead, SettleReadFails, SettleOriginals, SettleOriginalsFails,
                ReconcileFileFails, SettleEnds, Applying
  <2>4. QED
    BY <1>5, <2>1, <2>2, <2>3
<1>9. QED
  BY <1>1, <1>2, <1>3, <1>4, <1>6, <1>7, <1>8 DEF EndTransaction, Settle

\* No transaction lands a change of a file another session is reconciling.
LEMMA NextSeenIsCurrent ==
  ASSUME TypeOK, IInv, Books, FInv, Next
  PROVE  SeenIsCurrent'
<1> USE DEF TypeOK, stores, info, settling
<1>1. PICK w \in Writers :
        Ingest(w) \/ Request(w) \/ EndTransaction(w) \/ Settle(w) \/ Server(w) \/ Crash(w)
  BY DEF Next
<1> SUFFICES ASSUME NEW v \in Writers, pc'[v] \in {"undo_apply", "settle_apply"},
                    NEW f \in todo'[v]
             PROVE  seen'[v][f] = rows'[f]
  BY DEF SeenIsCurrent
<1>2. CASE SettleRead(w)
  BY <1>2 DEF SettleRead, FInv, SeenIsCurrent
<1>3. CASE SettleReadFails(w)
  BY <1>3 DEF SettleReadFails, FInv, SeenIsCurrent
<1>4. CASE Commit(w) \/ ServerCommits(w)
  <2>1. v # w
    BY <1>4 DEF Commit, ServerCommits, IInv, TxPhases
  <2>2. pc'[v] = pc[v] /\ todo'[v] = todo[v] /\ seen'[v] = seen[v]
    BY <1>4, <2>1 DEF Commit, ServerCommits
  <2>3. f \in touched[v] /\ f \in Files
    BY <2>2 DEF Books, TouchedFirst
  <2>4. tx[w][f] = NoRow
    BY <2>1, <2>3 DEF FInv, OneWriter
  <2>5. rows'[f] = rows[f]
    BY <1>4, <2>3, <2>4 DEF Commit, ServerCommits, Overlay
  <2>6. QED
    BY <2>2, <2>3, <2>5 DEF FInv, SeenIsCurrent
<1>5. CASE /\ rows' = rows
           /\ pc[v] = pc'[v]
           /\ todo'[v] \subseteq todo[v]
           /\ seen'[v] = seen[v]
  BY <1>5 DEF FInv, SeenIsCurrent
<1>6. CASE Ingest(w)
  BY <1>5, <1>6 DEF Ingest, BeginIngest, IndexPlan, IndexPlanFails, UploadsEnd,
                Materialize, PutOriginal, PutOriginalFails
<1>7. CASE Request(w)
  BY <1>5, <1>7 DEF Request, BeginRequest, CreateFile, ChangeFile
<1>8. CASE StageTouched(w) \/ StageTouchedFails(w) \/ CommitLost(w) \/ Rollback(w) \/ EndUnstaged(w)
  BY <1>5, <1>8 DEF StageTouched, StageTouchedFails, CommitLost, Rollback, EndUnstaged
<1>9. CASE \/ SettleOriginals(w) \/ SettleOriginalsFails(w)
           \/ \E g \in Files : ReconcileFile(w, g) \/ ReconcileFileFails(w, g)
  BY <1>5, <1>9 DEF SettleOriginals, SettleOriginalsFails, SettleEnds, ReconcileFile,
                    ReconcileFileFails
<1>10. CASE ServerAborts(w) \/ Crash(w)
  BY <1>5, <1>10 DEF ServerAborts, Crash
<1>11. QED
  BY <1>1, <1>2, <1>3, <1>4, <1>6, <1>7, <1>8, <1>9, <1>10
     DEF EndTransaction, Settle, Server

\* A committed text keeps its chunks: a COMMIT publishes only what is staged,
\* and a reconcile puts back what the committed row asks for.
LEMMA NextAlwaysFindable ==
  ASSUME TypeOK, IInv, Books, FInv, Next
  PROVE  AlwaysFindable'
<1> USE DEF TypeOK, stores, info, settling
<1>1. PICK w \in Writers :
        Ingest(w) \/ Request(w) \/ EndTransaction(w) \/ Settle(w) \/ Server(w) \/ Crash(w)
  BY DEF Next
<1> SUFFICES ASSUME NEW f \in Files
             PROVE  ChunksOf(f, rows'[f]) \subseteq chunks'
  BY DEF AlwaysFindable
<1>2. ChunksOf(f, rows[f]) \subseteq chunks
  BY DEF FInv, AlwaysFindable
<1>3. CASE Commit(w) \/ ServerCommits(w)
  <2>1. chunks' = chunks /\ rows' = Overlay(rows, tx[w])
    BY <1>3 DEF Commit, ServerCommits
  <2>2. ChunksOf(f, tx[w][f]) \subseteq chunks
    BY <1>3 DEF Commit, ServerCommits, FInv, StagedFindable
  <2>3. QED
    BY <1>2, <2>1, <2>2 DEF Overlay
<1>4. ASSUME NEW g \in Files, ReconcileFile(w, g)
      PROVE  ChunksOf(f, rows'[f]) \subseteq chunks'
  <2>1. rows' = rows
    BY <1>4 DEF ReconcileFile
  <2>2. CASE f # g
    <3>1. \A t \in Texts : <<f, t>> \in chunks => <<f, t>> \in chunks'
      BY <1>4, <2>2, ReconcileElsewhere
    <3>2. rows[f] \in MaybeRow
      OBVIOUS
    <3>3. ChunksOf(f, rows[f]) \subseteq chunks'
      BY <1>2, <3>1, <3>2, NoRowAssumption DEF ChunksOf, MaybeRow, Row
    <3>4. QED
      BY <2>1, <3>3
  <2>3. CASE f = g
    <3>1. seen[w][f] = rows[f]
      BY <1>4, <2>3 DEF ReconcileFile, FInv, SeenIsCurrent
    <3>2. QED
      BY <1>4, <2>1, <2>3, <3>1 DEF ReconcileFile
  <2>4. QED
    BY <2>2, <2>3
<1>5. CASE rows' = rows /\ chunks \subseteq chunks'
  BY <1>2, <1>5
<1>6. CASE Ingest(w)
  BY <1>5, <1>6, ChunksStay DEF Ingest, BeginIngest, IndexPlan, IndexPlanFails, UploadsEnd,
                Materialize, PutOriginal, PutOriginalFails
<1>7. CASE Request(w)
  BY <1>5, <1>7, ChunksStay DEF Request, BeginRequest, CreateFile, ChangeFile
<1>8. CASE StageTouched(w) \/ StageTouchedFails(w) \/ CommitLost(w) \/ Rollback(w) \/ EndUnstaged(w)
  BY <1>5, <1>8 DEF StageTouched, StageTouchedFails, CommitLost, Rollback, EndUnstaged
<1>9. CASE \/ SettleRead(w) \/ SettleReadFails(w) \/ SettleOriginals(w)
           \/ SettleOriginalsFails(w) \/ \E g \in Files : ReconcileFileFails(w, g)
  BY <1>5, <1>9 DEF SettleRead, SettleReadFails, SettleOriginals, SettleOriginalsFails,
                    ReconcileFileFails
<1>10. CASE ServerAborts(w) \/ Crash(w)
  BY <1>5, <1>10 DEF ServerAborts, Crash
<1>11. QED
  BY <1>1, <1>3, <1>4, <1>6, <1>7, <1>8, <1>9, <1>10
     DEF EndTransaction, Settle, Server

\* Every step keeps the invariant about committed text.
LEMMA NextFInv ==
  ASSUME TypeOK, TypeOK', IInv, Books, FInv, ~OverlappingWrites, [Next]_vars
  PROVE  FInv'
<1>1. CASE Next
  BY <1>1, NextOneWriter, NextStagedFindable, NextSeenIsCurrent, NextAlwaysFindable DEF FInv
<1>2. CASE UNCHANGED vars
  <2>1. UNCHANGED <<rows, chunks, pc, tx, inDoubt, touched, todo, seen>>
    BY <1>2 DEF vars, stores, info, settling
  <2>2. QED
    BY <2>1 DEF FInv, OneWriter, StagedFindable, SeenIsCurrent, AlwaysFindable
<1>3. QED
  BY <1>1, <1>2

\* The text of an active committed row can be found from the moment the row is
\* visible, and no undo or reconcile of a write takes that away -- where no file
\* is changed while another session still has an earlier change of it to settle.
THEOREM TextIsFindable ==
  ASSUME CommitLandsFirst, ~OverlappingWrites
  PROVE  Spec => []AlwaysFindable
<1>1. Init => IInv /\ Books /\ FInv
  BY InitIInv, InitBooks, InitFInv
<1>2. TypeOK /\ TypeOK' /\ (IInv /\ Books /\ FInv) /\ [Next]_vars => (IInv /\ Books /\ FInv)'
  BY NextIInv, NextBooks, NextFInv
<1>3. FInv => AlwaysFindable
  BY DEF FInv
<1>4. QED
  BY <1>1, <1>2, <1>3, TypeCorrect, PTL DEF Spec

-----------------------------------------------------------------------------
\* To a reader the three stores are one store with atomic writes.

\* What a reader can get at is what the rows promise.
AsPromised == Served = Atomic!Originals(rows) /\ Found = Atomic!Findable(rows)

\* No lost original: what can be downloaded is what the rows promise.
LEMMA ServedAsPromised ==
  ASSUME TypeOK, NoLostOriginal
  PROVE  Served = Atomic!Originals(rows)
  BY DEF TypeOK, NoLostOriginal, Served, HasOriginal, Atomic!Originals

\* No text unfindable: what a search can return is what the rows promise.
LEMMA FoundAsPromised ==
  ASSUME TypeOK, AlwaysFindable
  PROVE  Found = Atomic!Findable(rows)
<1>1. \A f \in Files : rows[f] # NoRow => rows[f].text \in Texts
  BY DEF TypeOK, MaybeRow, Row
<1>2. ASSUME NEW hit \in Atomic!Findable(rows) PROVE hit \in Found
  <2>1. hit \in Files \X Texts /\ rows[hit[1]] # NoRow /\ rows[hit[1]].active
        /\ rows[hit[1]].text = hit[2]
    BY <1>2 DEF Atomic!Findable
  <2>2. PICK f \in Files, t \in Texts : hit = <<f, t>>
    BY <2>1
  <2>3. hit \in ChunksOf(f, rows[f])
    BY <2>1, <2>2 DEF ChunksOf
  <2>4. QED
    BY <2>3 DEF AlwaysFindable, Found
<1>3. ASSUME NEW hit \in Found PROVE hit \in Atomic!Findable(rows)
  <2>1. PICK f \in Files : hit \in ChunksOf(f, rows[f])
    BY <1>3 DEF Found
  <2>2. rows[f] # NoRow /\ rows[f].active /\ hit = <<f, rows[f].text>>
    BY <2>1 DEF ChunksOf
  <2>3. QED
    BY <1>1, <2>2 DEF Atomic!Findable
<1>4. QED
  BY <1>2, <1>3

\* A transaction that lands keeps the rows there are, and what they say of
\* their originals.
LEMMA LandingKeeps ==
  ASSUME TypeOK, IInv, NEW w \in Writers, rows' = Overlay(rows, tx[w])
  PROVE  /\ rows' \in [Files -> Atomic!Row \union {NoRow}]
         /\ Atomic!Keeps(rows, rows')
<1>1. rows' \in [Files -> MaybeRow]
  BY OverlayType DEF TypeOK
<1>2. MaybeRow = Atomic!Row \union {NoRow}
  BY DEF MaybeRow, Row, Atomic!Row
<1>3. Atomic!Keeps(rows, rows')
  BY DEF Atomic!Keeps, Overlay, IInv, SameOriginal
<1>4. QED
  BY <1>1, <1>2, <1>3

\* The table changes only when a transaction lands.
LEMMA RowsLand ==
  ASSUME Next
  PROVE  \/ rows' = rows
         \/ \E w \in Writers : /\ rows' = Overlay(rows, tx[w])
                               /\ pc[w] = "staged" \/ w \in inDoubt
<1> USE DEF stores
<1>1. PICK w \in Writers :
        Ingest(w) \/ Request(w) \/ EndTransaction(w) \/ Settle(w) \/ Server(w) \/ Crash(w)
  BY DEF Next
<1>2. CASE Ingest(w)
  BY <1>2 DEF Ingest, BeginIngest, IndexPlan, IndexPlanFails, UploadsEnd, Materialize,
              PutOriginal, PutOriginalFails
<1>3. CASE Request(w)
  BY <1>3 DEF Request, BeginRequest, CreateFile, ChangeFile
<1>4. CASE EndTransaction(w)
  BY <1>4 DEF EndTransaction, StageTouched, StageTouchedFails, Commit, CommitLost,
              Rollback, EndUnstaged
<1>5. CASE Settle(w)
  BY <1>5 DEF Settle, SettleRead, SettleReadFails, SettleOriginals, SettleOriginalsFails,
              ReconcileFile, ReconcileFileFails
<1>6. CASE Server(w) \/ Crash(w)
  BY <1>6 DEF Server, ServerCommits, ServerAborts, Crash
<1>7. QED
  BY <1>1, <1>2, <1>3, <1>4, <1>5, <1>6

\* All a reader can tell at the start is that there is nothing.
LEMMA AtomicStart == Init => Atomic!Init
  BY DEF Init, Nothing, Served, Found, Atomic!Init

\* Neither is lost, so the promise is kept.
LEMMA PromiseKept ==
  ASSUME TypeOK, IInv, FInv
  PROVE  AsPromised
  BY ServedAsPromised, FoundAsPromised DEF IInv, FInv, AsPromised

\* A step of the seam is an atomic write, or nothing a reader can tell.
LEMMA AtomicStep ==
  ASSUME TypeOK, IInv, AsPromised, AsPromised', [Next]_vars
  PROVE  [Atomic!Write]_(Atomic!vars)
<1>1. CASE rows' = rows
  BY <1>1 DEF AsPromised, Atomic!vars
<1>2. ASSUME NEW w \in Writers, rows' = Overlay(rows, tx[w])
      PROVE  Atomic!Write
  BY <1>2, LandingKeeps DEF AsPromised, Atomic!Write
<1>3. rows' = rows \/ \E w \in Writers : rows' = Overlay(rows, tx[w])
  BY RowsLand DEF vars, stores
<1>4. QED
  BY <1>1, <1>2, <1>3

\* To its readers -- of the rows, of the originals behind them, of search hits
\* that match them -- the database, the index and the bucket are one store whose
\* writes happen in one step, whatever is lost, fails or is killed on the way;
\* where no file is changed while another session has it to settle.
THEOREM StoresAreAtomic ==
  ASSUME CommitLandsFirst, ~OverlappingWrites
  PROVE  Spec => AppearsAtomic
<1>1. Init => IInv /\ Books /\ FInv
  BY InitIInv, InitBooks, InitFInv
<1>2. TypeOK /\ TypeOK' /\ (IInv /\ Books /\ FInv) /\ [Next]_vars => (IInv /\ Books /\ FInv)'
  BY NextIInv, NextBooks, NextFInv
<1>3. TypeOK /\ (IInv /\ Books /\ FInv) => AsPromised
  BY PromiseKept
<1>4. TypeOK /\ (IInv /\ Books /\ FInv) /\ AsPromised /\ AsPromised' /\ [Next]_vars
        => [Atomic!Write]_(Atomic!vars)
  BY AtomicStep
<1>5. Init => Atomic!Init
  BY AtomicStart
<1>6. QED
  BY <1>1, <1>2, <1>3, <1>4, <1>5, TypeCorrect, PTL DEF Spec, AppearsAtomic, Atomic!Spec

-----------------------------------------------------------------------------
\* The index is exact, where writes of a file do not overlap.

\* At the start there is nothing to be exact about.
LEMMA InitEInv == Init => EInv
  BY DEF Init, EInv, UntouchedExact, TouchedInHand, DoubtSettlesAll, IngestIsStaged,
         Exact, ChunksAt, ChunksOf, Nothing

\* A step of session w.
Step(w) ==
  Ingest(w) \/ Request(w) \/ EndTransaction(w) \/ Settle(w) \/ Server(w) \/ Crash(w)

\* A step of w is a step of no other session, and residue only grows.
LEMMA OthersStay ==
  ASSUME TypeOK, NEW w \in Writers, Step(w)
  PROVE  /\ residue \subseteq residue'
         /\ \A v \in Writers : v # w =>
              /\ pc'[v] = pc[v] /\ tx'[v] = tx[v] /\ plan'[v] = plan[v]
              /\ touched'[v] = touched[v] /\ created'[v] = created[v]
              /\ staged'[v] = staged[v] /\ todo'[v] = todo[v]
              /\ (v \in inDoubt' <=> v \in inDoubt)
<1> USE DEF TypeOK, stores, info, settling
<1>1. CASE Ingest(w)
  BY <1>1 DEF Ingest, BeginIngest, IndexPlan, IndexPlanFails, UploadsEnd, Materialize,
              PutOriginal, PutOriginalFails
<1>2. CASE Request(w)
  BY <1>2 DEF Request, BeginRequest, CreateFile, ChangeFile
<1>3. CASE EndTransaction(w)
  BY <1>3 DEF EndTransaction, StageTouched, StageTouchedFails, Commit, CommitLost,
              Rollback, EndUnstaged, ForgetInfo
<1>4. CASE Settle(w)
  BY <1>4 DEF Settle, SettleRead, SettleReadFails, SettleOriginals, SettleOriginalsFails,
              SettleEnds, ForgetInfo, ReconcileFile, ReconcileFileFails
<1>5. CASE Server(w)
  BY <1>5 DEF Server, ServerCommits, ServerAborts
<1>6. CASE Crash(w)
  BY <1>6 DEF Crash, ForgetInfo
<1>7. QED
  BY <1>1, <1>2, <1>3, <1>4, <1>5, <1>6 DEF Step

\* A session changes rows and chunks only of files it has to settle.
LEMMA Elsewhere ==
  ASSUME TypeOK, Books, NEW w \in Writers, Step(w),
         NEW f \in Files \ residue, f \notin touched[w]
  PROVE  rows'[f] = rows[f] /\ ChunksAt(f)' = ChunksAt(f)
<1> USE DEF TypeOK, stores, ChunksAt
<1>1. plan[w][f] = NoRow /\ f \notin todo[w] /\ tx[w][f] = NoRow
  BY DEF Books, TouchedFirst, TxTouched, Planned
<1>0. \A g, row, t : <<f, t>> \in ChunksOf(g, row) => g = f /\ row # NoRow
  BY DEF ChunksOf
<1>2. CASE UNCHANGED <<rows, chunks>>
  BY <1>2
<1>3. CASE IndexPlan(w) \/ IndexPlanFails(w)
  <2>1. rows' = rows /\ chunks \subseteq chunks'
    BY <1>3 DEF IndexPlan, IndexPlanFails
  <2>2. chunks' \subseteq chunks \union UNION {ChunksOf(g, plan[w][g]) : g \in Files}
    BY <1>3 DEF IndexPlan, IndexPlanFails
  <2>3. \A t \in Texts : <<f, t>> \notin UNION {ChunksOf(g, plan[w][g]) : g \in Files}
    BY <1>0, <1>1
  <2>4. QED
    BY <2>1, <2>2, <2>3
<1>4. CASE StageTouched(w) \/ StageTouchedFails(w)
  <2>1. rows' = rows /\ chunks \subseteq chunks'
    BY <1>4 DEF StageTouched, StageTouchedFails
  <2>2. chunks' \subseteq chunks \union TouchedChunks(w)
    BY <1>4 DEF StageTouched, StageTouchedFails
  <2>3. \A t \in Texts : <<f, t>> \notin TouchedChunks(w)
    BY <1>0 DEF TouchedChunks
  <2>4. QED
    BY <2>1, <2>2, <2>3
<1>5. CASE Commit(w) \/ ServerCommits(w)
  BY <1>1, <1>5 DEF Commit, ServerCommits, Overlay
<1>6. ASSUME NEW g \in Files, ReconcileFile(w, g) \/ ReconcileFileFails(w, g)
      PROVE  rows'[f] = rows[f] /\ ChunksAt(f)' = ChunksAt(f)
  <2>1. g # f
    BY <1>1, <1>6 DEF ReconcileFile, ReconcileFileFails
  <2>2. CASE ReconcileFile(w, g)
    <3>1. chunks' = (chunks \ ({g} \X Texts)) \union ChunksOf(g, seen[w][g]) /\ rows' = rows
      BY <2>2 DEF ReconcileFile
    <3>2. \A t \in Texts : <<f, t>> \notin ChunksOf(g, seen[w][g])
      BY <1>0, <2>1
    <3>3. QED
      BY <2>1, <3>1, <3>2
  <2>3. CASE ReconcileFileFails(w, g)
    <3>1. /\ rows' = rows /\ chunks \subseteq chunks'
          /\ chunks' \subseteq chunks \union ChunksOf(g, seen[w][g])
      BY <2>3 DEF ReconcileFileFails
    <3>2. \A t \in Texts : <<f, t>> \notin ChunksOf(g, seen[w][g])
      BY <1>0, <2>1
    <3>3. QED
      BY <3>1, <3>2
  <2>4. QED
    BY <1>6, <2>2, <2>3
<1>7. CASE Ingest(w)
  BY <1>2, <1>3, <1>7 DEF Ingest, BeginIngest, UploadsEnd, Materialize, PutOriginal,
                          PutOriginalFails
<1>8. CASE Request(w)
  BY <1>2, <1>8 DEF Request, BeginRequest, CreateFile, ChangeFile
<1>9. CASE EndTransaction(w)
  BY <1>2, <1>4, <1>5, <1>9 DEF EndTransaction, CommitLost, Rollback, EndUnstaged
<1>10. CASE Settle(w)
  BY <1>2, <1>6, <1>10 DEF Settle, SettleRead, SettleReadFails, SettleOriginals,
                           SettleOriginalsFails
<1>11. CASE Server(w) \/ Crash(w)
  BY <1>2, <1>5, <1>11 DEF Server, ServerAborts, Crash
<1>12. QED
  BY <1>7, <1>8, <1>9, <1>10, <1>11 DEF Step

\* A session takes up files where it begins an ingest, creates or changes one.
LEMMA TakenUp ==
  ASSUME TypeOK, NEW w \in Writers, Step(w), NEW f \in touched'[w], f \notin touched[w]
  PROVE  BeginIngest(w) \/ CreateFile(w, f) \/ ChangeFile(w, f)
<1> USE DEF TypeOK, stores, info
<1>1. CASE Ingest(w)
  BY <1>1 DEF Ingest, IndexPlan, IndexPlanFails, UploadsEnd, Materialize, PutOriginal,
              PutOriginalFails
<1>2. CASE Request(w)
  <2>1. ASSUME NEW g \in Files, CreateFile(w, g) \/ ChangeFile(w, g) PROVE g = f
    BY <2>1 DEF CreateFile, ChangeFile
  <2>2. ~BeginRequest(w)
    BY DEF BeginRequest
  <2>3. QED
    BY <1>2, <2>1, <2>2 DEF Request
<1>3. CASE EndTransaction(w)
  BY <1>3 DEF EndTransaction, StageTouched, StageTouchedFails, Commit, CommitLost,
              Rollback, EndUnstaged, ForgetInfo
<1>4. CASE Settle(w)
  BY <1>4 DEF Settle, SettleRead, SettleReadFails, SettleOriginals, SettleOriginalsFails,
              SettleEnds, ForgetInfo, ReconcileFile, ReconcileFileFails
<1>5. CASE Server(w) \/ Crash(w)
  BY <1>5 DEF Server, ServerCommits, ServerAborts, Crash, ForgetInfo
<1>6. QED
  BY <1>1, <1>2, <1>3, <1>4, <1>5 DEF Step

\* A file w takes up was nobody's, so it was exact, and is not written yet.
LEMMA TakenInHand ==
  ASSUME TypeOK, TypeOK', IInv, Books, OneWriter, EInv, ~OverlappingWrites,
         NEW w \in Writers, Step(w),
         NEW f \in touched'[w] \ residue', f \notin touched[w]
  PROVE  InHand(w, f)'
<1> USE DEF TypeOK, stores, info
<1>1. f \in Files \ residue
  BY OthersStay
<1>2. rows'[f] = rows[f] /\ ChunksAt(f)' = ChunksAt(f)
  BY <1>1, Elsewhere
<1>3. CASE BeginIngest(w) \/ CreateFile(w, f)
  <2>1. f \notin issued
    BY <1>3 DEF BeginIngest, CreateFile
  <2>2. rows[f] = NoRow /\ \A v \in Writers : f \notin touched[v]
    BY <1>1, <2>1 DEF IInv, Issued, Books, TouchedFirst
  <2>3. Exact(f)
    BY <1>1, <2>2 DEF EInv, UntouchedExact
  <2>4. ChunksAt(f)' = {} /\ rows'[f] = NoRow
    BY <1>2, <2>2, <2>3 DEF Exact, ChunksOf
  <2>5. Exact(f)'
    BY <2>4 DEF Exact, ChunksOf
  <2>6. pc'[w] \in {"indexing", "open"}
    BY <1>3 DEF BeginIngest, CreateFile, Writing
  <2>7. QED
    BY <2>4, <2>5, <2>6 DEF InHand
<1>4. CASE ChangeFile(w, f)
  <2>1. \A v \in Writers : f \notin touched[v]
    BY <1>4 DEF ChangeFile, Settled
  <2>2. Exact(f)'
    BY <1>1, <1>2, <2>1 DEF EInv, UntouchedExact, Exact
  <2>3. pc'[w] = "open" /\ f \notin created'[w]
    BY <1>4 DEF ChangeFile, Writing
  <2>4. QED
    BY <2>2, <2>3 DEF InHand
<1>5. BeginIngest(w) \/ CreateFile(w, f) \/ ChangeFile(w, f)
  BY TakenUp
<1>6. QED
  BY <1>3, <1>4, <1>5

\* A file that stays in the hands of w, through the steps of an ingest.
LEMMA IngestInHand ==
  ASSUME TypeOK, IInv, Books, EInv, NEW w \in Writers, Ingest(w),
         NEW f \in touched[w] \ residue', f \notin residue
  PROVE  f \in touched'[w] /\ InHand(w, f)'
<1> USE DEF TypeOK, stores, info
<1>1. InHand(w, f) /\ f \in Files
  BY DEF EInv, TouchedInHand
<1>2. ~BeginIngest(w)
  BY DEF BeginIngest, Books, IdleIsClean
<1>3. CASE IndexPlan(w)
  <2>1. f \in touched'[w] /\ pc[w] = "indexing" /\ pc'[w] = "uploading"
    BY <1>3 DEF IndexPlan
  <2>2. ASSUME f \in created'[w]
        PROVE  rows'[f] = NoRow /\ ChunksAt(f)' \subseteq ChunksOf(f, NewRow(w, f)')
    <3>1. rows'[f] = NoRow /\ ChunksAt(f) \subseteq ChunksOf(f, NewRow(w, f))
      BY <1>1, <1>3, <2>1, <2>2 DEF InHand, IndexPlan
    <3>2. NewRow(w, f)' = NewRow(w, f)
      BY <1>3 DEF IndexPlan, NewRow
    <3>3. ASSUME NEW t \in Texts, <<f, t>> \in UNION {ChunksOf(g, plan[w][g]) : g \in Files}
          PROVE  <<f, t>> \in ChunksOf(f, NewRow(w, f))
      <4>1. PICK g \in Files : <<f, t>> \in ChunksOf(g, plan[w][g])
        BY <3>3
      <4>2. g = f /\ plan[w][g] # NoRow
        BY <4>1 DEF ChunksOf
      <4>3. QED
        BY <4>1, <4>2 DEF NewRow
    <3>4. QED
      BY <1>3, <3>1, <3>2, <3>3 DEF IndexPlan, ChunksAt
  <2>3. QED
    BY <2>1, <2>2 DEF InHand
<1>4. CASE IndexPlanFails(w)
  BY <1>4 DEF IndexPlanFails, InHand
<1>5. CASE UploadsEnd(w)
  <2>1. /\ f \in touched'[w] /\ pc[w] = "uploading" /\ staged'[w]
        /\ pc'[w] = "open" \/ pc'[w] = "undo_read"
        /\ UNCHANGED <<rows, chunks, tx, plan, created>>
    BY <1>5 DEF UploadsEnd, EInv, IngestIsStaged
  <2>2. NewRow(w, f)' = NewRow(w, f) /\ ChunksAt(f)' = ChunksAt(f)
    BY <2>1 DEF NewRow, ChunksAt
  <2>3. QED
    BY <1>1, <2>1, <2>2 DEF InHand
<1>6. CASE \/ Materialize(w)
           \/ \E g \in Files : PutOriginal(w, g) \/ PutOriginalFails(w, g)
  <2>1. /\ f \in touched'[w]
        /\ UNCHANGED <<rows, chunks, created, pc, staged, todo>>
    BY <1>6 DEF Materialize, PutOriginal, PutOriginalFails, settling
  <2>2. NewRow(w, f)' = NewRow(w, f)
    <3>1. CASE Materialize(w)
      <4>1. tx[w][f] = NoRow
        BY <1>1, <3>1 DEF Materialize, Books, PlanFirst, Nothing
      <4>2. tx'[w][f] = plan[w][f] /\ plan'[w][f] = NoRow
        BY <1>1, <3>1 DEF Materialize, Nothing
      <4>3. QED
        BY <4>1, <4>2 DEF NewRow
    <3>2. CASE tx' = tx /\ plan' = plan
      BY <3>2 DEF NewRow
    <3>3. QED
      BY <1>6, <3>1, <3>2 DEF PutOriginal, PutOriginalFails
  <2>3. ChunksAt(f)' = ChunksAt(f) /\ (Exact(f)' <=> Exact(f))
    BY <2>1 DEF ChunksAt, Exact
  <2>4. QED
    BY <1>1, <2>1, <2>2, <2>3 DEF InHand
<1>7. QED
  BY <1>2, <1>3, <1>4, <1>5, <1>6 DEF Ingest

\* Through the body of a request: nothing is staged yet.
LEMMA RequestInHand ==
  ASSUME TypeOK, IInv, Books, EInv, NEW w \in Writers, Request(w),
         NEW f \in touched[w] \ residue', f \notin residue
  PROVE  f \in touched'[w] /\ InHand(w, f)'
<1> USE DEF TypeOK, stores, info, settling
<1>1. InHand(w, f) /\ f \in Files
  BY DEF EInv, TouchedInHand
<1>2. ~BeginRequest(w)
  BY DEF BeginRequest, Books, IdleIsClean
<1>3. ASSUME NEW g \in Files, CreateFile(w, g) \/ ChangeFile(w, g)
      PROVE  f \in touched'[w] /\ InHand(w, f)'
  <2>1. UNCHANGED <<rows, chunks, pc, staged, todo, plan>> /\ pc[w] = "open"
    BY <1>3 DEF CreateFile, ChangeFile, Writing
  <2>2. f \in touched'[w]
    BY <1>3 DEF CreateFile, ChangeFile
  <2>3. f \in created'[w] => g # f /\ f \in created[w]
    BY <1>3 DEF CreateFile, ChangeFile, Books, TouchedFirst
  <2>4. g # f => tx'[w][f] = tx[w][f]
    <3>1. PICK new : tx' = [tx EXCEPT ![w][g] = new]
      BY <1>3 DEF CreateFile, ChangeFile
    <3>2. QED
      BY <1>1, <3>1, ExceptElsewhere
  <2>5. g # f => NewRow(w, f)' = NewRow(w, f)
    BY <2>1, <2>4 DEF NewRow
  <2>6. ChunksAt(f)' = ChunksAt(f) /\ (Exact(f)' <=> Exact(f))
    BY <2>1 DEF ChunksAt, Exact
  <2>7. QED
    BY <1>1, <2>1, <2>2, <2>3, <2>5, <2>6 DEF InHand
<1>4. QED
  BY <1>2, <1>3 DEF Request

\* Through the end of a transaction: a created file that lands is exact, the
\* others are still to settle, and one that was never staged never changed.
LEMMA EndTransactionInHand ==
  ASSUME TypeOK, IInv, Books, FInv, AlwaysFindable', EInv, NEW w \in Writers, EndTransaction(w),
         NEW f \in touched[w] \ residue', f \notin residue
  PROVE  /\ f \in touched'[w] => InHand(w, f)'
         /\ f \notin touched'[w] => Exact(f)'
<1> USE DEF TypeOK, stores, info, settling
<1>1. InHand(w, f) /\ f \in Files
  BY DEF EInv, TouchedInHand
<1>2. CASE StageTouched(w)
  <2>1. f \in touched'[w] /\ pc[w] = "open" /\ pc'[w] = "staged" /\ plan[w] = Nothing
    BY <1>2 DEF StageTouched
  <2>2. ASSUME f \in created'[w]
        PROVE  rows'[f] = NoRow /\ ChunksAt(f)' \subseteq ChunksOf(f, NewRow(w, f)')
    <3>1. rows'[f] = NoRow /\ rows[f] = NoRow /\ ChunksAt(f) \subseteq ChunksOf(f, NewRow(w, f))
      BY <1>1, <1>2, <2>1, <2>2 DEF InHand, StageTouched
    <3>2. NewRow(w, f)' = NewRow(w, f)
      BY <1>2 DEF StageTouched, NewRow
    <3>3. View(w, f) = NewRow(w, f)
      BY <1>1, <2>1, <3>1 DEF View, Overlay, NewRow, Nothing
    <3>4. ASSUME NEW t \in Texts, <<f, t>> \in TouchedChunks(w)
          PROVE  <<f, t>> \in ChunksOf(f, NewRow(w, f))
      <4>1. PICK g \in touched[w] : <<f, t>> \in ChunksOf(g, View(w, g))
        BY <3>4 DEF TouchedChunks
      <4>2. g = f
        BY <4>1 DEF ChunksOf
      <4>3. QED
        BY <3>3, <4>1, <4>2
    <3>5. QED
      BY <1>2, <3>1, <3>2, <3>4 DEF StageTouched, ChunksAt
  <2>3. QED
    BY <2>1, <2>2 DEF InHand
<1>3. CASE StageTouchedFails(w)
  BY <1>3 DEF StageTouchedFails, InHand
<1>4. CASE Commit(w)
  <2>1. f \in touched'[w] /\ pc[w] = "staged" /\ pc'[w] = "settle_read"
    BY <1>4 DEF Commit
  <2>2. ASSUME f \notin todo'[w] PROVE Exact(f)'
    <3>1. f \in created[w]
      BY <1>4, <2>2 DEF Commit
    <3>2. rows[f] = NoRow /\ ChunksAt(f) \subseteq ChunksOf(f, NewRow(w, f))
      BY <1>1, <2>1, <3>1 DEF InHand
    <3>3. plan[w][f] = NoRow
      BY <1>1, <2>1 DEF IInv, PlanIsNew
    <3>4. rows'[f] = NewRow(w, f)
      BY <1>1, <1>4, <3>2, <3>3 DEF Commit, Overlay, NewRow
    <3>5. ChunksAt(f)' \subseteq ChunksOf(f, rows'[f])
      BY <1>4, <3>2, <3>4 DEF Commit, ChunksAt
    <3>6. ChunksOf(f, rows'[f]) \subseteq chunks'
      BY <1>1 DEF AlwaysFindable
    <3>7. ChunksOf(f, rows'[f]) \subseteq {f} \X Texts
      <4>1. NewRow(w, f) \in MaybeRow
        BY <1>1 DEF NewRow
      <4>2. QED
        BY <3>4, <4>1 DEF ChunksOf, MaybeRow, Row
    <3>8. QED
      BY <3>5, <3>6, <3>7 DEF Exact, ChunksAt
  <2>3. QED
    BY <2>1, <2>2 DEF InHand
<1>5. CASE CommitLost(w)
  BY <1>5 DEF CommitLost, InHand
<1>6. CASE Rollback(w)
  BY <1>6 DEF Rollback, InHand
<1>7. CASE EndUnstaged(w)
  <2>1. Exact(f) /\ f \notin touched'[w]
    BY <1>1, <1>7 DEF EndUnstaged, InHand, ForgetInfo
  <2>2. QED
    BY <1>7, <2>1 DEF EndUnstaged, Exact, ChunksAt
<1>8. QED
  BY <1>2, <1>3, <1>4, <1>5, <1>6, <1>7 DEF EndTransaction

\* Through a settling: what is reconciled is exact, or reported as residue.
LEMMA SettleInHand ==
  ASSUME TypeOK, IInv, Books, FInv, EInv, NEW w \in Writers, Settle(w),
         NEW f \in touched[w] \ residue', f \notin residue
  PROVE  /\ f \in touched'[w] => InHand(w, f)'
         /\ f \notin touched'[w] => Exact(f)'
<1> USE DEF TypeOK, stores, info
<1>1. InHand(w, f) /\ f \in Files
  BY DEF EInv, TouchedInHand
<1>2. CASE SettleRead(w) \/ SettleReadFails(w)
  <2>1. f \in touched'[w] /\ (Exact(f)' <=> Exact(f))
    BY <1>2 DEF SettleRead, SettleReadFails, Exact, ChunksAt
  <2>2. \/ pc[w] = "undo_read" /\ pc'[w] = "undo_apply"
        \/ pc[w] = "settle_read" /\ pc'[w] = "settle_apply"
    BY <1>2 DEF SettleRead, SettleReadFails, Applying
  <2>3. f \notin todo'[w] => f \notin todo[w]
    BY <1>2 DEF SettleRead, SettleReadFails
  <2>4. QED
    BY <1>1, <2>1, <2>2, <2>3 DEF InHand
<1>3. ASSUME NEW g \in Files, ReconcileFile(w, g)
      PROVE  f \in touched'[w] /\ InHand(w, f)'
  <2>1. f \in touched'[w] /\ pc'[w] = pc[w] /\ pc[w] \in {"undo_apply", "settle_apply"}
    BY <1>3 DEF ReconcileFile
  <2>2. f # g => (f \notin todo'[w] => f \notin todo[w]) /\ (Exact(f)' <=> Exact(f))
    <3>1. \A t \in Texts : <<f, t>> \notin ChunksOf(g, seen[w][g]) \/ f = g
      BY DEF ChunksOf
    <3>2. f # g => ChunksAt(f)' = ChunksAt(f)
      BY <1>3, <3>1 DEF ReconcileFile, ChunksAt
    <3>3. QED
      BY <1>3, <3>2 DEF ReconcileFile, Exact
  <2>3. f = g => Exact(f)'
    <3>1. seen[w][g] = rows[g] /\ rows' = rows
      BY <1>3 DEF ReconcileFile, FInv, SeenIsCurrent
    <3>2. rows[g] \in MaybeRow
      OBVIOUS
    <3>3. ChunksOf(g, rows[g]) \subseteq {g} \X Texts
      BY <3>2 DEF ChunksOf, MaybeRow, Row
    <3>4. chunks' = (chunks \ ({g} \X Texts)) \union ChunksOf(g, rows[g])
      BY <1>3, <3>1 DEF ReconcileFile
    <3>5. QED
      BY <3>1, <3>3, <3>4 DEF Exact, ChunksAt
  <2>4. QED
    BY <1>1, <2>1, <2>2, <2>3 DEF InHand
<1>4. ASSUME NEW g \in Files, ReconcileFileFails(w, g)
      PROVE  f \in touched'[w] /\ InHand(w, f)'
  <2>1. /\ f \in touched'[w] /\ pc'[w] = pc[w] /\ pc[w] \in {"undo_apply", "settle_apply"}
        /\ f # g /\ (f \notin todo'[w] => f \notin todo[w])
    BY <1>4 DEF ReconcileFileFails
  <2>2. \A t \in Texts : <<f, t>> \notin ChunksOf(g, seen[w][g])
    BY <2>1 DEF ChunksOf
  <2>3. /\ rows' = rows /\ chunks \subseteq chunks'
        /\ chunks' \subseteq chunks \union ChunksOf(g, seen[w][g])
    BY <1>4 DEF ReconcileFileFails
  <2>4. Exact(f)' <=> Exact(f)
    BY <2>2, <2>3 DEF Exact, ChunksAt
  <2>5. QED
    BY <1>1, <2>1, <2>4 DEF InHand
<1>5. CASE SettleOriginals(w) \/ SettleOriginalsFails(w)
  <2>1. /\ pc[w] \in {"undo_apply", "settle_apply"} /\ todo[w] = {}
        /\ rows' = rows /\ chunks' = chunks
        /\ pc[w] = "undo_apply" => pc'[w] = "failed" /\ touched'[w] = touched[w]
        /\ pc[w] # "undo_apply" => touched'[w] = {}
    BY <1>5 DEF SettleOriginals, SettleOriginalsFails, SettleEnds, ForgetInfo
  <2>2. Exact(f)' <=> Exact(f)
    BY <2>1 DEF Exact, ChunksAt
  <2>3. CASE pc[w] = "undo_apply"
    BY <2>1, <2>3 DEF InHand
  <2>4. CASE pc[w] = "settle_apply"
    BY <1>1, <2>1, <2>2, <2>4 DEF InHand
  <2>5. QED
    BY <2>1, <2>3, <2>4
<1>6. QED
  BY <1>2, <1>3, <1>4, <1>5 DEF Settle

\* A COMMIT decided late finds everything still to settle; a crash settles
\* nothing and leaves residue.
LEMMA ServerCrashInHand ==
  ASSUME TypeOK, IInv, Books, FInv, EInv, NEW w \in Writers, Server(w) \/ Crash(w),
         NEW f \in touched[w] \ residue', f \notin residue
  PROVE  f \in touched'[w] /\ InHand(w, f)'
<1> USE DEF TypeOK, stores, info, settling
<1>1. ~Crash(w)
  BY DEF Crash
<1>2. CASE ServerCommits(w) \/ ServerAborts(w)
  <2>1. pc[w] = "settle_read"
    BY <1>2 DEF ServerCommits, ServerAborts, IInv, TxPhases, Books, IdleIsClean
  <2>2. todo[w] = touched[w]
    BY <1>2, <2>1 DEF ServerCommits, ServerAborts, EInv, DoubtSettlesAll
  <2>3. touched' = touched /\ todo' = todo /\ pc' = pc
    BY <1>2 DEF ServerCommits, ServerAborts
  <2>4. QED
    BY <2>1, <2>2, <2>3 DEF InHand
<1>3. QED
  BY <1>1, <1>2 DEF Server

\* What a session has to settle stays in its hands; what it lets go is exact.
LEMMA KeptInHand ==
  ASSUME TypeOK, IInv, Books, FInv, AlwaysFindable', EInv, NEW w \in Writers, Step(w),
         NEW f \in touched[w] \ residue'
  PROVE  /\ f \in touched'[w] => InHand(w, f)'
         /\ f \notin touched'[w] => Exact(f)'
<1>1. f \notin residue
  BY OthersStay
<1>2. QED
  BY <1>1, IngestInHand, RequestInHand, EndTransactionInHand, SettleInHand,
     ServerCrashInHand DEF Step

\* Another session's files stay in its hands.
LEMMA OthersInHand ==
  ASSUME TypeOK, Books, OneWriter, EInv, NEW w \in Writers, Step(w),
         NEW v \in Writers, v # w, NEW f \in touched[v] \ residue'
  PROVE  InHand(v, f)'
<1>1. f \in Files \ residue /\ f \notin touched[w]
  BY OthersStay DEF TypeOK, OneWriter
<1>2. rows'[f] = rows[f] /\ ChunksAt(f)' = ChunksAt(f)
  BY <1>1, Elsewhere
<1>3. Exact(f)' <=> Exact(f)
  BY <1>2 DEF Exact
<1>4. NewRow(v, f)' = NewRow(v, f)
  BY OthersStay DEF NewRow
<1>5. InHand(v, f)
  BY <1>1 DEF EInv, TouchedInHand
<1>6. pc'[v] = pc[v] /\ staged'[v] = staged[v] /\ todo'[v] = todo[v] /\ created'[v] = created[v]
  BY OthersStay
<1>7. QED
  BY <1>2, <1>3, <1>4, <1>5, <1>6 DEF InHand

\* The parts that speak of one session only.
LEMMA NextDoubtAndStaged ==
  ASSUME TypeOK, inDoubt' \subseteq Writers, IInv, EInv, NEW w \in Writers, Step(w)
  PROVE  DoubtSettlesAll' /\ IngestIsStaged'
<1> USE DEF TypeOK, stores, info, settling
<1>1. w \in inDoubt' /\ pc'[w] = "settle_read" => todo'[w] = touched'[w]
  <2>1. CASE Ingest(w)
    BY <2>1 DEF Ingest, BeginIngest, IndexPlan, IndexPlanFails, UploadsEnd, Materialize,
                PutOriginal, PutOriginalFails
  <2>2. CASE Request(w)
    BY <2>2 DEF Request, BeginRequest, CreateFile, ChangeFile, Writing
  <2>3. CASE EndTransaction(w)
    BY <2>3 DEF EndTransaction, StageTouched, StageTouchedFails, Commit, CommitLost, Rollback,
                EndUnstaged, IInv, TxPhases
  <2>4. CASE Settle(w)
    BY <2>4 DEF Settle, SettleRead, SettleReadFails, SettleOriginals, SettleOriginalsFails,
                SettleEnds, Applying, ReconcileFile, ReconcileFileFails
  <2>5. CASE Server(w)
    BY <2>5 DEF Server, ServerCommits, ServerAborts, EInv, DoubtSettlesAll
  <2>6. CASE Crash(w)
    BY <2>6 DEF Crash
  <2>7. QED
    BY <2>1, <2>2, <2>3, <2>4, <2>5, <2>6 DEF Step
<1>2. pc'[w] \in {"indexing", "uploading"} => staged'[w]
  <2>1. CASE Ingest(w)
    BY <2>1 DEF Ingest, BeginIngest, IndexPlan, IndexPlanFails, UploadsEnd, Materialize,
                PutOriginal, PutOriginalFails, EInv, IngestIsStaged
  <2>2. CASE Request(w)
    BY <2>2 DEF Request, BeginRequest, CreateFile, ChangeFile, Writing
  <2>3. CASE EndTransaction(w)
    BY <2>3 DEF EndTransaction, StageTouched, StageTouchedFails, Commit, CommitLost, Rollback,
                EndUnstaged
  <2>4. CASE Settle(w)
    BY <2>4 DEF Settle, SettleRead, SettleReadFails, SettleOriginals, SettleOriginalsFails,
                SettleEnds, Applying, ReconcileFile, ReconcileFileFails
  <2>5. CASE Server(w)
    BY <2>5 DEF Server, ServerCommits, ServerAborts, EInv, IngestIsStaged
  <2>6. CASE Crash(w)
    BY <2>6 DEF Crash
  <2>7. QED
    BY <2>1, <2>2, <2>3, <2>4, <2>5, <2>6 DEF Step
<1>3. DoubtSettlesAll'
  <2> SUFFICES ASSUME NEW v \in inDoubt', pc'[v] = "settle_read"
               PROVE  todo'[v] = touched'[v]
    BY DEF DoubtSettlesAll
  <2>1. v \in Writers
    OBVIOUS
  <2>2. CASE v # w
    BY <2>1, <2>2, OthersStay DEF EInv, DoubtSettlesAll
  <2>3. QED
    BY <1>1, <2>2
<1>4. IngestIsStaged'
  BY <1>2, OthersStay DEF EInv, IngestIsStaged
<1>5. QED
  BY <1>3, <1>4

\* Every step keeps the invariant about exactness.
LEMMA NextEInv ==
  ASSUME TypeOK, TypeOK', IInv, Books, FInv, AlwaysFindable', EInv, ~OverlappingWrites,
         [Next]_vars
  PROVE  EInv'
<1>1. ASSUME NEW w \in Writers, Step(w)
      PROVE  EInv'
  <2>1. OneWriter
    BY DEF FInv
  <2>2. TouchedInHand'
    <3> SUFFICES ASSUME NEW v \in Writers, NEW f \in touched'[v] \ residue'
                 PROVE  InHand(v, f)'
      BY DEF TouchedInHand
    <3>1. CASE v # w
      <4>1. f \in touched[v]
        BY <1>1, <3>1, OthersStay
      <4>2. QED
        BY <1>1, <2>1, <3>1, <4>1, OthersInHand
    <3>2. CASE v = w
      BY <1>1, <2>1, <3>2, KeptInHand, TakenInHand
    <3>3. QED
      BY <3>1, <3>2
  <2>3. UntouchedExact'
    <3> SUFFICES ASSUME NEW f \in Files \ residue', \A v \in Writers : f \notin touched'[v]
                 PROVE  Exact(f)'
      BY DEF UntouchedExact
    <3>1. CASE f \in touched[w]
      BY <1>1, <3>1, KeptInHand
    <3>2. CASE f \notin touched[w]
      <4>1. \A v \in Writers : f \notin touched[v]
        BY <1>1, <3>2, OthersStay
      <4>2. f \notin residue
        BY <1>1, OthersStay
      <4>3. Exact(f)
        BY <4>1, <4>2 DEF EInv, UntouchedExact
      <4>4. QED
        BY <1>1, <3>2, <4>2, <4>3, Elsewhere DEF Exact
    <3>3. QED
      BY <3>1, <3>2
  <2>4. QED
    BY <1>1, <2>2, <2>3, NextDoubtAndStaged DEF EInv, TypeOK
<1>2. CASE Next
  BY <1>1, <1>2 DEF Next, Step
<1>3. CASE UNCHANGED vars
  <2>1. UNCHANGED <<rows, chunks, pc, tx, plan, touched, created, staged, todo, inDoubt, residue>>
    BY <1>3 DEF vars, stores, info, settling
  <2>2. QED
    BY <2>1 DEF EInv, UntouchedExact, TouchedInHand, InHand, DoubtSettlesAll, IngestIsStaged,
                Exact, ChunksAt, NewRow
<1>4. QED
  BY <1>2, <1>3

\* Once no session has a file to settle, the index holds exactly the chunks of
\* its committed state: nothing of an aborted, replaced or deleted text is left,
\* unless a crash or a failed undo was reported for the file.
THEOREM IndexIsExact ==
  ASSUME CommitLandsFirst, ~OverlappingWrites
  PROVE  Spec => []IndexExact
<1>1. Init => IInv /\ Books /\ FInv /\ EInv
  BY InitIInv, InitBooks, InitFInv, InitEInv
<1>2. TypeOK /\ TypeOK' /\ (IInv /\ Books /\ FInv /\ EInv) /\ [Next]_vars
        => (IInv /\ Books /\ FInv /\ EInv)'
  <2> SUFFICES ASSUME TypeOK, TypeOK', IInv, Books, FInv, EInv, [Next]_vars
               PROVE  (IInv /\ Books /\ FInv /\ EInv)'
    OBVIOUS
  <2>1. IInv' /\ Books' /\ FInv'
    BY NextIInv, NextBooks, NextFInv
  <2>2. AlwaysFindable'
    BY <2>1 DEF FInv
  <2>3. QED
    BY <2>1, <2>2, NextEInv
<1>3. EInv => IndexExact
  BY DEF EInv, UntouchedExact, Exact, ChunksAt, IndexExact
<1>4. QED
  BY <1>1, <1>2, <1>3, TypeCorrect, PTL DEF Spec

-----------------------------------------------------------------------------
\* What the writers see to, collector or not.

\* An object in the bucket is of an issued file, and whatever row its file has,
\* flushed or planned, names it.
ObjectsNamed ==
  \A f \in objects :
    /\ f \in issued
    /\ rows[f] # NoRow => rows[f].blob
    /\ \A w \in Writers : /\ tx[w][f] # NoRow => tx[w][f].blob
                          /\ plan[w][f] # NoRow => plan[w][f].blob

SeamInv == TypeOK /\ IInv /\ Books /\ OInv /\ ObjectsNamed

-----------------------------------------------------------------------------
\* What the collector relies on.

\* What is past the grace period and in flight has its row already.
OldHasRow ==
  \A f \in aged : InFlight(f) => rows[f] # NoRow

\* No row names a key that is about to be deleted.
VictimsUnnamed ==
  gc = "doomed" => \A f \in victims : ~HasOriginal(rows[f])

\* A group that is about to be deleted has no row.
GroupsRowless ==
  \A f \in groups : rows[f] = NoRow

GInv == GcTypeOK /\ SeamInv /\ OldHasRow /\ VictimsUnnamed /\ GroupsRowless

-----------------------------------------------------------------------------
\* The writers keep their part.

\* At the start there is no object, nothing is old and the collector rests.
LEMMA InitGInv == Init /\ GcInit => GInv
<1>1. Init => SeamInv
  BY InitTypeOK, InitIInv, InitBooks, InitOInv DEF SeamInv, ObjectsNamed, Init
<1>2. QED
  BY <1>1 DEF GInv, GcTypeOK, SeamInv, GcInit, OldHasRow, VictimsUnnamed, GroupsRowless

\* An upload stores the original of a planned row, which is nobody else's.
LEMMA UploadNamed ==
  ASSUME SeamInv, NEW w \in Writers, NEW f \in Files,
         PutOriginal(w, f) \/ PutOriginalFails(w, f)
  PROVE  /\ f \in issued
         /\ rows[f] = NoRow
         /\ \A v \in Writers : /\ tx[v][f] = NoRow
                               /\ plan[v][f] # NoRow => plan[v][f].blob
<1> USE DEF SeamInv, TypeOK
<1>1. pc[w] = "uploading" /\ f \in PlannedOriginals(w)
  BY DEF PutOriginal, PutOriginalFails, OInv, UploadsNamed
<1>2. plan[w][f] # NoRow /\ plan[w][f].blob /\ f \in Claims(w)
  BY <1>1 DEF PlannedOriginals, HasOriginal, Claims
<1>3. rows[f] = NoRow /\ tx[w][f] = NoRow
  <2>1. rows[f] = NoRow
    BY <1>2 DEF IInv, PlanIsNew
  <2>2. plan[w] # Nothing
    BY <1>2 DEF Nothing
  <2>3. tx[w] = Nothing
    BY <2>2 DEF Books, PlanFirst
  <2>4. QED
    BY <2>1, <2>3 DEF Nothing
<1>4. \A v \in Writers : v # w => f \notin Claims(v)
  BY <1>2 DEF IInv, OneOwner
<1>5. f \in issued
  BY <1>2 DEF IInv, Issued
<1>6. QED
  BY <1>2, <1>3, <1>4, <1>5 DEF Claims

\* Whatever a session does, an object stays named by what names its file.
LEMMA NextObjectsNamed ==
  ASSUME SeamInv, NEW w \in Writers, Step(w)
  PROVE  ObjectsNamed'
<1> USE DEF SeamInv, TypeOK, stores, info, settling
<1>1. ASSUME NEW f \in Files, PutOriginal(w, f) \/ PutOriginalFails(w, f)
      PROVE  ObjectsNamed'
  <2>1. UNCHANGED <<rows, issued, tx, plan>> /\ objects' \subseteq objects \union {f}
    BY <1>1 DEF PutOriginal, PutOriginalFails
  <2>2. QED
    BY <1>1, <2>1, UploadNamed DEF ObjectsNamed
<1>2. CASE BeginIngest(w)
  <2>1. PICK S \in SUBSET (Files \ issued), B \in SUBSET Files, t \in Texts :
          plan' = [plan EXCEPT ![w] = NewRows(S, B, t)]
    BY <1>2 DEF BeginIngest
  <2>2. \A f \in issued : plan'[w][f] = NoRow
    BY <2>1 DEF NewRows
  <2>3. UNCHANGED <<rows, objects, tx>> /\ issued \subseteq issued'
    BY <1>2 DEF BeginIngest
  <2>4. \A v \in Writers : v # w => plan'[v] = plan[v]
    BY <2>1
  <2>5. QED
    BY <2>2, <2>3, <2>4 DEF ObjectsNamed
<1>3. CASE Materialize(w)
  <2>1. /\ UNCHANGED <<rows, objects, issued>>
        /\ tx' = [tx EXCEPT ![w] = plan[w]] /\ plan' = [plan EXCEPT ![w] = Nothing]
    BY <1>3 DEF Materialize
  <2>2. QED
    BY <2>1 DEF ObjectsNamed, Nothing
<1>4. ASSUME NEW f \in Files, CreateFile(w, f)
      PROVE  ObjectsNamed'
  <2>1. PICK new : tx' = [tx EXCEPT ![w][f] = new]
    BY <1>4 DEF CreateFile
  <2>2. UNCHANGED <<rows, objects, plan>> /\ issued \subseteq issued' /\ f \notin objects
    BY <1>4 DEF CreateFile, ObjectsNamed
  <2>3. \A v \in Writers, g \in Files : g # f => tx'[v][g] = tx[v][g]
    BY <2>1, ExceptElsewhere
  <2>4. QED
    BY <2>2, <2>3 DEF ObjectsNamed
<1>5. ASSUME NEW f \in Files, ChangeFile(w, f)
      PROVE  ObjectsNamed'
  <2>1. PICK new \in Row : Changed(View(w, f), new) /\ tx' = [tx EXCEPT ![w][f] = new]
    BY <1>5 DEF ChangeFile
  <2>2. UNCHANGED <<rows, objects, plan, issued>> /\ View(w, f) # NoRow
    BY <1>5 DEF ChangeFile
  <2>3. \A v \in Writers, g \in Files : v # w \/ g # f => tx'[v][g] = tx[v][g]
    BY <2>1, ExceptElsewhere
  <2>4. tx'[w][f] = new
    BY <2>1
  <2>5. f \in objects => new.blob
    BY <2>1, <2>2 DEF ObjectsNamed, Changed, View, Overlay
  <2>6. \A g \in objects, v \in Writers : tx'[v][g] # NoRow => tx'[v][g].blob
    <3> SUFFICES ASSUME NEW g \in objects, NEW v \in Writers, tx'[v][g] # NoRow
                 PROVE  tx'[v][g].blob
      OBVIOUS
    <3>1. CASE v = w /\ g = f
      BY <2>4, <2>5, <3>1
    <3>2. CASE v # w \/ g # f
      <4>1. tx'[v][g] = tx[v][g]
        BY <2>3, <3>2
      <4>2. QED
        BY <4>1 DEF ObjectsNamed
    <3>3. QED
      BY <3>1, <3>2
  <2>7. QED
    BY <2>2, <2>6 DEF ObjectsNamed
<1>6. CASE Commit(w) \/ ServerCommits(w)
  <2>1. /\ objects' = objects /\ issued' = issued /\ plan' = plan
        /\ rows' = Overlay(rows, tx[w]) /\ tx' = [tx EXCEPT ![w] = Nothing]
    BY <1>6 DEF Commit, ServerCommits
  <2>2. \A v \in Writers, f \in Files : tx'[v][f] = tx[v][f] \/ tx'[v][f] = NoRow
    BY <2>1 DEF Nothing
  <2>3. \A f \in Files : rows'[f] = rows[f] \/ (rows'[f] = tx[w][f] /\ tx[w][f] # NoRow)
    BY <2>1 DEF Overlay
  <2>4. ASSUME NEW f \in objects
        PROVE  /\ f \in issued
               /\ rows'[f] # NoRow => rows'[f].blob
               /\ \A v \in Writers : /\ tx'[v][f] # NoRow => tx'[v][f].blob
                                     /\ plan[v][f] # NoRow => plan[v][f].blob
    <3>1. f \in Files /\ f \in issued /\ (rows[f] # NoRow => rows[f].blob)
      BY DEF ObjectsNamed
    <3>2. \A v \in Writers : /\ tx[v][f] # NoRow => tx[v][f].blob
                             /\ plan[v][f] # NoRow => plan[v][f].blob
      BY DEF ObjectsNamed
    <3>3. rows'[f] # NoRow => rows'[f].blob
      BY <2>3, <3>1, <3>2
    <3>4. \A v \in Writers : tx'[v][f] # NoRow => tx'[v][f].blob
      BY <2>2, <3>1, <3>2
    <3>5. QED
      BY <3>1, <3>2, <3>3, <3>4
  <2>5. QED
    BY <2>1, <2>4 DEF ObjectsNamed
<1>7. CASE /\ objects' \subseteq objects /\ rows' = rows /\ issued' = issued
           /\ tx' = tx \/ tx' = [tx EXCEPT ![w] = Nothing]
           /\ plan' = plan \/ plan' = [plan EXCEPT ![w] = Nothing]
  <2>1. \A v \in Writers, f \in Files :
          /\ tx'[v][f] = tx[v][f] \/ tx'[v][f] = NoRow
          /\ plan'[v][f] = plan[v][f] \/ plan'[v][f] = NoRow
    <3> SUFFICES ASSUME NEW v \in Writers, NEW f \in Files
                 PROVE  /\ tx'[v][f] = tx[v][f] \/ tx'[v][f] = NoRow
                        /\ plan'[v][f] = plan[v][f] \/ plan'[v][f] = NoRow
      OBVIOUS
    <3>1. tx'[v][f] = tx[v][f] \/ tx'[v][f] = NoRow
      <4>1. tx'[v] = tx[v] \/ tx'[v] = Nothing
        BY <1>7
      <4>2. QED
        BY <4>1 DEF Nothing
    <3>2. plan'[v][f] = plan[v][f] \/ plan'[v][f] = NoRow
      <4>1. plan'[v] = plan[v] \/ plan'[v] = Nothing
        BY <1>7
      <4>2. QED
        BY <4>1 DEF Nothing
    <3>3. QED
      BY <3>1, <3>2
  <2>2. QED
    BY <1>7, <2>1 DEF ObjectsNamed
<1>8. CASE Ingest(w)
  BY <1>1, <1>2, <1>3, <1>7, <1>8 DEF Ingest, IndexPlan, IndexPlanFails, UploadsEnd
<1>9. CASE Request(w)
  BY <1>4, <1>5, <1>7, <1>9 DEF Request, BeginRequest
<1>10. CASE EndTransaction(w)
  BY <1>6, <1>7, <1>10 DEF EndTransaction, StageTouched, StageTouchedFails, CommitLost,
                           Rollback, EndUnstaged
<1>11. CASE Settle(w)
  BY <1>7, <1>11 DEF Settle, SettleRead, SettleReadFails, SettleOriginals,
                     SettleOriginalsFails, ReconcileFile, ReconcileFileFails
<1>12. CASE Server(w) \/ Crash(w)
  BY <1>6, <1>7, <1>12 DEF Server, ServerAborts, Crash
<1>13. QED
  BY <1>8, <1>9, <1>10, <1>11, <1>12 DEF Step

\* The writers keep all of their part.
LEMMA NextSeamInv ==
  ASSUME SeamInv, CommitLandsFirst, Next
  PROVE  SeamInv'
<1>1. TypeOK' /\ IInv' /\ Books' /\ OInv'
  <2>1. TypeOK'
    BY IngestTypeOK, RequestTypeOK, EndTransactionTypeOK, SettleTypeOK, ServerCrashTypeOK
       DEF Next, SeamInv
  <2>2. QED
    BY <2>1, NextIInv, NextBooks, NextOInv DEF SeamInv
<1>2. ObjectsNamed'
  BY NextObjectsNamed DEF Next, Step
<1>3. QED
  BY <1>1, <1>2 DEF SeamInv

\* What a transaction has flushed is in flight.
LEMMA FlushedInFlight ==
  ASSUME SeamInv, NEW w \in Writers, NEW f \in Files, tx[w][f] # NoRow
  PROVE  InFlight(f)
  BY DEF SeamInv, Books, TxTouched, InFlight

\* An issued file without a row is not taken up again.
LEMMA FlightBegins ==
  ASSUME SeamInv, NEW w \in Writers, Step(w), NEW f \in issued, InFlight(f)'
  PROVE  InFlight(f) \/ rows[f] # NoRow
<1> USE DEF SeamInv, TypeOK, stores, info, settling
<1>1. PICK v \in Writers : f \in touched'[v] \/ (v \in inDoubt' /\ tx'[v][f] # NoRow)
  BY DEF InFlight
<1>2. CASE v # w
  BY <1>1, <1>2, OthersStay DEF InFlight
<1>3. CASE v = w /\ f \in touched'[v] /\ f \notin touched[v]
  <2>1. ChangeFile(w, f)
    BY <1>3, TakenUp DEF BeginIngest, CreateFile
  <2>2. tx[w][f] # NoRow \/ rows[f] # NoRow
    BY <2>1 DEF ChangeFile, View, Overlay
  <2>3. QED
    BY <2>2, FlushedInFlight
<1>4. CASE v = w /\ v \in inDoubt' /\ tx'[v][f] # NoRow
  <2>1. CASE Ingest(w) \/ Request(w)
    <3>1. w \in inDoubt
      BY <1>4, <2>1 DEF Ingest, Request, BeginIngest, IndexPlan, IndexPlanFails, UploadsEnd,
                  Materialize, PutOriginal, PutOriginalFails, BeginRequest, CreateFile, ChangeFile
    <3>2. pc[w] # "open"
      BY <3>1 DEF IInv, TxPhases
    <3>3. tx' = tx
      BY <2>1, <3>2 DEF Ingest, Request, BeginIngest, IndexPlan, IndexPlanFails, UploadsEnd,
                  Materialize, PutOriginal, PutOriginalFails, BeginRequest, CreateFile,
                  ChangeFile, Writing
    <3>4. QED
      BY <1>4, <3>3, FlushedInFlight
  <2>2. CASE EndTransaction(w)
    <3>1. tx'[w] = tx[w] \/ tx'[w] = Nothing
      BY <2>2 DEF EndTransaction, StageTouched, StageTouchedFails, Commit, CommitLost,
                  Rollback, EndUnstaged
    <3>2. tx[w][f] # NoRow
      BY <1>4, <3>1 DEF Nothing
    <3>3. QED
      BY <3>2, FlushedInFlight
  <2>3. CASE Settle(w)
    <3>1. tx' = tx
      BY <2>3 DEF Settle, SettleRead, SettleReadFails, SettleOriginals, SettleOriginalsFails,
                  ReconcileFile, ReconcileFileFails
    <3>2. QED
      BY <1>4, <3>1, FlushedInFlight
  <2>4. CASE Server(w) \/ Crash(w)
    <3>1. tx'[w] = tx[w] \/ tx'[w] = Nothing
      BY <2>4 DEF Server, ServerCommits, ServerAborts, Crash
    <3>2. tx[w][f] # NoRow
      BY <1>4, <3>1 DEF Nothing
    <3>3. QED
      BY <3>2, FlushedInFlight
  <2>5. QED
    BY <2>1, <2>2, <2>3, <2>4 DEF Step
<1>5. QED
  BY <1>1, <1>2, <1>3, <1>4 DEF InFlight

\* An id once issued stays issued.
LEMMA IssuedGrows ==
  ASSUME Next
  PROVE  issued \subseteq issued'
  BY DEF Next, stores, info, settling, Ingest, BeginIngest, IndexPlan, IndexPlanFails,
         UploadsEnd, Materialize, PutOriginal, PutOriginalFails, Request, BeginRequest,
         CreateFile, ChangeFile, EndTransaction, StageTouched, StageTouchedFails, Commit,
         CommitLost, Rollback, EndUnstaged, Settle, SettleRead, SettleReadFails,
         SettleOriginals, SettleOriginalsFails, ReconcileFile, ReconcileFileFails, Server,
         ServerCommits, ServerAborts, Crash

\* The writers keep what the collector relies on.
LEMMA SeamStepGInv ==
  ASSUME GInv, CommitLandsFirst, SeamStep
  PROVE  GInv'
<1> USE DEF GInv, gcVars, SeamStep
<1>1. SeamInv'
  BY NextSeamInv
<1>2. PICK w \in Writers : Step(w)
  BY DEF Next, Step
<1>3. aged \subseteq Files
  BY DEF GcTypeOK, TypeOK
<1>4. \A f \in Files : rows[f] # NoRow => rows'[f] # NoRow
  BY RowsLand DEF Overlay
<1>5. GcTypeOK'
  BY <1>1, IssuedGrows DEF GcTypeOK, SeamInv
<1>6. OldHasRow'
  <2> SUFFICES ASSUME NEW f \in aged, InFlight(f)' PROVE rows'[f] # NoRow
    BY DEF OldHasRow
  <2>1. InFlight(f) \/ rows[f] # NoRow
    BY <1>2, FlightBegins DEF GcTypeOK
  <2>2. QED
    BY <1>3, <1>4, <2>1 DEF OldHasRow
<1>7. VictimsUnnamed'
  <2> SUFFICES ASSUME gc = "doomed", NEW f \in victims PROVE ~HasOriginal(rows'[f])
    BY DEF VictimsUnnamed
  <2>1. f \in aged /\ f \in Files /\ ~HasOriginal(rows[f])
    BY <1>3 DEF GcTypeOK, VictimsUnnamed
  <2>2. ASSUME NEW v \in Writers, rows' = Overlay(rows, tx[v]), tx[v][f] # NoRow
        PROVE  ~HasOriginal(rows'[f])
    <3>1. rows[f] # NoRow
      BY <2>1, <2>2, FlushedInFlight DEF OldHasRow
    <3>2. tx[v][f].blob = rows[f].blob
      BY <2>1, <2>2, <3>1 DEF SeamInv, IInv, SameOriginal
    <3>3. QED
      BY <2>1, <2>2, <3>1, <3>2 DEF Overlay, HasOriginal
  <2>3. CASE rows'[f] = rows[f]
    BY <2>1, <2>3
  <2>4. QED
    BY <2>1, <2>2, <2>3, RowsLand DEF Overlay
<1>8. GroupsRowless'
  <2> SUFFICES ASSUME NEW f \in groups PROVE rows'[f] = NoRow
    BY DEF GroupsRowless
  <2>1. f \in aged /\ f \in Files /\ rows[f] = NoRow
    BY <1>3 DEF GcTypeOK, GroupsRowless
  <2>2. \A v \in Writers : tx[v][f] = NoRow
    BY <2>1, FlushedInFlight DEF OldHasRow
  <2>3. QED
    BY <2>1, <2>2, RowsLand DEF Overlay
<1>9. QED
  BY <1>1, <1>5, <1>6, <1>7, <1>8

-----------------------------------------------------------------------------
\* The collector keeps it too.

\* What has a row takes no harm from the deletion of keys that no row names:
\* planned, uploaded and flushed originals of a write in flight are spared.
LEMMA DeleteVictimsSpares ==
  ASSUME GInv, DeleteVictims
  PROVE  \A f \in Files : InFlight(f) /\ f \in objects => f \in objects'
<1> SUFFICES ASSUME NEW f \in Files, InFlight(f), f \in objects, f \in victims
             PROVE  FALSE
  BY DEF DeleteVictims
<1>1. f \in aged /\ ~HasOriginal(rows[f])
  BY DEF GInv, GcTypeOK, VictimsUnnamed, DeleteVictims
<1>2. rows[f] # NoRow
  BY <1>1 DEF GInv, OldHasRow
<1>3. QED
  BY <1>1, <1>2 DEF GInv, SeamInv, ObjectsNamed, HasOriginal

\* So the deletion keeps what the writers rely on.
LEMMA DeleteVictimsSeamInv ==
  ASSUME GInv, DeleteVictims
  PROVE  SeamInv'
<1> USE DEF GInv, SeamInv, TypeOK, stores, info, settling
<1>1. /\ objects' \subseteq objects
      /\ UNCHANGED <<rows, chunks, issued, pc, tx, inDoubt, plan, puts, info, settling, residue>>
  BY DEF DeleteVictims
<1>2. \A f \in Files : InFlight(f) /\ f \in objects => f \in objects'
  BY DeleteVictimsSpares
<1>3. \A w \in Writers : \A f \in touched[w] : f \in objects => f \in objects'
  BY <1>2 DEF InFlight
<1>4. \A w \in Writers, f \in Files : tx[w][f] # NoRow /\ f \in objects => f \in objects'
  BY <1>2, FlushedInFlight
<1>5. \A w \in Writers, f \in Files : plan[w][f] # NoRow /\ f \in objects => f \in objects'
  BY <1>3 DEF Books, TouchedFirst, Planned
<1>6. \A f \in Files : HasOriginal(rows[f]) => f \in objects'
  BY DEF DeleteVictims, VictimsUnnamed, IInv, NoLostOriginal
<1>7. ASSUME NEW w \in Writers, pc[w] = "uploading", NEW f \in uploaded[w]
      PROVE  f \in objects'
  <2>1. f \in objects /\ f \in Files
    BY <1>7 DEF IInv, UploadsRecorded
  <2>2. HasOriginal(NewRow(w, f))
    BY <1>7 DEF OInv, UploadsNamed
  <2>3. plan[w][f] # NoRow \/ tx[w][f] # NoRow
    BY <2>2 DEF NewRow, HasOriginal
  <2>4. QED
    BY <1>4, <1>5, <2>1, <2>3
<1>8. UploadsRecorded'
  BY <1>1, <1>7 DEF IInv, UploadsRecorded
<1>9. PlanBacked' /\ TxBacked' /\ NoLostOriginal'
  BY <1>1, <1>4, <1>5, <1>6 DEF IInv, PlanBacked, TxBacked, NoLostOriginal, HasOriginal
<1>10. IInv'
  BY <1>1, <1>8, <1>9 DEF IInv, Issued, OneOwner, RowLocks, SameOriginal, PlanIsNew, TxPhases,
                          Claims
<1>11. TypeOK' /\ Books'
  BY <1>1 DEF Books, IdleIsClean, TouchedFirst, TxTouched, PlanFirst, TodoPhases, Planned
<1>12. OInv'
  BY <1>1 DEF OInv, UploadsNamed, NoStrayOriginal, NewRow, PlannedOriginals
<1>13. ObjectsNamed'
  BY <1>1 DEF ObjectsNamed
<1>14. QED
  BY <1>10, <1>11, <1>12, <1>13

\* The collector's own chunks step touches nothing these invariants speak of.
LEMMA DeleteGroupsSeamInv ==
  ASSUME SeamInv, DeleteGroups
  PROVE  SeamInv'
<1> USE DEF SeamInv, info, settling
<1>1. /\ chunks' \subseteq chunks
      /\ UNCHANGED <<rows, objects, issued, pc, tx, inDoubt, plan, puts, info, settling, residue>>
  BY DEF DeleteGroups
<1>2. TypeOK' /\ ObjectsNamed'
  BY <1>1 DEF TypeOK, ObjectsNamed
<1>3. IInv'
  BY <1>1 DEF IInv, Issued, OneOwner, RowLocks, SameOriginal, PlanIsNew, TxPhases,
              UploadsRecorded, PlanBacked, TxBacked, NoLostOriginal, Claims
<1>4. Books' /\ OInv'
  BY <1>1 DEF Books, IdleIsClean, TouchedFirst, TxTouched, PlanFirst, TodoPhases, Planned,
              OInv, UploadsNamed, NoStrayOriginal, NewRow, PlannedOriginals
<1>5. QED
  BY <1>2, <1>3, <1>4

\* Nothing the writers' invariants speak of changes.
LEMMA SameVarsSeamInv ==
  ASSUME SeamInv, UNCHANGED vars
  PROVE  SeamInv'
<1>1. UNCHANGED <<rows, chunks, objects, issued, pc, tx, inDoubt, plan, puts, touched, created,
                  staged, uploaded, committed, todo, seen, residue>>
  BY DEF vars, stores, info, settling
<1>2. TypeOK' /\ ObjectsNamed'
  BY <1>1 DEF SeamInv, TypeOK, ObjectsNamed
<1>3. IInv'
  BY <1>1 DEF SeamInv, IInv, Issued, OneOwner, RowLocks, SameOriginal, PlanIsNew, TxPhases,
              UploadsRecorded, PlanBacked, TxBacked, NoLostOriginal, Claims
<1>4. Books' /\ OInv'
  BY <1>1 DEF SeamInv, Books, IdleIsClean, TouchedFirst, TxTouched, PlanFirst, TodoPhases,
              Planned, OInv, UploadsNamed, NoStrayOriginal, NewRow, PlannedOriginals
<1>5. QED
  BY <1>2, <1>3, <1>4 DEF SeamInv

\* Each step of the collector, and time passing, keeps the invariant.
LEMMA GcStepGInv ==
  ASSUME GInv, GraceOutlastsIngest, GcNext
  PROVE  GInv'
<1> USE DEF GInv
<1>1. UNCHANGED <<touched, inDoubt, tx, rows>>
  BY DEF GcNext, Age, ListOld, KeepReferenced, DeleteVictims, CollectFails, SelectGroups,
         DeleteGroups, vars, stores, info
<1>2. \A f : InFlight(f)' <=> InFlight(f)
  BY <1>1 DEF InFlight
<1>3. SeamInv'
  <2>1. CASE UNCHANGED vars
    BY <2>1, SameVarsSeamInv
  <2>2. CASE DeleteVictims
    BY <2>2, DeleteVictimsSeamInv
  <2>3. CASE DeleteGroups
    BY <2>3, DeleteGroupsSeamInv
  <2>4. QED
    BY <2>1, <2>2, <2>3 DEF GcNext, Age, ListOld, KeepReferenced, CollectFails, SelectGroups
<1>4. issued' = issued
  BY DEF GcNext, Age, ListOld, KeepReferenced, DeleteVictims, CollectFails, SelectGroups,
         DeleteGroups, vars
<1>5. ASSUME NEW f \in Files, Age(f)
      PROVE  GInv'
  <2>1. aged' = aged \union {f} /\ gc' = gc /\ victims' = victims /\ groups' = groups
        /\ f \in issued /\ ~InFlight(f)
    BY <1>5 DEF Age
  <2>2. OldHasRow'
    BY <1>1, <1>2, <2>1 DEF OldHasRow
  <2>3. GcTypeOK'
    BY <1>3, <1>4, <2>1 DEF GcTypeOK, SeamInv
  <2>4. VictimsUnnamed' /\ GroupsRowless'
    BY <1>1, <2>1 DEF VictimsUnnamed, GroupsRowless
  <2>5. QED
    BY <1>3, <2>2, <2>3, <2>4
<1>6. ASSUME aged' = aged
      PROVE  OldHasRow'
  BY <1>1, <1>2, <1>6 DEF OldHasRow
<1> USE DEF GcTypeOK, SeamInv, VictimsUnnamed, GroupsRowless
<1>7. CASE ListOld
  BY <1>1, <1>3, <1>4, <1>6, <1>7 DEF ListOld
<1>8. CASE KeepReferenced
  BY <1>1, <1>3, <1>4, <1>6, <1>8 DEF KeepReferenced
<1>9. CASE DeleteVictims
  BY <1>1, <1>3, <1>4, <1>6, <1>9 DEF DeleteVictims
<1>10. CASE CollectFails
  BY <1>1, <1>3, <1>4, <1>6, <1>10 DEF CollectFails
<1>11. CASE SelectGroups
  BY <1>1, <1>3, <1>4, <1>6, <1>11 DEF SelectGroups
<1>12. CASE DeleteGroups
  BY <1>1, <1>3, <1>4, <1>6, <1>12 DEF DeleteGroups
<1>13. QED
  BY <1>5, <1>7, <1>8, <1>9, <1>10, <1>11, <1>12 DEF GcNext

\* The invariant holds in every reachable state of writers and collector.
LEMMA GInvHolds ==
  ASSUME CommitLandsFirst, GraceOutlastsIngest
  PROVE  GcSpec => []GInv
<1>1. Init /\ GcInit => GInv
  BY InitGInv
<1>2. GInv /\ [AllNext]_allVars => GInv'
  <2> SUFFICES ASSUME GInv, [AllNext]_allVars PROVE GInv'
    OBVIOUS
  <2>1. CASE GcNext
    BY <2>1, GcStepGInv
  <2>2. CASE SeamStep
    BY <2>2, SeamStepGInv
  <2>3. CASE UNCHANGED allVars
    <3>1. SeamInv'
      BY <2>3, SameVarsSeamInv DEF allVars, GInv
    <3>2. UNCHANGED <<rows, issued, tx, inDoubt, touched, aged, gc, victims, groups>>
      BY <2>3 DEF allVars, vars, gcVars, stores, info
    <3>3. QED
      BY <3>1, <3>2 DEF GInv, GcTypeOK, SeamInv, OldHasRow, InFlight, VictimsUnnamed, GroupsRowless
  <2>4. QED
    BY <2>1, <2>2, <2>3 DEF AllNext
<1>3. QED
  BY <1>1, <1>2, PTL DEF GcSpec

\* The collector's variables keep their types beside the writers'.
THEOREM GcTypeCorrect == GcSpec => []GcTypeOK
<1>1. Init /\ GcInit => GcTypeOK
  BY InitTypeOK DEF GcInit, GcTypeOK
<1>2. GcTypeOK /\ [AllNext]_allVars => GcTypeOK'
  <2> SUFFICES ASSUME GcTypeOK, [AllNext]_allVars PROVE GcTypeOK'
    OBVIOUS
  <2>1. CASE SeamStep
    <3>1. TypeOK'
      BY <2>1, IngestTypeOK, RequestTypeOK, EndTransactionTypeOK, SettleTypeOK,
         ServerCrashTypeOK DEF SeamStep, Next, GcTypeOK
    <3>2. QED
      BY <2>1, <3>1, IssuedGrows DEF SeamStep, gcVars, GcTypeOK
  <2>2. CASE GcNext \/ UNCHANGED allVars
    <3>1. TypeOK'
      BY <2>2 DEF GcTypeOK, TypeOK, GcNext, Age, ListOld, KeepReferenced, DeleteVictims,
                  CollectFails, SelectGroups, DeleteGroups, allVars, vars, stores, info, settling
    <3>2. issued' = issued
      BY <2>2 DEF GcNext, Age, ListOld, KeepReferenced, DeleteVictims, CollectFails,
                  SelectGroups, DeleteGroups, allVars, vars
    <3>3. CASE UNCHANGED allVars
      BY <3>1, <3>3 DEF GcTypeOK, allVars, vars, gcVars
    <3>4. CASE (\E f \in Files : Age(f)) \/ ListOld \/ KeepReferenced
      BY <3>1, <3>2, <3>4 DEF GcTypeOK, Age, ListOld, KeepReferenced
    <3>5. CASE DeleteVictims \/ CollectFails
      BY <3>1, <3>2, <3>5 DEF GcTypeOK, DeleteVictims, CollectFails
    <3>6. CASE SelectGroups \/ DeleteGroups
      BY <3>1, <3>2, <3>6 DEF GcTypeOK, SelectGroups, DeleteGroups
    <3>7. QED
      BY <2>2, <3>3, <3>4, <3>5, <3>6 DEF GcNext
  <2>3. QED
    BY <2>1, <2>2 DEF AllNext
<1>3. QED
  BY <1>1, <1>2, PTL DEF GcSpec

\* With the collector running beside any number of writers, still no committed
\* row loses its original: what it deletes is not named when it lists, and cannot
\* become named before it deletes.
THEOREM OriginalsSurviveGc ==
  ASSUME CommitLandsFirst, GraceOutlastsIngest
  PROVE  GcSpec => []NoLostOriginal
<1>1. GInv => NoLostOriginal
  BY DEF GInv, SeamInv, IInv
<1>2. QED
  BY <1>1, GInvHolds, PTL

\* No step of the collector takes a chunk or an original of a file some session,
\* or some COMMIT under way, may still make visible.
THEOREM GcSparesInFlight ==
  ASSUME CommitLandsFirst, GraceOutlastsIngest
  PROVE  GcSpec => SparesInFlight
<1> DEFINE Spares == (DeleteVictims \/ DeleteGroups) =>
                       \A f \in Files : InFlight(f) =>
                         /\ f \in objects => f \in objects'
                         /\ chunks \intersect ({f} \X Texts) \subseteq chunks'
<1>1. GInv /\ [AllNext]_allVars => [Spares]_allVars
  <2> SUFFICES ASSUME GInv, DeleteVictims \/ DeleteGroups, NEW f \in Files, InFlight(f)
               PROVE  /\ f \in objects => f \in objects'
                      /\ chunks \intersect ({f} \X Texts) \subseteq chunks'
    OBVIOUS
  <2>1. CASE DeleteVictims
    BY <2>1, DeleteVictimsSpares DEF DeleteVictims
  <2>2. CASE DeleteGroups
    <3>1. f \notin groups
      BY DEF GInv, GcTypeOK, OldHasRow, GroupsRowless
    <3>2. QED
      BY <2>2, <3>1 DEF DeleteGroups
  <2>3. QED
    BY <2>1, <2>2
<1>2. QED
  BY <1>1, GInvHolds, PTL DEF GcSpec, SparesInFlight
=============================================================================
