----------------------------- MODULE WriteSeam -----------------------------
(***************************************************************************)
(* The commit seam of kb.service: one write lands in the database, in the  *)
(* semantic index and in the S3 bucket, or in none of them.  The database  *)
(* COMMIT is the commit point.  Chunks and originals are written before    *)
(* it, and "settled" after it from whatever the database then holds.       *)
(*                                                                         *)
(* A writer is one SQLAlchemy session (an API request, a script).  A file  *)
(* id is a fresh uuid: it is issued once and never reused.  A text stands  *)
(* for everything a file's chunks are cut from (content and title).        *)
(***************************************************************************)

CONSTANTS
  Writers,           \* the sessions
  Files,             \* the file ids that can be issued
  Texts,             \* the texts a file can have
  NoRow,             \* "no such row" in a table or a transaction
  OverlappingWrites, \* a file can be changed while an earlier write of it,
                     \* by another session, is still settling
  CommitLandsFirst   \* a COMMIT whose reply was lost is decided by the server
                     \* before the client's settling reads the database

Row == [text : Texts, active : BOOLEAN, blob : BOOLEAN]
MaybeRow == Row \union {NoRow}

ASSUME NoRowAssumption == NoRow \notin Row
ASSUME OverlappingWritesAssumption == OverlappingWrites \in BOOLEAN
ASSUME CommitLandsFirstAssumption == CommitLandsFirst \in BOOLEAN

VARIABLES
  rows,       \* the committed `files` table
  chunks,     \* <<file, text>>: the index holds the chunks of this text
  objects,    \* the bucket: files whose originals/<id> object exists
  issued,     \* file ids handed out so far
  pc,         \* where each session is
  tx,         \* rows each open transaction has flushed (and locked)
  inDoubt,    \* writers whose COMMIT was sent and whose reply was lost
  plan,       \* the ingest plan of each session: rows still to create
  puts,       \* uploads of each session that have not ended
  touched,    \* session.info["kb.touched_node_ids"]
  created,    \* session.info["kb.created_node_ids"]
  staged,     \* session.info["kb.staged"]
  uploaded,   \* session.info["kb.uploaded_originals"]
  committed,  \* session.info["kb.committed"]
  todo,       \* ids the running reconcile has still to do
  seen,       \* the committed rows that reconcile loaded
  residue     \* history: files for which an undo was skipped or failed

stores == <<rows, chunks, objects>>
info == <<touched, created, staged, uploaded, committed>>
settling == <<todo, seen>>
vars == <<stores, issued, pc, tx, inDoubt, plan, puts, info, settling, residue>>

Nothing == [f \in Files |-> NoRow]

\* The chunks a row asks for: none unless the file exists and is active.
ChunksOf(f, row) ==
  IF row # NoRow /\ row.active THEN {<<f, row.text>>} ELSE {}

HasOriginal(row) == row # NoRow /\ row.blob

\* Committed table `base` as it reads under the changes of one transaction.
Overlay(base, changes) ==
  [f \in Files |-> IF changes[f] # NoRow THEN changes[f] ELSE base[f]]

\* What session w itself reads: its own flushed rows over the committed ones.
View(w, f) == Overlay(rows, tx[w])[f]

\* A flushed UPDATE holds the row lock until its transaction ends.
Unlocked(w, f) == \A v \in Writers \ {w} : tx[v][f] = NoRow

\* No other session has f to settle.  The code does not see to this: it is an
\* assumption on the load, made where OverlappingWrites is FALSE.
Settled(w, f) == \A v \in Writers \ {w} : f \notin touched[v]

Planned(w) == {f \in Files : plan[w][f] # NoRow}
PlannedOriginals(w) == {f \in Files : HasOriginal(plan[w][f])}

Phases == {"idle", "indexing", "uploading", "open", "staged", "failed",
           "undo_read", "undo_apply", "settle_read", "settle_apply"}

Init ==
  /\ rows = Nothing
  /\ chunks = {}
  /\ objects = {}
  /\ issued = {}
  /\ pc = [w \in Writers |-> "idle"]
  /\ tx = [w \in Writers |-> Nothing]
  /\ inDoubt = {}
  /\ plan = [w \in Writers |-> Nothing]
  /\ puts = [w \in Writers |-> {}]
  /\ touched = [w \in Writers |-> {}]
  /\ created = [w \in Writers |-> {}]
  /\ staged = [w \in Writers |-> FALSE]
  /\ uploaded = [w \in Writers |-> {}]
  /\ committed = [w \in Writers |-> FALSE]
  /\ todo = [w \in Writers |-> {}]
  /\ seen = [w \in Writers |-> Nothing]
  /\ residue = {}

-----------------------------------------------------------------------------
\* Ingest: stage_before_commit.

\* The rows an ingest of files S plans, originals kept for those in B.
NewRows(S, B, t) ==
  [f \in Files |-> IF f \in S THEN [text |-> t, active |-> TRUE, blob |-> f \in B]
                              ELSE NoRow]

\* ingest_folder calls stage_before_commit: the planned ids are marked touched
\* and created, and the session staged, before anything is written.
BeginIngest(w) ==
  /\ pc[w] = "idle"
  /\ w \notin inDoubt
  /\ \E S \in SUBSET (Files \ issued) : \E B \in SUBSET S : \E t \in Texts :
       /\ S # {}
       /\ issued' = issued \union S
       /\ plan' = [plan EXCEPT ![w] = NewRows(S, B, t)]
       /\ touched' = [touched EXCEPT ![w] = S]
       /\ created' = [created EXCEPT ![w] = S]
  /\ staged' = [staged EXCEPT ![w] = TRUE]
  /\ pc' = [pc EXCEPT ![w] = "indexing"]
  /\ UNCHANGED <<stores, tx, inDoubt, puts, uploaded, committed, settling, residue>>

\* stage_documents over the planned files succeeds; the uploads start.
IndexPlan(w) ==
  /\ pc[w] = "indexing"
  /\ chunks' = chunks \union UNION {ChunksOf(f, plan[w][f]) : f \in Files}
  /\ puts' = [puts EXCEPT ![w] = PlannedOriginals(w)]
  /\ pc' = [pc EXCEPT ![w] = "uploading"]
  /\ UNCHANGED <<rows, objects, issued, tx, inDoubt, plan, info, settling, residue>>

\* stage_documents raises: any part of the chunks may be in already.
IndexPlanFails(w) ==
  /\ pc[w] = "indexing"
  /\ \E part \in SUBSET UNION {ChunksOf(f, plan[w][f]) : f \in Files} :
       chunks' = chunks \union part
  /\ todo' = [todo EXCEPT ![w] = touched[w]]
  /\ pc' = [pc EXCEPT ![w] = "undo_read"]
  /\ UNCHANGED <<rows, objects, issued, tx, inDoubt, plan, puts, info, seen, residue>>

\* One worker of the upload pool: the object is stored and its key recorded.
PutOriginal(w, f) ==
  /\ pc[w] = "uploading"
  /\ f \in puts[w]
  /\ objects' = objects \union {f}
  /\ uploaded' = [uploaded EXCEPT ![w] = @ \union {f}]
  /\ puts' = [puts EXCEPT ![w] = @ \ {f}]
  /\ UNCHANGED <<rows, chunks, issued, pc, tx, inDoubt, plan, touched, created,
                 staged, committed, settling, residue>>

\* put_original raises and the key is not recorded.  The object may be there
\* all the same: the request was carried out and only its reply was lost.
PutOriginalFails(w, f) ==
  /\ pc[w] = "uploading"
  /\ f \in puts[w]
  /\ puts' = [puts EXCEPT ![w] = @ \ {f}]
  /\ \/ UNCHANGED <<objects, residue>>
     \/ /\ objects' = objects \union {f}
        /\ residue' = residue \union {f}
  /\ UNCHANGED <<rows, chunks, issued, pc, tx, inDoubt, plan, info, settling>>

\* Mutant: upload errors are collected and never looked at.
UploadsEndUnchecked(w) ==
  /\ pc[w] = "uploading"
  /\ puts[w] = {}
  /\ pc' = [pc EXCEPT ![w] = "open"]
  /\ UNCHANGED <<stores, issued, tx, inDoubt, plan, puts, info, settling, residue>>

\* Mutant: the keys are popped before the undo, which then finds none.
UploadsEndForgetting(w) ==
  /\ pc[w] = "uploading"
  /\ puts[w] = {}
  /\ IF PlannedOriginals(w) \subseteq uploaded[w]
     THEN /\ pc' = [pc EXCEPT ![w] = "open"]
          /\ UNCHANGED <<todo, uploaded>>
     ELSE /\ pc' = [pc EXCEPT ![w] = "undo_read"]
          /\ todo' = [todo EXCEPT ![w] = touched[w]]
          /\ uploaded' = [uploaded EXCEPT ![w] = {}]
  /\ UNCHANGED <<stores, issued, tx, inDoubt, plan, puts, touched, created,
                 staged, committed, seen, residue>>

\* The pool has drained: the first error, if there was one, is re-raised.
UploadsEnd(w) ==
  /\ pc[w] = "uploading"
  /\ puts[w] = {}
  /\ IF PlannedOriginals(w) \subseteq uploaded[w]
     THEN /\ pc' = [pc EXCEPT ![w] = "open"]
          /\ UNCHANGED todo
     ELSE /\ pc' = [pc EXCEPT ![w] = "undo_read"]
          /\ todo' = [todo EXCEPT ![w] = touched[w]]
  /\ UNCHANGED <<stores, issued, tx, inDoubt, plan, puts, info, seen, residue>>

\* plan.materialize flushes every planned row into the transaction.
Materialize(w) ==
  /\ pc[w] = "open"
  /\ plan[w] # Nothing
  /\ tx' = [tx EXCEPT ![w] = plan[w]]
  /\ plan' = [plan EXCEPT ![w] = Nothing]
  /\ UNCHANGED <<stores, issued, pc, inDoubt, puts, info, settling, residue>>

-----------------------------------------------------------------------------
\* Node operations of an ordinary request, flushed but not committed.

BeginRequest(w) ==
  /\ pc[w] = "idle"
  /\ w \notin inDoubt
  /\ pc' = [pc EXCEPT ![w] = "open"]
  /\ UNCHANGED <<stores, issued, tx, inDoubt, plan, puts, info, settling, residue>>

\* A session in the body of its transaction that may flush a change of f.
Writing(w, f) ==
  /\ pc[w] = "open"
  /\ plan[w] = Nothing
  /\ Unlocked(w, f)

\* _mark_touched(created=True) for a new row, without an original.
CreateFile(w, f) ==
  /\ Writing(w, f)
  /\ f \notin issued
  /\ issued' = issued \union {f}
  /\ \E t \in Texts :
       tx' = [tx EXCEPT ![w][f] = [text |-> t, active |-> TRUE, blob |-> FALSE]]
  /\ touched' = [touched EXCEPT ![w] = @ \union {f}]
  /\ created' = [created EXCEPT ![w] = @ \union {f}]
  /\ UNCHANGED <<stores, pc, inDoubt, plan, puts, staged, uploaded, committed,
                 settling, residue>>

\* The row as update_node, delete_node or restore_node can leave it: another
\* text (of an active or a deleted file), deleted, or active again.
Changed(row, new) ==
  /\ new \in Row
  /\ new.blob = row.blob
  /\ new.active # row.active => new.text = row.text

\* Mutant: an edited file still counts as created, so "staged exactly".
ChangeFileStillCreated(w, f) ==
  /\ Writing(w, f)
  /\ View(w, f) # NoRow
  /\ OverlappingWrites \/ Settled(w, f)
  /\ \E new \in Row :
       /\ Changed(View(w, f), new)
       /\ tx' = [tx EXCEPT ![w][f] = new]
  /\ touched' = [touched EXCEPT ![w] = @ \union {f}]
  /\ UNCHANGED <<stores, issued, pc, inDoubt, plan, puts, created, staged,
                 uploaded, committed, settling, residue>>

\* _mark_touched(created=False): touched, and no longer "staged exactly".
ChangeFile(w, f) ==
  /\ Writing(w, f)
  /\ View(w, f) # NoRow
  /\ OverlappingWrites \/ Settled(w, f)
  /\ \E new \in Row :
       /\ Changed(View(w, f), new)
       /\ tx' = [tx EXCEPT ![w][f] = new]
  /\ touched' = [touched EXCEPT ![w] = @ \union {f}]
  /\ created' = [created EXCEPT ![w] = @ \ {f}]
  /\ UNCHANGED <<stores, issued, pc, inDoubt, plan, puts, staged, uploaded,
                 committed, settling, residue>>

-----------------------------------------------------------------------------
\* before_commit, COMMIT and rollback.

\* Mutant: the files are read as committed, not as the session has them.
TouchedChunksCommitted(w) == UNION {ChunksOf(f, rows[f]) : f \in touched[w]}

\* The chunks of w's touched and active files, as w's transaction reads them.
TouchedChunks(w) == UNION {ChunksOf(f, View(w, f)) : f \in touched[w]}

\* before_commit: the touched files are staged, add-only.
StageTouched(w) ==
  /\ pc[w] = "open"
  /\ plan[w] = Nothing
  /\ touched[w] # {}
  /\ chunks' = chunks \union TouchedChunks(w)
  /\ staged' = [staged EXCEPT ![w] = TRUE]
  /\ pc' = [pc EXCEPT ![w] = "staged"]
  /\ UNCHANGED <<rows, objects, issued, tx, inDoubt, plan, puts, touched, created,
                 uploaded, committed, settling, residue>>

\* Staging raises IndexingError half way: the commit does not happen.
StageTouchedFails(w) ==
  /\ pc[w] = "open"
  /\ plan[w] = Nothing
  /\ touched[w] # {}
  /\ \E part \in SUBSET TouchedChunks(w) : chunks' = chunks \union part
  /\ staged' = [staged EXCEPT ![w] = TRUE]
  /\ pc' = [pc EXCEPT ![w] = "failed"]
  /\ UNCHANGED <<rows, objects, issued, tx, inDoubt, plan, puts, touched, created,
                 uploaded, committed, settling, residue>>

\* COMMIT succeeds.  The row locks go with it; the files edited or deleted
\* are still to be reconciled, the created ones were staged exactly.
Commit(w) ==
  /\ pc[w] = "staged"
  /\ rows' = Overlay(rows, tx[w])
  /\ tx' = [tx EXCEPT ![w] = Nothing]
  /\ committed' = [committed EXCEPT ![w] = TRUE]
  /\ todo' = [todo EXCEPT ![w] = touched[w] \ created[w]]
  /\ pc' = [pc EXCEPT ![w] = "settle_read"]
  /\ UNCHANGED <<chunks, objects, issued, inDoubt, plan, puts, touched, created,
                 staged, uploaded, seen, residue>>

\* The connection is lost during COMMIT: the client sees an error and settles
\* as after a rollback, the server has the transaction still to decide.
CommitLost(w) ==
  /\ pc[w] = "staged"
  /\ inDoubt' = inDoubt \union {w}
  /\ todo' = [todo EXCEPT ![w] = touched[w]]
  /\ pc' = [pc EXCEPT ![w] = "settle_read"]
  /\ UNCHANGED <<stores, issued, tx, plan, puts, info, seen, residue>>

ServerCommits(w) ==
  /\ w \in inDoubt
  /\ rows' = Overlay(rows, tx[w])
  /\ tx' = [tx EXCEPT ![w] = Nothing]
  /\ inDoubt' = inDoubt \ {w}
  /\ UNCHANGED <<chunks, objects, issued, pc, plan, puts, info, settling, residue>>

ServerAborts(w) ==
  /\ w \in inDoubt
  /\ tx' = [tx EXCEPT ![w] = Nothing]
  /\ inDoubt' = inDoubt \ {w}
  /\ UNCHANGED <<stores, issued, pc, plan, puts, info, settling, residue>>

\* Rollback of a session that staged or uploaded something: any error in the
\* request, an IndexingError, or a COMMIT the server refused.
Rollback(w) ==
  /\ pc[w] \in {"open", "failed", "staged"}
  /\ staged[w] \/ uploaded[w] # {}
  /\ tx' = [tx EXCEPT ![w] = Nothing]
  /\ plan' = [plan EXCEPT ![w] = Nothing]
  /\ todo' = [todo EXCEPT ![w] = touched[w]]
  /\ pc' = [pc EXCEPT ![w] = "settle_read"]
  /\ UNCHANGED <<stores, issued, inDoubt, puts, info, seen, residue>>

\* Mutant: a key popped without its default leaves None behind.
ForgetInfoNoDefault(w) ==
  /\ touched' = [touched EXCEPT ![w] = {}]
  /\ created' = [created EXCEPT ![w] = {}]
  /\ staged' = [staged EXCEPT ![w] = NoRow]
  /\ uploaded' = [uploaded EXCEPT ![w] = {}]
  /\ committed' = [committed EXCEPT ![w] = FALSE]

\* session.info is emptied at the end of the outermost transaction.
ForgetInfo(w) ==
  /\ touched' = [touched EXCEPT ![w] = {}]
  /\ created' = [created EXCEPT ![w] = {}]
  /\ staged' = [staged EXCEPT ![w] = FALSE]
  /\ uploaded' = [uploaded EXCEPT ![w] = {}]
  /\ committed' = [committed EXCEPT ![w] = FALSE]

\* Nothing staged, nothing uploaded: a transaction ends with nothing to settle.
EndUnstaged(w) ==
  /\ pc[w] = "open"
  /\ ~staged[w]
  /\ uploaded[w] = {}
  /\ tx' = [tx EXCEPT ![w] = Nothing]
  /\ plan' = [plan EXCEPT ![w] = Nothing]
  /\ ForgetInfo(w)
  /\ pc' = [pc EXCEPT ![w] = "idle"]
  /\ UNCHANGED <<stores, issued, inDoubt, puts, settling, residue>>

-----------------------------------------------------------------------------
\* _reconcile_after_transaction, of a finished transaction ("settle") and of a
\* failed stage_before_commit ("undo").

Applying == [undo_read |-> "undo_apply", settle_read |-> "settle_apply"]

\* reconcile loads the committed rows of its ids, through its own session.
SettleRead(w) ==
  /\ pc[w] \in {"undo_read", "settle_read"}
  /\ CommitLandsFirst => w \notin inDoubt
  /\ seen' = [seen EXCEPT ![w] =
       [f \in Files |-> IF f \in todo[w] THEN rows[f] ELSE NoRow]]
  /\ pc' = [pc EXCEPT ![w] = Applying[@]]
  /\ UNCHANGED <<stores, issued, tx, inDoubt, plan, puts, info, todo, residue>>

\* Loading fails: every id is reported failed, which is only logged.
SettleReadFails(w) ==
  /\ pc[w] \in {"undo_read", "settle_read"}
  /\ CommitLandsFirst => w \notin inDoubt
  /\ residue' = residue \union todo[w]
  /\ todo' = [todo EXCEPT ![w] = {}]
  /\ pc' = [pc EXCEPT ![w] = Applying[@]]
  /\ UNCHANGED <<stores, issued, tx, inDoubt, plan, puts, info, seen>>

\* One file is made to hold the chunks of the row that was loaded, and no other.
ReconcileFile(w, f) ==
  /\ pc[w] \in {"undo_apply", "settle_apply"}
  /\ f \in todo[w]
  /\ chunks' = (chunks \ ({f} \X Texts)) \union ChunksOf(f, seen[w][f])
  /\ todo' = [todo EXCEPT ![w] = @ \ {f}]
  /\ UNCHANGED <<rows, objects, issued, pc, tx, inDoubt, plan, puts, info, seen, residue>>

\* The file fails (embedding, database): logged, and the others go on.
ReconcileFileFails(w, f) ==
  /\ pc[w] \in {"undo_apply", "settle_apply"}
  /\ f \in todo[w]
  /\ \E part \in SUBSET ChunksOf(f, seen[w][f]) : chunks' = chunks \union part
  /\ residue' = residue \union {f}
  /\ todo' = [todo EXCEPT ![w] = @ \ {f}]
  /\ UNCHANGED <<rows, objects, issued, pc, tx, inDoubt, plan, puts, info, seen>>

\* Mutant: an error during COMMIT is taken for a rollback, no row is read.
OrphansUnread(w) == uploaded[w]

\* The uploads of w that no committed row references, deleted rows included.
Orphans(w) == {f \in uploaded[w] : ~HasOriginal(rows[f])}

\* After an undo the error propagates to the caller, whose rollback settles
\* again; after a settling the session is done.
SettleEnds(w) ==
  IF pc[w] = "undo_apply"
  THEN /\ pc' = [pc EXCEPT ![w] = "failed"]
       /\ uploaded' = [uploaded EXCEPT ![w] = {}]
       /\ UNCHANGED <<touched, created, staged, committed>>
  ELSE /\ pc' = [pc EXCEPT ![w] = "idle"]
       /\ ForgetInfo(w)

\* Without a commit, _delete_orphaned_originals.  The last step of settling.
SettleOriginals(w) ==
  /\ pc[w] \in {"undo_apply", "settle_apply"}
  /\ todo[w] = {}
  /\ objects' = IF committed[w] THEN objects ELSE objects \ Orphans(w)
  /\ SettleEnds(w)
  /\ seen' = [seen EXCEPT ![w] = Nothing]
  /\ plan' = [plan EXCEPT ![w] = Nothing]
  /\ UNCHANGED <<rows, chunks, issued, tx, inDoubt, puts, todo, residue>>

\* Deleting fails, perhaps after some of the keys: logged, the rest stay.
SettleOriginalsFails(w) ==
  /\ pc[w] \in {"undo_apply", "settle_apply"}
  /\ todo[w] = {}
  /\ ~committed[w]
  /\ uploaded[w] # {}
  /\ \E gone \in SUBSET Orphans(w) : objects' = objects \ gone
  /\ residue' = residue \union uploaded[w]
  /\ SettleEnds(w)
  /\ seen' = [seen EXCEPT ![w] = Nothing]
  /\ plan' = [plan EXCEPT ![w] = Nothing]
  /\ UNCHANGED <<rows, chunks, issued, tx, inDoubt, puts, todo>>

-----------------------------------------------------------------------------
\* The process of w is killed: its session is gone and nothing is undone.  The
\* server rolls its transaction back, unless a COMMIT is already on its way.
Crash(w) ==
  /\ pc[w] # "idle"
  /\ pc' = [pc EXCEPT ![w] = "idle"]
  /\ residue' = residue \union touched[w] \union uploaded[w]
  /\ IF w \in inDoubt THEN UNCHANGED tx ELSE tx' = [tx EXCEPT ![w] = Nothing]
  /\ plan' = [plan EXCEPT ![w] = Nothing]
  /\ puts' = [puts EXCEPT ![w] = {}]
  /\ todo' = [todo EXCEPT ![w] = {}]
  /\ seen' = [seen EXCEPT ![w] = Nothing]
  /\ ForgetInfo(w)
  /\ UNCHANGED <<stores, issued, inDoubt>>

Ingest(w) ==
  \/ BeginIngest(w) \/ IndexPlan(w) \/ IndexPlanFails(w) \/ UploadsEnd(w) \/ Materialize(w)
  \/ \E f \in Files : PutOriginal(w, f) \/ PutOriginalFails(w, f)

Request(w) ==
  \/ BeginRequest(w)
  \/ \E f \in Files : CreateFile(w, f) \/ ChangeFile(w, f)

EndTransaction(w) ==
  \/ StageTouched(w) \/ StageTouchedFails(w)
  \/ Commit(w) \/ CommitLost(w) \/ Rollback(w) \/ EndUnstaged(w)

Settle(w) ==
  \/ SettleRead(w) \/ SettleReadFails(w) \/ SettleOriginals(w) \/ SettleOriginalsFails(w)
  \/ \E f \in Files : ReconcileFile(w, f) \/ ReconcileFileFails(w, f)

Server(w) == ServerCommits(w) \/ ServerAborts(w)

Next ==
  \E w \in Writers :
    Ingest(w) \/ Request(w) \/ EndTransaction(w) \/ Settle(w) \/ Server(w) \/ Crash(w)

Spec == Init /\ [][Next]_vars

-----------------------------------------------------------------------------
\* Properties.

TypeOK ==
  /\ rows \in [Files -> MaybeRow]
  /\ chunks \subseteq Files \X Texts
  /\ objects \subseteq Files
  /\ issued \subseteq Files
  /\ pc \in [Writers -> Phases]
  /\ tx \in [Writers -> [Files -> MaybeRow]]
  /\ inDoubt \subseteq Writers
  /\ plan \in [Writers -> [Files -> MaybeRow]]
  /\ puts \in [Writers -> SUBSET Files]
  /\ touched \in [Writers -> SUBSET Files]
  /\ created \in [Writers -> SUBSET Files]
  /\ staged \in [Writers -> BOOLEAN]
  /\ uploaded \in [Writers -> SUBSET Files]
  /\ committed \in [Writers -> BOOLEAN]
  /\ todo \in [Writers -> SUBSET Files]
  /\ seen \in [Writers -> [Files -> MaybeRow]]
  /\ residue \subseteq Files

\* A committed row that names an original, deleted or not, finds it in the
\* bucket: no undo, late COMMIT or failed settling ever takes it away.
NoLostOriginal == \A f \in Files : HasOriginal(rows[f]) => f \in objects

\* An object no committed row names is either in the hands of the session
\* that uploaded it, which will undo it, or counted as residue of a crash, of
\* a lost reply or of a failed undo: an aborted write leaves no original.
NoStrayOriginal ==
  \A f \in objects : \/ HasOriginal(rows[f])
                     \/ \E w \in Writers : f \in uploaded[w]
                     \/ f \in residue

\* The chunks of an active file's committed text are in the index at all
\* times, from the moment the text is visible: "indexed before it's visible".
AlwaysFindable ==
  \A f \in Files : ChunksOf(f, rows[f]) \subseteq chunks

\* Once no session has f to settle, the index holds exactly the chunks of f's
\* committed state: none left of an aborted, replaced or deleted text.
IndexExact ==
  \A f \in Files \ residue :
    (\A w \in Writers : f \notin touched[w]) =>
      chunks \intersect ({f} \X Texts) = ChunksOf(f, rows[f])

\* What a reader of the three stores can get at: rows, the originals behind
\* them, and search hits that still match the row.
Served == {f \in objects : HasOriginal(rows[f])}
Found == chunks \intersect UNION {ChunksOf(f, rows[f]) : f \in Files}

Atomic == INSTANCE AtomicWrite WITH db <- rows, served <- Served, found <- Found

\* To its readers the three stores are one store, whose writes are atomic.
AppearsAtomic == Atomic!Spec
=============================================================================
