----------------------------- MODULE ChunkIndex -----------------------------
(***************************************************************************)
(* The semantic index from the inside: kb.semantic_index.indexer on a      *)
(* table of vectors (kb_chunks) and a table of records of what is indexed  *)
(* (upsertion_record), which change in transactions of their own.          *)
(* LangChain's index() looks at the records alone, and writes a chunk's    *)
(* vector before its record.                                               *)
(*                                                                         *)
(* WriteSeam takes an index call for one step.  Here it is one step for    *)
(* every statement, and a process may fail or die between any two.         *)
(***************************************************************************)

EXTENDS FiniteSets

CONSTANTS
  Writers,       \* sessions: they stage, commit or roll back, and reconcile
  Rebuild,       \* the process that runs reindex_all
  Files,         \* the file ids that can be issued
  Texts, Pieces, \* what a file can read; what its chunks are made of
  Cut,           \* the pieces of each text: none, if it is blank
  Gone, NoRow,   \* a soft-deleted file; a file without a row
  None,          \* no file
  Apart,         \* no write of a file begins while another one settles
  RebuildAlone   \* nothing is written while reindex_all runs

Procs == Writers \union {Rebuild}
Keys == Files \X Pieces
Row == Texts \union {Gone, NoRow}

\* The keys of the chunks of file f when its row is t: a key is a hash of the
\* chunk and its file's id.
Wanted(f, t) == IF t \in Texts THEN {f} \X Cut[t] ELSE {}

KeysOf(S) == S \X Pieces

ASSUME CutAssumption == Cut \in [Texts -> SUBSET Pieces]
ASSUME RowAssumption == Gone # NoRow /\ Texts \intersect {Gone, NoRow} = {}
ASSUME NoneAssumption == None \notin Files
ASSUME RebuildAssumption == Rebuild \notin Writers
ASSUME RulesAssumption == Apart \in BOOLEAN /\ RebuildAlone \in BOOLEAN

VARIABLES
  rows,     \* the committed `files` table
  issued,   \* the file ids handed out
  vectors,  \* kb_chunks
  records,  \* upsertion_record
  job,      \* what each process is doing
  loaded,   \* reindex_all: the rows it has still to index
  fresh,    \* reindex_all: the records updated since it started
  failed,   \* reindex_all: the files it could not index
  torn,     \* history: records whose vectors were deleted, but they were not
  dirty     \* history: files where a step has failed since they last settled

table == <<rows, issued>>
run == <<loaded, failed>>
vars == <<table, vectors, records, job, run, fresh, torn, dirty>>

Places == {"idle", "exists", "refresh", "add", "upsert", "open", "load",
           "list", "vectors", "records", "untracked", "next"}
Goals == {"none", "stage", "settle", "half", "rebuild", "sweep"}

Job == [at : Places, goal : Goals, file : Files \union {None}, text : Row, new : BOOLEAN,
        found : SUBSET Keys,   \* the wanted keys that exists() found a record of
        since : SUBSET Keys,   \* the records updated since the call started
        doomed : SUBSET Keys]  \* the keys being deleted

Rest == [at |-> "idle", goal |-> "none", file |-> None, text |-> NoRow, new |-> FALSE,
         found |-> {}, since |-> {}, doomed |-> {}]

Init ==
  /\ rows = [f \in Files |-> NoRow] /\ issued = {}
  /\ vectors = {} /\ records = {}
  /\ job = [p \in Procs |-> Rest]
  /\ loaded = [f \in Files |-> NoRow] /\ fresh = {} /\ failed = {}
  /\ torn = {} /\ dirty = {}

WantedBy(p) == Wanted(job[p].file, job[p].text)

\* Process p goes on at another place.
Goto(p, place) == job' = [job EXCEPT ![p].at = place]

\* An index call, or the deletion of all chunks if there are none to index.
Call(goal, f, t) ==
  [Rest EXCEPT !.goal = goal, !.file = f, !.text = t,
     !.at = IF Wanted(f, t) # {} THEN "exists" ELSE IF goal = "stage" THEN "open" ELSE "list"]

-----------------------------------------------------------------------------
\* A session writes a file.

\* It creates f, edits it, deletes it or brings it back, as row t, and the
\* row's lock is its own from here to the end of the transaction.
BeginWrite(w, f, t) ==
  /\ job[w] = Rest
  /\ t # rows[f]
  /\ rows[f] = NoRow => f \notin issued /\ t # Gone
  /\ \A v \in Writers : job[v].file = f => ~Apart /\ job[v].goal # "stage"
  /\ RebuildAlone => job[Rebuild] = Rest
  /\ issued' = issued \union {f}
  /\ job' = [job EXCEPT ![w] = [Call("stage", f, t) EXCEPT !.new = rows[f] = NoRow]]
  /\ UNCHANGED <<rows, vectors, records, run, fresh, torn, dirty>>

\* The transaction is over, and its file f is reconciled.
Settling(f) == [Rest EXCEPT !.at = "load", !.goal = "settle", !.file = f]

\* A created file was staged exactly; any other one is reconciled.
Commit(w) ==
  /\ job[w].at = "open"
  /\ rows' = [rows EXCEPT ![job[w].file] = job[w].text]
  /\ job' = [job EXCEPT ![w] = IF @.new THEN Rest ELSE Settling(@.file)]
  /\ UNCHANGED <<issued, vectors, records, run, fresh, torn, dirty>>

\* Staging failed, or the transaction did.
Abort(w) ==
  /\ job[w].goal = "stage"
  /\ job' = [job EXCEPT ![w] = Settling(@.file)]
  /\ UNCHANGED <<table, vectors, records, run, fresh, torn, dirty>>

\* reconcile loads the committed row.
LoadRow(w) ==
  /\ job[w].at = "load"
  /\ job' = [job EXCEPT ![w] = Call("settle", @.file, rows[@.file])]
  /\ UNCHANGED <<table, vectors, records, run, fresh, torn, dirty>>

-----------------------------------------------------------------------------
\* LangChain's index().

\* Records in K are inserted or updated now, and p goes on at another place.
Touch(p, K, place) ==
  /\ records' = records \union K
  /\ job' = [q \in Procs |->
       [job[q] EXCEPT !.since = IF job[q].at = "idle" THEN @ ELSE @ \union K,
                      !.at = IF q = p THEN place ELSE @]]
  /\ fresh' = IF job[Rebuild] = Rest THEN fresh ELSE fresh \union K

\* The call notes the time and asks which chunks have a record.  (A record
\* updated between the two is wanted, and updated again below, or might as
\* well have been updated after both.)
Exists(p) ==
  /\ job[p].at = "exists"
  /\ job' = [job EXCEPT ![p].found = WantedBy(p) \intersect records,
                        ![p].since = {}, ![p].at = "refresh"]
  /\ UNCHANGED <<table, vectors, records, run, fresh, torn, dirty>>

\* Those that have one get a new time ...
Refresh(p) ==
  /\ job[p].at = "refresh"
  /\ Touch(p, job[p].found, "add")
  /\ UNCHANGED <<table, vectors, run, torn, dirty>>

\* ... the others get their vectors ...
AddVectors(p) ==
  /\ job[p].at = "add"
  /\ vectors' = vectors \union (WantedBy(p) \ job[p].found)
  /\ Goto(p, "upsert")
  /\ UNCHANGED <<table, records, run, fresh, torn, dirty>>

\* ... and then all get a record.
UpsertRecords(p) ==
  /\ job[p].at = "upsert"
  /\ Touch(p, WantedBy(p), IF job[p].goal = "stage" THEN "open" ELSE "list")
  /\ UNCHANGED <<table, vectors, run, torn, dirty>>

-----------------------------------------------------------------------------
\* Deleting.

\* p is going to delete D, if there is anything in it.
Doom(p, D) ==
  job' = [job EXCEPT ![p].doomed = D,
            ![p].at = IF D # {} THEN "vectors" ELSE
                      IF @ = "list" /\ job[p].goal = "rebuild" THEN "next" ELSE "untracked"]

\* Incremental cleanup: the file's records that the call did not touch.
\* _delete_chunks, when there is nothing to index: all of them.
ListStale(p) ==
  /\ job[p].at = "list"
  /\ Doom(p, (records \intersect KeysOf({job[p].file}))
               \ IF WantedBy(p) = {} THEN {} ELSE job[p].since)
  /\ UNCHANGED <<table, vectors, records, run, fresh, torn, dirty>>

DropVectors(p) ==
  /\ job[p].at = "vectors"
  /\ vectors' = vectors \ job[p].doomed
  /\ Goto(p, "records")
  /\ UNCHANGED <<table, records, run, fresh, torn, dirty>>

DropRecords(p) ==
  /\ job[p].at = "records"
  /\ records' = records \ job[p].doomed
  /\ torn' = torn \ job[p].doomed
  /\ job' = [job EXCEPT ![p].doomed = {},
               ![p].at = IF job[p].goal = "rebuild" THEN "next" ELSE "untracked"]
  /\ UNCHANGED <<table, vectors, run, fresh, dirty>>

\* Mutant: reconcile without delete_untracked_chunks.
KeepUntracked(w) ==
  /\ job[w].at = "untracked" /\ w \in Writers
  /\ dirty' = IF job[w].goal = "settle" THEN dirty \ {job[w].file} ELSE dirty
  /\ job' = [job EXCEPT ![w] = Rest]
  /\ UNCHANGED <<table, vectors, records, run, fresh, torn>>

\* Mutant: the records of another namespace are compared, so that no vector
\* has one.
DropAllVectors(w) ==
  /\ job[w].at = "untracked" /\ w \in Writers
  /\ vectors' = vectors \ KeysOf({job[w].file})
  /\ dirty' = IF job[w].goal = "settle" THEN dirty \ {job[w].file} ELSE dirty
  /\ job' = [job EXCEPT ![w] = Rest]
  /\ UNCHANGED <<table, records, run, fresh, torn>>

\* delete_untracked_chunks of one file: the last step of reconcile.
DropUntracked(w) ==
  /\ job[w].at = "untracked" /\ w \in Writers
  /\ vectors' = vectors \ (KeysOf({job[w].file}) \ records)
  /\ dirty' = IF job[w].goal = "settle" THEN dirty \ {job[w].file} ELSE dirty
  /\ job' = [job EXCEPT ![w] = Rest]
  /\ UNCHANGED <<table, records, run, fresh, torn>>

-----------------------------------------------------------------------------
\* reindex_all.

\* Mutant: deleted files are loaded too.
StartRebuildDeleted ==
  /\ job[Rebuild] = Rest
  /\ RebuildAlone => \A w \in Writers : job[w] = Rest
  /\ loaded' = rows
  /\ fresh' = {} /\ failed' = {}
  /\ job' = [job EXCEPT ![Rebuild] = [Rest EXCEPT !.at = "next", !.goal = "rebuild"]]
  /\ UNCHANGED <<table, vectors, records, torn, dirty>>

\* It notes the time and loads all active files.
StartRebuild ==
  /\ job[Rebuild] = Rest
  /\ RebuildAlone => \A w \in Writers : job[w] = Rest
  /\ loaded' = [f \in Files |-> IF rows[f] \in Texts THEN rows[f] ELSE NoRow]
  /\ fresh' = {} /\ failed' = {}
  /\ job' = [job EXCEPT ![Rebuild] = [Rest EXCEPT !.at = "next", !.goal = "rebuild"]]
  /\ UNCHANGED <<table, vectors, records, torn, dirty>>

RebuildFile(f) ==
  /\ job[Rebuild].at = "next"
  /\ loaded[f] # NoRow
  /\ loaded' = [loaded EXCEPT ![f] = NoRow]
  /\ job' = [job EXCEPT ![Rebuild] = Call("rebuild", f, loaded[f])]
  /\ UNCHANGED <<table, vectors, records, failed, fresh, torn, dirty>>

\* Mutant: the chunks of a file that failed are lost.
SweepFailed ==
  /\ job[Rebuild].at = "next"
  /\ \A f \in Files : loaded[f] = NoRow
  /\ LET D == records \ fresh
     IN  job' = [job EXCEPT ![Rebuild] = [Rest EXCEPT !.goal = "sweep", !.doomed = D,
                   !.at = IF D # {} THEN "vectors" ELSE "untracked"]]
  /\ UNCHANGED <<table, vectors, records, run, fresh, torn, dirty>>

\* Everything else goes, but for what a file that failed had before.
Sweep ==
  /\ job[Rebuild].at = "next"
  /\ \A f \in Files : loaded[f] = NoRow
  /\ LET D == records \ (fresh \union KeysOf(failed))
     IN  job' = [job EXCEPT ![Rebuild] = [Rest EXCEPT !.goal = "sweep", !.doomed = D,
                   !.at = IF D # {} THEN "vectors" ELSE "untracked"]]
  /\ UNCHANGED <<table, vectors, records, run, fresh, torn, dirty>>

\* delete_untracked_chunks of all files.
EndRebuild ==
  /\ job[Rebuild].at = "untracked"
  /\ vectors' = vectors \intersect records
  /\ dirty' = failed
  /\ job' = [job EXCEPT ![Rebuild] = Rest]
  /\ fresh' = {} /\ failed' = {}
  /\ UNCHANGED <<table, records, loaded, torn>>

-----------------------------------------------------------------------------
\* Failures.

\* The records p leaves behind when it fails here.
Tears(p) == IF job[p].at = "records" THEN job[p].doomed \intersect records ELSE {}

\* A step of reconcile raises: the error is noted, and what is left to do is
\* delete_untracked_chunks, or nothing.
SettleFails(w) ==
  /\ job[w].goal \in {"settle", "half"}
  /\ torn' = torn \union Tears(w)
  /\ dirty' = dirty \union {job[w].file}
  /\ job' = [job EXCEPT ![w] = IF @.at = "untracked" THEN Rest
       ELSE [Rest EXCEPT !.at = "untracked", !.goal = "half", !.file = job[w].file]]
  /\ UNCHANGED <<table, vectors, records, run, fresh>>

\* _index_file raises in reindex_all: the file is noted, the next one follows.
RebuildFileFails ==
  /\ job[Rebuild].goal = "rebuild" /\ job[Rebuild].at # "next"
  /\ torn' = torn \union Tears(Rebuild)
  /\ failed' = failed \union {job[Rebuild].file}
  /\ job' = [job EXCEPT ![Rebuild] = [Rest EXCEPT !.at = "next", !.goal = "rebuild"]]
  /\ UNCHANGED <<table, vectors, records, loaded, fresh, dirty>>

\* A process dies, or reindex_all raises.
Crash(p) ==
  /\ job[p] # Rest
  /\ torn' = torn \union Tears(p)
  /\ dirty' = dirty \union ({job[p].file} \ {None}) \union {k[1] : k \in job[p].doomed}
                    \union IF p = Rebuild THEN failed ELSE {}
  /\ job' = [job EXCEPT ![p] = Rest]
  /\ IF p = Rebuild
     THEN loaded' = [f \in Files |-> NoRow] /\ fresh' = {} /\ failed' = {}
     ELSE UNCHANGED <<run, fresh>>
  /\ UNCHANGED <<table, vectors, records>>

IndexStep(p) ==
  \/ Exists(p) \/ Refresh(p) \/ AddVectors(p) \/ UpsertRecords(p)
  \/ ListStale(p) \/ DropVectors(p) \/ DropRecords(p)

Next ==
  \/ \E p \in Procs : IndexStep(p) \/ Crash(p)
  \/ \E w \in Writers : Commit(w) \/ Abort(w) \/ LoadRow(w) \/ DropUntracked(w) \/ SettleFails(w)
  \/ \E w \in Writers, f \in Files, t \in Texts \union {Gone} : BeginWrite(w, f, t)
  \/ StartRebuild \/ Sweep \/ EndRebuild \/ RebuildFileFails
  \/ \E f \in Files : RebuildFile(f)

Spec == Init /\ [][Next]_vars

-----------------------------------------------------------------------------
\* Properties.

TypeOK ==
  /\ rows \in [Files -> Row] /\ issued \subseteq Files
  /\ vectors \subseteq Keys /\ records \subseteq Keys
  /\ job \in [Procs -> Job]
  /\ \A p \in Procs : job[p].found \subseteq WantedBy(p)
  /\ loaded \in [Files -> Texts \union {NoRow}]
  /\ fresh \subseteq Keys /\ failed \subseteq Files
  /\ torn \subseteq records /\ dirty \subseteq Files

\* A record means that the vector is there, which is what exists() takes it
\* for: but while a deletion is between the two, or for ever after it died
\* there.
RecordsHaveVectors ==
  \A k \in records \ vectors :
    k \in torn \/ \E p \in Procs : job[p].at = "records" /\ k \in job[p].doomed

\* Whatever fails, the chunks of a committed text are there, unless a torn
\* deletion has made index() believe so.
Findable == \A f \in Files : Wanted(f, rows[f]) \ torn \subseteq vectors

Settled(f) ==
  /\ f \notin dirty
  /\ \A w \in Writers : job[w].file # f
  /\ job[Rebuild] = Rest

\* Once a file is reconciled, or everything rebuilt, with no failure, the index
\* holds exactly the committed text, whatever had failed before.
IndexExact ==
  \A f \in Files : Settled(f) =>
    /\ records \intersect KeysOf({f}) = Wanted(f, rows[f])
    /\ vectors \intersect KeysOf({f}) = Wanted(f, rows[f]) \ torn

\* reconcile and reindex_all, the "repair tools", bring every chunk back.
Repaired == \A f \in Files : Settled(f) => Wanted(f, rows[f]) \subseteq vectors
=============================================================================
