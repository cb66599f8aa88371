-------------------------- MODULE ChunkIndexProofs --------------------------
(***************************************************************************)
(* Proofs about ChunkIndex: what a failure anywhere in index() or in a     *)
(* deletion leaves behind, and what reconcile and reindex_all make of it.  *)
(***************************************************************************)
EXTENDS ChunkIndex, TLAPS

USE CutAssumption, RowAssumption, NoneAssumption, RebuildAssumption, RulesAssumption

-----------------------------------------------------------------------------
\* The invariants.

\* The keys of the chunks of file f, and those of its committed text.
Own(f) == KeysOf({f})
Due(f) == Wanted(f, rows[f])

\* The places of an index call before it deletes anything.
Calling == {"exists", "refresh", "add", "upsert"}

\* What process p can be doing where, and what it deletes, when its job is j.
Form(p, j) ==
  /\ j.goal = "none" => j = Rest
  /\ j.goal \in IF p = Rebuild THEN {"none", "rebuild", "sweep"}
                ELSE {"none", "stage", "settle", "half"}
  /\ j.goal = "stage" => j.at \in Calling \union {"open"}
  /\ j.goal = "settle" => j.at \in Calling \union {"load", "list", "vectors", "records", "untracked"}
  /\ j.goal = "half" => j.at = "untracked"
  /\ j.goal = "rebuild" => j.at \in Calling \union {"next", "list", "vectors", "records"}
  /\ j.goal = "sweep" => j.at \in {"vectors", "records", "untracked"}
  /\ j.goal \notin {"none", "sweep"} /\ j.at # "next" => j.file \in Files
  /\ j.at \notin {"vectors", "records"} => j.doomed = {}
  /\ j.goal # "sweep" => j.doomed \subseteq Own(j.file)

\* TypeOK's part about jobs, and that.
Forms ==
  /\ job \in [Procs -> Job]
  /\ \A p \in Procs : job[p].found \subseteq WantedBy(p) /\ Form(p, job[p])

\* No two sessions write a file, and reindex_all runs alone.
Alone ==
  /\ \A v, w \in Writers : v # w /\ job[v].file = job[w].file => job[v].file = None
  /\ job[Rebuild] # Rest => \A w \in Writers : job[w] = Rest
  /\ \A p \in Procs : job[p].file \in issued \union {None}
  /\ \A p \in Procs : job[p].goal = "half" => job[p].file \in dirty

\* How far p has come with its file: what it knows of the records is true,
\* what it has passed is there, and what it leaves is what it wants.
Steady(p) ==
  LET j == job[p]  W == WantedBy(p) IN
  /\ (j.goal = "settle" /\ j.at # "load") \/ (j.goal = "rebuild" /\ j.at # "next") =>
       j.text = rows[j.file]
  /\ j.goal = "stage" /\ j.new => (records \union vectors) \intersect Own(j.file) \subseteq W
  /\ j.at = "open" => W \subseteq records
  /\ j.at \in {"refresh", "add", "upsert"} =>
       j.found = W \intersect records /\ j.since \intersect Own(j.file) \subseteq W
  /\ j.at = "upsert" => W \ j.found \subseteq vectors
  /\ j.at = "list" => W \subseteq records /\ (W = {} \/ j.since \intersect Own(j.file) = W)
  /\ j.at \in {"vectors", "records"} /\ j.goal # "sweep" =>
       j.doomed \subseteq records /\ (records \intersect Own(j.file)) \ j.doomed = W
  /\ j.at = "records" => j.doomed \intersect vectors = {}
  /\ j.at = "untracked" /\ j.goal = "settle" => records \intersect Own(j.file) = W

\* What reindex_all has updated is due; a file it has done is updated, or
\* failed; and it sweeps away nothing that is due.
Rebuilding ==
  LET j == job[Rebuild] IN
  /\ j.goal = "none" => fresh = {}
  /\ \A f \in Files : fresh \intersect Own(f) \subseteq Due(f)
  /\ j.goal = "rebuild" => \A f \in Files :
       /\ loaded[f] \in {NoRow, rows[f]}
       /\ rows[f] \in Texts /\ loaded[f] = NoRow =>
            f \in failed \/ Due(f) \subseteq fresh \/ (j.file = f /\ j.at \in Calling)
  /\ j.goal = "sweep" =>
       /\ j.doomed \subseteq records
       /\ \A f \in Files :
            /\ j.doomed \intersect Due(f) = {}
            /\ f \notin failed => (records \intersect Own(f)) \ j.doomed = Due(f)

\* A committed text's records are never deleted, and an id that was never
\* issued has no chunks.
Kept(f) ==
  /\ Due(f) \subseteq records
  /\ f \notin issued => rows[f] = NoRow /\ (records \union vectors) \intersect Own(f) = {}

\* A torn record stays without its vector.
TornStays(f) == torn \intersect vectors \intersect Own(f) = {}

\* RecordsHaveVectors, for one file.
Backed(f) ==
  \A k \in (records \ vectors) \intersect Own(f) :
    k \in torn \/ \E p \in Procs : job[p].at = "records" /\ k \in job[p].doomed

\* A file that nobody writes and nothing failed for is exact, whether or not
\* reindex_all is under way.
Exact(f) ==
  /\ records \intersect Own(f) = Due(f)
  /\ vectors \intersect Own(f) = Due(f) \ torn

Clean(f) == f \notin dirty /\ (\A w \in Writers : job[w].file # f) => Exact(f)

Good(f) == Kept(f) /\ TornStays(f) /\ Backed(f) /\ Clean(f)

IInv ==
  /\ TypeOK /\ Forms /\ Alone
  /\ \A p \in Procs : Steady(p)
  /\ Rebuilding
  /\ \A f \in Files : Good(f)

-----------------------------------------------------------------------------
\* Keys.

\* A key belongs to one file, the chunks of a file are among its keys, and
\* what is neither a text nor a file has none.
LEMMA OwnFacts ==
  /\ \A f \in Files : Own(f) \subseteq Keys
  /\ \A k \in Keys : k[1] \in Files /\ k \in Own(k[1])
  /\ \A f, g : \A k \in Own(f) \intersect Own(g) : f = g
  /\ \A f : \A k \in Own(f) : k[1] = f
  /\ \A S : \A k : k \in KeysOf(S) <=> \E f \in S : k \in Own(f)
<1> USE DEF Own, KeysOf, Keys
<1>1. \A f \in Files : Own(f) \subseteq Keys
  OBVIOUS
<1>2. \A k \in Keys : k[1] \in Files /\ k \in Own(k[1])
  OBVIOUS
<1>3. \A f : \A k \in Own(f) : k[1] = f
  OBVIOUS
<1>4. \A S : \A k : k \in KeysOf(S) <=> \E f \in S : k \in Own(f)
  OBVIOUS
<1>5. \A f, g : \A k \in Own(f) \intersect Own(g) : f = g
  BY <1>3
<1> QED
  BY <1>1, <1>2, <1>3, <1>4, <1>5

\* What a text wants belongs to its file; nothing is wanted of what is gone.
LEMMA WantedFacts ==
  /\ \A f : \A t \in Row : Wanted(f, t) \subseteq Own(f)
  /\ \A f \in Files : \A t \in Row : Wanted(f, t) \subseteq Keys
  /\ \A f : \A t : t \notin Texts => Wanted(f, t) = {}
<1> USE DEF Wanted, Own, KeysOf, Keys, Row
<1>1. \A f : \A t \in Row : Wanted(f, t) \subseteq Own(f)
  OBVIOUS
<1>2. \A f \in Files : \A t \in Row : Wanted(f, t) \subseteq Keys
  OBVIOUS
<1>3. \A f : \A t : t \notin Texts => Wanted(f, t) = {}
  OBVIOUS
<1> QED
  BY <1>1, <1>2, <1>3

-----------------------------------------------------------------------------
\* Types and forms.

\* At rest a process is doing nothing, to no file.
LEMMA RestFacts ==
  /\ Rest \in Job
  /\ Rest.at = "idle" /\ Rest.goal = "none" /\ Rest.file = None /\ Rest.text = NoRow
  /\ Rest.found = {} /\ Rest.since = {} /\ Rest.doomed = {}
  BY DEF Rest, Job, Places, Goals, Row

\* A call starts in one of three places, with nothing found and nothing doomed.
LEMMA CallFacts ==
  ASSUME NEW g \in Goals, NEW f \in Files, NEW t \in Row
  PROVE  /\ Call(g, f, t) \in Job
         /\ Call(g, f, t).goal = g
         /\ Call(g, f, t).file = f
         /\ Call(g, f, t).text = t
         /\ Call(g, f, t).found = {}
         /\ Call(g, f, t).since = {}
         /\ Call(g, f, t).doomed = {}
         /\ Call(g, f, t).at = IF Wanted(f, t) # {} THEN "exists"
                                  ELSE IF g = "stage" THEN "open" ELSE "list"
  BY DEF Call, Rest, Job, Places, Goals, Row

\* What a process does not touch stays as it is.
LEMMA OneJobChanges ==
  ASSUME job \in [Procs -> Job], NEW p \in Procs, NEW j \in Job, job' = [job EXCEPT ![p] = j]
  PROVE  /\ job' \in [Procs -> Job] /\ job'[p] = j
         /\ \A q \in Procs \ {p} : job'[q] = job[q]
  OBVIOUS

\* A job at another place; with keys to delete; with what exists() found; and
\* with keys that were updated since.
At(j, place) == [j EXCEPT !.at = place]
Dooms(j, D, place) == [j EXCEPT !.doomed = D, !.at = place]
Finds(j, F) == [j EXCEPT !.found = F, !.since = {}, !.at = "refresh"]
Updates(j, K, place) == [j EXCEPT !.since = j.since \union K, !.at = place]

\* A job goes on where it was, with the keys in K updated since, if it has begun.
GoesOn(j, i, K) ==
  /\ i.at = j.at /\ i.goal = j.goal /\ i.file = j.file /\ i.text = j.text
  /\ i.new = j.new /\ i.found = j.found /\ i.doomed = j.doomed
  /\ i.since = IF j.at = "idle" THEN j.since ELSE j.since \union K
  /\ j.at = "idle" => i = j

\* A job whose records were touched goes on where it was.
LEMMA SinceGrows ==
  ASSUME NEW j \in Job, NEW K \in SUBSET Keys, NEW place \in Places,
         NEW x, x = IF j.at = "idle" THEN j.since ELSE j.since \union K
  PROVE  /\ [j EXCEPT !.since = x, !.at = place] \in Job
         /\ GoesOn(j, [j EXCEPT !.since = x, !.at = j.at], K)
<1>1. x \in SUBSET Keys
  BY DEF Job
<1>2. [j EXCEPT !.since = x, !.at = place] \in Job
  BY <1>1 DEF Job
<1>3. j.at = "idle" => [j EXCEPT !.since = x, !.at = j.at] = j
  BY DEF Job
<1>4. QED
  BY <1>2, <1>3 DEF GoesOn, Job

\* Records that are touched are newer for every call under way, and for
\* reindex_all.
LEMMA TouchFacts ==
  ASSUME job \in [Procs -> Job], NEW p \in Procs, NEW K \in SUBSET Keys, NEW place \in Places,
         Touch(p, K, place), job[p].at # "idle"
  PROVE  /\ job' \in [Procs -> Job]
         /\ job'[p] = Updates(job[p], K, place)
         /\ \A q \in Procs \ {p} : GoesOn(job[q], job'[q], K)
         /\ records' = records \union K
         /\ fresh' = IF job[Rebuild] = Rest THEN fresh ELSE fresh \union K
<1> DEFINE Since(q) == IF job[q].at = "idle" THEN job[q].since ELSE job[q].since \union K
<1>1. job' = [q \in Procs |-> [job[q] EXCEPT !.since = Since(q),
                                             !.at = IF q = p THEN place ELSE job[q].at]]
  BY DEF Touch
<1>2. \A q \in Procs : job'[q] = [job[q] EXCEPT !.since = Since(q),
                                             !.at = IF q = p THEN place ELSE job[q].at]
  BY <1>1
<1>3. ASSUME NEW q \in Procs
      PROVE  /\ job'[q] \in Job
             /\ q # p => GoesOn(job[q], job'[q], K)
  <2>1. job[q] \in Job /\ job[q].at \in Places
    BY DEF Job
  <2>2. PICK x : x = Since(q)
    OBVIOUS
  <2>3. job'[q] = [job[q] EXCEPT !.since = x, !.at = IF q = p THEN place ELSE job[q].at]
    BY <1>2, <2>2
  <2>4. /\ [job[q] EXCEPT !.since = x, !.at = place] \in Job
        /\ [job[q] EXCEPT !.since = x, !.at = job[q].at] \in Job
        /\ GoesOn(job[q], [job[q] EXCEPT !.since = x, !.at = job[q].at], K)
    BY <2>1, <2>2, SinceGrows
  <2>5. QED
    BY <2>3, <2>4
<1>4. job' \in [Procs -> Job]
  BY <1>1, <1>3
<1>5. job'[p] = Updates(job[p], K, place)
  BY <1>2 DEF Updates
<1>6. QED
  BY <1>3, <1>4, <1>5 DEF Touch

\* One job changes and is well formed: then all are.
LEMMA JobKeepsForms ==
  ASSUME Forms, NEW p \in Procs, NEW j \in Job, job' = [job EXCEPT ![p] = j],
         j.found \subseteq Wanted(j.file, j.text), Form(p, j)
  PROVE  Forms'
<1>1. job' \in [Procs -> Job] /\ job'[p] = j /\ \A q \in Procs \ {p} : job'[q] = job[q]
  BY OneJobChanges DEF Forms
<1>2. QED
  BY <1>1 DEF Forms, WantedBy

\* Touching records keeps every job well formed, if the one that did it is.
LEMMA TouchKeepsForms ==
  ASSUME Forms, NEW p \in Procs, NEW K \in SUBSET Keys, NEW place \in Places,
         Touch(p, K, place), job[p].at # "idle", Form(p, At(job[p], place))
  PROVE  Forms'
<1>1. /\ job' \in [Procs -> Job]
      /\ job'[p] = Updates(job[p], K, place)
      /\ \A q \in Procs \ {p} : GoesOn(job[q], job'[q], K)
  <2>1. job \in [Procs -> Job]
    BY DEF Forms
  <2>2. QED
    BY <2>1, TouchFacts
<1>2. ASSUME NEW q \in Procs \ {p}
      PROVE  job'[q].found \subseteq WantedBy(q)' /\ Form(q, job'[q])
  <2>1. /\ job'[q].at = job[q].at /\ job'[q].goal = job[q].goal /\ job'[q].file = job[q].file
        /\ job'[q].text = job[q].text /\ job'[q].found = job[q].found
        /\ job'[q].doomed = job[q].doomed
        /\ job[q].at = "idle" => job'[q] = job[q]
    BY <1>1 DEF GoesOn
  <2>2. Form(q, job[q]) /\ job[q].found \subseteq WantedBy(q)
    BY DEF Forms
  <2>3. job[q].goal = "none" => job[q].at = "idle"
    BY <2>2, RestFacts DEF Form
  <2>4. QED
    BY <2>1, <2>2, <2>3 DEF Form, WantedBy
<1>3. /\ job'[p].at = place /\ job'[p].goal = job[p].goal /\ job'[p].file = job[p].file
      /\ job'[p].text = job[p].text /\ job'[p].found = job[p].found
      /\ job'[p].doomed = job[p].doomed
  BY <1>1 DEF Forms, Job, Updates
<1>4. job[p].goal # "none"
  BY RestFacts DEF Forms, Form
<1>5. Form(p, job'[p])
  BY <1>3, <1>4 DEF Form, Forms, Job, At
<1>6. job'[p].found \subseteq WantedBy(p)'
  BY <1>3 DEF Forms, WantedBy
<1>7. QED
  BY <1>1, <1>2, <1>5, <1>6 DEF Forms

\* What exists() found, and then nothing was updated since.
LEMMA FindFacts ==
  ASSUME NEW j \in Job, NEW F \in SUBSET Keys
  PROVE  LET i == Finds(j, F) IN
         /\ i \in Job /\ i.at = "refresh" /\ i.goal = j.goal /\ i.file = j.file /\ i.text = j.text
         /\ i.new = j.new /\ i.found = F /\ i.since = {} /\ i.doomed = j.doomed
  BY DEF Job, Places, Finds

\* The statements of an index call keep jobs well formed.
LEMMA IndexStepForms ==
  ASSUME TypeOK, Forms, NEW p \in Procs, IndexStep(p)
  PROVE  Forms'
<1> DEFINE j == job[p]
<1>1. /\ j \in Job /\ Form(p, j) /\ j.found \subseteq Wanted(j.file, j.text)
      /\ j.at \in Places /\ j.doomed \in SUBSET Keys /\ j.found \in SUBSET Keys
      /\ WantedBy(p) = Wanted(j.file, j.text)
  BY DEF Forms, Job, WantedBy
<1>2. j.goal \notin {"none", "sweep"} /\ j.at # "next" => Wanted(j.file, j.text) \subseteq Keys
  BY <1>1, WantedFacts DEF Form, Job
<1>3. j.goal = "none" => j.at = "idle"
  BY <1>1, RestFacts DEF Form
<1>4. {"exists", "refresh", "add", "upsert", "open", "list", "vectors", "records", "untracked", "next"}
        \subseteq Places
  BY DEF Places
<1>5. CASE Exists(p)
  <2> DEFINE F == WantedBy(p) \intersect records
             i == Finds(j, F)
  <2>1. job' = [job EXCEPT ![p] = i]
    BY <1>5 DEF Exists, Finds
  <2>2. F \in SUBSET Keys
    BY DEF TypeOK
  <2>3. /\ i \in Job /\ i.at = "refresh" /\ i.goal = j.goal /\ i.file = j.file /\ i.text = j.text
        /\ i.found = F /\ i.doomed = j.doomed
    BY <1>1, <2>2, FindFacts
  <2>4. Form(p, i)
    BY <1>1, <1>3, <1>5, <2>3 DEF Form, Exists, Calling
  <2>5. QED
    BY <1>1, <2>1, <2>3, <2>4, JobKeepsForms
<1>6. CASE Refresh(p)
  <2>1. Touch(p, j.found, "add") /\ j.at = "refresh"
    BY <1>6 DEF Refresh
  <2>2. Form(p, At(j, "add"))
    BY <1>1, <1>3, <1>4, <2>1 DEF Form, Calling, At, Job
  <2>3. QED
    BY <1>1, <1>4, <2>1, <2>2, TouchKeepsForms
<1>7. CASE AddVectors(p)
  <2> DEFINE i == At(j, "upsert")
  <2>1. job' = [job EXCEPT ![p] = i] /\ j.at = "add"
    BY <1>7 DEF AddVectors, Goto, At
  <2>2. i \in Job /\ Form(p, i) /\ i.found \subseteq Wanted(i.file, i.text)
    BY <1>1, <1>3, <1>4, <2>1 DEF Form, Calling, At, Job
  <2>3. QED
    BY <2>1, <2>2, JobKeepsForms
<1>8. CASE UpsertRecords(p)
  <2> DEFINE place == IF j.goal = "stage" THEN "open" ELSE "list"
  <2>1. Touch(p, WantedBy(p), place) /\ j.at = "upsert"
    BY <1>8 DEF UpsertRecords
  <2>2. place \in Places
    BY <1>4
  <2>3. Form(p, At(j, place))
    BY <1>1, <1>3, <2>1, <2>2 DEF Form, Calling, At, Job
  <2>4. WantedBy(p) \in SUBSET Keys
    BY <1>1, <1>2, <1>3, <2>1 DEF Form
  <2>5. QED
    BY <2>1, <2>2, <2>3, <2>4, TouchKeepsForms
<1>9. CASE ListStale(p)
  <2> DEFINE D == (records \intersect KeysOf({j.file})) \ IF WantedBy(p) = {} THEN {} ELSE j.since
             place == IF D # {} THEN "vectors" ELSE IF j.goal = "rebuild" THEN "next" ELSE "untracked"
             i == Dooms(j, D, place)
  <2>1. job' = [job EXCEPT ![p] = i] /\ j.at = "list"
    BY <1>9 DEF ListStale, Doom, Dooms
  <2>2. D \in SUBSET Keys /\ D \subseteq Own(j.file) /\ place \in Places
    BY <1>4 DEF TypeOK, Own
  <2>3. i \in Job /\ i.found \subseteq Wanted(i.file, i.text)
    BY <1>1, <2>2 DEF Dooms, Job
  <2>4. Form(p, i)
    BY <1>1, <1>3, <2>1, <2>2 DEF Form, Calling, Dooms, Job
  <2>5. QED
    BY <2>1, <2>3, <2>4, JobKeepsForms
<1>10. CASE DropVectors(p)
  <2> DEFINE i == At(j, "records")
  <2>1. job' = [job EXCEPT ![p] = i] /\ j.at = "vectors"
    BY <1>10 DEF DropVectors, Goto, At
  <2>2. i \in Job /\ Form(p, i) /\ i.found \subseteq Wanted(i.file, i.text)
    BY <1>1, <1>3, <1>4, <2>1 DEF Form, Calling, At, Job
  <2>3. QED
    BY <2>1, <2>2, JobKeepsForms
<1>11. CASE DropRecords(p)
  <2> DEFINE place == IF j.goal = "rebuild" THEN "next" ELSE "untracked"
             i == Dooms(j, {}, place)
  <2>1. job' = [job EXCEPT ![p] = i] /\ j.at = "records"
    BY <1>11 DEF DropRecords, Dooms
  <2>2. place \in Places /\ {} \in SUBSET Keys
    BY <1>4
  <2>3. i \in Job /\ i.found \subseteq Wanted(i.file, i.text)
    BY <1>1, <2>2 DEF Dooms, Job
  <2>4. Form(p, i)
    BY <1>1, <1>3, <2>1, <2>2 DEF Form, Calling, Dooms, Job
  <2>5. QED
    BY <2>1, <2>3, <2>4, JobKeepsForms
<1>12. QED
  BY <1>5, <1>6, <1>7, <1>8, <1>9, <1>10, <1>11 DEF IndexStep

\* So do the sessions' own steps.
LEMMA WriterForms ==
  ASSUME TypeOK, Forms, NEW w \in Writers,
         \/ Commit(w) \/ Abort(w) \/ LoadRow(w) \/ DropUntracked(w) \/ SettleFails(w) \/ Crash(w)
         \/ \E f \in Files, t \in Texts \union {Gone} : BeginWrite(w, f, t)
  PROVE  Forms'
<1> DEFINE j == job[w]
<1>1. w \in Procs /\ w # Rebuild
  BY DEF Procs
<1>2. j \in Job /\ Form(w, j)
  BY <1>1 DEF Forms
<1>3. j.goal = "none" => j.at = "idle"
  BY <1>2, RestFacts DEF Form
<1>4. Rest \in Job /\ Rest.found \subseteq Wanted(Rest.file, Rest.text) /\ Form(w, Rest)
  BY RestFacts DEF Form
<1>5. ASSUME NEW f \in Files
      PROVE  /\ Settling(f) \in Job /\ Settling(f).found \subseteq Wanted(Settling(f).file, Settling(f).text)
             /\ Form(w, Settling(f))
  BY <1>1 DEF Settling, Form, Rest, Job, Places, Goals, Row, Calling
<1>6. ASSUME NEW f \in Files, NEW t \in Row, NEW goal \in {"stage", "settle"}
      PROVE  Form(w, Call(goal, f, t)) /\ Call(goal, f, t) \in Job
  <2>1. goal \in Goals
    BY DEF Goals
  <2> DEFINE i == Call(goal, f, t)
  <2>2. /\ i \in Job /\ i.goal = goal /\ i.file = f /\ i.doomed = {}
        /\ i.at \in {"exists", "open", "list"} /\ (i.at = "open" <=> goal = "stage" /\ Wanted(f, t) = {})
    BY <2>1, CallFacts
  <2> HIDE DEF i
  <2>3. i.at = "list" => goal = "settle"
    BY <2>1, CallFacts DEF i
  <2>4. Form(w, i)
    BY <1>1, <2>2, <2>3 DEF Form, Calling
  <2>5. QED
    BY <2>2, <2>4 DEF i
<1>7. CASE job' = [job EXCEPT ![w] = Rest]
  BY <1>1, <1>4, <1>7, JobKeepsForms
<1>8. ASSUME job' = [job EXCEPT ![w] = Settling(j.file)], j.goal # "none"
      PROVE  Forms'
  <2>1. j.file \in Files
    BY <1>1, <1>2, <1>8 DEF Form, Calling
  <2>2. QED
    BY <1>1, <1>5, <1>8, <2>1, JobKeepsForms
<1>9. CASE Commit(w)
  <2>1. job' = [job EXCEPT ![w] = IF j.new THEN Rest ELSE Settling(j.file)] /\ j.goal # "none"
    BY <1>3, <1>9 DEF Commit
  <2>2. QED
    BY <1>7, <1>8, <2>1
<1>10. CASE Abort(w)
  BY <1>8, <1>10 DEF Abort
<1>11. CASE LoadRow(w)
  <2>1. j.file \in Files /\ rows[j.file] \in Row
    BY <1>1, <1>2, <1>3, <1>11 DEF LoadRow, Form, TypeOK, Calling
  <2>2. job' = [job EXCEPT ![w] = Call("settle", j.file, rows[j.file])]
    BY <1>11 DEF LoadRow
  <2>3. Call("settle", j.file, rows[j.file]).found = {}
    BY <2>1, CallFacts DEF Goals
  <2>4. QED
    BY <1>1, <1>6, <2>1, <2>2, <2>3, JobKeepsForms
<1>12. CASE DropUntracked(w) \/ Crash(w)
  BY <1>7, <1>12 DEF DropUntracked, Crash
<1>13. CASE SettleFails(w)
  <2> DEFINE i == [Rest EXCEPT !.at = "untracked", !.goal = "half", !.file = j.file]
  <2>1. j.file \in Files
    BY <1>1, <1>2, <1>13 DEF Form, SettleFails, Calling
  <2>2. i \in Job /\ i.found \subseteq Wanted(i.file, i.text) /\ Form(w, i)
    BY <1>1, <2>1 DEF Form, Rest, Job, Places, Goals, Row, Calling
  <2>3. job' = [job EXCEPT ![w] = Rest] \/ job' = [job EXCEPT ![w] = i]
    BY <1>13 DEF SettleFails
  <2>4. QED
    BY <1>1, <1>7, <2>2, <2>3, JobKeepsForms
<1>14. ASSUME NEW f \in Files, NEW t \in Texts \union {Gone}, BeginWrite(w, f, t)
       PROVE  Forms'
  <2> DEFINE c == Call("stage", f, t)
             i == [c EXCEPT !.new = rows[f] = NoRow]
  <2>1. job' = [job EXCEPT ![w] = i] /\ t \in Row
    BY <1>14 DEF BeginWrite, Row
  <2>2. c \in Job /\ Form(w, c)
    BY <1>6, <2>1
  <2>3. c.found = {} /\ c.goal = "stage"
    <3>1. "stage" \in Goals
      BY DEF Goals
    <3>2. QED
      BY <2>1, <3>1, CallFacts
  <2>4. i \in Job /\ Form(w, i) /\ i.found = {}
    BY <2>2, <2>3 DEF Form, Job
  <2>5. QED
    BY <1>1, <2>1, <2>4, JobKeepsForms
<1>15. QED
  BY <1>9, <1>10, <1>11, <1>12, <1>13, <1>14

\* And those of reindex_all.
LEMMA RebuildForms ==
  ASSUME TypeOK, Forms,
         \/ StartRebuild \/ Sweep \/ EndRebuild \/ RebuildFileFails \/ Crash(Rebuild)
         \/ \E f \in Files : RebuildFile(f)
  PROVE  Forms'
<1>1. Rebuild \in Procs
  BY DEF Procs
<1>2. Rest \in Job /\ Rest.found \subseteq Wanted(Rest.file, Rest.text) /\ Form(Rebuild, Rest)
  BY RestFacts DEF Form
<1>3. CASE EndRebuild \/ Crash(Rebuild)
  BY <1>1, <1>2, <1>3, JobKeepsForms DEF EndRebuild, Crash
<1>4. CASE StartRebuild \/ RebuildFileFails
  <2> DEFINE i == [Rest EXCEPT !.at = "next", !.goal = "rebuild"]
  <2>1. i \in Job /\ i.found \subseteq Wanted(i.file, i.text) /\ Form(Rebuild, i)
    BY DEF Form, Rest, Job, Places, Goals, Row, Calling
  <2>2. job' = [job EXCEPT ![Rebuild] = i]
    BY <1>4 DEF StartRebuild, RebuildFileFails
  <2>3. QED
    BY <1>1, <2>1, <2>2, JobKeepsForms
<1>5. ASSUME NEW f \in Files, RebuildFile(f)
      PROVE  Forms'
  <2> DEFINE i == Call("rebuild", f, loaded[f])
  <2>1. loaded[f] \in Row /\ "rebuild" \in Goals
    BY DEF TypeOK, Row, Goals
  <2>2. /\ i \in Job /\ i.goal = "rebuild" /\ i.file = f /\ i.doomed = {} /\ i.found = {}
        /\ i.at \in {"exists", "list"}
    BY <2>1, CallFacts
  <2>3. job' = [job EXCEPT ![Rebuild] = i]
    BY <1>5 DEF RebuildFile
  <2> HIDE DEF i
  <2>4. Form(Rebuild, i)
    BY <2>2 DEF Form, Calling
  <2>5. QED
    BY <1>1, <2>2, <2>3, <2>4, JobKeepsForms
<1>6. CASE Sweep
  <2> DEFINE D == records \ (fresh \union KeysOf(failed))
             i == [Rest EXCEPT !.goal = "sweep", !.doomed = D,
                     !.at = IF D # {} THEN "vectors" ELSE "untracked"]
  <2>1. D \in SUBSET Keys
    BY DEF TypeOK
  <2>2. i \in Job /\ i.found \subseteq Wanted(i.file, i.text) /\ Form(Rebuild, i)
    BY <2>1 DEF Form, Rest, Job, Places, Goals, Row, Calling
  <2>3. job' = [job EXCEPT ![Rebuild] = i]
    BY <1>6 DEF Sweep
  <2>4. QED
    BY <1>1, <2>2, <2>3, JobKeepsForms
<1>7. QED
  BY <1>3, <1>4, <1>5, <1>6

\* The tables keep their types, given that the jobs do.
LEMMA NextTypes ==
  ASSUME TypeOK, Forms, [Next]_vars
  PROVE  TypeOK' /\ Forms'
<1> USE DEF table, run
<1>1. CASE UNCHANGED vars
  <2>1. Forms'
    BY <1>1 DEF Forms, vars, WantedBy
  <2>2. QED
    BY <1>1, <2>1 DEF TypeOK, Forms, vars, WantedBy
<1>2. ASSUME Forms', rows' \in [Files -> Row], issued' \subseteq Files,
             vectors' \subseteq Keys, records' \subseteq Keys,
             loaded' \in [Files -> Texts \union {NoRow}], fresh' \subseteq Keys,
             failed' \subseteq Files, torn' \subseteq records', dirty' \subseteq Files
      PROVE  TypeOK' /\ Forms'
  BY <1>2 DEF TypeOK, Forms
<1>3. \A p \in Procs :
        /\ job[p] \in Job /\ Form(p, job[p])
        /\ job[p].found \subseteq Keys /\ job[p].doomed \subseteq Keys
        /\ job[p].file \in Files \union {None} /\ job[p].text \in Row
        /\ job[p].goal = "none" => job[p].at = "idle"
  BY RestFacts DEF Forms, Form, Job
<1>4. \A p \in Procs : job[p].at \in Calling => WantedBy(p) \subseteq Keys
  <2> SUFFICES ASSUME NEW p \in Procs, job[p].at \in Calling
               PROVE  WantedBy(p) \subseteq Keys
    OBVIOUS
  <2>1. job[p].goal \notin {"none", "sweep"} /\ job[p].at # "next"
    BY <1>3 DEF Form, Calling
  <2>2. job[p].file \in Files
    BY <1>3, <2>1 DEF Form
  <2>3. QED
    BY <1>3, <2>2, WantedFacts DEF WantedBy
<1>5. \A w \in Writers : w \in Procs /\ w # Rebuild
  BY DEF Procs
<1>6. ASSUME NEW p \in Procs, IndexStep(p)
      PROVE  TypeOK' /\ Forms'
  <2>1. Forms'
    BY <1>6, IndexStepForms
  <2>2. UNCHANGED <<rows, issued, loaded, failed, dirty>>
    BY <1>6 DEF IndexStep, Exists, Refresh, AddVectors, UpsertRecords, ListStale, DropVectors,
                DropRecords
  <2>3. CASE Exists(p) \/ ListStale(p) \/ DropVectors(p) \/ DropRecords(p)
    BY <1>2, <2>1, <2>2, <2>3 DEF TypeOK, Exists, ListStale, DropVectors, DropRecords
  <2>4. CASE AddVectors(p)
    <3>1. WantedBy(p) \subseteq Keys
      BY <1>4, <2>4 DEF AddVectors, Calling
    <3>2. QED
      BY <1>2, <2>1, <2>2, <2>4, <3>1 DEF TypeOK, AddVectors
  <2>5. ASSUME NEW K \in SUBSET Keys, records' = records \union K,
               fresh' = fresh \/ fresh' = fresh \union K,
               UNCHANGED <<vectors, torn>>
        PROVE  TypeOK' /\ Forms'
    BY <1>2, <2>1, <2>2, <2>5 DEF TypeOK
  <2>6. CASE Refresh(p)
    BY <1>3, <2>5, <2>6 DEF Refresh, Touch
  <2>7. CASE UpsertRecords(p)
    <3>1. WantedBy(p) \subseteq Keys
      BY <1>4, <2>7 DEF UpsertRecords, Calling
    <3>2. QED
      BY <2>5, <2>7, <3>1 DEF UpsertRecords, Touch
  <2>8. QED
    BY <1>6, <2>3, <2>4, <2>6, <2>7 DEF IndexStep
<1>7. \A p \in Procs : Tears(p) \subseteq records
  BY DEF Tears
<1>8. ASSUME NEW p \in Procs, Crash(p)
      PROVE  TypeOK' /\ Forms'
  <2>1. Forms'
    BY <1>8, RebuildForms, WriterForms DEF Procs
  <2>2. {k[1] : k \in job[p].doomed} \subseteq Files
    BY <1>3, OwnFacts
  <2>3. dirty' \subseteq Files /\ torn' \subseteq records'
    BY <1>3, <1>7, <1>8, <2>2 DEF Crash, TypeOK
  <2>4. /\ loaded' \in [Files -> Texts \union {NoRow}]
        /\ fresh' \subseteq Keys /\ failed' \subseteq Files
    BY <1>8 DEF Crash, TypeOK
  <2>5. QED
    BY <1>2, <1>8, <2>1, <2>3, <2>4 DEF Crash, TypeOK
<1>9. ASSUME NEW w \in Writers,
             \/ Commit(w) \/ Abort(w) \/ LoadRow(w) \/ DropUntracked(w) \/ SettleFails(w)
             \/ \E f \in Files, t \in Texts \union {Gone} : BeginWrite(w, f, t)
      PROVE  TypeOK' /\ Forms'
  <2>1. Forms'
    BY <1>9, WriterForms
  <2>2. CASE Commit(w)
    BY <1>2, <1>3, <1>5, <2>1, <2>2 DEF Commit, TypeOK
  <2>3. CASE Abort(w) \/ LoadRow(w)
    BY <1>2, <2>1, <2>3 DEF Abort, LoadRow, TypeOK
  <2>4. CASE DropUntracked(w)
    BY <1>2, <2>1, <2>4 DEF DropUntracked, TypeOK
  <2>5. CASE SettleFails(w)
    <3>1. job[w].file \in Files
      BY <1>3, <1>5, <2>5 DEF SettleFails, Form, Calling
    <3>2. QED
      BY <1>2, <1>5, <1>7, <2>1, <2>5, <3>1 DEF SettleFails, TypeOK
  <2>6. CASE \E f \in Files, t \in Texts \union {Gone} : BeginWrite(w, f, t)
    BY <1>2, <2>1, <2>6 DEF BeginWrite, TypeOK
  <2>7. QED
    BY <1>9, <2>2, <2>3, <2>4, <2>5, <2>6
<1>10. CASE \/ StartRebuild \/ Sweep \/ EndRebuild \/ RebuildFileFails
            \/ \E f \in Files : RebuildFile(f)
  <2>1. Forms'
    BY <1>10, RebuildForms
  <2>2. CASE StartRebuild
    BY <1>2, <2>1, <2>2 DEF StartRebuild, TypeOK
  <2>3. CASE Sweep
    BY <1>2, <2>1, <2>3 DEF Sweep, TypeOK
  <2>4. CASE EndRebuild
    BY <1>2, <2>1, <2>4 DEF EndRebuild, TypeOK
  <2>5. CASE RebuildFileFails
    <3>1. Rebuild \in Procs
      BY DEF Procs
    <3>2. job[Rebuild].file \in Files
      BY <1>3, <2>5, <3>1 DEF RebuildFileFails, Form
    <3>3. QED
      BY <1>2, <1>7, <2>1, <2>5, <3>1, <3>2 DEF RebuildFileFails, TypeOK
  <2>6. CASE \E f \in Files : RebuildFile(f)
    BY <1>2, <2>1, <2>6 DEF RebuildFile, TypeOK
  <2>7. QED
    BY <1>10, <2>2, <2>3, <2>4, <2>5, <2>6
<1>11. QED
  BY <1>1, <1>6, <1>8, <1>9, <1>10 DEF Next

\* At the start all are at rest.
LEMMA InitTypes == Init => TypeOK /\ Forms
<1> SUFFICES ASSUME Init PROVE TypeOK /\ Forms
  OBVIOUS
<1>1. \A p \in Procs : job[p] = Rest /\ Form(p, Rest)
  BY RestFacts DEF Init, Form
<1>2. Forms
  BY <1>1, RestFacts DEF Init, Forms
<1>3. QED
  BY <1>2 DEF Init, TypeOK, Forms, Row

\* Every variable keeps its type; in particular what exists() found is among
\* what is wanted, and what a deletion has torn is among the records.
THEOREM TypeCorrect == Spec => []TypeOK
<1>1. Init => TypeOK /\ Forms
  BY InitTypes
<1>2. (TypeOK /\ Forms) /\ [Next]_vars => (TypeOK /\ Forms)'
  BY NextTypes
<1>3. QED
  BY <1>1, <1>2, PTL DEF Spec

-----------------------------------------------------------------------------
\* What a step leaves alone.

\* All processes but p go on, and nothing changes for any file but f.
Elsewhere(p, f) ==
  /\ \A q \in Procs \ {p} : \E K \in SUBSET Own(f) : GoesOn(job[q], job'[q], K)
  /\ \A g \in Files \ {f} :
       /\ rows'[g] = rows[g]
       /\ g \in issued' <=> g \in issued
       /\ g \in dirty' <=> g \in dirty
       /\ records' \intersect Own(g) = records \intersect Own(g)
       /\ vectors' \intersect Own(g) = vectors \intersect Own(g)
       /\ torn' \intersect Own(g) = torn \intersect Own(g)

\* p works on file f, and nobody else does.
Holds(p, f) ==
  /\ job[p].file = f /\ job[p].goal \notin {"none", "sweep"} /\ job[p].at # "next"
  /\ \A q \in Procs \ {p} : job[q] = Rest \/ (q # Rebuild /\ job[q].file # f)

\* A process that works on another file goes on as it was.
LEMMA OtherSteady ==
  ASSUME TypeOK, Forms, NEW p \in Procs, NEW f \in Files, Elsewhere(p, f),
         NEW q \in Procs \ {p}, Steady(q), job[q] = Rest \/ (q # Rebuild /\ job[q].file # f)
  PROVE  Steady(q)'
<1> DEFINE j == job[q]
           i == job'[q]
<1>1. PICK K \in SUBSET Own(f) : GoesOn(j, i, K)
  BY DEF Elsewhere
<1>2. /\ i.at = j.at /\ i.goal = j.goal /\ i.file = j.file /\ i.text = j.text
      /\ i.new = j.new /\ i.found = j.found /\ i.doomed = j.doomed
      /\ i.since = IF j.at = "idle" THEN j.since ELSE j.since \union K
  BY <1>1 DEF GoesOn
<1>3. CASE j = Rest
  <2>1. i.at = "idle" /\ i.goal = "none"
    BY <1>2, <1>3, RestFacts
  <2>2. QED
    BY <2>1 DEF Steady
<1>4. CASE j # Rest /\ q # Rebuild /\ j.file # f
  <2> DEFINE g == j.file
             W == Wanted(g, j.text)
  <2>1. j.goal \in {"stage", "settle", "half"} /\ g \in Files \ {f} /\ j.text \in Row
    BY <1>4 DEF Forms, Form, Job, Calling
  <2>2. WantedBy(q) = W /\ WantedBy(q)' = W /\ W \subseteq Own(g)
    BY <1>2, <2>1, WantedFacts DEF WantedBy
  <2>3. Own(f) \intersect Own(g) = {}
    BY <2>1, OwnFacts
  <2>4. /\ rows'[g] = rows[g]
        /\ records' \intersect Own(g) = records \intersect Own(g)
        /\ vectors' \intersect Own(g) = vectors \intersect Own(g)
    BY <2>1 DEF Elsewhere
  <2>5. i.since \intersect Own(g) = j.since \intersect Own(g)
    BY <1>2, <2>3
  <2>6. j.doomed \subseteq Own(g)
    BY <2>1 DEF Forms, Form
  <2> HIDE DEF i, j, g, W
  <2>7. QED
    BY <1>2, <2>1, <2>2, <2>4, <2>5, <2>6 DEF Steady, i, j, g
<1>5. QED
  BY <1>3, <1>4

\* What was good for another file stays good.
LEMMA OtherGood ==
  ASSUME TypeOK, Forms, NEW p \in Procs, NEW f \in Files, Elsewhere(p, f),
         job[p].file \in {f, None}, job[p].goal # "sweep",
         NEW g \in Files \ {f}, Good(g)
  PROVE  Good(g)'
<1>1. /\ rows'[g] = rows[g]
      /\ g \in issued' <=> g \in issued
      /\ g \in dirty' <=> g \in dirty
      /\ records' \intersect Own(g) = records \intersect Own(g)
      /\ vectors' \intersect Own(g) = vectors \intersect Own(g)
      /\ torn' \intersect Own(g) = torn \intersect Own(g)
  BY DEF Elsewhere
<1>2. rows[g] \in Row /\ Due(g)' = Due(g) /\ Due(g) \subseteq Own(g)
  BY <1>1, WantedFacts DEF TypeOK, Due
<1>3. \A q \in Procs \ {p} : job'[q].file = job[q].file /\ job'[q].at = job[q].at
                             /\ job'[q].doomed = job[q].doomed
  BY DEF Elsewhere, GoesOn
<1>4. Kept(g)' /\ TornStays(g)'
  BY <1>1, <1>2 DEF Good, Kept, TornStays
<1>5. Backed(g)'
  <2> SUFFICES ASSUME NEW k \in (records' \ vectors') \intersect Own(g), k \notin torn'
               PROVE  \E q \in Procs : job'[q].at = "records" /\ k \in job'[q].doomed
    BY DEF Backed
  <2>1. k \in (records \ vectors) \intersect Own(g) /\ k \notin torn
    BY <1>1
  <2>2. PICK q \in Procs : job[q].at = "records" /\ k \in job[q].doomed
    BY <2>1 DEF Good, Backed
  <2>3. job[p].doomed \subseteq Own(job[p].file)
    BY DEF Forms, Form
  <2>4. q # p
    BY <2>1, <2>2, <2>3, OwnFacts, NoneAssumption
  <2>5. QED
    BY <1>3, <2>2, <2>4
<1>6. Clean(g)'
  <2> SUFFICES ASSUME g \notin dirty', \A w \in Writers : job'[w].file # g
               PROVE  Exact(g)'
    BY DEF Clean
  <2>1. \A w \in Writers : job[w].file # g
    BY <1>3 DEF Procs
  <2>2. Exact(g)
    BY <1>1, <2>1 DEF Good, Clean
  <2>3. QED
    BY <1>1, <1>2, <2>2 DEF Exact
<1>7. QED
  BY <1>4, <1>5, <1>6 DEF Good

-----------------------------------------------------------------------------
\* An index call on a file.

\* What p is doing, with W what it wants.
LEMMA HolderFacts ==
  ASSUME TypeOK, Forms, NEW p \in Procs, NEW f \in Files, Holds(p, f)
  PROVE  /\ job[p] \in Job /\ Form(p, job[p])
         /\ WantedBy(p) \subseteq Own(f) /\ job[p].found \subseteq WantedBy(p)
         /\ WantedBy(p) = Wanted(f, job[p].text)
         /\ job[p].doomed \subseteq Own(f)
         /\ Due(f) \subseteq Own(f)
         /\ KeysOf({f}) = Own(f)
<1>1. job[p].text \in Row /\ rows[f] \in Row
  BY DEF Forms, Job, TypeOK
<1>2. WantedBy(p) = Wanted(f, job[p].text) /\ WantedBy(p) \subseteq Own(f)
  BY <1>1, WantedFacts DEF WantedBy, Holds
<1>3. Due(f) \subseteq Own(f)
  BY <1>1, WantedFacts DEF Due
<1>4. QED
  BY <1>2, <1>3 DEF Forms, Form, Holds, Own

\* Nobody else is deleting the file's chunks, so a record without its vector
\* is torn, or p is deleting it.
LEMMA BackedByHolder ==
  ASSUME TypeOK, Forms, NEW p \in Procs, NEW f \in Files, Holds(p, f)
  PROVE  Backed(f) <=> \A k \in (records \ vectors) \intersect Own(f) :
                         k \in torn \/ (job[p].at = "records" /\ k \in job[p].doomed)
<1>1. ASSUME NEW q \in Procs \ {p}, NEW k \in Own(f)
      PROVE  k \notin job[q].doomed
  <2>1. CASE job[q] = Rest
    BY <2>1, RestFacts
  <2>2. CASE q # Rebuild /\ job[q].file # f
    <3>1. job[q].doomed \subseteq Own(job[q].file)
      BY <2>2 DEF Forms, Form
    <3>2. QED
      BY <2>2, <3>1, OwnFacts
  <2>3. QED
    BY <2>1, <2>2 DEF Holds
<1>2. QED
  BY <1>1 DEF Backed

\* The statements of an index call change nothing for another file.
LEMMA IndexElsewhere ==
  ASSUME TypeOK, Forms, NEW p \in Procs, NEW f \in Files, Holds(p, f), IndexStep(p)
  PROVE  Elsewhere(p, f)
<1>1. /\ job \in [Procs -> Job] /\ job[p].at # "idle"
      /\ WantedBy(p) \subseteq Own(f) /\ job[p].found \subseteq Own(f) /\ job[p].doomed \subseteq Own(f)
  <2>1. job[p].at # "idle"
    BY DEF IndexStep, Exists, Refresh, AddVectors, UpsertRecords, ListStale, DropVectors, DropRecords
  <2>2. QED
    BY <2>1, HolderFacts DEF Forms
<1>2. \A j : GoesOn(j, j, {})
  BY DEF GoesOn
<1>3. UNCHANGED <<rows, issued, dirty>>
  BY DEF IndexStep, Exists, Refresh, AddVectors, UpsertRecords, ListStale, DropVectors,
         DropRecords, table
<1>4. \A q \in Procs \ {p} : \E K \in SUBSET Own(f) : GoesOn(job[q], job'[q], K)
  <2>1. CASE \A q \in Procs \ {p} : job'[q] = job[q]
    BY <1>2, <2>1
  <2>2. Own(f) \subseteq Keys
    BY OwnFacts
  <2>3. ASSUME NEW K \in SUBSET Own(f), NEW place \in Places, Touch(p, K, place)
        PROVE  \A q \in Procs \ {p} : GoesOn(job[q], job'[q], K)
    BY <1>1, <2>2, <2>3, TouchFacts
  <2>4. CASE Refresh(p)
    <3>1. Touch(p, job[p].found, "add") /\ "add" \in Places
      BY <2>4 DEF Refresh, Places
    <3>2. QED
      BY <1>1, <2>3, <3>1
  <2>5. CASE UpsertRecords(p)
    <3>1. PICK place \in {"open", "list"} : Touch(p, WantedBy(p), place)
      BY <2>5 DEF UpsertRecords
    <3>2. place \in Places
      BY DEF Places
    <3>3. QED
      BY <1>1, <2>3, <3>1, <3>2
  <2>6. CASE Exists(p) \/ AddVectors(p) \/ ListStale(p) \/ DropVectors(p) \/ DropRecords(p)
    <3>1. \E i : job' = [job EXCEPT ![p] = i]
      BY <1>1, <2>6 DEF Exists, AddVectors, ListStale, Doom, DropVectors, DropRecords, Goto
    <3>2. QED
      BY <1>1, <2>1, <3>1
  <2>7. QED
    BY <2>4, <2>5, <2>6 DEF IndexStep
<1>5. ASSUME NEW g \in Files \ {f}
      PROVE  /\ records' \intersect Own(g) = records \intersect Own(g)
             /\ vectors' \intersect Own(g) = vectors \intersect Own(g)
             /\ torn' \intersect Own(g) = torn \intersect Own(g)
  <2>1. Own(f) \intersect Own(g) = {}
    BY OwnFacts
  <2>2. CASE Exists(p) \/ ListStale(p)
    BY <2>2 DEF Exists, ListStale
  <2>3. CASE Refresh(p) \/ UpsertRecords(p)
    BY <1>1, <2>1, <2>3 DEF Refresh, UpsertRecords, Touch
  <2>4. CASE AddVectors(p) \/ DropVectors(p) \/ DropRecords(p)
    BY <1>1, <2>1, <2>4 DEF AddVectors, DropVectors, DropRecords
  <2>5. QED
    BY <2>2, <2>3, <2>4 DEF IndexStep
<1>6. QED
  BY <1>3, <1>4, <1>5 DEF Elsewhere

\* What each statement makes of the job.
LEMMA IndexFields ==
  ASSUME TypeOK, Forms, NEW p \in Procs, NEW f \in Files, Holds(p, f), IndexStep(p)
  PROVE  LET j == job[p]
             i == job'[p]
             D == (records \intersect Own(f)) \ IF WantedBy(p) = {} THEN {} ELSE j.since
         IN
         /\ i.goal = j.goal /\ i.file = j.file /\ i.text = j.text /\ i.new = j.new
         /\ Exists(p) => i.at = "refresh" /\ i.found = WantedBy(p) \intersect records /\ i.since = {}
         /\ ~Exists(p) => i.found = j.found
         /\ Refresh(p) => i.at = "add" /\ i.since = j.since \union j.found
         /\ AddVectors(p) => i.at = "upsert" /\ i.since = j.since
         /\ UpsertRecords(p) => /\ i.at = IF j.goal = "stage" THEN "open" ELSE "list"
                                /\ i.since = j.since \union WantedBy(p)
         /\ ListStale(p) => /\ i.doomed = D
                            /\ i.at = IF D # {} THEN "vectors" ELSE
                                      IF j.goal = "rebuild" THEN "next" ELSE "untracked"
         /\ ~ListStale(p) /\ ~DropRecords(p) => i.doomed = j.doomed
         /\ DropVectors(p) => i.at = "records"
         /\ DropRecords(p) => i.doomed = {}
                              /\ i.at = IF j.goal = "rebuild" THEN "next" ELSE "untracked"
<1> DEFINE j == job[p]
           i == job'[p]
<1>1. /\ j \in Job /\ job \in [Procs -> Job] /\ KeysOf({j.file}) = Own(f)
      /\ WantedBy(p) \subseteq Keys /\ j.found \subseteq Keys
  BY HolderFacts, OwnFacts DEF Forms, Holds
<1>0. /\ Exists(p) => j.at = "exists"
      /\ Refresh(p) => j.at = "refresh"
      /\ AddVectors(p) => j.at = "add"
      /\ UpsertRecords(p) => j.at = "upsert"
      /\ ListStale(p) => j.at = "list"
      /\ DropVectors(p) => j.at = "vectors"
      /\ DropRecords(p) => j.at = "records"
  BY DEF Exists, Refresh, AddVectors, UpsertRecords, ListStale, DropVectors, DropRecords
<1>2. CASE Exists(p)
  <2>1. i = Finds(j, WantedBy(p) \intersect records) /\ j.at = "exists"
    BY <1>1, <1>2 DEF Exists, Finds
  <2>2. /\ i.at = "refresh" /\ i.goal = j.goal /\ i.file = j.file /\ i.text = j.text
        /\ i.new = j.new /\ i.found = WantedBy(p) \intersect records /\ i.since = {}
        /\ i.doomed = j.doomed
    BY <1>1, <2>1, FindFacts
  <2>3. QED
    BY <1>0, <1>2, <2>1, <2>2
<1>3. ASSUME NEW K \in SUBSET Keys, NEW place \in Places, Touch(p, K, place), j.at # "idle"
      PROVE  /\ i.at = place /\ i.goal = j.goal /\ i.file = j.file /\ i.text = j.text
             /\ i.new = j.new /\ i.found = j.found /\ i.doomed = j.doomed
             /\ i.since = j.since \union K
  <2>1. i = Updates(j, K, place)
    BY <1>1, <1>3, TouchFacts
  <2>2. QED
    BY <1>1, <2>1 DEF Updates, Job
<1>4. CASE Refresh(p)
  <2>1. j.at = "refresh" /\ Touch(p, j.found, "add") /\ "add" \in Places
    BY <1>4 DEF Refresh, Places
  <2>2. QED
    BY <1>0, <1>1, <1>3, <2>1
<1>5. CASE AddVectors(p)
  <2>1. i = At(j, "upsert") /\ j.at = "add"
    BY <1>1, <1>5 DEF AddVectors, Goto, At
  <2>2. /\ i.at = "upsert" /\ i.goal = j.goal /\ i.file = j.file /\ i.text = j.text
        /\ i.new = j.new /\ i.found = j.found /\ i.since = j.since /\ i.doomed = j.doomed
    BY <1>1, <2>1 DEF At, Job
  <2>3. QED
    BY <1>0, <2>1, <2>2
<1>6. CASE UpsertRecords(p)
  <2> DEFINE place == IF j.goal = "stage" THEN "open" ELSE "list"
  <2>1. j.at = "upsert" /\ Touch(p, WantedBy(p), place) /\ place \in Places
    BY <1>6 DEF UpsertRecords, Places
  <2>2. QED
    BY <1>0, <1>1, <1>3, <2>1
<1>7. CASE ListStale(p)
  <2> DEFINE D == (records \intersect Own(f)) \ IF WantedBy(p) = {} THEN {} ELSE j.since
             place == IF D # {} THEN "vectors" ELSE IF j.goal = "rebuild" THEN "next" ELSE "untracked"
  <2>1. j.at = "list" /\ i = Dooms(j, D, place)
    BY <1>1, <1>7 DEF ListStale, Doom, Dooms
  <2>2. /\ i.at = place /\ i.goal = j.goal /\ i.file = j.file /\ i.text = j.text
        /\ i.new = j.new /\ i.found = j.found /\ i.since = j.since /\ i.doomed = D
    BY <1>1, <2>1 DEF Dooms, Job
  <2>3. QED
    BY <1>0, <1>7, <2>1, <2>2
<1>8. CASE DropVectors(p)
  <2>1. i = At(j, "records") /\ j.at = "vectors"
    BY <1>1, <1>8 DEF DropVectors, Goto, At
  <2>2. /\ i.at = "records" /\ i.goal = j.goal /\ i.file = j.file /\ i.text = j.text
        /\ i.new = j.new /\ i.found = j.found /\ i.since = j.since /\ i.doomed = j.doomed
    BY <1>1, <2>1 DEF At, Job
  <2>3. QED
    BY <1>0, <2>1, <2>2
<1>9. CASE DropRecords(p)
  <2> DEFINE place == IF j.goal = "rebuild" THEN "next" ELSE "untracked"
  <2>1. j.at = "records" /\ i = Dooms(j, {}, place)
    BY <1>1, <1>9 DEF DropRecords, Dooms
  <2>2. /\ i.at = place /\ i.goal = j.goal /\ i.file = j.file /\ i.text = j.text
        /\ i.new = j.new /\ i.found = j.found /\ i.since = j.since /\ i.doomed = {}
    BY <1>1, <2>1 DEF Dooms, Job
  <2>3. QED
    BY <1>0, <1>9, <2>1, <2>2
<1>10. QED
  BY <1>2, <1>4, <1>5, <1>6, <1>7, <1>8, <1>9 DEF IndexStep

\* Each statement takes the call one step further.
LEMMA IndexSteady ==
  ASSUME TypeOK, Forms, NEW p \in Procs, NEW f \in Files, Holds(p, f), Steady(p), IndexStep(p)
  PROVE  Steady(p)'
<1> DEFINE j == job[p]
           i == job'[p]
           W == WantedBy(p)
           D == (records \intersect Own(f)) \ IF W = {} THEN {} ELSE j.since
<1>1. /\ i.goal = j.goal /\ i.file = f /\ j.file = f /\ i.text = j.text /\ i.new = j.new
      /\ WantedBy(p)' = W
  BY IndexFields DEF WantedBy, Holds
<1>2. /\ W \subseteq Own(f) /\ j.found \subseteq W /\ j.doomed \subseteq Own(f)
      /\ Form(p, j) /\ j.goal \notin {"none", "sweep"} /\ j.at # "next"
  BY HolderFacts DEF Holds
<1>3. /\ (j.goal = "settle" /\ j.at # "load") \/ j.goal = "rebuild" => j.text = rows[f]
      /\ j.goal = "stage" /\ j.new => (records \union vectors) \intersect Own(f) \subseteq W
      /\ j.at \in {"refresh", "add", "upsert"} =>
           j.found = W \intersect records /\ j.since \intersect Own(f) \subseteq W
      /\ j.at = "upsert" => W \ j.found \subseteq vectors
      /\ j.at = "list" => W \subseteq records /\ (W = {} \/ j.since \intersect Own(f) = W)
      /\ j.at \in {"vectors", "records"} =>
           j.doomed \subseteq records /\ (records \intersect Own(f)) \ j.doomed = W
      /\ j.at = "records" => j.doomed \intersect vectors = {}
  BY <1>1, <1>2 DEF Steady
<1>4. rows' = rows /\ j.at # "load"
  BY DEF IndexStep, Exists, Refresh, AddVectors, UpsertRecords, ListStale, DropVectors,
         DropRecords, table
<1> HIDE DEF i, j, W
<1>5. CASE Exists(p)
  <2>1. /\ i.at = "refresh" /\ i.found = W \intersect records /\ i.since = {}
        /\ records' = records /\ vectors' = vectors /\ j.at = "exists"
    BY <1>5, IndexFields DEF Exists, i, j, W
  <2>2. QED
    BY <1>1, <1>2, <1>3, <1>4, <2>1 DEF Steady, i
<1>6. CASE Refresh(p)
  <2>1. /\ i.at = "add" /\ i.found = j.found /\ i.since = j.since \union j.found
        /\ records' = records \union j.found /\ vectors' = vectors /\ j.at = "refresh"
    BY <1>6, IndexFields DEF Refresh, Exists, Touch, i, j
  <2>2. records' = records
    BY <1>3, <2>1
  <2>3. QED
    BY <1>1, <1>2, <1>3, <1>4, <2>1, <2>2 DEF Steady, i
<1>7. CASE AddVectors(p)
  <2>1. /\ i.at = "upsert" /\ i.found = j.found /\ i.since = j.since
        /\ records' = records /\ vectors' = vectors \union (W \ j.found) /\ j.at = "add"
    BY <1>7, IndexFields DEF AddVectors, Exists, i, j, W
  <2>2. QED
    BY <1>1, <1>2, <1>3, <1>4, <2>1 DEF Steady, i
<1>8. CASE UpsertRecords(p)
  <2>1. /\ i.at = (IF j.goal = "stage" THEN "open" ELSE "list")
        /\ i.since = j.since \union W
        /\ records' = records \union W /\ vectors' = vectors /\ j.at = "upsert"
    BY <1>8, IndexFields DEF UpsertRecords, Touch, i, j, W
  <2>2. i.since \intersect Own(f) = W
    BY <1>2, <1>3, <2>1
  <2>3. QED
    BY <1>1, <1>2, <1>3, <1>4, <2>1, <2>2 DEF Steady, i
<1>9. CASE ListStale(p)
  <2>1. /\ i.doomed = D
        /\ i.at = (IF D # {} THEN "vectors" ELSE IF j.goal = "rebuild" THEN "next" ELSE "untracked")
        /\ records' = records /\ vectors' = vectors /\ j.at = "list"
    BY <1>9, IndexFields DEF ListStale, i, j, W
  <2>2. (records \intersect Own(f)) \ D = W
    BY <1>2, <1>3, <2>1
  <2>3. D \subseteq records
    OBVIOUS
  <2> HIDE DEF D
  <2>4. j.goal # "stage"
    BY <1>2, <2>1 DEF Form, Calling
  <2>5. QED
    BY <1>1, <1>2, <1>3, <1>4, <2>1, <2>2, <2>3, <2>4 DEF Steady, i
<1>10. CASE DropVectors(p)
  <2>1. /\ i.at = "records" /\ i.doomed = j.doomed
        /\ records' = records /\ vectors' = vectors \ j.doomed /\ j.at = "vectors"
    BY <1>10, IndexFields DEF DropVectors, ListStale, DropRecords, i, j
  <2>2. j.goal # "stage"
    BY <1>2, <2>1 DEF Form, Calling
  <2>3. QED
    BY <1>1, <1>2, <1>3, <1>4, <2>1, <2>2 DEF Steady, i
<1>11. CASE DropRecords(p)
  <2>1. /\ i.doomed = {} /\ i.at = (IF j.goal = "rebuild" THEN "next" ELSE "untracked")
        /\ records' = records \ j.doomed /\ vectors' = vectors /\ j.at = "records"
    BY <1>11, IndexFields DEF DropRecords, i, j
  <2>2. j.goal # "stage"
    BY <1>2, <2>1 DEF Form, Calling
  <2>3. records' \intersect Own(f) = W
    BY <1>3, <2>1
  <2>4. QED
    BY <1>1, <1>2, <1>3, <1>4, <2>1, <2>2, <2>3 DEF Steady, i
<1>12. QED
  BY <1>5, <1>6, <1>7, <1>8, <1>9, <1>10, <1>11 DEF IndexStep

\* And the file stays good: a record comes after its vector and goes after it,
\* and what is committed is never deleted.
LEMMA IndexGood ==
  ASSUME TypeOK, Forms, NEW p \in Procs, NEW f \in Files, Holds(p, f), Steady(p), IndexStep(p),
         f \in issued, Good(f),
         p \in Writers \/ \A w \in Writers : job[w] = Rest
  PROVE  Good(f)'
<1> DEFINE j == job[p]
           i == job'[p]
           W == WantedBy(p)
<1>1. /\ W \subseteq Own(f) /\ j.found \subseteq W /\ j.doomed \subseteq Own(f)
      /\ Form(p, j) /\ j.goal \notin {"none", "sweep"} /\ j.at # "next" /\ j.file = f /\ i.file = f
      /\ W = Wanted(f, j.text)
  BY HolderFacts, IndexFields DEF Holds
<1>2. /\ j.goal \in {"settle", "rebuild"} /\ j.at # "load" => W = Due(f)
      /\ j.at \in {"refresh", "add", "upsert"} =>
           j.found = W \intersect records
      /\ j.at = "upsert" => W \ j.found \subseteq vectors
      /\ j.at \in {"vectors", "records"} => j.goal \in {"settle", "rebuild"}
      /\ j.at \in {"vectors", "records"} =>
           j.doomed \subseteq records /\ (records \intersect Own(f)) \ j.doomed = W
  BY <1>1 DEF Steady, Form, Calling, Due
<1>3. rows' = rows /\ issued' = issued /\ dirty' = dirty /\ Due(f)' = Due(f) /\ j.at # "load"
  BY DEF IndexStep, Exists, Refresh, AddVectors, UpsertRecords, ListStale, DropVectors,
         DropRecords, table, Due
<1>4. /\ Due(f) \subseteq records /\ torn \subseteq records
      /\ torn \intersect vectors \intersect Own(f) = {}
      /\ \A k \in (records \ vectors) \intersect Own(f) :
           k \in torn \/ (j.at = "records" /\ k \in j.doomed)
  BY BackedByHolder DEF Good, Kept, TornStays, TypeOK
\* reindex_all at a clean file finds all of it there.
<1>5. p \notin Writers /\ f \notin dirty =>
        /\ records \intersect Own(f) = W /\ vectors \intersect Own(f) = W \ torn /\ W = Due(f)
  <2> SUFFICES ASSUME p \notin Writers, f \notin dirty
               PROVE  /\ records \intersect Own(f) = W /\ vectors \intersect Own(f) = W \ torn
                      /\ W = Due(f)
    OBVIOUS
  <2>1. Exact(f)
    BY RestFacts DEF Good, Clean
  <2>2. p = Rebuild
    BY DEF Procs
  <2>3. j.goal = "rebuild"
    BY <1>1, <2>2 DEF Form
  <2>4. QED
    BY <1>2, <1>3, <2>1, <2>3 DEF Exact
<1> HIDE DEF i, j, W
<1>6. ASSUME Due(f) \subseteq records',
             torn' \intersect vectors' \intersect Own(f) = {},
             \A k \in (records' \ vectors') \intersect Own(f) :
               k \in torn' \/ (i.at = "records" /\ k \in i.doomed),
             p \notin Writers /\ f \notin dirty =>
               UNCHANGED <<records, vectors, torn>>
      PROVE  Good(f)'
  <2>1. Kept(f)' /\ TornStays(f)'
    BY <1>3, <1>6 DEF Kept, TornStays
  <2>2. Backed(f)'
    BY <1>6 DEF Backed, i
  <2>3. Clean(f)'
    <3> SUFFICES ASSUME f \notin dirty, \A w \in Writers : job'[w].file # f
                 PROVE  Exact(f)'
      BY <1>3 DEF Clean
    <3>1. p \notin Writers
      BY <1>1 DEF i
    <3>2. QED
      BY <1>3, <1>5, <1>6, <3>1 DEF Exact
  <2>4. QED
    BY <2>1, <2>2, <2>3 DEF Good
<1>7. CASE Exists(p) \/ ListStale(p)
  <2>1. UNCHANGED <<records, vectors, torn>> /\ j.at \in {"exists", "list"}
    BY <1>7 DEF Exists, ListStale, j
  <2>2. QED
    BY <1>4, <1>6, <2>1
<1>8. CASE Refresh(p)
  <2>1. records' = records \union j.found /\ UNCHANGED <<vectors, torn>> /\ j.at = "refresh"
    BY <1>8 DEF Refresh, Touch, j
  <2>2. records' = records
    BY <1>2, <2>1
  <2>3. QED
    BY <1>4, <1>6, <2>1, <2>2
<1>9. CASE AddVectors(p)
  <2>1. vectors' = vectors \union (W \ j.found) /\ UNCHANGED <<records, torn>> /\ j.at = "add"
    BY <1>9 DEF AddVectors, j, W
  <2>2. W \ j.found = W \ records
    BY <1>2, <2>1
  <2>3. p \notin Writers /\ f \notin dirty => vectors' = vectors
    BY <1>5, <2>1, <2>2
  <2>4. torn' \intersect vectors' \intersect Own(f) = {}
    BY <1>4, <2>1, <2>2
  <2>5. QED
    BY <1>4, <1>6, <2>1, <2>3, <2>4
<1>10. CASE UpsertRecords(p)
  <2>1. records' = records \union W /\ UNCHANGED <<vectors, torn>> /\ j.at = "upsert"
    BY <1>10 DEF UpsertRecords, Touch, j, W
  <2>2. p \notin Writers /\ f \notin dirty => records' = records
    BY <1>5, <2>1
  <2>3. \A k \in (records' \ vectors') \intersect Own(f) : k \in torn'
    BY <1>2, <1>4, <2>1
  <2>4. QED
    BY <1>4, <1>6, <2>1, <2>2, <2>3
<1>11. CASE DropVectors(p)
  <2>1. vectors' = vectors \ j.doomed /\ UNCHANGED <<records, torn>> /\ j.at = "vectors"
    BY <1>11 DEF DropVectors, j
  <2>2. i.at = "records" /\ i.doomed = j.doomed
    BY <1>11, <2>1, IndexFields DEF i, j, ListStale, DropRecords
  <2>3. p \notin Writers /\ f \notin dirty => vectors' = vectors
    BY <1>1, <1>2, <1>5, <2>1
  <2>4. QED
    BY <1>4, <1>6, <2>1, <2>2, <2>3
<1>12. CASE DropRecords(p)
  <2>1. /\ records' = records \ j.doomed /\ torn' = torn \ j.doomed /\ UNCHANGED vectors
        /\ j.at = "records"
    BY <1>12 DEF DropRecords, j
  <2>2. Due(f) \subseteq records'
    BY <1>2, <1>3, <1>4, <2>1
  <2>3. p \notin Writers /\ f \notin dirty => j.doomed = {}
    BY <1>1, <1>2, <1>5, <2>1
  <2>4. QED
    BY <1>4, <1>6, <2>1, <2>2, <2>3
<1>13. QED
  BY <1>7, <1>8, <1>9, <1>10, <1>11, <1>12 DEF IndexStep

-----------------------------------------------------------------------------
\* The sessions.

\* A session that is not at rest holds its file.
LEMMA WriterHolds ==
  ASSUME IInv, NEW w \in Writers, job[w] # Rest
  PROVE  /\ w \in Procs /\ job[w].file \in Files /\ Holds(w, job[w].file)
         /\ job[w].file \in issued /\ job[Rebuild] = Rest
<1>1. w \in Procs /\ w # Rebuild /\ Rebuild \in Procs
  BY DEF Procs
<1>2. /\ job[w].goal \in {"stage", "settle", "half"} /\ job[w].at # "next" /\ job[w].file \in Files
  BY <1>1 DEF IInv, Forms, Form, Calling
<1>3. job[Rebuild] = Rest /\ job[w].file \in issued
  BY <1>2 DEF IInv, Alone, Procs
<1>4. \A v \in Writers \ {w} : job[v].file # job[w].file
  BY <1>2 DEF IInv, Alone
<1>5. QED
  BY <1>1, <1>2, <1>3, <1>4 DEF Holds, Procs

\* The steps of a session that holds a file change nothing for another one.
LEMMA WriterElsewhere ==
  ASSUME TypeOK, Forms, NEW w \in Writers, w \in Procs, NEW f \in Files, Holds(w, f),
         Commit(w) \/ Abort(w) \/ LoadRow(w) \/ DropUntracked(w) \/ SettleFails(w) \/ Crash(w)
  PROVE  Elsewhere(w, f) /\ issued' = issued /\ fresh' = fresh
<1>1. /\ job \in [Procs -> Job] /\ job[w].file = f /\ job[w].doomed \subseteq Own(f)
      /\ KeysOf({f}) = Own(f) /\ w # Rebuild
  BY HolderFacts DEF Forms, Holds
<1>2. \A j : GoesOn(j, j, {})
  BY DEF GoesOn
<1>3. \E i : job' = [job EXCEPT ![w] = i]
  BY <1>1 DEF Commit, Abort, LoadRow, DropUntracked, SettleFails, Crash
<1>4. \A q \in Procs \ {w} : job'[q] = job[q]
  BY <1>1, <1>3
<1>5. Tears(w) \subseteq Own(f) /\ \A x \in {k[1] : k \in job[w].doomed} : x = f
  BY <1>1, OwnFacts DEF Tears
<1>6. issued' = issued /\ fresh' = fresh /\ records' = records
  BY <1>1 DEF Commit, Abort, LoadRow, DropUntracked, SettleFails, Crash, table, run
<1>7. ASSUME NEW g \in Files \ {f}
      PROVE  /\ rows'[g] = rows[g]
             /\ g \in dirty' <=> g \in dirty
             /\ vectors' \intersect Own(g) = vectors \intersect Own(g)
             /\ torn' \intersect Own(g) = torn \intersect Own(g)
  <2>1. Own(f) \intersect Own(g) = {}
    BY OwnFacts
  <2>2. CASE Commit(w) \/ Abort(w) \/ LoadRow(w)
    BY <1>1, <2>2 DEF Commit, Abort, LoadRow, table, TypeOK
  <2>3. CASE DropUntracked(w)
    BY <1>1, <2>1, <2>3 DEF DropUntracked, table
  <2>4. CASE SettleFails(w)
    BY <1>1, <1>5, <2>1, <2>4 DEF SettleFails, table
  <2>5. CASE Crash(w)
    BY <1>1, <1>5, <2>1, <2>5 DEF Crash, table
  <2>6. QED
    BY <2>2, <2>3, <2>4, <2>5
<1>8. QED
  BY <1>2, <1>4, <1>6, <1>7 DEF Elsewhere

\* They leave the session at rest, about to load the row, about to remove
\* what is untracked, or with the row it has loaded.
LEMMA WriterSteady ==
  ASSUME TypeOK, Forms, NEW w \in Writers, w \in Procs, NEW f \in Files, Holds(w, f),
         Commit(w) \/ Abort(w) \/ LoadRow(w) \/ DropUntracked(w) \/ SettleFails(w) \/ Crash(w)
  PROVE  /\ Steady(w)' /\ job'[w].file \in {f, None} /\ job'[w].at # "records"
         /\ job'[w].goal = "half" => SettleFails(w) /\ job'[w].file = f
<1> DEFINE i == job'[w]
<1>1. job \in [Procs -> Job] /\ job[w].file = f /\ rows[f] \in Row
  BY DEF Forms, Holds, TypeOK
<1>2. CASE i = Rest
  BY <1>2, RestFacts DEF Steady
<1>3. CASE i = Settling(f)
  <2>1. i.at = "load" /\ i.goal = "settle" /\ i.file = f
    BY <1>3 DEF Settling, Rest
  <2>2. QED
    BY <2>1 DEF Steady
<1>4. CASE Commit(w) \/ Abort(w) \/ DropUntracked(w) \/ Crash(w)
  BY <1>1, <1>2, <1>3, <1>4 DEF Commit, Abort, DropUntracked, Crash
<1>5. CASE LoadRow(w)
  <2>1. i = Call("settle", f, rows[f]) /\ UNCHANGED rows
    BY <1>1, <1>5 DEF LoadRow, table
  <2>2. "settle" \in Goals
    BY DEF Goals
  <2>3. /\ i.goal = "settle" /\ i.file = f /\ i.text = rows[f] /\ i.at \in {"exists", "list"}
        /\ i.at = "list" => Wanted(f, rows[f]) = {}
    BY <1>1, <2>1, <2>2, CallFacts
  <2>4. QED
    BY <2>1, <2>3 DEF Steady, WantedBy
<1>6. CASE SettleFails(w)
  <2> DEFINE h == [Rest EXCEPT !.at = "untracked", !.goal = "half", !.file = f]
  <2>1. h.at = "untracked" /\ h.goal = "half" /\ h.file = f
    BY DEF Rest
  <2>2. i = Rest \/ i = h
    BY <1>1, <1>6 DEF SettleFails
  <2> HIDE DEF h
  <2>3. CASE i = h
    BY <1>6, <2>1, <2>3 DEF Steady
  <2>4. QED
    BY <1>2, <2>2, <2>3
<1>7. QED
  BY <1>4, <1>5, <1>6

\* And they leave the file good: exact, if it is settled now and nothing has
\* failed for it.
LEMMA WriterGood ==
  ASSUME IInv, NEW w \in Writers, w \in Procs, NEW f \in Files, Holds(w, f), f \in issued,
         Commit(w) \/ Abort(w) \/ LoadRow(w) \/ DropUntracked(w) \/ SettleFails(w) \/ Crash(w)
  PROVE  Good(f)'
<1> DEFINE j == job[w]
           i == job'[w]
           W == WantedBy(w)
<1>1. /\ TypeOK /\ Forms /\ Steady(w) /\ Good(f) /\ job \in [Procs -> Job]
      /\ torn \subseteq records
  BY DEF IInv, Forms, TypeOK
<1>2. /\ Form(w, j) /\ j.goal \in {"stage", "settle", "half"} /\ j.file = f /\ W = Wanted(f, j.text)
      /\ KeysOf({f}) = Own(f) /\ j.doomed \subseteq Own(f)
  BY <1>1, HolderFacts DEF Holds, Form
<1>3. /\ Due(f) \subseteq records
      /\ torn \intersect vectors \intersect Own(f) = {}
      /\ \A k \in (records \ vectors) \intersect Own(f) :
           k \in torn \/ (j.at = "records" /\ k \in j.doomed)
  BY <1>1, BackedByHolder DEF Good, Kept, TornStays
<1>4. i.at # "records" /\ issued' = issued /\ records' = records
  <2>1. issued' = issued
    BY <1>1, WriterElsewhere
  <2>2. i.at # "records"
    BY <1>1, WriterSteady
  <2>3. QED
    BY <2>1, <2>2 DEF Commit, Abort, LoadRow, DropUntracked, SettleFails, Crash
<1>5. ASSUME Due(f)' \subseteq records,
             torn' \intersect vectors' \intersect Own(f) = {},
             (records \ vectors') \intersect Own(f) \subseteq torn',
             f \notin dirty' /\ i.file # f => Exact(f)'
      PROVE  Good(f)'
  <2>1. Kept(f)' /\ TornStays(f)' /\ Backed(f)'
    BY <1>4, <1>5 DEF Kept, TornStays, Backed
  <2>2. Clean(f)'
    BY <1>5 DEF Clean
  <2>3. QED
    BY <2>1, <2>2 DEF Good
<1> HIDE DEF i, j, W
<1>6. CASE Commit(w)
  <2>1. /\ j.at = "open" /\ rows' = [rows EXCEPT ![f] = j.text]
        /\ i = (IF j.new THEN Rest ELSE Settling(f))
        /\ UNCHANGED <<vectors, torn>>
    BY <1>1, <1>2, <1>6 DEF Commit, i, j
  <2>2. Due(f)' = W /\ W \subseteq records
    BY <1>1, <1>2, <2>1 DEF Due, Steady, TypeOK, j, W
  <2>3. j.goal = "stage"
    BY <1>2, <2>1 DEF Form, Calling
  <2>4. CASE j.new
    <3>1. (records \union vectors) \intersect Own(f) \subseteq W /\ W \subseteq Own(f)
      BY <1>1, <1>2, <2>3, <2>4, HolderFacts DEF Steady, j, W
    <3>2. records \intersect Own(f) = W
      BY <2>2, <3>1
    <3>3. vectors \intersect Own(f) = W \ torn
      BY <1>3, <2>1, <2>2, <3>1
    <3>4. Exact(f)'
      BY <1>4, <2>1, <2>2, <3>2, <3>3 DEF Exact
    <3>5. QED
      BY <1>3, <1>5, <2>1, <2>2, <3>4
  <2>5. CASE ~j.new
    <3>1. i.file = f
      BY <2>1, <2>5 DEF Settling, Rest
    <3>2. QED
      BY <1>3, <1>5, <2>1, <2>2, <3>1
  <2>6. QED
    BY <2>4, <2>5
<1>7. CASE Abort(w) \/ LoadRow(w)
  <2>1. /\ j.goal = "stage" \/ j.at = "load"
        /\ rows' = rows /\ UNCHANGED <<vectors, torn>>
        /\ i = Settling(f) \/ i = Call("settle", f, rows[f])
    BY <1>1, <1>2, <1>7 DEF Abort, LoadRow, table, i, j
  <2>2. i.file = f
    <3>1. rows[f] \in Row /\ "settle" \in Goals /\ Settling(f).file = f
      BY <1>1 DEF TypeOK, Goals, Settling, Rest
    <3>2. QED
      BY <2>1, <3>1, CallFacts
  <2>3. j.at # "records" /\ Due(f)' = Due(f)
    BY <1>2, <2>1 DEF Form, Due, Calling
  <2>4. QED
    BY <1>3, <1>5, <2>1, <2>2, <2>3
<1>8. CASE DropUntracked(w)
  <2>1. /\ j.at = "untracked" /\ vectors' = vectors \ (Own(f) \ records)
        /\ dirty' = (IF j.goal = "settle" THEN dirty \ {f} ELSE dirty)
        /\ rows' = rows /\ UNCHANGED torn
    BY <1>2, <1>8 DEF DropUntracked, table, j
  <2>2. j.goal \in {"settle", "half"} /\ Due(f)' = Due(f)
    BY <1>2, <2>1 DEF Form, Due, Calling
  <2>3. CASE j.goal = "settle"
    <3>1. records \intersect Own(f) = Due(f)
      BY <1>1, <1>2, <2>1, <2>3 DEF Steady, Due, j, W
    <3>2. vectors' \intersect Own(f) = Due(f) \ torn
      BY <1>3, <2>1, <3>1
    <3>3. Exact(f)'
      BY <1>4, <2>1, <2>2, <3>1, <3>2 DEF Exact
    <3>4. QED
      BY <1>3, <1>5, <2>1, <2>2, <3>3
  <2>4. CASE j.goal = "half"
    <3>1. f \in dirty'
      BY <1>2, <2>1, <2>4 DEF IInv, Alone, j
    <3>2. QED
      BY <1>3, <1>5, <2>1, <2>2, <3>1
  <2>5. QED
    BY <2>2, <2>3, <2>4
<1>9. CASE SettleFails(w) \/ Crash(w)
  <2>1. f \in dirty' /\ torn' = torn \union Tears(w) /\ rows' = rows /\ UNCHANGED vectors
    BY <1>2, <1>9 DEF SettleFails, Crash, table, j
  <2>2. Due(f)' = Due(f)
    BY <2>1 DEF Due
  <2>3. Tears(w) = (IF j.at = "records" THEN j.doomed \intersect records ELSE {})
        /\ (j.at = "records" => j.doomed \intersect vectors = {})
    BY <1>1 DEF Tears, Steady, j
  <2>4. torn' \intersect vectors \intersect Own(f) = {}
    BY <1>3, <2>1, <2>3
  <2>5. (records \ vectors) \intersect Own(f) \subseteq torn'
    BY <1>3, <2>1, <2>3
  <2>6. QED
    BY <1>5, <2>1, <2>2, <2>4, <2>5, <1>3
<1>10. QED
  BY <1>6, <1>7, <1>8, <1>9

\* What remains of the invariant, file by file and process by process, after a
\* step of p that concerns file f alone.
LEMMA FileByFile ==
  ASSUME IInv, NEW p \in Procs, NEW f \in Files, Elsewhere(p, f),
         job[p].file \in {f, None}, job[p].goal # "sweep",
         \A q \in Procs \ {p} : job[q] = Rest \/ (q # Rebuild /\ job[q].file # f),
         Steady(p)', Good(f)'
  PROVE  (\A q \in Procs : Steady(q)') /\ (\A g \in Files : Good(g)')
<1>1. \A q \in Procs \ {p} : Steady(q)'
  BY OtherSteady DEF IInv
<1>2. \A g \in Files \ {f} : Good(g)'
  BY OtherGood DEF IInv
<1>3. QED
  BY <1>1, <1>2

\* Who is alone stays alone, when nobody takes up another file.
LEMMA StaysAlone ==
  ASSUME IInv, NEW p \in Procs, NEW f \in Files, Elsewhere(p, f), issued \subseteq issued',
         job'[p].file \in {f, None}, f \in issued',
         p = Rebuild \/ job'[Rebuild] = Rest,
         \A q \in Procs \ {p} : job[q] = Rest \/ job[q].file # f,
         p = Rebuild => \A w \in Writers : job[w] = Rest,
         job'[p].goal = "half" => job'[p].file \in dirty'
  PROVE  Alone'
<1>1. \A w \in Writers : w \in Procs /\ w # Rebuild
  BY DEF Procs
<1>2. ASSUME NEW q \in Procs \ {p}
      PROVE  /\ job'[q].file = job[q].file /\ job'[q].goal = job[q].goal
             /\ job[q] = Rest => job'[q] = Rest
             /\ job[q].file \in (issued \ {f}) \union {None}
             /\ job[q].goal = "half" => job[q].file \in Files \ {f} /\ job[q].file \in dirty
  <2>1. /\ job'[q].file = job[q].file /\ job'[q].goal = job[q].goal
        /\ job[q] = Rest => job'[q] = Rest
    <3>1. PICK K \in SUBSET Own(f) : GoesOn(job[q], job'[q], K)
      BY DEF Elsewhere
    <3>2. QED
      BY <3>1, RestFacts DEF GoesOn
  <2>2. job[q].file \in issued \union {None} /\ (job[q].goal = "half" => job[q].file \in dirty)
    BY DEF IInv, Alone
  <2>3. job[q].file # f
    BY RestFacts
  <2>4. job[q].goal = "half" => job[q].file \in Files
    BY DEF IInv, Forms, Form
  <2>5. QED
    BY <2>1, <2>2, <2>3, <2>4
<1>3. ASSUME NEW v \in Writers, NEW w \in Writers, v # w, job'[v].file = job'[w].file
      PROVE  job'[v].file = None
  <2>1. CASE v # p /\ w # p
    BY <1>1, <1>2, <1>3, <2>1 DEF IInv, Alone
  <2>2. CASE v = p \/ w = p
    BY <1>1, <1>2, <1>3, <2>2
  <2>3. QED
    BY <2>1, <2>2
<1>4. job'[Rebuild] # Rest => \A w \in Writers : job'[w] = Rest
  BY <1>1, <1>2
<1>5. \A q \in Procs : job'[q].file \in issued' \union {None}
  BY <1>2
<1>6. \A q \in Procs : job'[q].goal = "half" => job'[q].file \in dirty'
  BY <1>2 DEF Elsewhere
<1>7. QED
  BY <1>3, <1>4, <1>5, <1>6 DEF Alone

\* Every step of a session that is at work keeps the invariant.
LEMMA WriterStep ==
  ASSUME IInv, NEW w \in Writers,
         \/ IndexStep(w)
         \/ Commit(w) \/ Abort(w) \/ LoadRow(w) \/ DropUntracked(w) \/ SettleFails(w) \/ Crash(w)
  PROVE  Alone' /\ (\A q \in Procs : Steady(q)') /\ Rebuilding' /\ (\A g \in Files : Good(g)')
<1>0. PICK f : f = job[w].file
  OBVIOUS
<1>1. job[w] # Rest
  <2>1. job[w] = Rest => job[w].at = "idle" /\ job[w].goal = "none"
    BY RestFacts
  <2>2. QED
    BY <2>1 DEF IndexStep, Exists, Refresh, AddVectors, UpsertRecords, ListStale, DropVectors,
                DropRecords, Commit, Abort, LoadRow, DropUntracked, SettleFails, Crash
<1>2. w \in Procs /\ f \in Files /\ Holds(w, f) /\ f \in issued /\ job[Rebuild] = Rest
  BY <1>0, <1>1, WriterHolds
<1>3. TypeOK /\ Forms /\ Steady(w) /\ Good(f) /\ Rebuilding
  BY <1>2 DEF IInv
<1>4. /\ \A q \in Procs \ {w} : job[q] = Rest \/ (q # Rebuild /\ job[q].file # f)
      /\ job[w].file = f /\ job[w].goal # "sweep" /\ w # Rebuild /\ Rebuild \in Procs
  BY <1>2 DEF Holds, Procs
<1>5. /\ Elsewhere(w, f) /\ issued' = issued /\ fresh' = fresh
      /\ Steady(w)' /\ Good(f)' /\ job'[w].file \in {f, None}
      /\ job'[w].goal = "half" => job'[w].file \in dirty'
  <2>1. CASE IndexStep(w)
    <3>1. Elsewhere(w, f) /\ Steady(w)' /\ Good(f)'
      BY <1>2, <1>3, <2>1, IndexElsewhere, IndexSteady, IndexGood
    <3>2. issued' = issued /\ fresh' = fresh /\ dirty' = dirty
      BY <1>2, <2>1 DEF IndexStep, Exists, Refresh, AddVectors, UpsertRecords, ListStale,
                        DropVectors, DropRecords, Touch, table
    <3>3. job'[w].file = job[w].file /\ job'[w].goal = job[w].goal
      BY <1>2, <1>3, <2>1, IndexFields
    <3>4. QED
      BY <1>2, <1>4, <3>1, <3>2, <3>3 DEF IInv, Alone
  <2>2. CASE Commit(w) \/ Abort(w) \/ LoadRow(w) \/ DropUntracked(w) \/ SettleFails(w) \/ Crash(w)
    <3>1. Elsewhere(w, f) /\ issued' = issued /\ fresh' = fresh
      BY <1>2, <1>3, <2>2, WriterElsewhere
    <3>2. /\ Steady(w)' /\ job'[w].file \in {f, None}
          /\ job'[w].goal = "half" => SettleFails(w) /\ job'[w].file = f
      BY <1>2, <1>3, <2>2, WriterSteady
    <3>3. Good(f)'
      BY <1>2, <2>2, WriterGood
    <3>4. SettleFails(w) => f \in dirty'
      BY <1>4 DEF SettleFails
    <3>5. QED
      BY <3>1, <3>2, <3>3, <3>4
  <2>3. QED
    BY <2>1, <2>2
<1>6. job'[Rebuild] = Rest
  BY <1>2, <1>4, <1>5, RestFacts DEF Elsewhere, GoesOn
<1>7. Rebuilding'
  <2>1. fresh = {}
    BY <1>2, <1>3, RestFacts DEF Rebuilding
  <2>2. QED
    BY <1>5, <1>6, <2>1, RestFacts DEF Rebuilding
<1>8. Alone'
  BY <1>2, <1>4, <1>5, <1>6, StaysAlone
<1>9. QED
  BY <1>2, <1>4, <1>5, <1>7, <1>8, FileByFile

\* A session begins to write a file that nobody else is writing.
LEMMA BeginStep ==
  ASSUME IInv, Apart, RebuildAlone, NEW w \in Writers, NEW f \in Files,
         NEW t \in Texts \union {Gone}, BeginWrite(w, f, t)
  PROVE  Alone' /\ (\A q \in Procs : Steady(q)') /\ Rebuilding' /\ (\A g \in Files : Good(g)')
<1> DEFINE c == Call("stage", f, t)
           i == [c EXCEPT !.new = rows[f] = NoRow]
<1>1. /\ TypeOK /\ Forms /\ Good(f) /\ Rebuilding /\ job \in [Procs -> Job]
      /\ w \in Procs /\ w # Rebuild /\ Rebuild \in Procs /\ t \in Row
  BY DEF IInv, Forms, Procs, Row
<1>2. /\ job[w] = Rest /\ \A v \in Writers : job[v].file # f
      /\ job[Rebuild] = Rest
      /\ rows[f] = NoRow => f \notin issued
  BY DEF BeginWrite
<1>3. /\ job' = [job EXCEPT ![w] = i] /\ issued' = issued \union {f}
      /\ UNCHANGED <<rows, vectors, records, torn, dirty, fresh>>
  BY DEF BeginWrite
<1>4. \A q \in Procs \ {w} : job'[q] = job[q]
  BY <1>1, <1>3
<1>5. /\ c \in Job /\ c.goal = "stage" /\ c.file = f /\ c.text = t /\ c.doomed = {}
      /\ c.at = IF Wanted(f, t) # {} THEN "exists" ELSE "open"
  <2>1. "stage" \in Goals
    BY DEF Goals
  <2>2. QED
    BY <1>1, <2>1, CallFacts
<1> HIDE DEF c
<1>6. /\ i.goal = "stage" /\ i.file = f /\ i.text = t
      /\ i.at = IF Wanted(f, t) # {} THEN "exists" ELSE "open"
      /\ i.new => rows[f] = NoRow
  BY <1>5 DEF Job
<1> HIDE DEF i
<1>7. job'[w] = i
  BY <1>1, <1>3
<1>8. Elsewhere(w, f)
  <2>1. \A j : GoesOn(j, j, {})
    BY DEF GoesOn
  <2>2. QED
    BY <1>3, <1>4, <2>1 DEF Elsewhere
<1>9. Steady(w)'
  <2>1. i.new => (records \union vectors) \intersect Own(f) = {}
    BY <1>1, <1>2, <1>6 DEF Good, Kept
  <2>2. WantedBy(w)' = Wanted(f, t)
    BY <1>6, <1>7 DEF WantedBy
  <2>3. i.at = "open" => Wanted(f, t) = {}
    BY <1>6
  <2>4. QED
    BY <1>3, <1>6, <1>7, <2>1, <2>2, <2>3 DEF Steady
<1>10. Good(f)'
  <2>1. Kept(f)' /\ TornStays(f)'
    BY <1>1, <1>3 DEF Good, Kept, TornStays, Due
  <2>2. Backed(f)'
    <3>1. job[w].at = "idle"
      BY <1>2, RestFacts
    <3>2. QED
      BY <1>1, <1>3, <1>4, <3>1 DEF Good, Backed
  <2>3. Clean(f)'
    BY <1>6, <1>7 DEF Clean
  <2>4. QED
    BY <2>1, <2>2, <2>3 DEF Good
<1>11. \A q \in Procs \ {w} : job[q] = Rest \/ (q # Rebuild /\ job[q].file # f)
  BY <1>2 DEF Procs
<1>12. Alone'
  <2>1. job'[Rebuild] = Rest /\ job'[w].file = f /\ job'[w].goal = "stage"
    BY <1>1, <1>2, <1>4, <1>6, <1>7
  <2>2. QED
    BY <1>1, <1>3, <1>8, <1>11, <2>1, StaysAlone
<1>13. Rebuilding'
  <2>1. job'[Rebuild] = Rest /\ fresh' = {}
    BY <1>1, <1>2, <1>3, <1>4, RestFacts DEF Rebuilding
  <2>2. QED
    BY <2>1, RestFacts DEF Rebuilding
<1>14. QED
  <2>1. job[w].file = None /\ job[w].goal = "none"
    BY <1>2, RestFacts
  <2>2. QED
    BY <1>1, <1>8, <1>9, <1>10, <1>11, <1>12, <1>13, <2>1, FileByFile

-----------------------------------------------------------------------------
\* reindex_all.

\* While it runs, everybody else is at rest, and what has no vector is torn
\* or being deleted by it.
LEMMA RebuildFacts ==
  ASSUME IInv, job[Rebuild] # Rest \/ \A w \in Writers : job[w] = Rest
  PROVE  /\ \A w \in Writers : job[w] = Rest
         /\ Rebuild \in Procs /\ job[Rebuild] \in Job /\ Form(Rebuild, job[Rebuild])
         /\ job \in [Procs -> Job]
         /\ \A g \in Files : \A k \in (records \ vectors) \intersect Own(g) :
              k \in torn \/ (job[Rebuild].at = "records" /\ k \in job[Rebuild].doomed)
         /\ \A g \in Files \ dirty : Exact(g)
         /\ \A g \in Files : /\ Due(g) \subseteq records /\ Due(g) \subseteq Own(g)
                             /\ torn \intersect vectors \intersect Own(g) = {}
<1>1. \A w \in Writers : job[w] = Rest
  BY DEF IInv, Alone
<1>2. \A w \in Writers : job[w].at = "idle" /\ job[w].file = None
  BY <1>1, RestFacts
<1>3. Rebuild \in Procs /\ job \in [Procs -> Job] /\ job[Rebuild] \in Job /\ Form(Rebuild, job[Rebuild])
  BY DEF IInv, Forms, Procs
<1>4. ASSUME NEW g \in Files
      PROVE  Backed(g) /\ Clean(g) /\ Kept(g) /\ TornStays(g) /\ rows[g] \in Row
  BY DEF IInv, Good, TypeOK
<1>5. \A g \in Files : \A k \in (records \ vectors) \intersect Own(g) :
        k \in torn \/ (job[Rebuild].at = "records" /\ k \in job[Rebuild].doomed)
  BY <1>2, <1>4 DEF Backed, Procs
<1>6. \A g \in Files \ dirty : Exact(g)
  BY <1>2, <1>4, NoneAssumption DEF Clean
<1>7. \A g \in Files : /\ Due(g) \subseteq records /\ Due(g) \subseteq Own(g)
                       /\ torn \intersect vectors \intersect Own(g) = {}
  BY <1>4, WantedFacts DEF Kept, TornStays, Due
<1>8. QED
  BY <1>1, <1>3, <1>5, <1>6, <1>7

\* Its own steps leave the sessions at rest.
LEMMA SessionsRest ==
  ASSUME IInv, \A w \in Writers : job[w] = Rest, NEW i, job' = [job EXCEPT ![Rebuild] = i],
         i.file \in issued' \union {None}, i.goal # "half", issued' = issued
  PROVE  /\ Alone' /\ job'[Rebuild] = i /\ \A w \in Writers : job'[w] = Rest /\ Steady(w)'
<1>1. Rebuild \in Procs /\ job \in [Procs -> Job] /\ \A w \in Writers : w \in Procs /\ w # Rebuild
  BY DEF IInv, Forms, Procs
<1>2. job'[Rebuild] = i /\ \A w \in Writers : job'[w] = Rest
  BY <1>1
<1>3. Alone'
  BY <1>1, <1>2, RestFacts DEF Alone, Procs
<1>4. \A w \in Writers : Steady(w)'
  BY <1>2, RestFacts DEF Steady
<1>5. QED
  BY <1>2, <1>3, <1>4

\* An index call of reindex_all: when it is over, the file's chunks are fresh.
LEMMA RebuildIndexStep ==
  ASSUME IInv, IndexStep(Rebuild), job[Rebuild].goal = "rebuild"
  PROVE  Alone' /\ (\A q \in Procs : Steady(q)') /\ Rebuilding' /\ (\A g \in Files : Good(g)')
<1>0. PICK f : f = job[Rebuild].file
  OBVIOUS
<1> DEFINE j == job[Rebuild]
           i == job'[Rebuild]
           W == WantedBy(Rebuild)
<1>1. /\ \A w \in Writers : job[w] = Rest
      /\ Rebuild \in Procs /\ j \in Job /\ Form(Rebuild, j) /\ j # Rest
      /\ TypeOK /\ Forms /\ Alone /\ Steady(Rebuild) /\ Rebuilding
  BY RebuildFacts, RestFacts DEF IInv
<1>2. j.at # "next" /\ f \in Files /\ f \in issued
  <2>1. j.at # "next"
    BY DEF IndexStep, Exists, Refresh, AddVectors, UpsertRecords, ListStale, DropVectors, DropRecords
  <2>2. f \in Files
    BY <1>0, <1>1, <2>1 DEF Form
  <2>3. QED
    BY <1>0, <1>1, <2>1, <2>2 DEF Alone
<1>3. \A q \in Procs \ {Rebuild} : job[q] = Rest
  BY <1>1 DEF Procs
<1>4. Holds(Rebuild, f) /\ Good(f)
  BY <1>0, <1>2, <1>3 DEF Holds, IInv
<1>5. Elsewhere(Rebuild, f) /\ Steady(Rebuild)' /\ Good(f)'
  BY <1>1, <1>2, <1>4, IndexElsewhere, IndexSteady, IndexGood
<1>6. i.file = f /\ i.goal = "rebuild"
  BY <1>0, <1>1, <1>2, <1>4, IndexFields
<1>7. /\ rows' = rows /\ issued' = issued /\ loaded' = loaded /\ failed' = failed
  BY DEF IndexStep, Exists, Refresh, AddVectors, UpsertRecords, ListStale,
         DropVectors, DropRecords, Touch, table, run
<1>8. Alone'
  BY <1>1, <1>2, <1>3, <1>5, <1>6, <1>7, StaysAlone
<1>9. Rebuilding'
  <2>1. W = Due(f) /\ W \subseteq Own(f) /\ j.found \subseteq W
    <3>1. W = Due(f)
      BY <1>0, <1>1, <1>2 DEF Steady, Due, WantedBy
    <3>2. QED
      BY <1>1, <1>2, <1>4, <3>1, HolderFacts
  <2>2. fresh' = fresh \/ fresh' = fresh \union j.found \/ fresh' = fresh \union W
    BY DEF IndexStep, Exists, Refresh, AddVectors, UpsertRecords, ListStale,
           DropVectors, DropRecords, Touch
  <2>3. fresh \subseteq fresh' /\ fresh' \subseteq fresh \union Due(f)
    BY <2>1, <2>2
  <2>4. \A g \in Files : Due(g)' = Due(g)
    BY <1>7 DEF Due
  <2>5. ASSUME NEW g \in Files
        PROVE  fresh' \intersect Own(g) \subseteq Due(g)
    <3>1. CASE g = f
      BY <1>1, <2>3, <3>1 DEF Rebuilding
    <3>2. CASE g # f
      <4>1. Own(f) \intersect Own(g) = {}
        BY <3>2, OwnFacts
      <4>2. QED
        BY <1>1, <2>1, <2>3, <4>1 DEF Rebuilding
    <3>3. QED
      BY <3>1, <3>2
  <2>6. i.at \in Calling \/ Due(f) \subseteq fresh' \/ j.at \notin Calling
    <3>1. CASE UpsertRecords(Rebuild)
      <4>1. fresh' = fresh \union W
        BY <1>1, <3>1 DEF UpsertRecords, Touch
      <4>2. QED
        BY <2>1, <4>1
    <3>2. CASE Exists(Rebuild) \/ Refresh(Rebuild) \/ AddVectors(Rebuild)
      BY <1>1, <1>2, <1>4, <3>2, IndexFields DEF Calling
    <3>3. CASE ListStale(Rebuild) \/ DropVectors(Rebuild) \/ DropRecords(Rebuild)
      BY <3>3 DEF ListStale, DropVectors, DropRecords, Calling
    <3>4. QED
      BY <3>1, <3>2, <3>3 DEF IndexStep
  <2>7. ASSUME NEW g \in Files
        PROVE  /\ loaded[g] \in {NoRow, rows[g]}
               /\ rows[g] \in Texts /\ loaded[g] = NoRow =>
                    g \in failed \/ Due(g) \subseteq fresh' \/ (i.file = g /\ i.at \in Calling)
    <3>1. /\ loaded[g] \in {NoRow, rows[g]}
          /\ rows[g] \in Texts /\ loaded[g] = NoRow =>
               g \in failed \/ Due(g) \subseteq fresh \/ (f = g /\ j.at \in Calling)
      BY <1>0, <1>1 DEF Rebuilding
    <3>2. QED
      BY <1>6, <2>3, <2>6, <3>1
  <2>8. QED
    BY <1>6, <1>7, <2>4, <2>5, <2>7 DEF Rebuilding
<1>10. QED
  BY <1>0, <1>1, <1>2, <1>3, <1>5, <1>8, <1>9, FileByFile

\* It starts, takes up the next file, or goes on to the sweep: no table changes.
LEMMA RebuildTurns ==
  ASSUME IInv, RebuildAlone, StartRebuild \/ Sweep \/ \E f \in Files : RebuildFile(f)
  PROVE  Alone' /\ (\A q \in Procs : Steady(q)') /\ Rebuilding' /\ (\A g \in Files : Good(g)')
<1> DEFINE j == job[Rebuild]
<1>1. job[Rebuild] # Rest \/ \A w \in Writers : job[w] = Rest
  BY RestFacts DEF StartRebuild, Sweep, RebuildFile
<1>2. /\ \A w \in Writers : job[w] = Rest
      /\ Rebuild \in Procs /\ j \in Job /\ Form(Rebuild, j) /\ job \in [Procs -> Job]
      /\ TypeOK /\ Rebuilding /\ \A g \in Files : Good(g) /\ Due(g) \subseteq records
  BY <1>1, RebuildFacts DEF IInv
<1>3. j.at \in {"idle", "next"}
  BY RestFacts DEF StartRebuild, Sweep, RebuildFile
<1>4. /\ UNCHANGED <<rows, issued, vectors, records, torn, dirty>>
      /\ \A g : Due(g)' = Due(g)
  BY DEF StartRebuild, Sweep, RebuildFile, table, run, Due
<1>5. ASSUME NEW i, job' = [job EXCEPT ![Rebuild] = i], i.file \in issued \union {None},
             i.goal # "half", Steady(Rebuild)', Rebuilding'
      PROVE  Alone' /\ (\A q \in Procs : Steady(q)') /\ Rebuilding' /\ (\A g \in Files : Good(g)')
  <2>1. Alone' /\ job'[Rebuild] = i /\ \A w \in Writers : job'[w] = Rest /\ Steady(w)'
    BY <1>2, <1>4, <1>5, SessionsRest
  <2>2. \A q \in Procs : Steady(q)'
    BY <1>5, <2>1 DEF Procs
  <2>3. ASSUME NEW g \in Files
        PROVE  Good(g)'
    <3>1. Kept(g)' /\ TornStays(g)'
      BY <1>2, <1>4 DEF Good, Kept, TornStays
    <3>2. Backed(g)'
      BY <1>2, <1>3, <1>4, <2>1, RestFacts DEF Good, Backed, Procs
    <3>3. Clean(g)'
      BY <1>2, <1>4, <2>1 DEF Good, Clean, Exact
    <3>4. QED
      BY <3>1, <3>2, <3>3 DEF Good
  <2>4. QED
    BY <1>5, <2>1, <2>2, <2>3
<1>6. CASE StartRebuild
  <2> DEFINE i == [Rest EXCEPT !.at = "next", !.goal = "rebuild"]
  <2>1. i.at = "next" /\ i.goal = "rebuild" /\ i.file = None /\ i.doomed = {}
    BY DEF Rest
  <2>2. job' = [job EXCEPT ![Rebuild] = i] /\ fresh' = {}
        /\ loaded' = [f \in Files |-> IF rows[f] \in Texts THEN rows[f] ELSE NoRow]
    BY <1>6 DEF StartRebuild
  <2> HIDE DEF i
  <2>3. job'[Rebuild] = i
    BY <1>2, <2>2
  <2>4. Steady(Rebuild)'
    BY <2>1, <2>3 DEF Steady
  <2>5. Rebuilding'
    BY <1>4, <2>1, <2>2, <2>3 DEF Rebuilding
  <2>6. QED
    BY <1>5, <2>1, <2>2, <2>4, <2>5
<1>7. ASSUME NEW f \in Files, RebuildFile(f)
      PROVE  Alone' /\ (\A q \in Procs : Steady(q)') /\ Rebuilding' /\ (\A g \in Files : Good(g)')
  <2> DEFINE i == Call("rebuild", f, loaded[f])
  <2>1. /\ job' = [job EXCEPT ![Rebuild] = i] /\ fresh' = fresh /\ failed' = failed
        /\ loaded' = [loaded EXCEPT ![f] = NoRow] /\ loaded[f] # NoRow /\ j.at = "next"
    BY <1>7 DEF RebuildFile
  <2>2. j.goal = "rebuild"
    BY <1>2, <2>1, RestFacts DEF Form, Calling
  <2>3. loaded[f] = rows[f] /\ rows[f] \in Row /\ f \in issued
    BY <1>2, <2>1, <2>2 DEF Rebuilding, TypeOK, Good, Kept
  <2>4. /\ i.goal = "rebuild" /\ i.file = f /\ i.text = rows[f]
        /\ i.at = IF Due(f) # {} THEN "exists" ELSE "list"
    <3>1. "rebuild" \in Goals
      BY DEF Goals
    <3>2. QED
      BY <2>3, <3>1, CallFacts DEF Due
  <2> HIDE DEF i
  <2>5. job'[Rebuild] = i /\ WantedBy(Rebuild)' = Due(f)
    BY <1>2, <2>1, <2>4 DEF WantedBy, Due
  <2>6. Steady(Rebuild)'
    BY <1>4, <2>4, <2>5 DEF Steady
  <2>7. ASSUME NEW g \in Files
        PROVE  /\ loaded'[g] \in {NoRow, rows[g]}
               /\ rows[g] \in Texts /\ loaded'[g] = NoRow =>
                    g \in failed \/ Due(g) \subseteq fresh \/ (i.file = g /\ i.at \in Calling)
    <3>1. /\ loaded[g] \in {NoRow, rows[g]}
          /\ rows[g] \in Texts /\ loaded[g] = NoRow => g \in failed \/ Due(g) \subseteq fresh
      BY <1>2, <2>1, <2>2 DEF Rebuilding, Calling
    <3>2. g # f => loaded'[g] = loaded[g]
      BY <1>2, <2>1 DEF TypeOK
    <3>3. loaded'[f] = NoRow /\ (Due(f) # {} => i.at \in Calling)
      BY <1>2, <2>1, <2>4 DEF TypeOK, Calling
    <3>4. QED
      BY <2>4, <3>1, <3>2, <3>3
  <2>8. Rebuilding'
    BY <1>2, <1>4, <2>1, <2>4, <2>5, <2>7 DEF Rebuilding
  <2>9. QED
    BY <1>5, <2>1, <2>3, <2>4, <2>6, <2>8
<1>8. CASE Sweep
  <2> DEFINE D == records \ (fresh \union KeysOf(failed))
             i == [Rest EXCEPT !.goal = "sweep", !.doomed = D,
                     !.at = IF D # {} THEN "vectors" ELSE "untracked"]
  <2>1. /\ job' = [job EXCEPT ![Rebuild] = i] /\ fresh' = fresh /\ failed' = failed
        /\ \A f \in Files : loaded[f] = NoRow
    BY <1>8 DEF Sweep, run
  <2>2. i.goal = "sweep" /\ i.file = None /\ i.doomed = D /\ i.at \in {"vectors", "untracked"}
    BY DEF Rest
  <2>3. j.at = "next"
    BY <1>8 DEF Sweep
  <2>4. j.goal = "rebuild"
    BY <1>2, <2>3, RestFacts DEF Form, Calling
  <2> HIDE DEF i
  <2>5. job'[Rebuild] = i
    BY <1>2, <2>1
  <2>6. Steady(Rebuild)'
    BY <2>2, <2>5 DEF Steady
  <2>7. ASSUME NEW g \in Files
        PROVE  /\ D \intersect Due(g) = {}
               /\ g \notin failed => (records \intersect Own(g)) \ D = Due(g)
    <3>1. fresh \intersect Own(g) \subseteq Due(g) /\ Due(g) \subseteq records
      BY <1>2 DEF Rebuilding
    <3>2. g \in failed \/ Due(g) \subseteq fresh
      <4>1. rows[g] \in Texts => g \in failed \/ Due(g) \subseteq fresh
        BY <1>2, <2>1, <2>3, <2>4 DEF Rebuilding, Calling
      <4>2. rows[g] \notin Texts => Due(g) = {}
        BY WantedFacts DEF Due
      <4>3. QED
        BY <4>1, <4>2
    <3>3. \A k \in Own(g) : k \in KeysOf(failed) <=> g \in failed
      BY OwnFacts
    <3>4. Due(g) \subseteq Own(g)
      BY <1>2, WantedFacts DEF Due, TypeOK
    <3>5. QED
      BY <3>1, <3>2, <3>3, <3>4
  <2>8. D \subseteq records
    OBVIOUS
  <2> HIDE DEF D
  <2>9. Rebuilding'
    BY <1>2, <1>4, <2>1, <2>2, <2>5, <2>7, <2>8 DEF Rebuilding
  <2>10. QED
    BY <1>5, <2>1, <2>2, <2>6, <2>9
<1>9. QED
  BY <1>6, <1>7, <1>8

\* A file fails: it keeps what it has, and the next one follows.
LEMMA RebuildFails ==
  ASSUME IInv, RebuildFileFails
  PROVE  Alone' /\ (\A q \in Procs : Steady(q)') /\ Rebuilding' /\ (\A g \in Files : Good(g)')
<1>0. PICK f : f = job[Rebuild].file
  OBVIOUS
<1> DEFINE j == job[Rebuild]
           i == [Rest EXCEPT !.at = "next", !.goal = "rebuild"]
<1>1. j.goal = "rebuild" /\ j.at # "next" /\ j # Rest
  BY RestFacts DEF RebuildFileFails
<1>2. /\ \A w \in Writers : job[w] = Rest
      /\ Rebuild \in Procs /\ Form(Rebuild, j) /\ job \in [Procs -> Job]
      /\ TypeOK /\ Forms /\ Steady(Rebuild) /\ Rebuilding
      /\ \A g \in Files \ dirty : Exact(g)
  BY <1>1, RebuildFacts DEF IInv
<1>3. f \in Files /\ f \in issued /\ \A q \in Procs \ {Rebuild} : job[q] = Rest
  BY <1>0, <1>1, <1>2 DEF Form, IInv, Alone, Procs
<1>4. Holds(Rebuild, f) /\ Good(f)
  BY <1>0, <1>1, <1>3 DEF Holds, IInv
<1>5. i.at = "next" /\ i.goal = "rebuild" /\ i.file = None /\ i.doomed = {}
  BY DEF Rest
<1>6. /\ job' = [job EXCEPT ![Rebuild] = i] /\ torn' = torn \union Tears(Rebuild)
      /\ failed' = failed \union {f}
      /\ UNCHANGED <<rows, issued, vectors, records, loaded, fresh, dirty>>
  BY <1>0 DEF RebuildFileFails, table
<1> HIDE DEF i
<1>7. job'[Rebuild] = i /\ \A q \in Procs \ {Rebuild} : job'[q] = job[q]
  BY <1>2, <1>6
<1>8. /\ j.doomed \subseteq Own(f) /\ Due(f) \subseteq Own(f) /\ WantedBy(Rebuild) = Due(f)
      /\ j.at = "records" => j.doomed \intersect vectors = {}
      /\ j.at = "records" => j.doomed \subseteq records /\ (records \intersect Own(f)) \ j.doomed = Due(f)
  <2>1. WantedBy(Rebuild) = Due(f)
    BY <1>0, <1>1, <1>2 DEF Steady, WantedBy, Due
  <2>2. j.doomed \subseteq Own(f) /\ Due(f) \subseteq Own(f)
    BY <1>2, <1>3, <1>4, HolderFacts
  <2>3. QED
    BY <1>0, <1>1, <1>2, <2>1, <2>2 DEF Steady
<1>9. Tears(Rebuild) = (IF j.at = "records" THEN j.doomed \intersect records ELSE {})
  BY DEF Tears
<1>10. Elsewhere(Rebuild, f)
  <2>1. \A x : GoesOn(x, x, {})
    BY DEF GoesOn
  <2>2. \A g \in Files \ {f} : torn' \intersect Own(g) = torn \intersect Own(g)
    BY <1>6, <1>8, <1>9, OwnFacts
  <2>3. QED
    BY <1>6, <1>7, <2>1, <2>2 DEF Elsewhere
<1>11. Steady(Rebuild)'
  BY <1>5, <1>7 DEF Steady
<1>12. Good(f)'
  <2>1. /\ Due(f) \subseteq records /\ torn \intersect vectors \intersect Own(f) = {}
        /\ \A k \in (records \ vectors) \intersect Own(f) :
             k \in torn \/ (j.at = "records" /\ k \in j.doomed)
    BY <1>2, <1>3, <1>4, BackedByHolder DEF Good, Kept, TornStays
  <2>2. Kept(f)'
    BY <1>3, <1>6, <2>1 DEF Kept, Due
  <2>3. TornStays(f)'
    BY <1>6, <1>8, <1>9, <2>1 DEF TornStays
  <2>4. Backed(f)'
    BY <1>6, <1>9, <2>1 DEF Backed
  <2>5. f \notin dirty => Tears(Rebuild) = {}
    BY <1>2, <1>3, <1>8, <1>9 DEF Exact
  <2>6. Clean(f)'
    BY <1>2, <1>3, <1>6, <2>5 DEF Clean, Exact, Due
  <2>7. QED
    BY <2>2, <2>3, <2>4, <2>6 DEF Good
<1>13. Rebuilding'
  <2>1. \A g : Due(g)' = Due(g)
    BY <1>6 DEF Due
  <2>2. QED
    BY <1>0, <1>1, <1>2, <1>5, <1>6, <1>7, <2>1 DEF Rebuilding
<1>14. Alone'
  BY <1>2, <1>5, <1>6, SessionsRest
<1>15. QED
  BY <1>0, <1>1, <1>2, <1>3, <1>10, <1>11, <1>12, <1>13, <1>14, FileByFile

\* The sweep deletes nothing of a clean file, and nothing that is due.
LEMMA SweepStep ==
  ASSUME IInv, IndexStep(Rebuild), job[Rebuild].goal = "sweep"
  PROVE  Alone' /\ (\A q \in Procs : Steady(q)') /\ Rebuilding' /\ (\A g \in Files : Good(g)')
<1> DEFINE j == job[Rebuild]
           i == job'[Rebuild]
<1>1. /\ \A w \in Writers : job[w] = Rest
      /\ Rebuild \in Procs /\ j \in Job /\ Form(Rebuild, j) /\ job \in [Procs -> Job]
      /\ TypeOK /\ Forms /\ Alone /\ Steady(Rebuild) /\ Rebuilding
      /\ \A g \in Files : \A k \in (records \ vectors) \intersect Own(g) :
           k \in torn \/ (j.at = "records" /\ k \in j.doomed)
      /\ \A g \in Files \ dirty : Exact(g)
      /\ \A g \in Files : /\ Due(g) \subseteq records /\ Due(g) \subseteq Own(g)
                          /\ torn \intersect vectors \intersect Own(g) = {}
  BY RebuildFacts, RestFacts DEF IInv
<1>2. j.at \in {"vectors", "records", "untracked"} /\ j.doomed \subseteq records
  BY <1>1 DEF Form, Rebuilding
<1>3. \A g \in Files : /\ j.doomed \intersect Due(g) = {}
                       /\ g \notin failed => (records \intersect Own(g)) \ j.doomed = Due(g)
                       /\ fresh \intersect Own(g) \subseteq Due(g)
  BY <1>1 DEF Rebuilding
<1>4. DropVectors(Rebuild) \/ DropRecords(Rebuild)
  BY <1>2 DEF IndexStep, Exists, Refresh, AddVectors, UpsertRecords, ListStale
<1>5. /\ UNCHANGED <<rows, issued, failed, fresh, loaded, dirty>>
      /\ \A g : Due(g)' = Due(g)
  BY <1>4 DEF DropVectors, DropRecords, table, run, Due
\* A clean file's records are due.
<1>6. \A g \in Files \ dirty : j.doomed \intersect Own(g) = {}
  BY <1>1, <1>2, <1>3 DEF Exact
<1>7. ASSUME NEW x, job' = [job EXCEPT ![Rebuild] = x], x.file = j.file, x.goal = "sweep",
             \/ /\ x.at = "records" /\ x.doomed = j.doomed
                /\ records' = records /\ vectors' = vectors \ j.doomed /\ torn' = torn
             \/ /\ x.at = "untracked" /\ x.doomed = {} /\ j.at = "records"
                /\ records' = records \ j.doomed /\ vectors' = vectors
                /\ torn' = torn \ j.doomed
      PROVE  Alone' /\ (\A q \in Procs : Steady(q)') /\ Rebuilding' /\ (\A g \in Files : Good(g)')
  <2>1. Alone' /\ job'[Rebuild] = x /\ \A w \in Writers : job'[w] = Rest /\ Steady(w)'
    BY <1>1, <1>5, <1>7, SessionsRest DEF Alone
  <2>2. Steady(Rebuild)'
    BY <1>7, <2>1 DEF Steady
  <2>3. Rebuilding'
    BY <1>2, <1>3, <1>5, <1>7, <2>1 DEF Rebuilding
  <2>4. ASSUME NEW g \in Files
        PROVE  Good(g)'
    <3>1. Kept(g)'
      BY <1>1, <1>3, <1>5, <1>7 DEF Kept, IInv, Good
    <3>2. TornStays(g)'
      BY <1>1, <1>7 DEF TornStays
    <3>3. Backed(g)'
      BY <1>1, <1>7, <2>1 DEF Backed
    <3>4. Clean(g)'
      <4> SUFFICES ASSUME g \notin dirty PROVE Exact(g)'
        BY <1>5 DEF Clean
      <4>1. Exact(g) /\ j.doomed \intersect Own(g) = {} /\ Due(g)' = Due(g) /\ Due(g) \subseteq Own(g)
        BY <1>1, <1>5, <1>6
      <4>2. QED
        BY <1>7, <4>1 DEF Exact
    <3>5. QED
      BY <3>1, <3>2, <3>3, <3>4 DEF Good
  <2>5. QED
    BY <2>1, <2>2, <2>3, <2>4 DEF Procs
<1>8. CASE DropVectors(Rebuild)
  <2>1. /\ job' = [job EXCEPT ![Rebuild] = At(j, "records")]
        /\ records' = records /\ vectors' = vectors \ j.doomed /\ torn' = torn
    BY <1>8 DEF DropVectors, Goto, At
  <2>2. /\ At(j, "records").file = j.file /\ At(j, "records").goal = "sweep"
        /\ At(j, "records").at = "records" /\ At(j, "records").doomed = j.doomed
    BY <1>1 DEF At, Job
  <2>3. QED
    BY <1>7, <2>1, <2>2
<1>9. CASE DropRecords(Rebuild)
  <2>1. /\ job' = [job EXCEPT ![Rebuild] = Dooms(j, {}, "untracked")] /\ j.at = "records"
        /\ records' = records \ j.doomed /\ vectors' = vectors /\ torn' = torn \ j.doomed
    BY <1>9 DEF DropRecords, Dooms
  <2>2. /\ Dooms(j, {}, "untracked").file = j.file /\ Dooms(j, {}, "untracked").goal = "sweep"
        /\ Dooms(j, {}, "untracked").at = "untracked" /\ Dooms(j, {}, "untracked").doomed = {}
    BY <1>1 DEF Dooms, Job
  <2>3. QED
    BY <1>7, <2>1, <2>2
<1>10. QED
  BY <1>4, <1>8, <1>9

\* It ends, and what did not fail is exact; or it dies, and what it was
\* deleting or had failed is no longer known to be.
LEMMA RebuildEnds ==
  ASSUME IInv, EndRebuild \/ Crash(Rebuild)
  PROVE  Alone' /\ (\A q \in Procs : Steady(q)') /\ Rebuilding' /\ (\A g \in Files : Good(g)')
<1> DEFINE j == job[Rebuild]
<1>1. j # Rest
  BY RestFacts DEF EndRebuild, Crash
<1>2. /\ \A w \in Writers : job[w] = Rest
      /\ Rebuild \in Procs /\ Form(Rebuild, j) /\ job \in [Procs -> Job] /\ Rebuild \notin Writers
      /\ TypeOK /\ Forms /\ Alone /\ Steady(Rebuild) /\ Rebuilding
      /\ \A g \in Files : \A k \in (records \ vectors) \intersect Own(g) :
           k \in torn \/ (j.at = "records" /\ k \in j.doomed)
      /\ \A g \in Files \ dirty : Exact(g)
      /\ \A g \in Files : /\ Due(g) \subseteq records /\ Due(g) \subseteq Own(g)
                          /\ torn \intersect vectors \intersect Own(g) = {}
  BY <1>1, RebuildFacts DEF IInv
<1>3. /\ job' = [job EXCEPT ![Rebuild] = Rest] /\ fresh' = {}
      /\ UNCHANGED <<rows, issued, records>>
      /\ \A g : Due(g)' = Due(g)
  BY DEF EndRebuild, Crash, table, Due
<1>4. Alone' /\ job'[Rebuild] = Rest /\ \A w \in Writers : job'[w] = Rest /\ Steady(w)'
  BY <1>2, <1>3, RestFacts, SessionsRest
<1>5. Steady(Rebuild)' /\ Rebuilding'
  BY <1>3, <1>4, RestFacts DEF Steady, Rebuilding
<1>6. ASSUME NEW g \in Files, vectors' \subseteq vectors,
             torn' \intersect vectors' \intersect Own(g) = {},
             (records \ vectors') \intersect Own(g) \subseteq torn',
             g \notin dirty' => Exact(g)'
      PROVE  Good(g)'
  <2>1. Kept(g)
    BY DEF IInv, Good
  <2>2. Kept(g)'
    BY <1>3, <1>6, <2>1 DEF Kept
  <2>3. QED
    BY <1>3, <1>6, <2>2 DEF Good, TornStays, Backed, Clean
<1>7. CASE EndRebuild
  <2>1. /\ vectors' = vectors \intersect records /\ dirty' = failed /\ UNCHANGED torn
        /\ j.at = "untracked"
    BY <1>7 DEF EndRebuild
  <2>2. j.goal = "sweep" /\ j.doomed = {}
    BY <1>2, <2>1, RestFacts DEF Form, Calling
  <2>3. ASSUME NEW g \in Files, g \notin failed
        PROVE  Exact(g)'
    <3>1. records \intersect Own(g) = Due(g)
      BY <1>2, <2>2, <2>3 DEF Rebuilding
    <3>2. vectors' \intersect Own(g) = Due(g) \ torn
      BY <1>2, <2>1, <3>1
    <3>3. QED
      BY <1>3, <2>1, <3>1, <3>2 DEF Exact
  <2>4. \A g \in Files : Good(g)'
    <3>1. ASSUME NEW g \in Files
          PROVE  /\ vectors' \subseteq vectors
                 /\ torn' \intersect vectors' \intersect Own(g) = {}
                 /\ (records \ vectors') \intersect Own(g) \subseteq torn'
      BY <1>2, <2>1, <2>2
    <3>2. ASSUME NEW g \in Files
          PROVE  Good(g)'
      <4>1. g \notin dirty' => Exact(g)'
        BY <2>1, <2>3
      <4>2. QED
        BY <1>6, <3>1, <4>1
    <3>3. QED
      BY <3>2
  <2>5. QED
    BY <1>4, <1>5, <2>4 DEF Procs
<1>8. CASE Crash(Rebuild)
  <2>1. /\ vectors' = vectors /\ torn' = torn \union Tears(Rebuild)
        /\ dirty \subseteq dirty' /\ {k[1] : k \in j.doomed} \subseteq dirty'
    BY <1>8 DEF Crash
  <2>2. /\ Tears(Rebuild) = (IF j.at = "records" THEN j.doomed \intersect records ELSE {})
        /\ j.at = "records" => j.doomed \intersect vectors = {}
    BY <1>2 DEF Tears, Steady
  <2>3. ASSUME NEW g \in Files, g \notin dirty'
        PROVE  Exact(g)'
    <3>1. Exact(g)
      BY <1>2, <2>1, <2>3
    <3>2. Tears(Rebuild) \intersect Own(g) = {}
      BY <2>1, <2>2, <2>3, OwnFacts
    <3>3. Due(g) \subseteq Own(g) /\ Due(g)' = Due(g)
      BY <1>2, <1>3
    <3>4. QED
      BY <1>3, <2>1, <3>1, <3>2, <3>3 DEF Exact
  <2>4. \A g \in Files : Good(g)'
    <3>1. ASSUME NEW g \in Files
          PROVE  /\ vectors' \subseteq vectors
                 /\ torn' \intersect vectors' \intersect Own(g) = {}
                 /\ (records \ vectors') \intersect Own(g) \subseteq torn'
      BY <1>2, <2>1, <2>2
    <3>2. ASSUME NEW g \in Files
          PROVE  Good(g)'
      <4>1. g \notin dirty' => Exact(g)'
        BY <2>3
      <4>2. QED
        BY <1>6, <3>1, <4>1
    <3>3. QED
      BY <3>2
  <2>5. QED
    BY <1>4, <1>5, <2>4 DEF Procs
<1>9. QED
  BY <1>7, <1>8

-----------------------------------------------------------------------------
\* The theorems.

\* At the start there is nothing.
LEMMA InitIInv == Init => IInv
<1> SUFFICES ASSUME Init PROVE IInv
  OBVIOUS
<1>1. TypeOK /\ Forms
  BY InitTypes
<1>2. /\ \A p \in Procs : job[p] = Rest
      /\ \A f \in Files : Due(f) = {}
      /\ records = {} /\ vectors = {} /\ torn = {} /\ fresh = {}
      /\ rows = [f \in Files |-> NoRow]
  BY WantedFacts DEF Init, Due
<1>3. Alone
  BY <1>2, RestFacts DEF Alone, Procs
<1>4. (\A p \in Procs : Steady(p)) /\ Rebuilding
  BY <1>2, RestFacts DEF Steady, Rebuilding, Procs
<1>5. \A f \in Files : Good(f)
  BY <1>2 DEF Good, Kept, TornStays, Backed, Clean, Exact
<1>6. QED
  BY <1>1, <1>3, <1>4, <1>5 DEF IInv

\* Every step keeps the invariant, if writes of one file do not overlap and
\* reindex_all runs alone.
LEMMA NextIInv ==
  ASSUME IInv, Apart, RebuildAlone, [Next]_vars
  PROVE  IInv'
<1>1. TypeOK' /\ Forms'
  BY NextTypes DEF IInv
<1>2. ASSUME Alone' /\ (\A q \in Procs : Steady(q)') /\ Rebuilding' /\ (\A g \in Files : Good(g)')
      PROVE  IInv'
  BY <1>1, <1>2 DEF IInv
<1>3. CASE UNCHANGED vars
  <2>1. UNCHANGED <<rows, issued, vectors, records, job, loaded, fresh, failed, torn, dirty>>
    BY <1>3 DEF vars, table, run
  <2>2. Alone' /\ Rebuilding'
    BY <2>1 DEF IInv, Alone, Rebuilding, Due
  <2>3. \A q \in Procs : Steady(q)'
    BY <2>1 DEF IInv, Steady, WantedBy
  <2>4. \A g \in Files : Good(g)'
    BY <2>1 DEF IInv, Good, Kept, TornStays, Backed, Clean, Exact, Due
  <2>5. QED
    BY <1>2, <2>2, <2>3, <2>4
<1>4. ASSUME NEW w \in Writers,
             \/ IndexStep(w)
             \/ Commit(w) \/ Abort(w) \/ LoadRow(w) \/ DropUntracked(w) \/ SettleFails(w) \/ Crash(w)
      PROVE  IInv'
  BY <1>2, <1>4, WriterStep
<1>5. ASSUME NEW w \in Writers, NEW f \in Files, NEW t \in Texts \union {Gone}, BeginWrite(w, f, t)
      PROVE  IInv'
  BY <1>2, <1>5, BeginStep
<1>6. CASE IndexStep(Rebuild)
  <2>1. job[Rebuild].goal \in {"none", "rebuild", "sweep"}
        /\ (job[Rebuild].goal = "none" => job[Rebuild].at = "idle")
    BY RestFacts DEF IInv, Forms, Form, Procs
  <2>2. job[Rebuild].at # "idle"
    BY <1>6 DEF IndexStep, Exists, Refresh, AddVectors, UpsertRecords, ListStale, DropVectors,
                DropRecords
  <2>3. QED
    BY <1>2, <1>6, <2>1, <2>2, RebuildIndexStep, SweepStep
<1>7. CASE StartRebuild \/ Sweep \/ \E f \in Files : RebuildFile(f)
  BY <1>2, <1>7, RebuildTurns
<1>8. CASE RebuildFileFails
  BY <1>2, <1>8, RebuildFails
<1>9. CASE EndRebuild \/ Crash(Rebuild)
  BY <1>2, <1>9, RebuildEnds
<1>10. QED
  BY <1>3, <1>4, <1>5, <1>6, <1>7, <1>8, <1>9 DEF Next, Procs

\* The invariant holds, under the same two rules.
LEMMA Inductive == Apart /\ RebuildAlone => (Spec => []IInv)
<1> SUFFICES ASSUME Apart, RebuildAlone PROVE Spec => []IInv
  OBVIOUS
<1>1. Init => IInv
  BY InitIInv
<1>2. IInv /\ [Next]_vars => IInv'
  BY NextIInv
<1>3. QED
  BY <1>1, <1>2, PTL DEF Spec

\* What a process is deleting is not due.
LEMMA DoomSparesDue ==
  ASSUME IInv, NEW p \in Procs, NEW f \in Files
  PROVE  job[p].doomed \intersect Due(f) = {}
<1> DEFINE j == job[p]
<1>1. Form(p, j) /\ Steady(p) /\ Rebuilding /\ rows[f] \in Row /\ j.text \in Row
  BY DEF IInv, Forms, TypeOK, Job
<1>2. Due(f) \subseteq Own(f)
  BY <1>1, WantedFacts DEF Due
<1>3. CASE j.at \notin {"vectors", "records"}
  BY <1>1, <1>3 DEF Form
<1>4. CASE j.goal = "sweep"
  BY <1>1, <1>4 DEF Rebuilding, Form
<1>5. CASE j.at \in {"vectors", "records"} /\ j.goal # "sweep"
  <2>1. j.goal \in {"settle", "rebuild"} /\ j.file \in Files
    BY <1>1, <1>5, RestFacts DEF Form, Calling
  <2>2. Wanted(j.file, j.text) = Due(j.file) /\ j.doomed \subseteq Own(j.file)
    BY <1>1, <1>5, <2>1 DEF Steady, Due, Form
  <2>3. j.doomed \intersect Due(j.file) = {}
    BY <1>1, <1>5, <2>2 DEF Steady, WantedBy
  <2>4. CASE f = j.file
    BY <2>3, <2>4
  <2>5. CASE f # j.file
    BY <1>2, <2>2, <2>5, OwnFacts
  <2>6. QED
    BY <2>4, <2>5
<1>6. QED
  BY <1>3, <1>4, <1>5

\* A record means that the vector is there, but while a deletion is between the
\* two, or where one died there: index() adds the vectors first, and deletes
\* them first.
THEOREM RecordsAreTrue == Apart /\ RebuildAlone => (Spec => []RecordsHaveVectors)
<1>1. IInv => RecordsHaveVectors
  <2> SUFFICES ASSUME IInv, NEW k \in records \ vectors
               PROVE  k \in torn \/ \E p \in Procs : job[p].at = "records" /\ k \in job[p].doomed
    BY DEF RecordsHaveVectors
  <2>1. k \in Keys
    BY DEF IInv, TypeOK
  <2>2. k[1] \in Files /\ k \in Own(k[1])
    BY <2>1, OwnFacts
  <2>3. QED
    BY <2>2 DEF IInv, Good, Backed
<1>2. QED
  BY <1>1, Inductive, PTL

\* Whatever fails, wherever a process dies, and while everything is rebuilt,
\* the chunks of a committed text are there, but for those that a deletion tore
\* in a reconcile or rebuild of an earlier text.
THEOREM CommittedIsFindable == Apart /\ RebuildAlone => (Spec => []Findable)
<1>1. IInv => Findable
  <2> SUFFICES ASSUME IInv, NEW f \in Files, NEW k \in Due(f), k \notin torn, k \notin vectors
               PROVE  FALSE
    BY DEF Findable, Due
  <2>1. k \in records /\ k \in Own(f)
    BY WantedFacts DEF IInv, Good, Kept, TypeOK, Due
  <2>2. PICK p \in Procs : k \in job[p].doomed
    BY <2>1 DEF IInv, Good, Backed
  <2>3. QED
    BY <2>2, DoomSparesDue
<1>2. QED
  BY <1>1, Inductive, PTL

\* Once a file is reconciled, or everything rebuilt, and nothing has failed for
\* it since, its chunks are exactly those of the committed text, whatever had
\* failed before.
THEOREM SettledIsExact == Apart /\ RebuildAlone => (Spec => []IndexExact)
<1>1. IInv => IndexExact
  BY DEF IInv, IndexExact, Settled, Good, Clean, Exact, Due, Own
<1>2. QED
  BY <1>1, Inductive, PTL
=============================================================================
