----------------------------- MODULE ConvertPool ----------------------------
(***************************************************************************)
(* convert_documents (kb.ingest.convert): the files of one ingest are run  *)
(* through their processors, the slow ones in a process pool that all      *)
(* requests share.  A pool that breaks, or holds a conversion that hangs,  *)
(* is dropped and replaced under the other requests.                       *)
(*                                                                         *)
(* The executor itself (concurrent.futures) is external: its futures start, *)
(* finish, are cancelled or break at any time its contract allows.         *)
(***************************************************************************)

EXTENDS Naturals, Sequences, FiniteSets, FiniteSetsExt, SequencesExt

CONSTANTS
  Requests,  \* the ingests that run in this process
  Workers,   \* KB_INGEST_WORKERS
  NoPool     \* _pool is None

ASSUME WorkersAssumption == Workers \in Nat \ {0}
ASSUME NoPoolAssumption == NoPool \notin Nat

VARIABLES
  pool,     \* _pool: the number of the current executor, or NoPool
  execs,    \* every executor this process has started
  futures,  \* the future of each item a request has handed to an executor
  call      \* where each request is in convert_documents

poolVars == <<pool, execs, futures, call>>

Formats == {"text", "loader"}  \* a verbatim processor, a cpu_bound one
Nowhere == [exec |-> NoPool, state |-> "none"]
Unfinished == {"pending", "running"}
States == Unfinished \union {"none", "doc", "error", "overran", "cancelled", "broken"}
Results == {"none", "doc", "error", "timed out", "reset", "crashed"}

Fresh == [broken |-> FALSE, shut |-> FALSE, killed |-> FALSE]

\* `todo` holds the items still to be submitted, or to be waited for.
Idle == [at |-> "idle", items |-> <<>>, exec |-> NoPool, again |-> FALSE, todo |-> {},
         kill |-> FALSE, then |-> "wait", results |-> <<>>]

At(r, where) == call[r].at = where
Items(r) == 1..Len(call[r].items)
Exec(r) == execs[call[r].exec]

\* With one worker there is no pool.
OffloadOf(items) ==
  IF Workers >= 2 THEN {i \in 1..Len(items) : items[i] = "loader"} ELSE {}
Offload(r) == OffloadOf(call[r].items)

PoolInit ==
  /\ pool = NoPool
  /\ execs = <<>>
  /\ futures = [r \in Requests |-> <<>>]
  /\ call = [r \in Requests |-> Idle]

-----------------------------------------------------------------------------
\* The call, and the submissions.

Enter(r, items) ==
  /\ At(r, "idle")
  /\ call' = [call EXCEPT ![r] = [Idle EXCEPT
       !.at = IF OffloadOf(items) = {} THEN "local" ELSE "get",
       !.items = items, !.results = [i \in 1..Len(items) |-> "none"]]]
  /\ futures' = [futures EXCEPT ![r] = [i \in 1..Len(items) |-> Nowhere]]
  /\ UNCHANGED <<pool, execs>>

\* Mutant: what was submitted to the pool that broke is not submitted again.
GetPoolForTheRest(r) ==
  /\ At(r, "get")
  /\ execs' = IF pool = NoPool THEN Append(execs, Fresh) ELSE execs
  /\ pool' = IF pool = NoPool THEN Len(execs) + 1 ELSE pool
  /\ call' = [call EXCEPT ![r].at = "submit", ![r].exec = pool',
                          ![r].todo = {i \in Offload(r) : futures[r][i] = Nowhere}]
  /\ UNCHANGED futures

\* _get_pool, under the lock; nothing has been submitted to this one yet.
GetPool(r) ==
  /\ At(r, "get")
  /\ execs' = IF pool = NoPool THEN Append(execs, Fresh) ELSE execs
  /\ pool' = IF pool = NoPool THEN Len(execs) + 1 ELSE pool
  /\ call' = [call EXCEPT ![r].at = "submit", ![r].exec = pool', ![r].todo = Offload(r)]
  /\ futures' = [futures EXCEPT ![r] = [i \in Items(r) |-> Nowhere]]

Submit(r) ==
  /\ At(r, "submit")
  /\ ~Exec(r).broken /\ ~Exec(r).shut
  /\ LET i == Min(call[r].todo) IN
     /\ futures' = [futures EXCEPT ![r][i] = [exec |-> call[r].exec, state |-> "pending"]]
     /\ call' = [call EXCEPT ![r].todo = @ \ {i},
                             ![r].at = IF call[r].todo = {i} THEN "local" ELSE "submit"]
  /\ UNCHANGED <<pool, execs>>

\* It broke since the last call: the request discards it and starts over, once.
StartOver(r) ==
  /\ At(r, "submit") /\ Exec(r).broken /\ ~call[r].again
  /\ call' = [call EXCEPT ![r].again = TRUE, ![r].at = "drop", ![r].kill = FALSE, ![r].then = "get"]
  /\ UNCHANGED <<pool, execs, futures>>

\* It broke a second time, or another request has shut it: submit raises, and so
\* does convert_documents.
SubmitRaises(r) ==
  /\ At(r, "submit")
  /\ (Exec(r).broken /\ call[r].again) \/ (Exec(r).shut /\ ~Exec(r).broken)
  /\ call' = [call EXCEPT ![r].at = "raised"]
  /\ UNCHANGED <<pool, execs, futures>>

-----------------------------------------------------------------------------
\* The items that stay in the process, and the wait for the others.

\* Mutant: the files of this process are converted only where there is no pool.
AllOrNone(r) == IF Offload(r) = {} THEN Items(r) ELSE {}

LocalItems(r) == Items(r) \ Offload(r)

Local(r) ==
  /\ At(r, "local")
  /\ \E outcome \in [LocalItems(r) -> {"doc", "error"}] :
       call' = [call EXCEPT ![r].at = "wait", ![r].todo = Offload(r),
         ![r].results = [i \in Items(r) |-> IF i \in LocalItems(r) THEN outcome[i] ELSE "none"]]
  /\ UNCHANGED <<pool, execs, futures>>

\* The futures are waited for one by one, in order.
Waiting(r) == At(r, "wait") /\ call[r].todo # {}
Next1(r) == Min(call[r].todo)
StateOf(r) == futures[r][Next1(r)].state

Conclude(r, result) ==
  [call[r] EXCEPT !.results[Next1(r)] = result, !.todo = @ \ {Next1(r)}]

Discarding(c, kill) == [c EXCEPT !.at = "drop", !.kill = kill, !.then = "wait"]

Answered(r) ==
  /\ Waiting(r) /\ StateOf(r) \in {"doc", "error"}
  /\ call' = [call EXCEPT ![r] = Conclude(r, StateOf(r))]
  /\ UNCHANGED <<pool, execs, futures>>

WasReset(r) ==
  /\ Waiting(r) /\ StateOf(r) = "cancelled"
  /\ call' = [call EXCEPT ![r] = Conclude(r, "reset")]
  /\ UNCHANGED <<pool, execs, futures>>

WasBroken(r) ==
  /\ Waiting(r) /\ StateOf(r) = "broken"
  /\ call' = [call EXCEPT ![r] = Discarding(Conclude(r, "crashed"), FALSE)]
  /\ UNCHANGED <<pool, execs, futures>>

\* Mutant: the limit counts only from when a worker takes the file.
OverdueWhenRunning(r) == StateOf(r) \in {"running", "overran"}

\* The limit counts from the beginning of the wait.  A processor that raises
\* TimeoutError itself is taken for one that ran out of time.
Overdue(r) == StateOf(r) \in Unfinished \union {"overran"}

TimesOut(r) ==
  /\ Waiting(r) /\ Overdue(r)
  /\ call' = [call EXCEPT ![r] = Discarding(Conclude(r, "timed out"), TRUE)]
  /\ UNCHANGED <<pool, execs, futures>>

Return(r) ==
  /\ At(r, "wait") /\ call[r].todo = {}
  /\ call' = [call EXCEPT ![r].at = "done"]
  /\ UNCHANGED <<pool, execs, futures>>

-----------------------------------------------------------------------------
\* _discard_pool: first under the lock, then on the executor itself.

\* Mutant: whatever pool there is by now is forgotten.
DropAny(r) ==
  /\ At(r, "drop")
  /\ pool' = NoPool
  /\ call' = [call EXCEPT ![r].at = "shut"]
  /\ UNCHANGED <<execs, futures>>

Drop(r) ==
  /\ At(r, "drop")
  /\ pool' = IF pool = call[r].exec THEN NoPool ELSE pool
  /\ call' = [call EXCEPT ![r].at = "shut"]
  /\ UNCHANGED <<execs, futures>>

Shut(r) ==
  /\ At(r, "shut")
  /\ execs' = [execs EXCEPT ![call[r].exec].shut = TRUE,
                            ![call[r].exec].killed = @ \/ call[r].kill]
  /\ call' = [call EXCEPT ![r].at = call[r].then]
  /\ UNCHANGED <<pool, futures>>

ConvertStep(r) ==
  \/ GetPool(r) \/ Submit(r) \/ StartOver(r) \/ SubmitRaises(r) \/ Local(r)
  \/ Answered(r) \/ WasReset(r) \/ WasBroken(r) \/ TimesOut(r) \/ Return(r)
  \/ Drop(r) \/ Shut(r)

-----------------------------------------------------------------------------
\* The executors.

SetState(e, from, to) ==
  [r \in Requests |-> [i \in DOMAIN futures[r] |->
     IF futures[r][i].exec = e /\ futures[r][i].state \in from
     THEN [futures[r][i] EXCEPT !.state = to] ELSE futures[r][i]]]

Holds(e, states) ==
  UNION {{r} \X {i \in DOMAIN futures[r] :
                   futures[r][i].exec = e /\ futures[r][i].state \in states} : r \in Requests}

\* One item more than there are workers is taken from the queue.
StartItem(r, i) ==
  LET f == futures[r][i] IN
  /\ f.state = "pending"
  /\ Cardinality(Holds(f.exec, {"running"})) <= Workers
  /\ futures' = [futures EXCEPT ![r][i].state = "running"]
  /\ UNCHANGED <<pool, execs, call>>

FinishItem(r, i) ==
  /\ futures[r][i].state = "running"
  /\ \E s \in {"doc", "error", "overran"} : futures' = [futures EXCEPT ![r][i].state = s]
  /\ UNCHANGED <<pool, execs, call>>

\* A worker crashes, or was killed: everything unfinished breaks.
WorkerDies(e) ==
  /\ ~execs[e].broken
  /\ Holds(e, {"running"}) # {} \/ execs[e].killed
  /\ execs' = [execs EXCEPT ![e].broken = TRUE]
  /\ futures' = SetState(e, Unfinished, "broken")
  /\ UNCHANGED <<pool, call>>

\* cancel_futures: what has not been started when it is shut.
CancelPending(e) ==
  /\ execs[e].shut /\ Holds(e, {"pending"}) # {}
  /\ futures' = SetState(e, {"pending"}, "cancelled")
  /\ UNCHANGED <<pool, execs, call>>

ExecutorStep ==
  \/ \E r \in Requests : \E i \in Items(r) : StartItem(r, i) \/ FinishItem(r, i)
  \/ \E e \in 1..Len(execs) : WorkerDies(e) \/ CancelPending(e)

-----------------------------------------------------------------------------
\* The states are well formed, and a call that has returned has a result for every
\* item: convert_documents fills the whole list, in or out of the pool.
PoolTypeOK ==
  /\ pool \in {NoPool} \union 1..Len(execs)
  /\ \A e \in 1..Len(execs) : execs[e] \in [broken : BOOLEAN, shut : BOOLEAN, killed : BOOLEAN]
  /\ \A r \in Requests :
       /\ call[r].items \in Seq(Formats)
       /\ call[r].results \in [Items(r) -> Results]
       /\ \A i \in Items(r) : futures[r][i].state \in States
       /\ At(r, "done") => \A i \in Items(r) : call[r].results[i] # "none"

\* No executor is lost: each one is the current pool, has been shut down, or some
\* request is about to shut it.  A discard only ever forgets the pool it was called
\* with, however many requests discard at once.
NoPoolLeak ==
  \A e \in 1..Len(execs) :
    \/ pool = e
    \/ execs[e].shut
    \/ \E r \in Requests : call[r].at \in {"drop", "shut"} /\ call[r].exec = e

\* A file is reported as lost to a crash or to a reset only if that happened to the
\* executor the request ended up with, after it went there: what broke before the
\* call is retried unseen.  Only then does convert_documents raise, too.
FailuresHaveACause ==
  \A r \in Requests :
    /\ \A i \in Items(r) :
         /\ call[r].results[i] = "crashed" => Exec(r).broken
         /\ call[r].results[i] = "reset" => Exec(r).shut
    /\ At(r, "raised") => Exec(r).shut \/ Exec(r).broken
=============================================================================
