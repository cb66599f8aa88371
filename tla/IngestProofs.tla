---------------------------- MODULE IngestProofs ----------------------------
(***************************************************************************)
(* Proofs about Ingest: what requests that share a process pool leave of   *)
(* it, and what they may report of the conversions they gave it; that      *)
(* materialize takes every plan of a source and of a paper; and that an    *)
(* ingest that succeeds has taken every file.                              *)
(***************************************************************************)
EXTENDS Ingest, FoldProofs, TLAPS

-----------------------------------------------------------------------------
\* The invariant of the pool.

Fields == {"at", "items", "exec", "again", "todo", "kill", "then", "results"}
ExecutorRow == [broken : BOOLEAN, shut : BOOLEAN, killed : BOOLEAN]
Slots(c) == 1..Len(c.items)

\* Call c has an executor, and where it must have one.
Has(c, xs) == c.exec \in 1..Len(xs)
NeedsOne(c) ==
  \/ c.at \in {"submit", "drop", "shut", "raised"}
  \/ c.at = "local" /\ OffloadOf(c.items) # {}
  \/ c.at = "wait" /\ c.todo # {}

\* Before the wait nothing is reported; a discard may be on the way to a second
\* attempt.
Early(c) ==
  \/ c.at \in {"idle", "get", "submit", "local", "raised"}
  \/ c.at \in {"drop", "shut"} /\ c.then = "get"

\* A future is of the call's own executor, and ended as that did.
Backed(f, c, xs) ==
  \/ f = Nowhere
  \/ /\ f \in [exec : 1..Len(xs), state : States \ {"none"}]
     /\ f.exec = c.exec
     /\ f.state = "broken" => xs[f.exec].broken
     /\ f.state = "cancelled" => xs[f.exec].shut

\* So is what is reported.
Honest(x, c, xs) ==
  /\ x = "crashed" => Has(c, xs) /\ xs[c.exec].broken
  /\ x = "reset" => Has(c, xs) /\ xs[c.exec].shut
  /\ Early(c) => x = "none"

\* A call, its futures, and the executors.
Sound(c, fs, xs) ==
  /\ DOMAIN c = Fields /\ DOMAIN c.results = Slots(c) /\ DOMAIN fs = Slots(c)
  /\ c.at = "get" => c.exec = NoPool \/ Has(c, xs)
  /\ NeedsOne(c) => Has(c, xs)
  /\ c.at = "raised" => xs[c.exec].shut \/ xs[c.exec].broken
  /\ \A i \in Slots(c) : Backed(fs[i], c, xs) /\ Honest(c.results[i], c, xs)
  /\ c.kill \in BOOLEAN /\ c.then \in {"wait", "get"}

PoolInv ==
  /\ pool \in {NoPool} \union 1..Len(execs)
  /\ execs \in Seq(ExecutorRow)
  /\ DOMAIN call = Requests /\ DOMAIN futures = Requests
  /\ \A r \in Requests : Sound(call[r], futures[r], execs)
  /\ NoPoolLeak

-----------------------------------------------------------------------------
\* Executors are added, and break and are shut for good.

Later(xs, ys) ==
  /\ xs \in Seq(ExecutorRow) /\ ys \in Seq(ExecutorRow) /\ Len(xs) <= Len(ys)
  /\ \A e \in 1..Len(xs) : (xs[e].broken => ys[e].broken) /\ (xs[e].shut => ys[e].shut)

\* What is said of a call stays true.
LEMMA SoundLater ==
  ASSUME NEW c, NEW fs, NEW xs, NEW ys, Later(xs, ys), Sound(c, fs, xs)
  PROVE  Sound(c, fs, ys)
<1>1. 1..Len(xs) \subseteq 1..Len(ys)
  BY DEF Later
<1>2. Has(c, xs) => Has(c, ys)
  BY <1>1 DEF Has
<1>3. \A f : Backed(f, c, xs) => Backed(f, c, ys)
  BY <1>1 DEF Backed, Later
<1>4. \A x : Honest(x, c, xs) => Honest(x, c, ys)
  BY <1>2 DEF Honest, Later, Has
<1>5. c.at = "raised" => ys[c.exec].shut \/ ys[c.exec].broken
  BY DEF Sound, NeedsOne, Has, Later
<1>6. QED
  BY <1>2, <1>3, <1>4, <1>5 DEF Sound

\* A step that changes one call, and nothing else.
LEMMA CallStep ==
  ASSUME PoolInv, NEW r \in Requests, NEW c, UNCHANGED <<pool, execs, futures>>,
         call' = [call EXCEPT ![r] = c], Sound(c, futures[r], execs),
         call[r].at \in {"drop", "shut"} => c.at \in {"drop", "shut"} /\ c.exec = call[r].exec
  PROVE  PoolInv'
<1>1. DOMAIN call' = Requests /\ call'[r] = c /\ \A q \in Requests \ {r} : call'[q] = call[q]
  BY DEF PoolInv
<1>2. \A q \in Requests : Sound(call'[q], futures'[q], execs')
  BY <1>1 DEF PoolInv
<1>3. NoPoolLeak'
  BY <1>1 DEF PoolInv, NoPoolLeak
<1>4. QED
  BY <1>1, <1>2, <1>3 DEF PoolInv

\* A step of the executors, that changes no call.
LEMMA FutureStep ==
  ASSUME PoolInv, UNCHANGED <<pool, call>>, Later(execs, execs'), Len(execs') = Len(execs),
         DOMAIN futures' = Requests,
         \A r \in Requests :
           /\ DOMAIN futures'[r] = DOMAIN futures[r]
           /\ \A i \in Slots(call[r]) :
                Backed(futures[r][i], call[r], execs) => Backed(futures'[r][i], call[r], execs')
  PROVE  PoolInv'
<1>1. \A r \in Requests : Sound(call[r], futures[r], execs')
  BY SoundLater DEF PoolInv
<1>2. \A r \in Requests : Sound(call[r], futures'[r], execs')
  BY <1>1 DEF Sound, PoolInv
<1>3. NoPoolLeak'
  BY DEF PoolInv, NoPoolLeak, Later
<1>4. QED
  BY <1>2, <1>3 DEF PoolInv, Later

-----------------------------------------------------------------------------
\* The steps of one call.

\* It begins, with nothing submitted.
LEMMA EnterKeeps ==
  ASSUME PoolInv, NEW r \in Requests, NEW items, Enter(r, items)
  PROVE  PoolInv'
<1>1. PICK c : c = [Idle EXCEPT
        !.at = IF OffloadOf(items) = {} THEN "local" ELSE "get",
        !.items = items, !.results = [i \in 1..Len(items) |-> "none"]]
  OBVIOUS
<1>2. /\ call' = [call EXCEPT ![r] = c] /\ call[r].at = "idle"
      /\ futures' = [futures EXCEPT ![r] = [i \in 1..Len(items) |-> Nowhere]]
      /\ UNCHANGED <<pool, execs>>
  BY <1>1 DEF Enter, At
<1>3. /\ c.at = (IF OffloadOf(items) = {} THEN "local" ELSE "get")
      /\ c.items = items /\ c.exec = NoPool /\ c.kill = FALSE /\ c.then = "wait"
      /\ c.results = [i \in 1..Len(items) |-> "none"] /\ DOMAIN c = Fields
  BY <1>1 DEF Idle, Fields
<1>4. Sound(c, [i \in 1..Len(items) |-> Nowhere], execs)
  BY <1>3 DEF Sound, Slots, NeedsOne, Backed, Honest
<1>5. /\ DOMAIN call' = Requests /\ DOMAIN futures' = Requests
      /\ call'[r] = c /\ futures'[r] = [i \in 1..Len(items) |-> Nowhere]
      /\ \A q \in Requests \ {r} : call'[q] = call[q] /\ futures'[q] = futures[q]
  BY <1>2 DEF PoolInv
<1>6. \A q \in Requests : Sound(call'[q], futures'[q], execs')
  BY <1>2, <1>4, <1>5 DEF PoolInv
<1>7. NoPoolLeak'
  BY <1>2, <1>5 DEF PoolInv, NoPoolLeak
<1>8. QED
  BY <1>2, <1>5, <1>6, <1>7 DEF PoolInv

\* _get_pool: nothing has been reported yet, and nothing is submitted to this one.
LEMMA GetPoolKeeps ==
  ASSUME PoolInv, NEW r \in Requests, GetPool(r)
  PROVE  PoolInv'
<1>1. /\ call[r].at = "get" /\ Sound(call[r], futures[r], execs)
      /\ execs \in Seq(ExecutorRow) /\ pool \in {NoPool} \union 1..Len(execs)
  BY DEF GetPool, PoolInv, At
<1>2. Fresh \in ExecutorRow
  BY DEF Fresh, ExecutorRow
<1>3. /\ execs' \in Seq(ExecutorRow) /\ pool' \in 1..Len(execs') /\ Later(execs, execs')
      /\ \A e \in 1..Len(execs) : execs'[e] = execs[e]
      /\ \A e \in 1..Len(execs') : e \in 1..Len(execs) \/ e = pool'
  <2>1. CASE pool = NoPool
    <3>1. execs' = Append(execs, Fresh) /\ pool' = Len(execs) + 1
      BY <2>1 DEF GetPool
    <3>2. execs' \in Seq(ExecutorRow) /\ Len(execs') = Len(execs) + 1
          /\ \A e \in 1..Len(execs) : execs'[e] = execs[e]
      BY <1>1, <1>2, <3>1
    <3>3. QED
      BY <1>1, <3>1, <3>2 DEF Later
  <2>2. CASE pool # NoPool
    BY <1>1, <2>2 DEF GetPool, Later
  <2>3. QED
    BY <2>1, <2>2
<1>4. PICK c : c = [call[r] EXCEPT !.at = "submit", !.exec = pool', !.todo = Offload(r)]
  OBVIOUS
<1>5. /\ call' = [call EXCEPT ![r] = c]
      /\ futures' = [futures EXCEPT ![r] = [i \in Items(r) |-> Nowhere]]
  BY <1>4 DEF GetPool
<1>6. /\ c.at = "submit" /\ c.exec = pool' /\ c.items = call[r].items /\ DOMAIN c = Fields
      /\ c.results = call[r].results /\ c.kill = call[r].kill /\ c.then = call[r].then
  BY <1>1, <1>4 DEF Sound, Fields
<1>7. Sound(c, [i \in Items(r) |-> Nowhere], execs')
  <2>1. Items(r) = Slots(c) /\ Slots(c) = Slots(call[r])
    BY <1>6 DEF Items, Slots
  <2>2. Has(c, execs')
    BY <1>3, <1>6 DEF Has
  <2>3. \A i \in Slots(c) : Honest(c.results[i], c, execs')
    BY <1>1, <1>6, <2>1 DEF Sound, Honest, Early
  <2>4. QED
    BY <1>1, <1>6, <2>1, <2>2, <2>3 DEF Sound, Backed
<1>8. /\ DOMAIN call' = Requests /\ DOMAIN futures' = Requests
      /\ call'[r] = c /\ futures'[r] = [i \in Items(r) |-> Nowhere]
      /\ \A q \in Requests \ {r} : call'[q] = call[q] /\ futures'[q] = futures[q]
  BY <1>5 DEF PoolInv
<1>9. \A q \in Requests : Sound(call'[q], futures'[q], execs')
  BY <1>3, <1>7, <1>8, SoundLater DEF PoolInv
<1>10. NoPoolLeak'
  <2> SUFFICES ASSUME NEW e \in 1..Len(execs'), e # pool', ~execs'[e].shut
               PROVE  \E q \in Requests : call'[q].at \in {"drop", "shut"} /\ call'[q].exec = e
    BY DEF NoPoolLeak
  <2>1. e \in 1..Len(execs) /\ execs'[e] = execs[e]
    BY <1>3
  <2>2. pool # e
    BY <1>3, <2>1, NoPoolAssumption DEF GetPool
  <2>3. PICK q \in Requests : call[q].at \in {"drop", "shut"} /\ call[q].exec = e
    BY <2>1, <2>2 DEF PoolInv, NoPoolLeak
  <2>4. QED
    BY <1>1, <1>8, <2>3
<1>11. QED
  BY <1>3, <1>8, <1>9, <1>10 DEF PoolInv

\* One item goes to the executor.
LEMMA SubmitKeeps ==
  ASSUME PoolInv, NEW r \in Requests, Submit(r)
  PROVE  PoolInv'
<1>1. /\ call[r].at = "submit" /\ Sound(call[r], futures[r], execs)
      /\ UNCHANGED <<pool, execs>>
  BY DEF Submit, PoolInv, At
<1>2. PICK i : /\ i = Min(call[r].todo)
               /\ futures' = [futures EXCEPT ![r][i] = [exec |-> call[r].exec, state |-> "pending"]]
               /\ call' = [call EXCEPT ![r].todo = @ \ {i},
                                       ![r].at = IF call[r].todo = {i} THEN "local" ELSE "submit"]
  BY DEF Submit
<1>3. PICK c : c = [call[r] EXCEPT !.todo = @ \ {i},
                                   !.at = IF call[r].todo = {i} THEN "local" ELSE "submit"]
  OBVIOUS
<1>4. PICK f : f = [exec |-> call[r].exec, state |-> "pending"]
  OBVIOUS
<1>5. call' = [call EXCEPT ![r] = c] /\ futures' = [futures EXCEPT ![r] = [futures[r] EXCEPT ![i] = f]]
  BY <1>2, <1>3, <1>4
<1>6. /\ c.at \in {"submit", "local"} /\ c.exec = call[r].exec /\ c.items = call[r].items
      /\ DOMAIN c = Fields
      /\ c.results = call[r].results /\ c.kill = call[r].kill /\ c.then = call[r].then
  BY <1>1, <1>3 DEF Sound, Fields
<1>7. Slots(c) = Slots(call[r]) /\ Has(call[r], execs) /\ Has(c, execs)
  BY <1>1, <1>6 DEF Slots, Has, Sound, NeedsOne
<1>8. Backed(f, c, execs)
  BY <1>4, <1>6, <1>7 DEF Backed, Has, States, Unfinished
<1>9. Sound(c, [futures[r] EXCEPT ![i] = f], execs)
  <2>1. \A k \in Slots(c) : Backed([futures[r] EXCEPT ![i] = f][k], c, execs)
    BY <1>1, <1>6, <1>7, <1>8 DEF Sound, Backed
  <2>2. \A k \in Slots(c) : Honest(c.results[k], c, execs)
    BY <1>1, <1>6, <1>7 DEF Sound, Honest, Early
  <2>3. QED
    BY <1>1, <1>6, <1>7, <2>1, <2>2 DEF Sound
<1>10. /\ DOMAIN call' = Requests /\ DOMAIN futures' = Requests
       /\ call'[r] = c /\ futures'[r] = [futures[r] EXCEPT ![i] = f]
       /\ \A q \in Requests \ {r} : call'[q] = call[q] /\ futures'[q] = futures[q]
  BY <1>5 DEF PoolInv
<1>11. \A q \in Requests : Sound(call'[q], futures'[q], execs')
  BY <1>1, <1>9, <1>10 DEF PoolInv
<1>12. NoPoolLeak'
  BY <1>1, <1>10 DEF PoolInv, NoPoolLeak
<1>13. QED
  BY <1>1, <1>10, <1>11, <1>12 DEF PoolInv

\* The second attempt, or the exception: a pool that broke, or was shut.
LEMMA SubmitEndsKeeps ==
  ASSUME PoolInv, NEW r \in Requests, StartOver(r) \/ SubmitRaises(r)
  PROVE  PoolInv'
<1>1. /\ call[r].at = "submit" /\ Sound(call[r], futures[r], execs)
      /\ UNCHANGED <<pool, execs, futures>>
  BY DEF StartOver, SubmitRaises, PoolInv, At
<1>2. Has(call[r], execs)
  BY <1>1 DEF Sound, NeedsOne
<1>3. CASE StartOver(r)
  <2>1. PICK c : c = [call[r] EXCEPT !.again = TRUE, !.at = "drop", !.kill = FALSE, !.then = "get"]
    OBVIOUS
  <2>2. call' = [call EXCEPT ![r] = c]
    BY <1>3, <2>1 DEF StartOver
  <2>3. /\ c.at = "drop" /\ c.then = "get" /\ c.kill = FALSE /\ c.exec = call[r].exec
        /\ c.items = call[r].items /\ c.results = call[r].results /\ DOMAIN c = Fields
    BY <1>1, <2>1 DEF Sound, Fields
  <2>4. Sound(c, futures[r], execs)
    BY <1>1, <1>2, <2>3 DEF Sound, Slots, Has, Backed, Honest, Early
  <2>5. QED
    BY <1>1, <2>2, <2>4, CallStep
<1>4. CASE SubmitRaises(r)
  <2>1. PICK c : c = [call[r] EXCEPT !.at = "raised"]
    OBVIOUS
  <2>2. call' = [call EXCEPT ![r] = c] /\ (execs[call[r].exec].shut \/ execs[call[r].exec].broken)
    BY <1>4, <2>1 DEF SubmitRaises, Exec
  <2>3. /\ c.at = "raised" /\ c.then = call[r].then /\ c.kill = call[r].kill
        /\ c.exec = call[r].exec
        /\ c.items = call[r].items /\ c.results = call[r].results /\ DOMAIN c = Fields
    BY <1>1, <2>1 DEF Sound, Fields
  <2>4. Sound(c, futures[r], execs)
    BY <1>1, <1>2, <2>2, <2>3 DEF Sound, Slots, Has, Backed, Honest, Early
  <2>5. QED
    BY <1>1, <2>2, <2>4, CallStep
<1>5. QED
  BY <1>3, <1>4

\* The files that stay in the process end as documents or errors of their own.
LEMMA LocalKeeps ==
  ASSUME PoolInv, NEW r \in Requests, Local(r)
  PROVE  PoolInv'
<1>1. /\ call[r].at = "local" /\ Sound(call[r], futures[r], execs)
      /\ UNCHANGED <<pool, execs, futures>>
  BY DEF Local, PoolInv, At
<1>2. PICK outcome \in [LocalItems(r) -> {"doc", "error"}] :
        call' = [call EXCEPT ![r].at = "wait", ![r].todo = Offload(r),
          ![r].results = [i \in Items(r) |-> IF i \in LocalItems(r) THEN outcome[i] ELSE "none"]]
  BY DEF Local
<1>3. PICK R : R = [i \in Items(r) |-> IF i \in LocalItems(r) THEN outcome[i] ELSE "none"]
  OBVIOUS
<1>4. DOMAIN R = Items(r) /\ \A i \in Items(r) : R[i] \in {"doc", "error", "none"}
  BY <1>3
<1>5. PICK c : c = [call[r] EXCEPT !.at = "wait", !.todo = Offload(r), !.results = R]
  OBVIOUS
<1>6. call' = [call EXCEPT ![r] = c]
  BY <1>2, <1>3, <1>5
<1>7. /\ c.at = "wait" /\ c.then = call[r].then /\ c.kill = call[r].kill
      /\ c.exec = call[r].exec /\ c.todo = Offload(r)
      /\ c.items = call[r].items /\ c.results = R /\ DOMAIN c = Fields
  BY <1>1, <1>5 DEF Sound, Fields
<1>8. Slots(c) = Items(r) /\ Slots(call[r]) = Items(r)
  BY <1>7 DEF Slots, Items
<1>9. c.todo # {} => Has(c, execs)
  BY <1>1, <1>7 DEF Sound, NeedsOne, Offload, Has
<1>10. Sound(c, futures[r], execs)
  BY <1>1, <1>4, <1>7, <1>8, <1>9 DEF Sound, Backed, Honest, Early, NeedsOne
<1>11. QED
  BY <1>1, <1>6, <1>10, CallStep

\* The future at the head of the wait is over, or is given up.
LEMMA WaitKeeps ==
  ASSUME PoolInv, NEW r \in Requests,
         Answered(r) \/ WasReset(r) \/ WasBroken(r) \/ TimesOut(r)
  PROVE  PoolInv'
<1>1. /\ call[r].at = "wait" /\ call[r].todo # {} /\ Sound(call[r], futures[r], execs)
      /\ UNCHANGED <<pool, execs, futures>>
  BY DEF Answered, WasReset, WasBroken, TimesOut, Waiting, PoolInv, At
<1>2. Has(call[r], execs)
  BY <1>1 DEF Sound, NeedsOne
<1>3. PICK i : i = Next1(r)
  OBVIOUS
<1>4. PICK x, kill, drops :
        /\ kill \in BOOLEAN /\ drops \in BOOLEAN
        /\ call' = [call EXCEPT ![r] = IF drops THEN Discarding(Conclude(r, x), kill) ELSE Conclude(r, x)]
        /\ x = "crashed" => futures[r][i].state = "broken"
        /\ x = "reset" => futures[r][i].state = "cancelled"
  <2>1. CASE Answered(r)
    <3> WITNESS StateOf(r), FALSE, FALSE
    <3>1. QED
      BY <1>3, <2>1 DEF Answered, StateOf
  <2>2. CASE WasReset(r)
    <3> WITNESS "reset", FALSE, FALSE
    <3>1. QED
      BY <1>3, <2>2 DEF WasReset, StateOf
  <2>3. CASE WasBroken(r)
    <3> WITNESS "crashed", FALSE, TRUE
    <3>1. QED
      BY <1>3, <2>3 DEF WasBroken, StateOf
  <2>4. CASE TimesOut(r)
    <3> WITNESS "timed out", TRUE, TRUE
    <3>1. QED
      BY <1>3, <2>4 DEF TimesOut
  <2>5. QED
    BY <2>1, <2>2, <2>3, <2>4
<1>5. PICK d : d = [call[r] EXCEPT !.results[i] = x, !.todo = @ \ {i}]
  OBVIOUS
<1>6. PICK c : c = IF drops THEN [d EXCEPT !.at = "drop", !.kill = kill, !.then = "wait"] ELSE d
  OBVIOUS
<1>7. call' = [call EXCEPT ![r] = c]
  BY <1>3, <1>4, <1>5, <1>6 DEF Conclude, Discarding
<1>8. /\ d.items = call[r].items /\ d.exec = call[r].exec /\ d.at = "wait"
      /\ d.results = [call[r].results EXCEPT ![i] = x] /\ DOMAIN d = Fields
      /\ d.kill = call[r].kill /\ d.then = call[r].then
  BY <1>1, <1>5 DEF Sound, Fields
<1>9. /\ c.items = call[r].items /\ c.exec = call[r].exec
      /\ c.at = "wait" \/ (c.at = "drop" /\ c.then = "wait")
      /\ c.results = [call[r].results EXCEPT ![i] = x] /\ DOMAIN c = Fields
      /\ c.kill \in BOOLEAN /\ c.then \in {"wait", "get"}
  BY <1>1, <1>4, <1>6, <1>8 DEF Sound, Fields
<1>10. Slots(c) = Slots(call[r]) /\ Has(c, execs) /\ ~Early(c) /\ c.at # "raised"
  BY <1>2, <1>9 DEF Slots, Has, Early
<1>11. \A k \in Slots(c) : Honest(c.results[k], c, execs)
  <2>1. \A k \in Slots(c) \ {i} : Honest(c.results[k], c, execs)
    BY <1>1, <1>9, <1>10 DEF Sound, Honest
  <2>2. i \in Slots(c) => Honest(c.results[i], c, execs)
    <3>1. ASSUME i \in Slots(c)
          PROVE  Backed(futures[r][i], call[r], execs) /\ c.results[i] = x
      BY <1>1, <1>9, <1>10, <3>1 DEF Sound
    <3>2. ASSUME i \in Slots(c), x \in {"crashed", "reset"}
          PROVE  /\ x = "crashed" => execs[call[r].exec].broken
                 /\ x = "reset" => execs[call[r].exec].shut
      BY <1>4, <3>1, <3>2 DEF Backed, Nowhere
    <3>3. QED
      BY <1>9, <1>10, <3>1, <3>2 DEF Honest
  <2>3. QED
    BY <2>1, <2>2
<1>12. \A k \in Slots(c) : Backed(futures[r][k], c, execs)
  BY <1>1, <1>9, <1>10 DEF Sound, Backed
<1>13. Sound(c, futures[r], execs)
  BY <1>1, <1>9, <1>10, <1>11, <1>12 DEF Sound
<1>14. QED
  BY <1>1, <1>7, <1>13, CallStep

\* All are answered.
LEMMA ReturnKeeps ==
  ASSUME PoolInv, NEW r \in Requests, Return(r)
  PROVE  PoolInv'
<1>1. /\ call[r].at = "wait" /\ Sound(call[r], futures[r], execs)
      /\ UNCHANGED <<pool, execs, futures>>
  BY DEF Return, PoolInv, At
<1>2. PICK c : c = [call[r] EXCEPT !.at = "done"]
  OBVIOUS
<1>3. call' = [call EXCEPT ![r] = c]
  BY <1>2 DEF Return
<1>4. /\ c.at = "done" /\ c.then = call[r].then /\ c.kill = call[r].kill
      /\ c.exec = call[r].exec
      /\ c.items = call[r].items /\ c.results = call[r].results /\ DOMAIN c = Fields
  BY <1>1, <1>2 DEF Sound, Fields
<1>5. Sound(c, futures[r], execs)
  BY <1>1, <1>4 DEF Sound, Slots, Has, Backed, Honest, Early, NeedsOne
<1>6. QED
  BY <1>1, <1>3, <1>5, CallStep

\* _discard_pool forgets the pool it was called with, and no other; whoever does
\* so is about to shut it.
LEMMA DropKeeps ==
  ASSUME PoolInv, NEW r \in Requests, Drop(r)
  PROVE  PoolInv'
<1>1. /\ call[r].at = "drop" /\ Sound(call[r], futures[r], execs)
      /\ UNCHANGED <<execs, futures>> /\ pool' = IF pool = call[r].exec THEN NoPool ELSE pool
  BY DEF Drop, PoolInv, At
<1>2. PICK c : c = [call[r] EXCEPT !.at = "shut"]
  OBVIOUS
<1>3. call' = [call EXCEPT ![r] = c]
  BY <1>2 DEF Drop
<1>4. /\ c.at = "shut" /\ c.then = call[r].then /\ c.kill = call[r].kill
      /\ c.exec = call[r].exec
      /\ c.items = call[r].items /\ c.results = call[r].results /\ DOMAIN c = Fields
  BY <1>1, <1>2 DEF Sound, Fields
<1>5. Sound(c, futures[r], execs)
  BY <1>1, <1>4 DEF Sound, Slots, Has, Backed, Honest, Early, NeedsOne
<1>6. DOMAIN call' = Requests /\ call'[r] = c /\ \A q \in Requests \ {r} : call'[q] = call[q]
  BY <1>3 DEF PoolInv
<1>7. \A q \in Requests : Sound(call'[q], futures'[q], execs')
  BY <1>1, <1>5, <1>6 DEF PoolInv
<1>8. NoPoolLeak'
  BY <1>1, <1>4, <1>6 DEF PoolInv, NoPoolLeak
<1>9. QED
  BY <1>1, <1>6, <1>7, <1>8 DEF PoolInv

\* The shutdown, after the lock is released.
LEMMA ShutKeeps ==
  ASSUME PoolInv, NEW r \in Requests, Shut(r)
  PROVE  PoolInv'
<1>1. /\ call[r].at = "shut" /\ Sound(call[r], futures[r], execs)
      /\ UNCHANGED <<pool, futures>> /\ execs \in Seq(ExecutorRow)
  BY DEF Shut, PoolInv, At
<1>2. PICK e \in 1..Len(execs) : e = call[r].exec
  BY <1>1 DEF Sound, NeedsOne, Has
<1>3. /\ execs[e] \in ExecutorRow /\ call[r].kill \in BOOLEAN
  BY <1>1 DEF Sound
<1>4. PICK x : x = [execs[e] EXCEPT !.shut = TRUE, !.killed = @ \/ call[r].kill]
  OBVIOUS
<1>5. execs' = [execs EXCEPT ![e] = x]
  BY <1>2, <1>4 DEF Shut
<1>6. x \in ExecutorRow /\ x.shut /\ x.broken = execs[e].broken
  BY <1>3, <1>4 DEF ExecutorRow
<1>7. /\ execs' \in Seq(ExecutorRow) /\ Len(execs') = Len(execs)
      /\ execs'[e] = x /\ \A d \in 1..Len(execs) \ {e} : execs'[d] = execs[d]
  BY <1>1, <1>5, <1>6
<1>8. Later(execs, execs')
  BY <1>1, <1>6, <1>7 DEF Later
<1>9. PICK c : c = [call[r] EXCEPT !.at = call[r].then]
  OBVIOUS
<1>10. call' = [call EXCEPT ![r] = c]
  BY <1>9 DEF Shut
<1>11. /\ c.at = call[r].then /\ c.then = call[r].then /\ c.kill = call[r].kill
       /\ c.exec = call[r].exec /\ c.at \in {"wait", "get"}
       /\ c.items = call[r].items /\ c.results = call[r].results /\ DOMAIN c = Fields
  BY <1>1, <1>9 DEF Sound, Fields
<1>12. Sound(c, futures[r], execs)
  BY <1>1, <1>2, <1>11 DEF Sound, Slots, Has, Backed, Honest, Early, NeedsOne
<1>13. DOMAIN call' = Requests /\ call'[r] = c /\ \A q \in Requests \ {r} : call'[q] = call[q]
  BY <1>10 DEF PoolInv
<1>14. \A q \in Requests : Sound(call'[q], futures'[q], execs')
  BY <1>1, <1>8, <1>12, <1>13, SoundLater DEF PoolInv
<1>15. NoPoolLeak'
  <2> SUFFICES ASSUME NEW d \in 1..Len(execs), d # e, pool # d, ~execs[d].shut
               PROVE  \E q \in Requests : call'[q].at \in {"drop", "shut"} /\ call'[q].exec = d
    BY <1>1, <1>6, <1>7 DEF NoPoolLeak
  <2>1. PICK q \in Requests : call[q].at \in {"drop", "shut"} /\ call[q].exec = d
    BY DEF PoolInv, NoPoolLeak
  <2>2. QED
    BY <1>2, <1>13, <2>1
<1>16. QED
  BY <1>1, <1>7, <1>13, <1>14, <1>15 DEF PoolInv

-----------------------------------------------------------------------------
\* The steps of the executors.

\* A worker takes an item, or is done with one.
LEMMA ItemKeeps ==
  ASSUME PoolInv, NEW r \in Requests, NEW i \in Items(r), StartItem(r, i) \/ FinishItem(r, i)
  PROVE  PoolInv'
<1>1. /\ Sound(call[r], futures[r], execs) /\ UNCHANGED <<pool, execs, call>>
      /\ i \in Slots(call[r]) /\ execs \in Seq(ExecutorRow)
      /\ futures[r][i].state \in {"pending", "running"}
  BY DEF StartItem, FinishItem, PoolInv, Items, Slots
<1>2. PICK s \in {"running", "doc", "error", "overran"} :
        futures' = [futures EXCEPT ![r][i].state = s]
  BY DEF StartItem, FinishItem
<1>3. PICK f : f = [futures[r][i] EXCEPT !.state = s]
  OBVIOUS
<1>4. futures' = [futures EXCEPT ![r] = [futures[r] EXCEPT ![i] = f]]
  BY <1>2, <1>3
<1>5. Backed(futures[r][i], call[r], execs)
  BY <1>1 DEF Sound
<1>6. futures[r][i] # Nowhere
  BY <1>1 DEF Nowhere
<1>7. Backed(f, call[r], execs)
  BY <1>3, <1>5, <1>6 DEF Backed, States, Unfinished
<1>8. /\ DOMAIN futures' = Requests /\ futures'[r] = [futures[r] EXCEPT ![i] = f]
      /\ \A q \in Requests \ {r} : futures'[q] = futures[q]
  BY <1>4 DEF PoolInv
<1>9. /\ DOMAIN futures'[r] = DOMAIN futures[r]
      /\ \A k \in Slots(call[r]) :
           Backed(futures[r][k], call[r], execs) => Backed(futures'[r][k], call[r], execs')
  BY <1>1, <1>7, <1>8 DEF Sound
<1>10. Later(execs, execs')
  BY <1>1 DEF Later
<1>11. QED
  BY <1>1, <1>8, <1>9, <1>10, FutureStep

\* What has been handed to an executor breaks or is cancelled with it.
LEMMA ExecutorKeeps ==
  ASSUME PoolInv, NEW e \in 1..Len(execs), WorkerDies(e) \/ CancelPending(e)
  PROVE  PoolInv'
<1>1. UNCHANGED <<pool, call>> /\ execs \in Seq(ExecutorRow) /\ execs[e] \in ExecutorRow
  BY DEF WorkerDies, CancelPending, PoolInv
<1>2. PICK from \in SUBSET Unfinished, to \in {"broken", "cancelled"} :
        /\ futures' = SetState(e, from, to)
        /\ to = "broken" => execs' = [execs EXCEPT ![e].broken = TRUE]
        /\ to = "cancelled" => execs' = execs /\ execs[e].shut
  <2>1. CASE WorkerDies(e)
    <3> WITNESS Unfinished \in SUBSET Unfinished, "broken" \in {"broken", "cancelled"}
    <3>1. QED
      BY <2>1 DEF WorkerDies
  <2>2. CASE CancelPending(e)
    <3>1. {"pending"} \in SUBSET Unfinished
      BY DEF Unfinished
    <3> WITNESS {"pending"} \in SUBSET Unfinished, "cancelled" \in {"broken", "cancelled"}
    <3>2. QED
      BY <2>2 DEF CancelPending
  <2>3. QED
    BY <2>1, <2>2
<1>3. /\ Later(execs, execs') /\ Len(execs') = Len(execs)
      /\ to = "broken" => execs'[e].broken
      /\ to = "cancelled" => execs'[e].shut
  <2>1. CASE to = "broken"
    <3>1. PICK x : x = [execs[e] EXCEPT !.broken = TRUE]
      OBVIOUS
    <3>2. x \in ExecutorRow /\ x.broken /\ x.shut = execs[e].shut
      BY <1>1, <3>1 DEF ExecutorRow
    <3>3. execs' = [execs EXCEPT ![e] = x]
      BY <1>2, <2>1, <3>1
    <3>4. /\ execs' \in Seq(ExecutorRow) /\ Len(execs') = Len(execs)
          /\ execs'[e] = x /\ \A d \in 1..Len(execs) \ {e} : execs'[d] = execs[d]
      BY <1>1, <3>2, <3>3
    <3>5. QED
      BY <1>1, <2>1, <3>2, <3>4 DEF Later
  <2>2. CASE to = "cancelled"
    BY <1>1, <1>2, <2>2 DEF Later
  <2>3. QED
    BY <2>1, <2>2
<1>4. ASSUME NEW r \in Requests
      PROVE  /\ futures'[r] = [i \in DOMAIN futures[r] |->
                  IF futures[r][i].exec = e /\ futures[r][i].state \in from
                  THEN [futures[r][i] EXCEPT !.state = to] ELSE futures[r][i]]
  BY <1>2 DEF SetState
<1>5. DOMAIN futures' = Requests
  BY <1>2 DEF SetState
<1>6. ASSUME NEW r \in Requests, NEW i \in Slots(call[r]),
             Backed(futures[r][i], call[r], execs)
      PROVE  Backed(futures'[r][i], call[r], execs')
  <2>1. i \in DOMAIN futures[r]
    BY DEF PoolInv, Sound
  <2>2. Backed(futures[r][i], call[r], execs')
    BY <1>3, <1>6 DEF Backed, Later
  <2>3. CASE futures[r][i].exec = e /\ futures[r][i].state \in from
    <3>1. futures'[r][i] = [futures[r][i] EXCEPT !.state = to]
      BY <1>4, <2>1, <2>3
    <3>2. futures[r][i] # Nowhere
      BY <2>3 DEF Nowhere, Unfinished
    <3>3. QED
      BY <1>3, <2>2, <2>3, <3>1, <3>2 DEF Backed, States
  <2>4. CASE ~(futures[r][i].exec = e /\ futures[r][i].state \in from)
    BY <1>4, <2>1, <2>2, <2>4
  <2>5. QED
    BY <2>3, <2>4
<1>7. \A r \in Requests : DOMAIN futures'[r] = DOMAIN futures[r]
  BY <1>4
<1>8. QED
  BY <1>1, <1>3, <1>5, <1>6, <1>7, FutureStep

-----------------------------------------------------------------------------
\* The theorems about the pool.

\* At the start there are no executors.
LEMMA InitInv == Init => PoolInv
<1> SUFFICES ASSUME Init PROVE PoolInv
  OBVIOUS
<1>1. /\ pool = NoPool /\ execs = <<>> /\ futures = [r \in Requests |-> <<>>]
      /\ call = [r \in Requests |-> Idle]
  BY DEF Init, PoolInit
<1>2. Slots(Idle) = {} /\ DOMAIN Idle = Fields /\ Idle.at = "idle" /\ Idle.results = <<>>
      /\ Idle.kill = FALSE /\ Idle.then = "wait"
  BY DEF Idle, Slots, Fields
<1>3. Sound(Idle, <<>>, <<>>)
  <2>1. DOMAIN <<>> = {} /\ Len(<<>>) = 0
    OBVIOUS
  <2>2. ~NeedsOne(Idle)
    BY <1>2 DEF NeedsOne
  <2>3. Idle.at # "get" /\ Idle.at # "raised"
    BY <1>2
  <2>4. DOMAIN Idle.results = Slots(Idle) /\ DOMAIN <<>> = Slots(Idle)
    BY <1>2, <2>1
  <2>5. QED
    BY <1>2, <2>2, <2>3, <2>4 DEF Sound
<1>4. NoPoolLeak
  BY <1>1 DEF NoPoolLeak
<1>5. QED
  BY <1>1, <1>3, <1>4 DEF PoolInv

\* Every step of every request and of the executors keeps the invariant.
LEMMA NextInv == PoolInv /\ [Next]_vars => PoolInv'
<1> SUFFICES ASSUME PoolInv, [Next]_vars PROVE PoolInv'
  OBVIOUS
<1>1. CASE UNCHANGED poolVars
  BY <1>1 DEF poolVars, PoolInv, NoPoolLeak
<1>2. ASSUME NEW r \in Requests, Begin(r)
      PROVE  PoolInv'
  BY <1>1, <1>2, EnterKeeps DEF Begin, RefuseUpload, NoParent, CloneFails, Refused, Convert, LoadPaper
<1>3. ASSUME NEW r \in Requests, ConvertStep(r)
      PROVE  PoolInv'
  BY <1>3, GetPoolKeeps, SubmitKeeps, SubmitEndsKeeps, LocalKeeps, WaitKeeps, ReturnKeeps,
     DropKeeps, ShutKeeps DEF ConvertStep
<1>4. ASSUME NEW r \in Requests, Work(r)
      PROVE  PoolInv'
  BY <1>1, <1>3, <1>4 DEF Work, Converting, LetOut, FailIngest, ParentGone, Create
<1>5. CASE ExecutorStep
  BY <1>5, ItemKeeps, ExecutorKeeps DEF ExecutorStep
<1>6. QED
  BY <1>1, <1>2, <1>4, <1>5 DEF Next, ParentVanishes, Executors, vars

\* It holds in every run, whatever the executors do.
LEMMA Invariance == Spec => []PoolInv
<1> QED
  BY InitInv, NextInv, PTL DEF Spec

\* However many requests break, time out and discard at once, each executor is
\* the current pool, or shut, or about to be shut by a request.
THEOREM ExecutorsAreNotLost == Spec => []NoPoolLeak
<1>1. PoolInv => NoPoolLeak
  BY DEF PoolInv
<1>2. QED
  BY <1>1, Invariance, PTL

\* For any number of requests, workers and files: no file is reported as lost
\* to a crash or a reset that its request's executor did not have, and an
\* ingest raises only over an executor that broke or was shut.
THEOREM FailuresAreTrue == Spec => []FailuresHaveACause
<1>1. PoolInv => FailuresHaveACause
  BY DEF PoolInv, Sound, Honest, Slots, Items, Exec, At, FailuresHaveACause
<1>2. QED
  BY <1>1, Invariance, PTL

-----------------------------------------------------------------------------
\* Filters.

\* t has what is in `keep` of the first m items of s, and h says where it stood.
Picks(h, t, s, keep, m) ==
  /\ h \in [1..Len(t) -> 1..m]
  /\ \A i, j \in 1..Len(t) : i < j => h[i] < h[j]
  /\ \A j \in 1..Len(t) : t[j] = s[h[j]]
  /\ \A i \in 1..m : s[i] \in keep <=> \E j \in 1..Len(t) : h[j] = i

\* One item more.
LEMMA PickStep ==
  ASSUME NEW S, NEW s \in Seq(S), NEW t \in Seq(S), NEW keep, NEW m \in Nat, m + 1 <= Len(s),
         NEW h, Picks(h, t, s, keep, m)
  PROVE  \E g : Picks(g, t \o (IF s[m + 1] \in keep THEN <<s[m + 1]>> ELSE <<>>), s, keep, m + 1)
<1>1. /\ h \in [1..Len(t) -> 1..m] /\ Len(t) \in Nat
      /\ \A i, j \in 1..Len(t) : i < j => h[i] < h[j]
      /\ \A j \in 1..Len(t) : t[j] = s[h[j]]
      /\ \A i \in 1..m : s[i] \in keep <=> \E j \in 1..Len(t) : h[j] = i
      /\ s[m + 1] \in S
  BY LenProperties DEF Picks
<1>2. CASE s[m + 1] \notin keep
  <2>1. t \o <<>> = t
    BY ConcatEmptySeq
  <2>2. Picks(h, t, s, keep, m + 1)
    <3>1. \A j \in 1..Len(t) : h[j] \in 1..m /\ h[j] # m + 1 /\ h[j] \in 1..(m + 1)
      BY <1>1
    <3>2. h \in [1..Len(t) -> 1..(m + 1)]
      BY <1>1, <3>1
    <3>3. \A i \in 1..(m + 1) : i \in 1..m \/ i = m + 1
      OBVIOUS
    <3>4. \A i \in 1..(m + 1) : s[i] \in keep <=> \E j \in 1..Len(t) : h[j] = i
      BY <1>1, <1>2, <3>1, <3>3
    <3> QED
      BY <1>1, <3>2, <3>4 DEF Picks
  <2> QED
    BY <1>2, <2>1, <2>2
<1>3. CASE s[m + 1] \in keep
  <2> DEFINE n == Len(t)
             u == t \o <<s[m + 1]>>
             g == [j \in 1..(n + 1) |-> IF j = n + 1 THEN m + 1 ELSE h[j]]
  <2>1. u \in Seq(S) /\ Len(u) = n + 1 /\ u[n + 1] = s[m + 1] /\ \A j \in 1..n : u[j] = t[j]
    BY <1>1
  <2>2. \A j \in 1..(n + 1) : j \in 1..n \/ j = n + 1
    BY <1>1
  <2>3. \A j \in 1..n : j \in 1..(n + 1) /\ j # n + 1 /\ h[j] \in 1..m
    BY <1>1
  <2>4. g \in [1..(n + 1) -> 1..(m + 1)] /\ g[n + 1] = m + 1 /\ \A j \in 1..n : g[j] = h[j]
    BY <1>1, <2>2, <2>3
  <2> HIDE DEF u, g
  <2>5. \A i, j \in 1..(n + 1) : i < j => g[i] < g[j]
    BY <1>1, <2>2, <2>3, <2>4
  <2>6. \A j \in 1..(n + 1) : u[j] = s[g[j]]
    BY <1>1, <2>1, <2>2, <2>4
  <2>7. \A i \in 1..(m + 1) : s[i] \in keep <=> \E j \in 1..(n + 1) : g[j] = i
    <3> SUFFICES ASSUME NEW i \in 1..(m + 1) PROVE s[i] \in keep <=> \E j \in 1..(n + 1) : g[j] = i
      OBVIOUS
    <3>1. CASE i = m + 1
      <4>1. n + 1 \in 1..(n + 1)
        BY <1>1
      <4> QED
        BY <1>3, <2>4, <3>1, <4>1
    <3>2. CASE i # m + 1
      <4>1. i \in 1..m
        BY <3>2
      <4>2. (\E j \in 1..(n + 1) : g[j] = i) <=> \E j \in 1..n : h[j] = i
        BY <2>2, <2>3, <2>4, <3>2
      <4> QED
        BY <1>1, <4>1, <4>2
    <3> QED
      BY <3>1, <3>2
  <2>8. Picks(g, u, s, keep, m + 1)
    BY <2>1, <2>4, <2>5, <2>6, <2>7 DEF Picks
  <2> QED
    BY <1>3, <2>8 DEF u
<1> QED
  BY <1>2, <1>3

\* A filter keeps what it should, in order.
LEMMA OnlyPicks ==
  ASSUME NEW S, NEW s \in Seq(S), NEW keep
  PROVE  Only(s, keep) \in Seq(S) /\ \E h : Picks(h, Only(s, keep), s, keep, Len(s))
<1> DEFINE n == Len(s)
           seqs == [i \in 1..n |-> IF s[i] \in keep THEN <<s[i]>> ELSE <<>>]
<1>1. n \in Nat /\ \A i \in 1..n : s[i] \in S
  BY LenProperties
<1>2. seqs \in Seq(Seq(S)) /\ Len(seqs) = n
  <2>1. \A x \in S : <<x>> \in Seq(S)
    OBVIOUS
  <2>2. \A i \in 1..n : seqs[i] \in Seq(S)
    BY <1>1, <2>1, EmptySeq
  <2> QED
    BY <1>1, <2>2
<1>3. Only(s, keep) = FlattenSeq(seqs)
  BY DEF Only
<1>4. FlattenSeq(seqs) \in Seq(S)
  BY <1>2, FlattenType
<1>5. \E h : Picks(h, <<>>, s, keep, 0)
  <2>1. [i \in 1..0 |-> 0] \in [1..0 -> 1..0] /\ Len(<<>>) = 0
    OBVIOUS
  <2>2. Picks([i \in 1..0 |-> 0], <<>>, s, keep, 0)
    BY <2>1 DEF Picks
  <2> QED
    BY <2>2
<1>6. CASE n = 0
  <2>1. FlattenSeq(seqs) = <<>>
    BY <1>2, <1>6 DEF FlattenSeq
  <2> QED
    BY <1>3, <1>4, <1>5, <1>6, <2>1
<1>7. CASE n # 0
  <2>2. \A i \in 1..n : seqs[i] = IF s[i] \in keep THEN <<s[i]>> ELSE <<>>
    OBVIOUS
  <2> HIDE DEF seqs
  <2>1. PICK f \in [1..n -> Seq(S)] : Appending(f, n, seqs) /\ FlattenSeq(seqs) = f[n]
    <3>1. seqs \in Seq(Seq(S)) /\ Len(seqs) = n /\ Len(seqs) > 0
      BY <1>1, <1>2, <1>7
    <3>2. \E f \in [1..Len(seqs) -> Seq(S)] :
             Appending(f, Len(seqs), seqs) /\ FlattenSeq(seqs) = f[Len(seqs)]
      BY <3>1, FlattenSteps
    <3> QED
      BY <3>1, <3>2
  <2> DEFINE P == {m \in Nat : m + 1 \in 1..n => \E h : Picks(h, f[m + 1], s, keep, m + 1)}
  <2>3. 0 \in P
    <3> SUFFICES ASSUME 0 + 1 \in 1..n PROVE \E h : Picks(h, f[0 + 1], s, keep, 0 + 1)
      OBVIOUS
    <3>1. <<>> \in Seq(S) /\ 0 \in Nat /\ 0 + 1 <= n
      BY <1>1, <1>7, EmptySeq
    <3>2. \E h : Picks(h, <<>> \o seqs[0 + 1], s, keep, 0 + 1)
      BY <1>5, <2>2, <3>1, PickStep
    <3>3. <<>> \o seqs[0 + 1] = seqs[0 + 1]
      <4>1. seqs[0 + 1] \in Seq(S)
        BY <1>2
      <4> QED
        BY <4>1, ConcatEmptySeq
    <3>4. f[0 + 1] = seqs[0 + 1]
      BY <2>1 DEF Appending
    <3> QED
      BY <3>2, <3>3, <3>4
  <2>4. ASSUME NEW m \in Nat, m \in P PROVE m + 1 \in P
    <3> SUFFICES ASSUME m + 1 + 1 \in 1..n PROVE \E h : Picks(h, f[m + 1 + 1], s, keep, m + 1 + 1)
      OBVIOUS
    <3> DEFINE k == m + 1
    <3>1. k \in 1..n /\ k + 1 \in 1..n /\ k + 1 \in 2..n /\ k \in Nat /\ k + 1 <= n /\ k + 1 - 1 = k
      BY <1>1
    <3>2. PICK h : Picks(h, f[k], s, keep, k)
      BY <2>4, <3>1
    <3> HIDE DEF k
    <3>3. f[k + 1] = f[k] \o seqs[k + 1] /\ f[k] \in Seq(S)
      <4>1. \A i \in 2..n : f[i] = f[i - 1] \o seqs[i]
        BY <2>1 DEF Appending
      <4>2. PICK j \in 2..n : j = k + 1
        BY <3>1
      <4>3. j - 1 = k
        BY <3>1, <4>2
      <4>4. f[j] = f[j - 1] \o seqs[j]
        BY <4>1
      <4>5. f[k] \in Seq(S)
        BY <3>1
      <4> QED
        BY <4>2, <4>3, <4>4, <4>5
    <3>4. \E g : Picks(g, f[k] \o (IF s[k + 1] \in keep THEN <<s[k + 1]>> ELSE <<>>), s, keep, k + 1)
      BY <3>1, <3>2, <3>3, PickStep
    <3>5. \E g : Picks(g, f[k + 1], s, keep, k + 1)
      BY <2>2, <3>1, <3>3, <3>4
    <3> QED
      BY <3>5 DEF k
  <2> HIDE DEF P
  <2>5. Nat \subseteq P
    BY <2>3, <2>4, NumberInduction
  <2>6. n - 1 \in P /\ n - 1 + 1 = n /\ n \in 1..n
    BY <1>1, <1>7, <2>5
  <2> QED
    BY <1>3, <1>4, <2>1, <2>6 DEF P
<1> QED
  BY <1>1, <1>6, <1>7

-----------------------------------------------------------------------------
\* Plans, and what materialize makes of them.

\* The entries of a plan whose names are in N.
Entries(N) == [path : Seq(N), type : {"file", "folder"}, text : BOOLEAN]

\* The ancestors of a path are its beginnings.
LEMMA AncestryType ==
  ASSUME NEW N, NEW path \in Seq(N)
  PROVE  /\ Ancestry(path) \in Seq(Seq(N)) /\ Len(Ancestry(path)) = Len(path) + 1
         /\ \A i \in 1..(Len(path) + 1) :
              /\ Ancestry(path)[i] = SubSeq(path, 1, i - 1)
              /\ Ancestry(path)[i] \in Seq(N) /\ Len(Ancestry(path)[i]) = i - 1
              /\ IsPrefix(Ancestry(path)[i], path)
              /\ i = Len(path) + 1 => Ancestry(path)[i] = path
<1>1. Len(path) \in Nat
  BY LenProperties
<1>2. ASSUME NEW i \in 1..(Len(path) + 1)
      PROVE  /\ SubSeq(path, 1, i - 1) \in Seq(N) /\ Len(SubSeq(path, 1, i - 1)) = i - 1
             /\ IsPrefix(SubSeq(path, 1, i - 1), path)
             /\ i = Len(path) + 1 => SubSeq(path, 1, i - 1) = path
  <2>1. i - 1 \in 0..Len(path)
    BY <1>1
  <2>2. i = Len(path) + 1 => i - 1 = Len(path)
    BY <1>1
  <2> QED
    BY <2>1, <2>2, FirstLines
<1> QED
  BY <1>1, <1>2 DEF Ancestry

\* What a plan says of a path is about that path.
LEMMA PlannedType ==
  ASSUME NEW N, NEW plan \in Seq(Entries(N)), NEW path \in Seq(N)
  PROVE  Planned(plan, path) \in Entries(N) /\ Planned(plan, path).path = path
<1>1. CASE \E n \in Range(plan) : n.path = path
  <2>1. Planned(plan, path) \in Range(plan) /\ Planned(plan, path).path = path
    BY <1>1 DEF Planned
  <2>2. Range(plan) \subseteq Entries(N)
    BY DEF Range
  <2> QED
    BY <2>1, <2>2
<1>2. CASE ~\E n \in Range(plan) : n.path = path
  <2>1. Planned(plan, path) = [path |-> path, type |-> "folder", text |-> FALSE]
    BY <1>2 DEF Planned, Folder, Entry
  <2> QED
    BY <2>1 DEF Entries
<1> QED
  BY <1>1, <1>2

\* The nodes on the way to a path have its beginnings for paths.
LEMMA WayType ==
  ASSUME NEW N, NEW plan \in Seq(Entries(N)), NEW path \in Seq(N)
  PROVE  /\ Way(plan, path) \in Seq(Entries(N)) /\ Len(Way(plan, path)) = Len(path) + 1
         /\ \A i \in 1..(Len(path) + 1) :
              /\ Way(plan, path)[i] = Planned(plan, Ancestry(path)[i])
              /\ Way(plan, path)[i].path = Ancestry(path)[i]
<1>1. Len(path) \in Nat
  BY LenProperties
<1>2. \A i \in 1..(Len(path) + 1) : /\ Planned(plan, Ancestry(path)[i]) \in Entries(N)
                                    /\ Planned(plan, Ancestry(path)[i]).path = Ancestry(path)[i]
  BY AncestryType, PlannedType
<1> QED
  BY <1>1, <1>2 DEF Way

\* ensure() makes entries.
LEMMA EnsuredType ==
  ASSUME NEW N, NEW plan \in Seq(Entries(N)), NEW path \in Seq(N), NEW made \in Seq(Entries(N))
  PROVE  Ensured(plan, made, path) \in Seq(Entries(N))
<1>1. Way(plan, path) \in Seq(Entries(N))
  BY WayType
<1>2. Without(Way(plan, path), Range(made)) \in Seq(Entries(N))
  BY <1>1, OnlyPicks DEF Without
<1> QED
  BY <1>2, ConcatProperties DEF Ensured

\* m[k] is what is made of the first k nodes of a plan.
Making(m, plan) ==
  /\ m[0] = <<>>
  /\ \A k \in 1..Len(plan) : m[k] = Ensured(plan, m[k - 1], plan[k].path)
  /\ Materialized(plan) = m[Len(plan)]

\* What materialize makes is the end of such a sequence.
LEMMA MaterializedSteps ==
  ASSUME NEW N, NEW plan \in Seq(Entries(N))
  PROVE  \E m \in [0..Len(plan) -> Seq(Entries(N))] : Making(m, plan)
<1> DEFINE T == Seq(Entries(N))
           n == Len(plan)
           D == DOMAIN plan
           Eq(f) == f = [s \in SUBSET D |->
                            IF s = {} THEN <<>>
                            ELSE LET x == Max(s) IN Ensured(plan, f[s \ {x}], plan[x].path)]
           h == CHOOSE h : Eq(h)
           G == [p \in (1..n) \X T |-> Ensured(plan, p[2], plan[p[1]].path)]
<1>1. Materialized(plan) = h[D]
  BY DEF Materialized, FoldLeft, MapThenFoldSet
<1>2. n \in Nat /\ D = 1..n /\ <<>> \in T /\ \A i \in 1..n : plan[i].path \in Seq(N)
  <2>1. \A i \in 1..n : plan[i] \in Entries(N)
    BY LenProperties
  <2> QED
    BY <2>1, LenProperties, EmptySeq DEF Entries
<1> HIDE DEF D, n, T
<1>3. ASSUME NEW x \in 1..n, NEW t \in T
      PROVE  G[<<x, t>>] = Ensured(plan, t, plan[x].path) /\ G[<<x, t>>] \in T
  <2>1. <<x, t>> \in (1..n) \X T /\ <<x, t>>[1] = x /\ <<x, t>>[2] = t
    OBVIOUS
  <2>2. Ensured(plan, t, plan[x].path) \in T
    BY <1>2, EnsuredType DEF T
  <2> QED
    BY <2>1, <2>2
<1>4. G \in [(1..n) \X T -> T]
  BY <1>2, EnsuredType DEF T
<1> HIDE DEF G
<1>5. PICK f \in [SUBSET (1..n) -> T] : FoldsUp(f, n, <<>>, T, G)
  BY <1>2, <1>4, FoldExists
<1>6. Eq(f)
  <2> DEFINE r == [s \in SUBSET D |->
                            IF s = {} THEN <<>>
                            ELSE LET x == Max(s) IN Ensured(plan, f[s \ {x}], plan[x].path)]
  <2>1. ASSUME NEW s \in SUBSET D PROVE f[s] = r[s]
    <3>1. s # {} => Max(s) \in 1..n /\ f[s \ {Max(s)}] \in T
      BY <1>2, <1>5, LastPlace
    <3> QED
      BY <1>2, <1>3, <1>5, <3>1 DEF FoldsUp
  <2> QED
    BY <1>2, <2>1
<1>7. Eq(h)
  <2> HIDE DEF Eq
  <2> QED
    BY <1>6
<1> HIDE DEF h
<1>8. FoldsUp(h, n, <<>>, T, G)
  <2>1. h[{}] = <<>>
    BY <1>7
  <2>2. ASSUME NEW s \in SUBSET (1..n), s # {}, h[s \ {Max(s)}] \in T
        PROVE  h[s] = G[<<Max(s), h[s \ {Max(s)}]>>]
    <3>1. Max(s) \in 1..n
      BY <1>2, <2>2, LastPlace
    <3>2. h[s] = Ensured(plan, h[s \ {Max(s)}], plan[Max(s)].path)
      BY <1>2, <1>7, <2>2
    <3> QED
      BY <1>3, <2>2, <3>1, <3>2
  <2> QED
    BY <2>1, <2>2 DEF FoldsUp
<1> HIDE DEF Eq
<1>9. PICK m \in [0..n -> T] : m[n] = h[1..n] /\ Steps(m, n, <<>>, G)
  BY <1>2, <1>4, <1>8, FoldSteps
<1>10. ASSUME NEW k \in 1..n PROVE m[k] = Ensured(plan, m[k - 1], plan[k].path)
  <2>1. k - 1 \in 0..n
    BY <1>2
  <2> QED
    BY <1>3, <1>9, <2>1 DEF Steps
<1>11. Making(m, plan)
  BY <1>1, <1>2, <1>9, <1>10 DEF Making, Steps, n
<1> QED
  BY <1>9, <1>11 DEF n, T

\* All but the last.
LEMMA FrontOf ==
  ASSUME NEW N, NEW path \in Seq(N), Len(path) > 0
  PROVE  /\ Front(path) \in Seq(N) /\ Len(Front(path)) = Len(path) - 1
         /\ \A i \in 1..(Len(path) - 1) : Front(path)[i] = path[i]
         /\ Front(path) = SubSeq(path, 1, Len(path) - 1) /\ IsPrefix(Front(path), path)
<1>1. Len(path) - 1 \in 0..Len(path) /\ Len(path) \in Nat
  BY LenProperties
<1>2. /\ SubSeq(path, 1, Len(path) - 1) \in Seq(N)
      /\ Len(SubSeq(path, 1, Len(path) - 1)) = Len(path) - 1
      /\ IsPrefix(SubSeq(path, 1, Len(path) - 1), path)
  BY <1>1, FirstLines
<1>3. \A i \in 1..(Len(path) - 1) : SubSeq(path, 1, Len(path) - 1)[i] = path[i]
  BY <1>2, PrefixByElement
<1> QED
  BY <1>2, <1>3 DEF Front

\* Before each ancestor but the root comes its parent.
LEMMA FrontOfAncestor ==
  ASSUME NEW N, NEW path \in Seq(N), NEW i \in 2..(Len(path) + 1)
  PROVE  Front(Ancestry(path)[i]) = Ancestry(path)[i - 1]
<1>1. Len(path) \in Nat /\ i \in 1..(Len(path) + 1) /\ i - 1 \in 1..(Len(path) + 1) /\ i - 1 > 0
  BY LenProperties
<1> DEFINE a == Ancestry(path)[i]
           b == Ancestry(path)[i - 1]
<1>2. /\ a \in Seq(N) /\ Len(a) = i - 1 /\ IsPrefix(a, path)
      /\ b \in Seq(N) /\ Len(b) = i - 1 - 1 /\ IsPrefix(b, path)
  BY <1>1, AncestryType
<1> HIDE DEF a, b
<1>3. /\ Front(a) \in Seq(N) /\ Len(Front(a)) = i - 1 - 1
      /\ \A j \in 1..(i - 1 - 1) : Front(a)[j] = a[j]
  BY <1>1, <1>2, FrontOf
<1>4. \A j \in 1..(i - 1 - 1) : a[j] = path[j] /\ b[j] = path[j]
  <2>1. \A j \in 1..(i - 1 - 1) : j \in 1..(i - 1)
    BY <1>1
  <2>2. (\A j \in 1..(i - 1) : a[j] = path[j]) /\ \A j \in 1..(i - 1 - 1) : b[j] = path[j]
    BY <1>2, PrefixByElement
  <2> QED
    BY <2>1, <2>2
<1>5. Front(a) = b
  BY <1>2, <1>3, <1>4, SeqEqual
<1> QED
  BY <1>5 DEF a, b

\* What has been made of the first k nodes of a plan: they and their ancestors, each once,
\* parents first.
MadeOf(made, plan, k, N) ==
  /\ made \in Seq(Entries(N))
  /\ \A i \in 1..Len(made) :
       /\ made[i] = Planned(plan, made[i].path)
       /\ \E j \in 1..k : IsPrefix(made[i].path, plan[j].path)
       /\ Len(made[i].path) > 0 => \E j \in 1..(i - 1) : made[j].path = Front(made[i].path)
  /\ \A i, j \in 1..Len(made) : made[i].path = made[j].path => i = j
  /\ \A j \in 1..k : \E i \in 1..Len(made) : made[i].path = plan[j].path

\* Another node is ensured.
LEMMA EnsuredKeeps ==
  ASSUME NEW N, NEW plan \in Seq(Entries(N)), NEW k \in Nat, k + 1 <= Len(plan),
         NEW made, MadeOf(made, plan, k, N)
  PROVE  MadeOf(Ensured(plan, made, plan[k + 1].path), plan, k + 1, N)
<1> DEFINE path == plan[k + 1].path
           a == Ancestry(path)
           w == Way(plan, path)
           L == Len(path) + 1
           keep == Range(w) \ Range(made)
           rest == Only(w, keep)
           new == made \o rest
           p == Len(made)
<1>1. plan[k + 1] \in Entries(N) /\ path \in Seq(N) /\ Len(path) \in Nat /\ L \in Nat /\ L \in 1..L
  <2>1. k + 1 \in 1..Len(plan)
    BY LenProperties
  <2>2. plan[k + 1] \in Entries(N)
    BY <2>1, ElementOfSeq
  <2> QED
    BY <2>2, LenProperties DEF Entries
<1>2. Ensured(plan, made, path) = new
  BY DEF Ensured, Without
<1> HIDE DEF path
<1>3. /\ w \in Seq(Entries(N)) /\ Len(w) = L
      /\ \A i \in 1..L : w[i] = Planned(plan, a[i]) /\ w[i].path = a[i]
  BY <1>1, WayType
<1>4. /\ \A i \in 1..L : a[i] \in Seq(N) /\ Len(a[i]) = i - 1 /\ IsPrefix(a[i], path)
      /\ a[L] = path
      /\ \A i \in 2..L : Front(a[i]) = a[i - 1]
  BY <1>1, AncestryType, FrontOfAncestor
<1> HIDE DEF a, w, L
<1>5. rest \in Seq(Entries(N)) /\ \E h : Picks(h, rest, w, keep, L)
  BY <1>3, OnlyPicks
<1>6. PICK h : Picks(h, rest, w, keep, L)
  BY <1>5
<1> HIDE DEF rest
<1> DEFINE q == Len(rest)
<1>7. /\ made \in Seq(Entries(N)) /\ p \in Nat /\ q \in Nat
      /\ new \in Seq(Entries(N)) /\ Len(new) = p + q
      /\ \A i \in 1..p : new[i] = made[i]
      /\ \A i \in (p + 1)..(p + q) : new[i] = rest[i - p] /\ i - p \in 1..q
  BY <1>5, LenProperties, ConcatProperties DEF MadeOf
<1> HIDE DEF new, p, q
<1>8. /\ h \in [1..q -> 1..L]
      /\ \A i, j \in 1..q : i < j => h[i] < h[j]
      /\ \A j \in 1..q : rest[j] = w[h[j]]
      /\ \A i \in 1..L : w[i] \in keep <=> \E j \in 1..q : h[j] = i
  BY <1>6 DEF Picks, q
\* An ancestor is made already, or now.
<1>9. ASSUME NEW i \in 1..L
      PROVE  /\ (\E j \in 1..p : made[j].path = a[i]) \/ (\E j \in 1..q : h[j] = i)
             /\ (\E j \in 1..q : h[j] = i) => \A j \in 1..p : made[j].path # a[i]
  <2>1. w[i] \in Range(w)
    BY <1>3 DEF Range
  <2>2. w[i] \in Range(made) <=> \E j \in 1..p : made[j].path = a[i]
    <3>1. \A j \in 1..p : made[j] = Planned(plan, made[j].path)
      BY DEF MadeOf, p
    <3>2. Range(made) = {made[j] : j \in 1..p}
      BY <1>7 DEF Range, p
    <3> QED
      BY <1>3, <3>1, <3>2
  <2> QED
    BY <1>8, <2>1, <2>2
<1>10. ASSUME NEW i \in 1..(p + q)
       PROVE  i \in 1..p \/ \E j \in 1..q : i = p + j /\ new[i] = w[h[j]] /\ new[i].path = a[h[j]] /\ h[j] \in 1..L
  <2>1. CASE i \in 1..p
    BY <2>1
  <2>2. CASE i \notin 1..p
    <3>1. i \in (p + 1)..(p + q)
      BY <1>7, <2>2
    <3>2. i - p \in 1..q /\ i = p + (i - p) /\ new[i] = rest[i - p]
      BY <1>7, <3>1
    <3>3. h[i - p] \in 1..L /\ rest[i - p] = w[h[i - p]]
      BY <1>8, <3>2
    <3> QED
      BY <1>3, <3>2, <3>3
  <2> QED
    BY <2>1, <2>2
<1>11. \A j \in 1..q : p + j \in 1..(p + q) /\ new[p + j] = w[h[j]] /\ new[p + j].path = a[h[j]]
  <2> SUFFICES ASSUME NEW j \in 1..q
               PROVE  p + j \in 1..(p + q) /\ new[p + j] = w[h[j]] /\ new[p + j].path = a[h[j]]
    OBVIOUS
  <2>1. p + j \in (p + 1)..(p + q) /\ p + j - p = j /\ p + j \in 1..(p + q)
    BY <1>7
  <2>2. new[p + j] = rest[j]
    BY <1>7, <2>1
  <2>3. h[j] \in 1..L
    BY <1>8
  <2> QED
    BY <1>3, <1>8, <2>1, <2>2, <2>3
<1>12. ASSUME NEW i \in 1..(p + q)
       PROVE  /\ new[i] = Planned(plan, new[i].path)
              /\ \E j \in 1..(k + 1) : IsPrefix(new[i].path, plan[j].path)
              /\ Len(new[i].path) > 0 => \E j \in 1..(i - 1) : new[j].path = Front(new[i].path)
  <2>1. CASE i \in 1..p
    <3>1. /\ made[i] = Planned(plan, made[i].path)
          /\ \E j \in 1..k : IsPrefix(made[i].path, plan[j].path)
          /\ Len(made[i].path) > 0 => \E j \in 1..(i - 1) : made[j].path = Front(made[i].path)
      BY <2>1 DEF MadeOf, p
    <3>2. \A j \in 1..k : j \in 1..(k + 1)
      OBVIOUS
    <3>3. \A j \in 1..(i - 1) : j \in 1..p
      BY <1>7, <2>1
    <3>4. new[i] = made[i] /\ \A j \in 1..(i - 1) : new[j] = made[j]
      BY <1>7, <2>1, <3>3
    <3> QED
      BY <3>1, <3>2, <3>4
  <2>2. CASE i \notin 1..p
    <3>1. PICK j \in 1..q : i = p + j /\ new[i] = w[h[j]] /\ new[i].path = a[h[j]] /\ h[j] \in 1..L
      BY <1>10, <2>2
    <3>2. new[i] = Planned(plan, new[i].path)
      BY <1>3, <3>1
    <3>3. k + 1 \in 1..(k + 1) /\ IsPrefix(new[i].path, plan[k + 1].path)
      BY <1>4, <3>1 DEF path
    <3>4. ASSUME Len(new[i].path) > 0 PROVE \E e \in 1..(i - 1) : new[e].path = Front(new[i].path)
      <4> DEFINE b == h[j]
      <4>1. b \in 1..L /\ Len(a[b]) = b - 1 /\ new[i].path = a[b]
        BY <1>4, <3>1
      <4> HIDE DEF b
      <4>2. b \in 2..L /\ b - 1 \in 1..L /\ b \in Nat
        BY <3>4, <4>1, <1>1 DEF L
      <4>3. Front(a[b]) = a[b - 1]
        BY <1>4, <4>2
      <4>4. CASE \E e \in 1..p : made[e].path = a[b - 1]
        <5>1. PICK e \in 1..p : made[e].path = a[b - 1]
          BY <4>4
        <5>2. e \in 1..(i - 1) /\ new[e] = made[e]
          BY <1>7, <3>1
        <5> QED
          BY <3>1, <4>1, <4>3, <5>1, <5>2
      <4>5. CASE \E e \in 1..q : h[e] = b - 1
        <5>1. PICK e \in 1..q : h[e] = b - 1
          BY <4>5
        <5>2. e < j
          <6>1. h[e] < h[j] /\ h[e] \in Int /\ h[j] \in Int
            BY <4>2, <5>1 DEF b
          <6>2. e = j \/ e < j \/ j < e
            BY <1>7
          <6> QED
            BY <1>8, <6>1, <6>2
        <5>3. p + e \in 1..(i - 1)
          BY <1>7, <3>1, <5>2
        <5> QED
          BY <1>11, <3>1, <4>1, <4>3, <5>1, <5>3
      <4> QED
        BY <1>9, <4>2, <4>4, <4>5
    <3> QED
      BY <3>2, <3>3, <3>4
  <2> QED
    BY <2>1, <2>2
<1>13. ASSUME NEW i \in 1..(p + q), NEW j \in 1..(p + q), new[i].path = new[j].path PROVE i = j
  <2>1. \A e, f \in 1..p : made[e].path = made[f].path => e = f
    BY DEF MadeOf, p
  <2>2. \A e \in 1..p : \A f \in 1..q : made[e].path # a[h[f]]
    BY <1>8, <1>9
  <2>3. \A e, f \in 1..q : a[h[e]] = a[h[f]] => e = f
    <3> SUFFICES ASSUME NEW e \in 1..q, NEW f \in 1..q, a[h[e]] = a[h[f]] PROVE e = f
      OBVIOUS
    <3>1. h[e] \in 1..L /\ h[f] \in 1..L
      BY <1>8
    <3>2. Len(a[h[e]]) = h[e] - 1 /\ Len(a[h[f]]) = h[f] - 1
      BY <1>4, <3>1
    <3>3. h[e] = h[f]
      BY <3>1, <3>2
    <3>4. ~(e < f) /\ ~(f < e)
      BY <1>8, <3>1, <3>3
    <3> QED
      BY <3>4
  <2> QED
    BY <1>7, <1>10, <1>13, <2>1, <2>2, <2>3
<1>14. ASSUME NEW j \in 1..(k + 1) PROVE \E i \in 1..(p + q) : new[i].path = plan[j].path
  <2>1. \A i \in 1..p : i \in 1..(p + q) /\ new[i] = made[i]
    BY <1>7
  <2>2. CASE j \in 1..k
    <3>1. \E i \in 1..p : made[i].path = plan[j].path
      BY <2>2 DEF MadeOf, p
    <3> QED
      BY <2>1, <3>1
  <2>3. CASE j \notin 1..k
    <3>1. j = k + 1 /\ plan[j].path = a[L] /\ L \in 1..L
      <4>1. j = k + 1
        BY <2>3
      <4>2. L \in 1..L
        BY <1>1 DEF L
      <4> QED
        BY <1>4, <4>1, <4>2 DEF path
    <3> QED
      BY <1>9, <1>11, <2>1, <3>1
  <2> QED
    BY <2>2, <2>3
<1>15. MadeOf(new, plan, k + 1, N)
  BY <1>7, <1>12, <1>13, <1>14 DEF MadeOf
<1> QED
  BY <1>2, <1>15 DEF path

\* All that materialize makes.
LEMMA Materializes ==
  ASSUME NEW N, NEW plan \in Seq(Entries(N))
  PROVE  MadeOf(Materialized(plan), plan, Len(plan), N)
<1>1. PICK m \in [0..Len(plan) -> Seq(Entries(N))] : Making(m, plan)
  BY MaterializedSteps
<1> DEFINE n == Len(plan)
           P == {k \in Nat : k \in 0..n => MadeOf(m[k], plan, k, N)}
<1>2. n \in Nat
  BY LenProperties
<1>3. 0 \in P
  <2>1. m[0] = <<>> /\ <<>> \in Seq(Entries(N)) /\ Len(<<>>) = 0
    BY <1>1, EmptySeq DEF Making
  <2>2. MadeOf(m[0], plan, 0, N)
    BY <2>1 DEF MadeOf
  <2> QED
    BY <2>2
<1>4. ASSUME NEW k \in Nat, k \in P PROVE k + 1 \in P
  <2> SUFFICES ASSUME k + 1 \in 0..n PROVE MadeOf(m[k + 1], plan, k + 1, N)
    OBVIOUS
  <2>1. PICK j \in 1..n : j = k + 1 /\ j - 1 = k /\ k \in 0..n /\ k + 1 <= n
    BY <1>2
  <2>2. m[j] = Ensured(plan, m[j - 1], plan[j].path)
    BY <1>1, <2>1 DEF Making
  <2>3. MadeOf(m[k], plan, k, N)
    BY <1>4, <2>1
  <2>4. MadeOf(Ensured(plan, m[k], plan[k + 1].path), plan, k + 1, N)
    BY <2>1, <2>3, EnsuredKeeps
  <2> QED
    BY <2>1, <2>2, <2>4
<1> HIDE DEF P
<1>5. Nat \subseteq P
  BY <1>3, <1>4, NumberInduction
<1>6. MadeOf(m[n], plan, n, N)
  BY <1>2, <1>5 DEF P
<1> QED
  BY <1>1, <1>6 DEF Making

\* A plan that materialize can make: each path once, the root first, no node inside a
\* file, and no folder that leads to no file.
Proper(plan, N) ==
  /\ plan \in Seq(Entries(N)) /\ Len(plan) > 0 /\ plan[1] = Folder(Root)
  /\ \A i, j \in 1..Len(plan) : plan[i].path = plan[j].path => i = j
  /\ \A i \in 1..Len(plan) : plan[i].text = (plan[i].type = "file")
  /\ \A i, j \in 1..Len(plan) :
       plan[i].type = "file" /\ IsPrefix(plan[i].path, plan[j].path) => i = j
  /\ \A i \in 1..Len(plan) :
       plan[i].path # Root =>
         \E j \in 1..Len(plan) : plan[j].type = "file" /\ IsPrefix(plan[i].path, plan[j].path)

\* The parent of what is made is a folder without a text.
LEMMA ParentIsFolder ==
  ASSUME NEW N, NEW plan, Proper(plan, N), NEW path \in Seq(N), Len(path) > 0,
         NEW j \in 1..Len(plan), IsPrefix(path, plan[j].path)
  PROVE  Planned(plan, Front(path)) = [path |-> Front(path), type |-> "folder", text |-> FALSE]
<1> DEFINE front == Front(path)
           x == Planned(plan, front)
<1>1. plan \in Seq(Entries(N)) /\ plan[j] \in Entries(N) /\ plan[j].path \in Seq(N)
  <2>1. plan \in Seq(Entries(N))
    BY DEF Proper
  <2>2. plan[j] \in Entries(N)
    BY <2>1, ElementOfSeq
  <2> QED
    BY <2>1, <2>2 DEF Entries
<1>2. front \in Seq(N) /\ Len(front) = Len(path) - 1 /\ IsPrefix(front, path)
  BY FrontOf
<1> HIDE DEF front
<1>3. IsPrefix(front, plan[j].path) /\ Len(front) < Len(plan[j].path)
  <2>1. IsPrefix(front, plan[j].path)
    BY <1>1, <1>2, PrefixOfPrefix
  <2>2. Len(path) <= Len(plan[j].path) /\ Len(path) \in Nat /\ Len(plan[j].path) \in Nat
    BY <1>1, PrefixByElement, LenProperties
  <2> QED
    BY <1>2, <2>1, <2>2
<1>4. CASE \E n \in Range(plan) : n.path = front
  <2>1. x \in Range(plan) /\ x.path = front
    BY <1>4 DEF Planned
  <2>2. PICK e \in 1..Len(plan) : x = plan[e]
    BY <1>1, <2>1 DEF Range
  <2>3. x.type # "file"
    <3>1. CASE x.type = "file"
      <4>1. e = j
        BY <1>3, <2>1, <2>2, <3>1 DEF Proper
      <4> QED
        BY <1>1, <1>2, <1>3, <2>1, <2>2, <4>1, LenProperties
    <3> QED
      BY <3>1
  <2>4. x \in Entries(N) /\ x.text = (x.type = "file")
    BY <1>1, <2>2, ElementOfSeq DEF Proper
  <2>5. x.type = "folder" /\ x.text = FALSE
    BY <2>3, <2>4 DEF Entries
  <2> QED
    BY <2>1, <2>4, <2>5 DEF Entries, front
<1>5. CASE ~\E n \in Range(plan) : n.path = front
  BY <1>5 DEF Planned, Folder, Entry, front
<1> QED
  BY <1>4, <1>5

\* materialize does not refuse it.
LEMMA ProperIsWellFormed ==
  ASSUME NEW N, NEW plan, Proper(plan, N)
  PROVE  WellFormed(plan)
<1>1. plan \in Seq(Entries(N)) /\ Len(plan) \in Nat /\ Len(plan) > 0 /\ 1 \in 1..Len(plan)
  BY LenProperties DEF Proper
<1>2. \A n \in Range(plan) : \E i \in 1..Len(plan) : n = plan[i]
  BY <1>1 DEF Range
<1>3. plan[1] \in Range(plan) /\ plan[1] = Folder(Root)
  BY <1>1 DEF Proper, Range
<1>4. ASSUME NEW n \in Range(Materialized(plan)), n.path # Root
      PROVE  Planned(plan, Front(n.path)).type = "folder"
  <2>1. MadeOf(Materialized(plan), plan, Len(plan), N)
    BY <1>1, Materializes
  <2>2. PICK i \in 1..Len(Materialized(plan)) : n = Materialized(plan)[i]
    BY <2>1 DEF Range, MadeOf
  <2>3. n \in Entries(N) /\ \E j \in 1..Len(plan) : IsPrefix(n.path, plan[j].path)
    BY <2>1, <2>2, ElementOfSeq DEF MadeOf
  <2>4. n.path \in Seq(N) /\ Len(n.path) > 0
    <3>1. n.path \in Seq(N)
      BY <2>3 DEF Entries
    <3> QED
      BY <1>4, <3>1, EmptySeq, LenProperties DEF Root
  <2> QED
    BY <2>3, <2>4, ParentIsFolder
<1> QED
  BY <1>2, <1>3, <1>4 DEF WellFormed, Proper

\* What is created of it: its files, the folders above them, parents first.
Laid(laid, plan, N) ==
  /\ laid \in Seq(Entries(N))
  /\ \A i \in 1..Len(laid) :
       /\ Len(laid[i].path) > 1 =>
            \E j \in 1..(i - 1) :
              laid[j] = [path |-> Front(laid[i].path), type |-> "folder", text |-> FALSE]
       /\ laid[i].path # Root =>
            \E j \in 1..Len(plan) : plan[j].type = "file" /\ IsPrefix(laid[i].path, plan[j].path)
       /\ laid[i].type = "file" => \E j \in 1..Len(plan) : plan[j] = laid[i]
  /\ \A j \in 1..Len(plan) : plan[j].type = "file" => \E i \in 1..Len(laid) : laid[i] = plan[j]
  /\ \A i, j \in 1..Len(laid) : laid[i].path = laid[j].path => i = j

\* What is created from it is laid so.
LEMMA ProperIsLaid ==
  ASSUME NEW N, NEW plan, Proper(plan, N), NEW b \in BOOLEAN
  PROVE  Laid(Created(plan, b), plan, N)
<1> DEFINE made == Materialized(plan)
           drop == IF b THEN {Folder(Root)} ELSE {}
           keep == Range(made) \ drop
           laid == Only(made, keep)
           n == Len(made)
           q == Len(laid)
<1>1. plan \in Seq(Entries(N)) /\ Len(plan) \in Nat
  BY LenProperties DEF Proper
<1>2. Created(plan, b) = laid
  BY DEF Created, Without
<1>3. MadeOf(made, plan, Len(plan), N)
  BY <1>1, Materializes
<1> HIDE DEF made
<1>4. laid \in Seq(Entries(N)) /\ \E h : Picks(h, laid, made, keep, n)
  BY <1>3, OnlyPicks DEF MadeOf
<1>5. PICK h : Picks(h, laid, made, keep, n)
  BY <1>4
<1>6. made \in Seq(Entries(N)) /\ n \in Nat /\ q \in Nat /\ \A i \in 1..n : made[i] \in Entries(N) /\ made[i] \in Range(made)
  <2>1. made \in Seq(Entries(N))
    BY <1>3 DEF MadeOf
  <2> QED
    BY <1>4, <2>1, LenProperties DEF Range
<1>7. /\ \A i \in 1..n : /\ made[i] = Planned(plan, made[i].path)
                         /\ \E j \in 1..Len(plan) : IsPrefix(made[i].path, plan[j].path)
                         /\ Len(made[i].path) > 0 => \E j \in 1..(i - 1) : made[j].path = Front(made[i].path)
      /\ \A i, j \in 1..n : made[i].path = made[j].path => i = j
      /\ \A j \in 1..Len(plan) : \E i \in 1..n : made[i].path = plan[j].path
  BY <1>3 DEF MadeOf
<1> HIDE DEF laid
<1>8. /\ h \in [1..q -> 1..n]
      /\ \A i, j \in 1..q : i < j => h[i] < h[j]
      /\ \A j \in 1..q : laid[j] = made[h[j]]
      /\ \A i \in 1..n : made[i] \in keep <=> \E j \in 1..q : h[j] = i
  BY <1>5 DEF Picks
<1> HIDE DEF n, q, keep
\* What is not the root is kept.
<1>9. ASSUME NEW i \in 1..n, made[i].path # Root \/ made[i].type = "file" PROVE \E j \in 1..q : h[j] = i
  <2>1. made[i] # Folder(Root)
    <3>1. Folder(Root).path = Root /\ Folder(Root).type = "folder"
      BY DEF Folder, Entry
    <3> QED
      BY <1>9, <3>1
  <2>2. made[i] \in keep
    BY <1>6, <2>1 DEF keep, n
  <2> QED
    BY <1>8, <2>2
<1>10. ASSUME NEW i \in 1..q, Len(laid[i].path) > 1
       PROVE  \E j \in 1..(i - 1) :
                laid[j] = [path |-> Front(laid[i].path), type |-> "folder", text |-> FALSE]
  <2> DEFINE e == h[i]
             path == made[e].path
  <2>1. e \in 1..n /\ laid[i] = made[e] /\ made[e] \in Entries(N)
    BY <1>6, <1>8 DEF n
  <2> HIDE DEF e
  <2>2. path \in Seq(N) /\ Len(path) > 1 /\ Len(path) > 0 /\ Len(path) \in Nat
    <3>1. path \in Seq(N)
      BY <2>1 DEF Entries
    <3> QED
      BY <1>10, <2>1, <3>1, LenProperties
  <2>3. PICK d \in 1..(e - 1) : made[d].path = Front(path)
    BY <1>7, <2>1, <2>2
  <2>4. d \in 1..n /\ d < e
    BY <1>6, <2>1
  <2>5. Front(path) # Root
    <3>1. Len(Front(path)) = Len(path) - 1 /\ Len(Root) = 0
      BY <2>2, FrontOf DEF Root
    <3> QED
      BY <2>2, <3>1
  <2>6. PICK j \in 1..q : h[j] = d
    BY <1>9, <2>3, <2>4, <2>5
  <2>7. j < i
    <3>1. ~(i < j) /\ i # j
      <4>1. h[j] < h[i] /\ h[j] \in Int /\ h[i] \in Int
        BY <1>6, <2>1, <2>4, <2>6 DEF e
      <4> QED
        BY <1>8, <4>1
    <3> QED
      BY <1>6, <3>1
  <2>8. Planned(plan, Front(path)) = [path |-> Front(path), type |-> "folder", text |-> FALSE]
    <3>1. PICK f \in 1..Len(plan) : IsPrefix(path, plan[f].path)
      BY <1>7, <2>1
    <3> QED
      BY <2>2, <3>1, ParentIsFolder
  <2>9. laid[j] = made[d] /\ made[d] = Planned(plan, Front(path))
    <3>1. laid[j] = made[d]
      BY <1>8, <2>6
    <3>2. made[d] = Planned(plan, made[d].path)
      BY <1>7, <2>4
    <3> QED
      BY <2>3, <3>1, <3>2
  <2>10. j \in 1..(i - 1)
    BY <1>6, <2>7
  <2> QED
    BY <2>1, <2>8, <2>9, <2>10
<1>11. ASSUME NEW i \in 1..q, laid[i].path # Root
       PROVE  \E j \in 1..Len(plan) : plan[j].type = "file" /\ IsPrefix(laid[i].path, plan[j].path)
  <2>1. h[i] \in 1..n /\ laid[i] = made[h[i]] /\ laid[i] \in Entries(N)
    BY <1>6, <1>8 DEF n
  <2>2. PICK j \in 1..Len(plan) : IsPrefix(laid[i].path, plan[j].path)
    BY <1>7, <2>1
  <2>3. laid[i].path \in Seq(N) /\ plan[j].path \in Seq(N) /\ \A e \in 1..Len(plan) : plan[e].path \in Seq(N)
    <3>1. \A e \in 1..Len(plan) : plan[e] \in Entries(N)
      BY <1>1, ElementOfSeq
    <3> QED
      BY <2>1, <3>1 DEF Entries
  <2>4. plan[j].path # Root
    <3>1. Len(laid[i].path) # 0
      BY <1>11, <2>3, EmptySeq, LenProperties DEF Root
    <3>2. Len(laid[i].path) <= Len(plan[j].path) /\ Len(laid[i].path) \in Nat
      BY <2>2, <2>3, PrefixByElement, LenProperties
    <3>3. Len(Root) = 0
      BY DEF Root
    <3> QED
      BY <3>1, <3>2, <3>3
  <2>5. PICK e \in 1..Len(plan) : plan[e].type = "file" /\ IsPrefix(plan[j].path, plan[e].path)
    BY <2>4 DEF Proper
  <2>6. IsPrefix(laid[i].path, plan[e].path)
    BY <2>2, <2>3, <2>5, PrefixOfPrefix
  <2> QED
    BY <2>5, <2>6
<1>12. ASSUME NEW i \in 1..q, laid[i].type = "file" PROVE \E j \in 1..Len(plan) : plan[j] = laid[i]
  <2>1. h[i] \in 1..n /\ laid[i] = made[h[i]]
    BY <1>8
  <2>2. laid[i] = Planned(plan, laid[i].path)
    BY <1>7, <2>1
  <2>3. Folder(laid[i].path).type = "folder"
    BY DEF Folder, Entry
  <2>4. \E x \in Range(plan) : x.path = laid[i].path
    BY <1>12, <2>2, <2>3 DEF Planned
  <2>5. laid[i] \in Range(plan)
    BY <2>2, <2>4 DEF Planned
  <2> QED
    BY <1>1, <2>5 DEF Range
<1>13. ASSUME NEW j \in 1..Len(plan), plan[j].type = "file" PROVE \E i \in 1..q : laid[i] = plan[j]
  <2>1. PICK i \in 1..n : made[i].path = plan[j].path
    BY <1>7
  <2>2. made[i] = plan[j]
    <3>1. plan[j] \in Range(plan)
      BY <1>1 DEF Range
    <3>2. Planned(plan, plan[j].path) \in Range(plan) /\ Planned(plan, plan[j].path).path = plan[j].path
      BY <3>1 DEF Planned
    <3>3. PICK e \in 1..Len(plan) : plan[e] = Planned(plan, plan[j].path)
      BY <1>1, <3>2 DEF Range
    <3>4. e = j
      BY <3>2, <3>3 DEF Proper
    <3> QED
      BY <1>7, <2>1, <3>3, <3>4
  <2>3. PICK e \in 1..q : h[e] = i
    BY <1>9, <1>13, <2>2
  <2> QED
    BY <1>8, <2>2, <2>3
<1>14. ASSUME NEW i \in 1..q, NEW j \in 1..q, laid[i].path = laid[j].path PROVE i = j
  <2>1. h[i] \in 1..n /\ h[j] \in 1..n /\ laid[i] = made[h[i]] /\ laid[j] = made[h[j]]
    BY <1>8
  <2>2. h[i] = h[j]
    BY <1>7, <1>14, <2>1
  <2>3. ~(i < j) /\ ~(j < i)
    BY <1>6, <1>8, <2>1, <2>2
  <2> QED
    BY <1>6, <2>3
<1>15. Laid(laid, plan, N)
  BY <1>4, <1>10, <1>11, <1>12, <1>13, <1>14 DEF Laid, q
<1> QED
  BY <1>2, <1>15

-----------------------------------------------------------------------------
\* Which files are created.

\* Sets that are told apart by a function have as many elements.
LEMMA SameCount ==
  ASSUME NEW S, NEW T, IsFiniteSet(S), NEW g \in [S -> T],
         \A x, y \in S : g[x] = g[y] => x = y, \A t \in T : \E x \in S : g[x] = t
  PROVE  IsFiniteSet(T) /\ Cardinality(T) = Cardinality(S)
<1>1. g \in Bijection(S, T)
  BY DEF Bijection, Injection, Surjection, IsInjective
<1>2. ExistsBijection(S, T)
  BY <1>1 DEF ExistsBijection
<1> QED
  BY <1>2, FS_Bijection

FilesIn(laid) == {i \in 1..Len(laid) : laid[i].type = "file"}

\* As many files are created as the plan has, at the same paths.
LEMMA FilesCount ==
  ASSUME NEW N, NEW plan, Proper(plan, N), NEW laid, Laid(laid, plan, N)
  PROVE  /\ Cardinality(FilesIn(laid)) = Cardinality(FilesIn(plan))
         /\ {laid[i].path : i \in FilesIn(laid)} = {plan[j].path : j \in FilesIn(plan)}
<1> DEFINE F == FilesIn(laid)
           P == FilesIn(plan)
           g == [i \in F |-> CHOOSE j \in P : plan[j] = laid[i]]
<1>1. ASSUME NEW i \in F PROVE \E j \in P : plan[j] = laid[i]
  <2>1. i \in 1..Len(laid) /\ laid[i].type = "file"
    BY DEF FilesIn
  <2>2. PICK j \in 1..Len(plan) : plan[j] = laid[i]
    BY <2>1 DEF Laid
  <2>3. j \in P
    BY <2>1, <2>2 DEF FilesIn
  <2> QED
    BY <2>2, <2>3
<1>2. \A j \in P : \E i \in F : plan[j] = laid[i]
  BY DEF Laid, FilesIn
<1>3. g \in [F -> P] /\ \A i \in F : plan[g[i]] = laid[i]
  BY <1>1
<1>4. \A i, j \in F : laid[i].path = laid[j].path => i = j
  BY DEF Laid, FilesIn
<1>5. \A i, j \in P : plan[i].path = plan[j].path => i = j
  BY DEF Proper, FilesIn
<1>6. IsFiniteSet(F)
  <2>1. Len(laid) \in Nat
    BY LenProperties DEF Laid
  <2>2. IsFiniteSet(1..Len(laid)) /\ F \subseteq 1..Len(laid)
    BY <2>1, FS_Interval DEF FilesIn
  <2> QED
    BY <2>2, FS_Subset
<1> HIDE DEF F, P, g
<1>7. \A i, j \in F : g[i] = g[j] => i = j
  BY <1>3, <1>4
<1>8. \A j \in P : \E i \in F : g[i] = j
  <2> SUFFICES ASSUME NEW j \in P PROVE \E i \in F : g[i] = j
    OBVIOUS
  <2>1. PICK i \in F : plan[j] = laid[i]
    BY <1>2
  <2>2. g[i] \in P /\ plan[g[i]].path = plan[j].path
    BY <1>3, <2>1
  <2> QED
    BY <1>5, <2>2
<1>9. Cardinality(P) = Cardinality(F)
  BY <1>3, <1>6, <1>7, <1>8, SameCount
<1>10. {laid[i].path : i \in F} = {plan[j].path : j \in P}
  <2>1. \A i \in F : \E j \in P : laid[i].path = plan[j].path
    BY <1>1
  <2>2. \A j \in P : \E i \in F : plan[j].path = laid[i].path
    BY <1>2
  <2> QED
    BY <2>1, <2>2
<1> QED
  BY <1>9, <1>10 DEF F, P

\* One filter after another.
LEMMA PicksPicks ==
  ASSUME NEW s, NEW t, NEW u, NEW K, NEW L, NEW n \in Nat, NEW h, NEW e,
         Len(t) \in Nat, Len(u) \in Nat,
         Picks(h, t, s, K, n), Picks(e, u, t, L, Len(t))
  PROVE  Picks([j \in 1..Len(u) |-> h[e[j]]], u, s, K \cap L, n)
<1> DEFINE g == [j \in 1..Len(u) |-> h[e[j]]]
<1>1. /\ h \in [1..Len(t) -> 1..n]
      /\ \A i, j \in 1..Len(t) : i < j => h[i] < h[j]
      /\ \A j \in 1..Len(t) : t[j] = s[h[j]]
      /\ \A i \in 1..n : s[i] \in K <=> \E j \in 1..Len(t) : h[j] = i
  BY DEF Picks
<1>2. /\ e \in [1..Len(u) -> 1..Len(t)]
      /\ \A i, j \in 1..Len(u) : i < j => e[i] < e[j]
      /\ \A j \in 1..Len(u) : u[j] = t[e[j]]
      /\ \A i \in 1..Len(t) : t[i] \in L <=> \E j \in 1..Len(u) : e[j] = i
  BY DEF Picks
<1>3. g \in [1..Len(u) -> 1..n] /\ \A j \in 1..Len(u) : g[j] = h[e[j]] /\ e[j] \in 1..Len(t)
  BY <1>1, <1>2
<1> HIDE DEF g
<1>4. \A i, j \in 1..Len(u) : i < j => g[i] < g[j]
  BY <1>1, <1>2, <1>3
<1>5. \A j \in 1..Len(u) : u[j] = s[g[j]]
  BY <1>1, <1>2, <1>3
<1>6. \A i \in 1..n : s[i] \in K \cap L <=> \E j \in 1..Len(u) : g[j] = i
  <2> SUFFICES ASSUME NEW i \in 1..n PROVE s[i] \in K \cap L <=> \E j \in 1..Len(u) : g[j] = i
    OBVIOUS
  <2>1. ASSUME s[i] \in K \cap L PROVE \E j \in 1..Len(u) : g[j] = i
    <3>1. PICK k \in 1..Len(t) : h[k] = i
      BY <1>1, <2>1
    <3>2. t[k] \in L
      BY <1>1, <2>1, <3>1
    <3>3. PICK j \in 1..Len(u) : e[j] = k
      BY <1>2, <3>2
    <3> QED
      BY <1>3, <3>1, <3>3
  <2>2. ASSUME NEW j \in 1..Len(u), g[j] = i PROVE s[i] \in K \cap L
    <3>1. e[j] \in 1..Len(t) /\ h[e[j]] = i
      BY <1>3, <2>2
    <3>2. s[i] \in K /\ t[e[j]] = s[i]
      BY <1>1, <3>1
    <3>3. t[e[j]] \in L
      BY <1>2, <3>1
    <3> QED
      BY <3>2, <3>3
  <2> QED
    BY <2>1, <2>2
<1>7. Picks(g, u, s, K \cap L, n)
  BY <1>3, <1>4, <1>5, <1>6 DEF Picks
<1> QED
  BY <1>7 DEF g

\* What is in what was picked.
LEMMA OnlyRange ==
  ASSUME NEW S, NEW s \in Seq(S), NEW keep
  PROVE  Range(Only(s, keep)) = Range(s) \cap keep
<1> DEFINE t == Only(s, keep)
<1>1. t \in Seq(S) /\ \E h : Picks(h, t, s, keep, Len(s))
  BY OnlyPicks
<1>2. PICK h : Picks(h, t, s, keep, Len(s))
  BY <1>1
<1> HIDE DEF t
<1>3. Range(t) = {t[j] : j \in 1..Len(t)} /\ Range(s) = {s[i] : i \in 1..Len(s)}
  BY <1>1, LenProperties DEF Range
<1>4. ASSUME NEW j \in 1..Len(t) PROVE t[j] \in Range(s) \cap keep
  <2>1. h[j] \in 1..Len(s) /\ t[j] = s[h[j]]
    BY <1>2 DEF Picks
  <2>2. s[h[j]] \in keep
    BY <1>2, <2>1 DEF Picks
  <2> QED
    BY <1>3, <2>1, <2>2
<1>5. ASSUME NEW i \in 1..Len(s), s[i] \in keep PROVE s[i] \in Range(t)
  <2>1. PICK j \in 1..Len(t) : h[j] = i
    BY <1>2, <1>5 DEF Picks
  <2>2. t[j] = s[i]
    BY <1>2, <2>1 DEF Picks
  <2> QED
    BY <1>3, <2>2
<1>6. Range(t) = Range(s) \cap keep
  BY <1>3, <1>4, <1>5
<1> QED
  BY <1>6 DEF t

\* The image of a finite set is finite.
LEMMA FiniteImage ==
  ASSUME NEW S, NEW T, IsFiniteSet(S), NEW g \in [S -> T], \A t \in T : \E x \in S : g[x] = t
  PROVE  IsFiniteSet(T) /\ Cardinality(T) <= Cardinality(S)
<1>1. g \in Surjection(S, T)
  BY DEF Surjection
<1> QED
  BY <1>1, FS_Surjection DEF ExistsSurjection

-----------------------------------------------------------------------------
\* The sources that are ingested.

\* A source that is not refused before its files are converted.
Accepted(s) ==
  /\ IsSource(s) /\ s.kind \in {"upload", "folder", "git"}
  /\ Uploaded(s) => ~UploadRefused(s)

\* Its files have paths.
LEMMA FilesType ==
  ASSUME NEW s, Accepted(s)
  PROVE  /\ s.files \in Seq(Given) /\ Len(s.files) \in Nat /\ DOMAIN s.files = 1..Len(s.files)
         /\ Range(s.files) = {s.files[i] : i \in 1..Len(s.files)}
         /\ \A f \in Range(s.files) : f \in Given
         /\ \A f \in Given : f.path \in Seq(Names) /\ Len(f.path) \in Nat /\ Len(f.path) > 0
         /\ \A f \in Given : HandlerOf(f.path) \in Formats \union {"none"}
<1>1. s.files \in Seq(Given)
  BY DEF Accepted, IsSource
<1>2. Len(s.files) \in Nat /\ DOMAIN s.files = 1..Len(s.files) /\ \A i \in 1..Len(s.files) : s.files[i] \in Given
  BY <1>1, LenProperties
<1>3. ASSUME NEW f \in Given PROVE f.path \in Seq(Names) /\ Len(f.path) \in Nat /\ Len(f.path) > 0
  <2>1. f.path \in Seq(Names) /\ f.path # <<>>
    BY DEF Given
  <2> QED
    BY <2>1, EmptySeq
<1>4. ASSUME NEW f \in Given PROVE HandlerOf(f.path) \in Formats \union {"none"}
  <2>1. f.path[Len(f.path)] \in Names
    BY <1>3
  <2> QED
    BY <2>1, HandlerAssumption DEF HandlerOf, Last
<1> QED
  BY <1>1, <1>2, <1>3, <1>4 DEF Range

\* A folder that is uploaded: every file is below the one root.
LEMMA OneRoot ==
  ASSUME NEW s, Accepted(s), Uploaded(s), ~Loose(s)
  PROVE  \A f, g \in Range(s.files) : Len(f.path) > 1 /\ f.path[1] = g.path[1]
<1> DEFINE R == Range(s.files)
           H == {Head(f.path) : f \in R}
           n == Len(s.files)
<1>1. Cardinality(H) = 1 /\ \A f \in R : ~(Len(f.path) < 2)
  BY DEF Accepted, UploadRefused, NeitherFolderNorLoose
<1>2. IsFiniteSet(H)
  <2> DEFINE g == [i \in 1..n |-> Head(s.files[i].path)]
  <2>1. IsFiniteSet(1..n)
    BY FilesType, FS_Interval
  <2>3. \A i \in 1..n : s.files[i] \in R
    BY FilesType
  <2>4. \A f \in R : \E i \in 1..n : f = s.files[i]
    BY FilesType
  <2>5. \A i \in 1..n : g[i] = Head(s.files[i].path)
    OBVIOUS
  <2>2. g \in [1..n -> H] /\ \A t \in H : \E i \in 1..n : g[i] = t
    <3>1. \A i \in 1..n : Head(s.files[i].path) \in H
      BY <2>3
    <3>2. \A t \in H : \E i \in 1..n : g[i] = t
      <4> SUFFICES ASSUME NEW t \in H PROVE \E i \in 1..n : g[i] = t
        OBVIOUS
      <4>1. PICK f \in R : t = Head(f.path)
        OBVIOUS
      <4>2. PICK i \in 1..n : f = s.files[i]
        BY <2>4
      <4> QED
        BY <2>5, <4>1, <4>2
    <3> HIDE DEF H
    <3> QED
      BY <3>1, <3>2
  <2> HIDE DEF g, H
  <2> QED
    BY <2>1, <2>2, FiniteImage
<1>3. PICK x : H = {x}
  BY <1>1, <1>2, FS_Singleton
<1>4. ASSUME NEW f \in R PROVE Head(f.path) = f.path[1] /\ Len(f.path) > 1
  <2>1. f.path \in Seq(Names) /\ Len(f.path) \in Nat
    BY FilesType
  <2> QED
    BY <1>1, <2>1
<1>5. \A f \in R : Head(f.path) = x
  BY <1>3
<1> QED
  BY <1>4, <1>5

\* The path of a file below the root, as the walk and as a reader see it.
LEMMA InnerIs ==
  ASSUME NEW s, Accepted(s), NEW f \in Range(s.files)
  PROVE  /\ Below(s, f) = Inner(s, f) /\ Inner(s, f) \in Seq(Names) /\ Len(Inner(s, f)) > 0
         /\ Inner(s, f) = (IF Uploaded(s) /\ ~Loose(s) THEN Tail(f.path) ELSE f.path)
         /\ Skips(s, f) <=> ~\A n \in Range(Inner(s, f)) : n.key \notin Hidden
<1> DEFINE p == f.path
<1>1. p \in Seq(Names) /\ Len(p) \in Nat /\ Len(p) > 0 /\ DOMAIN p = 1..Len(p)
  BY FilesType, LenProperties
<1>2. Uploaded(s) /\ Loose(s) => Len(p) = 1
  BY DEF Loose
<1>3. Uploaded(s) /\ ~Loose(s) => Len(p) > 1
  BY OneRoot
<1>4. Uploaded(s) <=> s.kind = "upload"
  BY DEF Uploaded
<1>5. Inner(s, f) = (IF Uploaded(s) /\ ~Loose(s) THEN Tail(p) ELSE p)
  <2>1. (s.kind = "upload" /\ Len(p) > 1) <=> (Uploaded(s) /\ ~Loose(s))
    <3>1. ~(1 > 1)
      OBVIOUS
    <3>2. CASE Uploaded(s) /\ Loose(s)
      <4>1. ~(Len(p) > 1)
        BY <1>2, <3>1, <3>2
      <4> QED
        BY <3>2, <4>1
    <3>3. CASE Uploaded(s) /\ ~Loose(s)
      <4>1. Len(p) > 1
        BY <1>3, <3>3
      <4> QED
        BY <1>4, <3>3, <4>1
    <3>4. CASE ~Uploaded(s)
      BY <1>4, <3>4
    <3> QED
      BY <3>2, <3>3, <3>4
  <2> QED
    BY <2>1 DEF Inner
<1>6. p # <<>>
  BY <1>1, EmptySeq
<1>7. /\ Tail(p) \in Seq(Names) /\ Len(Tail(p)) = Len(p) - 1 /\ DOMAIN Tail(p) = 1..(Len(p) - 1)
      /\ \A i \in 1..(Len(p) - 1) : Tail(p)[i] = p[i + 1]
  BY <1>1, <1>6, HeadTailProperties, LenProperties
<1>8. CASE Uploaded(s) /\ ~Loose(s)
  <2>1. Inner(s, f) = Tail(p)
    BY <1>5, <1>8
  <2>2. Skips(s, f) <=> \E i \in 2..Len(p) : p[i].key \in Hidden
    BY <1>8 DEF Skips, IsHidden
  <2>3. \A i \in 2..Len(p) : i - 1 \in 1..(Len(p) - 1) /\ Tail(p)[i - 1] = p[i]
    <3> SUFFICES ASSUME NEW i \in 2..Len(p) PROVE i - 1 \in 1..(Len(p) - 1) /\ Tail(p)[i - 1] = p[i]
      OBVIOUS
    <3>1. PICK j \in 1..(Len(p) - 1) : j = i - 1 /\ j + 1 = i
      BY <1>1
    <3> QED
      BY <1>7, <3>1
  <2>4. \A j \in 1..(Len(p) - 1) : j + 1 \in 2..Len(p) /\ Tail(p)[j] = p[j + 1]
    BY <1>1, <1>7
  <2>5. (\E i \in 2..Len(p) : p[i].key \in Hidden) <=> \E j \in 1..(Len(p) - 1) : Tail(p)[j].key \in Hidden
    BY <2>3, <2>4
  <2>6. Range(Tail(p)) = {Tail(p)[j] : j \in 1..(Len(p) - 1)}
    BY <1>7 DEF Range
  <2>7. Skips(s, f) <=> ~\A n \in Range(Inner(s, f)) : n.key \notin Hidden
    BY <2>1, <2>2, <2>5, <2>6
  <2> QED
    BY <1>1, <1>3, <1>5, <1>7, <1>8, <2>7 DEF Below
<1>9. CASE ~(Uploaded(s) /\ ~Loose(s))
  <2>1. Inner(s, f) = p
    BY <1>5, <1>9
  <2>2. Skips(s, f) <=> \E i \in 1..Len(p) : p[i].key \in Hidden
    BY <1>9 DEF Skips, IsHidden
  <2>3. Range(p) = {p[j] : j \in 1..Len(p)}
    BY <1>1 DEF Range
  <2>4. Skips(s, f) <=> ~\A n \in Range(Inner(s, f)) : n.key \notin Hidden
    BY <2>1, <2>2, <2>3
  <2> QED
    BY <1>1, <1>5, <1>9, <2>1, <2>4 DEF Below
<1> QED
  BY <1>8, <1>9

\* Folding the names of a path.
LEMMA FoldedIs ==
  ASSUME NEW p \in Seq(Names)
  PROVE  /\ Folded(p) \in Seq({n.key : n \in Names}) /\ Len(Folded(p)) = Len(p)
         /\ \A i \in 1..Len(p) : Folded(p)[i] = p[i].key
<1>1. Len(p) \in Nat /\ \A i \in 1..Len(p) : p[i] \in Names
  BY LenProperties
<1> QED
  BY <1>1 DEF Folded

\* No file of an upload is where another one needs a directory, whatever the case of
\* their names.
LEMMA NoCollision ==
  ASSUME NEW s, Accepted(s), Uploaded(s),
         NEW i \in 1..Len(s.files), NEW j \in 1..Len(s.files), i # j
  PROVE  ~IsPrefix(s.files[i].path, s.files[j].path) /\ Folded(s.files[i].path) # Folded(s.files[j].path)
<1> DEFINE p == s.files[i].path
           q == s.files[j].path
<1>1. p \in Seq(Names) /\ q \in Seq(Names) /\ Len(p) \in Nat /\ Len(q) \in Nat
  <2>1. s.files[i] \in Given /\ s.files[j] \in Given
    BY FilesType, ElementOfSeq
  <2> QED
    BY <2>1, FilesType
<1>2. ~IsPrefix(Folded(p), Folded(q))
  BY DEF Accepted, UploadRefused, Collide
<1> HIDE DEF p, q
<1>3. /\ Folded(p) \in Seq({n.key : n \in Names}) /\ Len(Folded(p)) = Len(p)
      /\ Folded(q) \in Seq({n.key : n \in Names}) /\ Len(Folded(q)) = Len(q)
      /\ \A k \in 1..Len(p) : Folded(p)[k] = p[k].key
      /\ \A k \in 1..Len(q) : Folded(q)[k] = q[k].key
  BY <1>1, FoldedIs
<1>4. ~IsPrefix(p, q)
  <2> SUFFICES ASSUME IsPrefix(p, q) PROVE FALSE
    OBVIOUS
  <2>1. Len(p) <= Len(q) /\ \A k \in 1..Len(p) : p[k] = q[k]
    BY <1>1, PrefixByElement
  <2>4. \A k \in 1..Len(p) : k \in 1..Len(q)
    BY <1>1, <2>1
  <2>2. \A k \in 1..Len(p) : k \in 1..Len(q) /\ Folded(p)[k] = Folded(q)[k]
    BY <1>3, <2>1, <2>4
  <2>3. IsPrefix(Folded(p), Folded(q))
    BY <1>3, <2>1, <2>2, PrefixByElement
  <2> QED
    BY <1>2, <2>3
<1>5. Folded(p) # Folded(q)
  <2>1. IsPrefix(Folded(p), Folded(p))
    BY <1>1, <1>3, PrefixByElement
  <2> QED
    BY <1>2, <2>1
<1> QED
  BY <1>4, <1>5 DEF p, q

\* Nor is it below the root.
LEMMA Apart ==
  ASSUME NEW s, Accepted(s), NEW i \in 1..Len(s.files), NEW j \in 1..Len(s.files), i # j
  PROVE  ~IsPrefix(Inner(s, s.files[i]), Inner(s, s.files[j]))
<1> DEFINE f == s.files[i]
           g == s.files[j]
           p == f.path
           q == g.path
<1>1. f \in Range(s.files) /\ g \in Range(s.files) /\ f \in Given /\ g \in Given
  BY FilesType
<1>2. ~IsPrefix(p, q)
  <2>1. CASE Uploaded(s)
    BY <2>1, NoCollision
  <2>2. CASE ~Uploaded(s)
    BY <2>2 DEF Accepted, IsSource, Uploaded
  <2> QED
    BY <2>1, <2>2
<1>3. p \in Seq(Names) /\ q \in Seq(Names) /\ Len(p) \in Nat /\ Len(q) \in Nat /\ Len(p) > 0 /\ Len(q) > 0
  BY <1>1, FilesType
<1>4. CASE Uploaded(s) /\ ~Loose(s)
  <2>1. Inner(s, f) = Tail(p) /\ Inner(s, g) = Tail(q)
    BY <1>1, <1>4, InnerIs
  <2>2. p[1] = q[1]
    BY <1>1, <1>4, OneRoot
  <2> HIDE DEF f, g, p, q
  <2> SUFFICES ASSUME IsPrefix(Tail(p), Tail(q)) PROVE FALSE
    BY <2>1 DEF f, g
  <2>3. p # <<>> /\ q # <<>>
    BY <1>3, EmptySeq
  <2>4. /\ Tail(p) \in Seq(Names) /\ Len(Tail(p)) = Len(p) - 1
        /\ \A k \in 1..(Len(p) - 1) : Tail(p)[k] = p[k + 1]
        /\ Tail(q) \in Seq(Names) /\ Len(Tail(q)) = Len(q) - 1
        /\ \A k \in 1..(Len(q) - 1) : Tail(q)[k] = q[k + 1]
    BY <1>3, <2>3, HeadTailProperties
  <2>5. Len(p) - 1 <= Len(q) - 1 /\ \A k \in 1..(Len(p) - 1) : Tail(p)[k] = Tail(q)[k]
    <3>1. IsPrefix(Tail(p), Tail(q)) <=> Len(Tail(p)) <= Len(Tail(q)) /\ \A k \in 1..Len(Tail(p)) : Tail(p)[k] = Tail(q)[k]
      BY <2>4, PrefixByElement
    <3> QED
      BY <2>4, <3>1
  <2>6. ASSUME NEW k \in 1..Len(p) PROVE p[k] = q[k]
    <3>1. CASE k = 1
      BY <2>2, <3>1
    <3>2. CASE k # 1
      <4>1. PICK e \in 1..(Len(p) - 1) : e = k - 1 /\ e + 1 = k /\ e \in 1..(Len(q) - 1)
        BY <1>3, <2>5, <3>2
      <4> QED
        BY <2>4, <2>5, <4>1
    <3> QED
      BY <3>1, <3>2
  <2>7. IsPrefix(p, q)
    BY <1>3, <2>5, <2>6, PrefixByElement
  <2> QED
    BY <1>2, <2>7
<1>5. CASE ~(Uploaded(s) /\ ~Loose(s))
  <2>1. Inner(s, f) = p /\ Inner(s, g) = q
    BY <1>1, <1>5, InnerIs
  <2> QED
    BY <1>2, <2>1
<1> QED
  BY <1>4, <1>5

-----------------------------------------------------------------------------
\* What the walk finds.

\* m[k] is what is in the temporary directory after k files have been written.
Landing(m, t) ==
  /\ m[0] = <<>>
  /\ \A k \in 1..Len(t) : m[k] = Landed(m[k - 1], t[k])
  /\ FoldLeft(LAMBDA seen, f : Landed(seen, f), <<>>, t) = m[Len(t)]

\* What is in the directory is the end of such a sequence.
LEMMA LandedSteps ==
  ASSUME NEW t \in Seq(Given)
  PROVE  \E m \in [0..Len(t) -> Seq(Given)] : Landing(m, t)
<1> DEFINE T == Seq(Given)
           n == Len(t)
           D == DOMAIN t
           Eq(f) == f = [s \in SUBSET D |->
                            IF s = {} THEN <<>>
                            ELSE LET x == Max(s) IN Landed(f[s \ {x}], t[x])]
           h == CHOOSE h : Eq(h)
           G == [p \in (1..n) \X T |-> Landed(p[2], t[p[1]])]
           fold == FoldLeft(LAMBDA seen, f : Landed(seen, f), <<>>, t)
<1>1. fold = h[D]
  BY DEF FoldLeft, MapThenFoldSet
<1> HIDE DEF fold
<1>2. n \in Nat /\ D = 1..n /\ <<>> \in T /\ \A i \in 1..n : t[i] \in Given
  BY LenProperties, EmptySeq
<1> HIDE DEF D, n
<1>3. ASSUME NEW x \in 1..n, NEW u \in T
      PROVE  G[<<x, u>>] = Landed(u, t[x]) /\ Landed(u, t[x]) \in T
  <2>1. <<x, u>> \in (1..n) \X T /\ <<x, u>>[1] = x /\ <<x, u>>[2] = u
    OBVIOUS
  <2>2. Append(u, t[x]) \in T
    BY <1>2, AppendProperties
  <2>3. Landed(u, t[x]) \in T
    BY <2>2 DEF Landed
  <2> QED
    BY <2>1, <2>3
<1>4. G \in [(1..n) \X T -> T]
  <2>1. \A p \in (1..n) \X T : p[1] \in 1..n /\ p[2] \in T
    OBVIOUS
  <2>2. \A p \in (1..n) \X T : Landed(p[2], t[p[1]]) \in T
    BY <1>3, <2>1
  <2> HIDE DEF T
  <2> QED
    BY <2>2
<1> HIDE DEF G, T
<1>5. PICK f \in [SUBSET (1..n) -> T] : FoldsUp(f, n, <<>>, T, G)
  BY <1>2, <1>4, FoldExists
<1>6. Eq(f)
  <2> DEFINE r == [s \in SUBSET D |->
                            IF s = {} THEN <<>>
                            ELSE LET x == Max(s) IN Landed(f[s \ {x}], t[x])]
  <2>1. ASSUME NEW s \in SUBSET D PROVE f[s] = r[s]
    <3>1. s # {} => Max(s) \in 1..n /\ f[s \ {Max(s)}] \in T
      BY <1>2, <1>5, LastPlace
    <3> QED
      BY <1>2, <1>3, <1>5, <3>1 DEF FoldsUp
  <2> QED
    BY <1>2, <2>1
<1>7. Eq(h)
  <2> HIDE DEF Eq
  <2> QED
    BY <1>6
<1> HIDE DEF h
<1>8. FoldsUp(h, n, <<>>, T, G)
  <2>1. h[{}] = <<>>
    BY <1>7
  <2>2. ASSUME NEW s \in SUBSET (1..n), s # {}, h[s \ {Max(s)}] \in T
        PROVE  h[s] = G[<<Max(s), h[s \ {Max(s)}]>>]
    <3>1. Max(s) \in 1..n
      BY <1>2, <2>2, LastPlace
    <3>2. h[s] = Landed(h[s \ {Max(s)}], t[Max(s)])
      BY <1>2, <1>7, <2>2
    <3> QED
      BY <1>3, <2>2, <3>1, <3>2
  <2> QED
    BY <2>1, <2>2 DEF FoldsUp
<1> HIDE DEF Eq
<1>9. PICK m \in [0..n -> T] : m[n] = h[1..n] /\ Steps(m, n, <<>>, G)
  BY <1>2, <1>4, <1>8, FoldSteps
<1>10. ASSUME NEW k \in 1..n PROVE m[k] = Landed(m[k - 1], t[k])
  <2>1. k - 1 \in 0..n
    BY <1>2
  <2> QED
    BY <1>3, <1>9, <2>1 DEF Steps
<1>11. Landing(m, t)
  BY <1>1, <1>2, <1>9, <1>10 DEF Landing, Steps, n, fold
<1> QED
  BY <1>9, <1>11 DEF n, T

\* Where no two names collide, every file lands in a place of its own.
LEMMA LandsAll ==
  ASSUME NEW t \in Seq(Given),
         \A i, j \in 1..Len(t) : i # j => Folded(t[i].path) # Folded(t[j].path)
  PROVE  FoldLeft(LAMBDA seen, f : Landed(seen, f), <<>>, t) = t
<1> DEFINE n == Len(t)
<1>1. PICK m \in [0..n -> Seq(Given)] : Landing(m, t)
  BY LandedSteps
<1>2. n \in Nat /\ \A i \in 1..n : t[i] \in Given
  BY LenProperties
<1>3. /\ m[0] = <<>>
      /\ \A k \in 1..n : m[k] = Landed(m[k - 1], t[k])
      /\ FoldLeft(LAMBDA seen, f : Landed(seen, f), <<>>, t) = m[n]
  BY <1>1 DEF Landing
<1> DEFINE Same(k) == Len(m[k]) = k /\ \A i \in 1..k : m[k][i] = t[i]
           P == {k \in Nat : k \in 0..n => Same(k)}
<1>4. 0 \in P
  <2>1. Len(<<>>) = 0 /\ 1..0 = {}
    OBVIOUS
  <2>2. Len(m[0]) = 0
    BY <1>3, <2>1
  <2>3. Same(0)
    BY <2>1, <2>2
  <2> HIDE DEF Same
  <2> QED
    BY <2>3
<1>5. ASSUME NEW k \in Nat, k \in P PROVE k + 1 \in P
  <2> SUFFICES ASSUME k + 1 \in 0..n PROVE Same(k + 1)
    OBVIOUS
  <2>1. PICK j \in 1..n : j = k + 1 /\ j - 1 = k /\ k \in 0..n
    BY <1>2
  <2>2. m[k] \in Seq(Given) /\ Len(m[k]) = k /\ \A i \in 1..k : m[k][i] = t[i]
    BY <1>5, <2>1
  <2>3. m[j] = Landed(m[k], t[j])
    BY <1>3, <2>1
  <2>4. \A g \in Range(m[k]) : Folded(g.path) # Folded(t[j].path)
    <3> SUFFICES ASSUME NEW g \in Range(m[k]) PROVE Folded(g.path) # Folded(t[j].path)
      OBVIOUS
    <3>1. PICK i \in 1..k : g = m[k][i]
      BY <2>2, LenProperties DEF Range
    <3>2. i \in 1..n /\ i # j /\ g = t[i]
      BY <1>2, <2>1, <2>2, <3>1
    <3> QED
      BY <3>2
  <2>5. m[j] = Append(m[k], t[j])
    BY <2>3, <2>4 DEF Landed
  <2>6. /\ Len(m[j]) = k + 1 /\ \A i \in 1..k : m[j][i] = m[k][i]
        /\ m[j][k + 1] = t[j]
    BY <1>2, <2>2, <2>5, AppendProperties
  <2>7. \A i \in 1..(k + 1) : i \in 1..k \/ i = k + 1
    OBVIOUS
  <2> QED
    BY <2>1, <2>2, <2>6, <2>7
<1> HIDE DEF P
<1>6. Nat \subseteq P
  BY <1>4, <1>5, NumberInduction
<1>7. Same(n)
  BY <1>2, <1>6 DEF P
<1>8. m[n] = t
  BY <1>2, <1>7, SeqEqual
<1> QED
  BY <1>3, <1>8

\* A filter is known by what it keeps of the items there are.
LEMMA PicksSame ==
  ASSUME NEW h, NEW t, NEW s, NEW K, NEW L, NEW n, Picks(h, t, s, K, n),
         \A i \in 1..n : s[i] \in K <=> s[i] \in L
  PROVE  Picks(h, t, s, L, n)
BY DEF Picks

Holding(t, s, K, n) == \A x : x \in Range(t) <=> \E i \in 1..n : x = s[i] /\ s[i] \in K

\* What was picked is what is in the set.
LEMMA PicksRange ==
  ASSUME NEW S, NEW h, NEW t \in Seq(S), NEW s, NEW K, NEW n, Picks(h, t, s, K, n)
  PROVE  Holding(t, s, K, n)
<1>1. Range(t) = {t[j] : j \in 1..Len(t)}
  BY LenProperties DEF Range
<1>2. \A j \in 1..Len(t) : h[j] \in 1..n /\ t[j] = s[h[j]]
  BY DEF Picks
<1>3. \A i \in 1..n : s[i] \in K <=> \E j \in 1..Len(t) : h[j] = i
  BY DEF Picks
<1> QED
  BY <1>1, <1>2, <1>3 DEF Holding

\* The files of the directory that is walked.
Written(s) == {f \in Range(s.files) : ~(Uploaded(s) /\ Skips(s, f))}

\* The directory has what was not passed over when the upload was written.
LEMMA DirectoryPicks ==
  ASSUME NEW s, Accepted(s)
  PROVE  /\ Directory(s) \in Seq(Given)
         /\ \E h : Picks(h, Directory(s), s.files, Written(s), Len(s.files))
<1> DEFINE n == Len(s.files)
<1>1. s.files \in Seq(Given) /\ n \in Nat /\ \A i \in 1..n : s.files[i] \in Range(s.files)
  BY FilesType
<1>2. CASE ~Uploaded(s)
  <2>1. Directory(s) = s.files
    BY <1>2 DEF Directory
  <2> DEFINE h == [i \in 1..n |-> i]
  <2>2. h \in [1..n -> 1..n] /\ \A i \in 1..n : h[i] = i
    OBVIOUS
  <2>3. \A i \in 1..n : s.files[i] \in Written(s)
    BY <1>1, <1>2 DEF Written
  <2> HIDE DEF h
  <2>4. Picks(h, s.files, s.files, Written(s), n)
    BY <2>2, <2>3 DEF Picks
  <2> QED
    BY <1>1, <2>1, <2>4
<1>3. CASE Uploaded(s)
  <2> DEFINE keep == Range(s.files) \ {f \in Range(s.files) : Skips(s, f)}
             t == Only(s.files, keep)
  <2>1. t \in Seq(Given) /\ \E h : Picks(h, t, s.files, keep, n)
    BY <1>1, OnlyPicks
  <2>2. PICK h : Picks(h, t, s.files, keep, n)
    BY <2>1
  <2>3. Directory(s) = FoldLeft(LAMBDA seen, f : Landed(seen, f), <<>>, t)
    BY <1>3 DEF Directory, Without
  <2> HIDE DEF t
  <2>4. \A i, j \in 1..Len(t) : i # j => Folded(t[i].path) # Folded(t[j].path)
    <3> SUFFICES ASSUME NEW i \in 1..Len(t), NEW j \in 1..Len(t), i # j
                 PROVE  Folded(t[i].path) # Folded(t[j].path)
      OBVIOUS
    <3>1. h[i] \in 1..n /\ h[j] \in 1..n /\ t[i] = s.files[h[i]] /\ t[j] = s.files[h[j]]
      BY <2>2 DEF Picks
    <3>2. h[i] # h[j]
      <4>1. i < j \/ j < i
        BY <2>1, LenProperties
      <4>2. h[i] < h[j] \/ h[j] < h[i]
        BY <2>2, <4>1 DEF Picks
      <4> QED
        BY <1>1, <3>1, <4>2
    <3> QED
      BY <1>3, <3>1, <3>2, NoCollision
  <2>5. Directory(s) = t
    BY <2>1, <2>3, <2>4, LandsAll
  <2>6. \A i \in 1..n : s.files[i] \in keep <=> s.files[i] \in Written(s)
    BY <1>3 DEF Written
  <2> HIDE DEF keep
  <2>7. Picks(h, t, s.files, Written(s), n)
    BY <2>2, <2>6, PicksSame
  <2> QED
    BY <2>1, <2>5, <2>7
<1> QED
  BY <1>2, <1>3

\* The files the walk finds: the ones an ingest must take.
Seen(s) == {f \in Range(s.files) : ~Skips(s, f) /\ ~f.link}

\* The walk sees what an ingest must take, and what has no processor.
LEMMA VisiblePicks ==
  ASSUME NEW s, Accepted(s)
  PROVE  /\ Visible(s) \in Seq(Given)
         /\ \E h : Picks(h, Visible(s), s.files, Seen(s), Len(s.files))
<1> DEFINE n == Len(s.files)
           d == Directory(s)
           L == Range(d) \ {f \in Range(d) : Skips(s, f) \/ f.link}
<1>1. s.files \in Seq(Given) /\ n \in Nat /\ \A i \in 1..n : s.files[i] \in Range(s.files)
  BY FilesType
<1>2. d \in Seq(Given) /\ \E h : Picks(h, d, s.files, Written(s), n)
  BY DirectoryPicks
<1>3. PICK h : Picks(h, d, s.files, Written(s), n)
  BY <1>2
<1>4. Visible(s) = Only(d, L)
  BY DEF Visible, Without
<1> HIDE DEF d
<1>5. Only(d, L) \in Seq(Given) /\ \E e : Picks(e, Only(d, L), d, L, Len(d))
  BY <1>2, OnlyPicks
<1>6. PICK e : Picks(e, Only(d, L), d, L, Len(d))
  BY <1>5
<1>7. \A x : x \in Range(d) <=> \E i \in 1..n : x = s.files[i] /\ s.files[i] \in Written(s)
  <2>1. Holding(d, s.files, Written(s), n)
    BY <1>2, <1>3, PicksRange
  <2> QED
    BY <2>1 DEF Holding
<1>8. \A i \in 1..n : s.files[i] \in Written(s) \cap L <=> s.files[i] \in Seen(s)
  BY <1>1, <1>7 DEF Written, Seen
<1> DEFINE t == Only(d, L)
           g == [j \in 1..Len(t) |-> h[e[j]]]
<1>9. Len(d) \in Nat /\ Len(t) \in Nat
  BY <1>2, <1>5, LenProperties
<1> HIDE DEF L, t, n
<1>10. Picks(g, t, s.files, Written(s) \cap L, n)
  BY <1>1, <1>3, <1>6, <1>9, PicksPicks DEF t, n
<1> HIDE DEF g
<1>11. Picks(g, t, s.files, Seen(s), n)
  BY <1>8, <1>10, PicksSame
<1> QED
  BY <1>4, <1>5, <1>11 DEF t, n

\* It finds what is wanted.
LEMMA FoundPicks ==
  ASSUME NEW s, Accepted(s)
  PROVE  /\ Found(s) \in Seq(Given)
         /\ \E h : /\ Picks(h, Found(s), s.files, {f \in Seen(s) : HandlerOf(f.path) # "none"}, Len(s.files))
                   /\ \A i \in 1..Len(s.files) : i \in Wanted(s) <=> \E j \in 1..Len(Found(s)) : h[j] = i
<1> DEFINE n == Len(s.files)
           v == Visible(s)
           K == {f \in Seen(s) : HandlerOf(f.path) # "none"}
           L == Range(v) \ Alien(s)
<1>1. s.files \in Seq(Given) /\ n \in Nat /\ \A i \in 1..n : s.files[i] \in Range(s.files)
  BY FilesType
<1>2. v \in Seq(Given) /\ \E h : Picks(h, v, s.files, Seen(s), n)
  BY VisiblePicks
<1>3. PICK h : Picks(h, v, s.files, Seen(s), n)
  BY <1>2
<1>4. Found(s) = Only(v, L)
  BY DEF Found, Without
<1>5. Only(v, L) \in Seq(Given) /\ \E e : Picks(e, Only(v, L), v, L, Len(v))
  BY <1>2, OnlyPicks
<1>6. PICK e : Picks(e, Only(v, L), v, L, Len(v))
  BY <1>5
<1>7. \A x : x \in Range(v) <=> \E i \in 1..n : x = s.files[i] /\ s.files[i] \in Seen(s)
  <2>1. Holding(v, s.files, Seen(s), n)
    BY <1>2, <1>3, PicksRange
  <2> QED
    BY <2>1 DEF Holding
<1>8. \A i \in 1..n : s.files[i] \in Seen(s) \cap L <=> s.files[i] \in K
  BY <1>1, <1>7 DEF Alien, Seen
<1> DEFINE t == Only(v, L)
           g == [j \in 1..Len(t) |-> h[e[j]]]
<1>9. Len(v) \in Nat /\ Len(t) \in Nat
  BY <1>2, <1>5, LenProperties
<1> HIDE DEF L, t, v, n, K
<1>10. Picks(g, t, s.files, Seen(s) \cap L, n)
  BY <1>1, <1>3, <1>6, <1>9, PicksPicks DEF t
<1> HIDE DEF g
<1>11. Picks(g, t, s.files, K, n)
  BY <1>8, <1>10, PicksSame
<1>12. \A i \in 1..n : i \in Wanted(s) <=> s.files[i] \in K
  <2> SUFFICES ASSUME NEW i \in 1..n PROVE i \in Wanted(s) <=> s.files[i] \in K
    OBVIOUS
  <2> DEFINE f == s.files[i]
  <2>1. f \in Range(s.files)
    BY <1>1
  <2>2. Skips(s, f) <=> ~\A x \in Range(Inner(s, f)) : x.key \notin Hidden
    BY <2>1, InnerIs
  <2>3. Plain(s, f) <=> ~f.link /\ ~Skips(s, f)
    BY <2>2 DEF Plain
  <2>4. f \in K <=> ~Skips(s, f) /\ ~f.link /\ HandlerOf(f.path) # "none"
    BY <2>1 DEF K, Seen
  <2>5. i \in Wanted(s) <=> Plain(s, f) /\ HandlerOf(f.path) # "none"
    BY DEF Wanted, n, HandlerOf
  <2> QED
    BY <2>3, <2>4, <2>5
<1>13. \A i \in 1..n : s.files[i] \in K <=> \E j \in 1..Len(t) : g[j] = i
  BY <1>11 DEF Picks
<1>14. /\ Picks(g, Found(s), s.files, K, n)
       /\ \A i \in 1..n : i \in Wanted(s) <=> \E j \in 1..Len(Found(s)) : g[j] = i
  BY <1>4, <1>11, <1>12, <1>13 DEF t
<1>15. Found(s) \in Seq(Given)
  BY <1>4, <1>5
<1> QED
  BY <1>14, <1>15 DEF n, K

\* Two nodes, the second one later: which file of the source a node is.
PlacedAt(h, s, plan) ==
  /\ h \in [1..Len(Found(s)) -> 1..Len(s.files)]
  /\ \A i, j \in 1..Len(Found(s)) : h[i] = h[j] => i = j
  /\ \A i \in 1..Len(s.files) : i \in Wanted(s) <=> \E j \in 1..Len(Found(s)) : h[j] = i
  /\ plan \in Seq(Entries(Names)) /\ Len(plan) = Len(Found(s)) + 1 /\ plan[1] = Folder(Root)
  /\ \A j \in 1..Len(Found(s)) : plan[j + 1] = File(Inner(s, s.files[h[j]]))

\* The plan has the root and the wanted files.
LEMMA FolderPlanIs ==
  ASSUME NEW s, Accepted(s)
  PROVE  Len(Found(s)) \in Nat /\ \E h : PlacedAt(h, s, FolderPlan(s))
<1> DEFINE n == Len(s.files)
           t == Found(s)
           m == Len(t)
           K == {f \in Seen(s) : HandlerOf(f.path) # "none"}
           rest == [i \in 1..m |-> File(Below(s, t[i]))]
<1>1. s.files \in Seq(Given) /\ n \in Nat /\ \A i \in 1..n : s.files[i] \in Range(s.files)
  BY FilesType
<1>2. /\ t \in Seq(Given)
      /\ \E h : /\ Picks(h, t, s.files, K, n)
                /\ \A i \in 1..n : i \in Wanted(s) <=> \E j \in 1..m : h[j] = i
  BY FoundPicks
<1>3. PICK h : /\ Picks(h, t, s.files, K, n)
               /\ \A i \in 1..n : i \in Wanted(s) <=> \E j \in 1..m : h[j] = i
  BY <1>2
<1>4. FolderPlan(s) = <<Folder(Root)>> \o rest
  BY DEF FolderPlan
<1> HIDE DEF t, n
<1>5. m \in Nat
  BY <1>2, LenProperties
<1>6. /\ h \in [1..m -> 1..n]
      /\ \A i, j \in 1..m : i < j => h[i] < h[j]
      /\ \A j \in 1..m : t[j] = s.files[h[j]]
  BY <1>3 DEF Picks
<1>7. \A i, j \in 1..m : h[i] = h[j] => i = j
  <2> SUFFICES ASSUME NEW i \in 1..m, NEW j \in 1..m, h[i] = h[j] PROVE i = j
    OBVIOUS
  <2>1. h[i] \in Int /\ h[j] \in Int
    BY <1>1, <1>6
  <2>2. ~(i < j) /\ ~(j < i)
    BY <1>6, <2>1
  <2> QED
    BY <2>2
<1>8. ASSUME NEW j \in 1..m
      PROVE  /\ rest[j] = File(Inner(s, s.files[h[j]]))
             /\ File(Inner(s, s.files[h[j]])) \in Entries(Names)
  <2>1. s.files[h[j]] \in Range(s.files) /\ t[j] = s.files[h[j]]
    BY <1>1, <1>6
  <2>2. Below(s, t[j]) = Inner(s, s.files[h[j]]) /\ Inner(s, s.files[h[j]]) \in Seq(Names)
    BY <2>1, InnerIs
  <2>3. File(Inner(s, s.files[h[j]])) \in Entries(Names)
    BY <2>2 DEF File, Entry, Entries
  <2> QED
    BY <2>2, <2>3
<1>9. rest \in Seq(Entries(Names)) /\ Len(rest) = m
  BY <1>5, <1>8
<1>10. Folder(Root) \in Entries(Names) /\ <<Folder(Root)>> \in Seq(Entries(Names)) /\ Len(<<Folder(Root)>>) = 1
  <2>1. <<>> \in Seq(Names)
    BY EmptySeq
  <2>2. Folder(Root) \in Entries(Names)
    BY <2>1 DEF Folder, Entry, Entries, Root
  <2> QED
    BY <2>2
<1> DEFINE head == <<Folder(Root)>>
           plan == head \o rest
<1>11. head[1] = Folder(Root)
  OBVIOUS
<1> HIDE DEF rest, m, head
<1>12. /\ plan \in Seq(Entries(Names)) /\ Len(plan) = 1 + m
       /\ \A i \in 1..(1 + m) : plan[i] = IF i <= 1 THEN head[i] ELSE rest[i - 1]
  BY <1>9, <1>10, ConcatProperties DEF head
<1> HIDE DEF plan
<1>13. plan[1] = Folder(Root)
  BY <1>5, <1>11, <1>12
<1>14. ASSUME NEW j \in 1..m PROVE plan[j + 1] = rest[j]
  <2>1. PICK i \in 1..(1 + m) : i = j + 1 /\ i - 1 = j /\ ~(i <= 1)
    BY <1>5
  <2> QED
    BY <1>12, <2>1
<1>15. Len(plan) = m + 1
  BY <1>5, <1>12
<1>16. PlacedAt(h, s, plan)
  BY <1>3, <1>6, <1>7, <1>8, <1>12, <1>13, <1>14, <1>15 DEF PlacedAt, m, n, t
<1> QED
  BY <1>4, <1>5, <1>16 DEF plan, head, m, t

\* materialize can make it.
LEMMA FolderPlanIsProper ==
  ASSUME NEW s, Accepted(s)
  PROVE  Proper(FolderPlan(s), Names)
<1> DEFINE plan == FolderPlan(s)
           m == Len(Found(s))
           n == Len(s.files)
           In(j) == Inner(s, s.files[j])
<1>1. m \in Nat /\ \E h : PlacedAt(h, s, plan)
  BY FolderPlanIs
<1>2. PICK h : PlacedAt(h, s, plan)
  BY <1>1
<1> HIDE DEF plan, m, n
<1>3. /\ h \in [1..m -> 1..n]
      /\ \A i, j \in 1..m : h[i] = h[j] => i = j
      /\ plan \in Seq(Entries(Names)) /\ Len(plan) = m + 1 /\ plan[1] = Folder(Root)
      /\ \A j \in 1..m : plan[j + 1] = File(In(h[j]))
  BY <1>2 DEF PlacedAt, m, n
<1>4. ASSUME NEW j \in 1..n
      PROVE  In(j) \in Seq(Names) /\ Len(In(j)) \in Nat /\ Len(In(j)) > 0
  <2>1. s.files[j] \in Range(s.files)
    BY FilesType DEF n
  <2> QED
    BY <2>1, InnerIs, LenProperties
<1>5. \A i, j \in 1..n : i # j => ~IsPrefix(In(i), In(j))
  BY Apart DEF n
<1> HIDE DEF In
<1>6. ASSUME NEW i \in 1..(m + 1), i # 1
      PROVE  \E j \in 1..m : /\ i = j + 1 /\ plan[i] = File(In(h[j])) /\ h[j] \in 1..n
                             /\ plan[i].path = In(h[j]) /\ plan[i].type = "file" /\ plan[i].text = TRUE
  <2>1. PICK j \in 1..m : i = j + 1
    <3>1. i - 1 \in 1..m /\ i = i - 1 + 1
      BY <1>1, <1>6
    <3> QED
      BY <3>1
  <2>2. plan[i] = File(In(h[j])) /\ h[j] \in 1..n
    BY <1>3, <2>1
  <2>3. plan[i].path = In(h[j]) /\ plan[i].type = "file" /\ plan[i].text = TRUE
    BY <2>2 DEF File, Entry
  <2> QED
    BY <2>1, <2>2, <2>3
<1>7. plan[1].path = <<>> /\ plan[1].type = "folder" /\ plan[1].text = FALSE
  BY <1>3 DEF Folder, Entry, Root
<1>8. ASSUME NEW i \in 1..(m + 1), NEW j \in 1..(m + 1), plan[i].path = plan[j].path PROVE i = j
  <2>1. CASE i = 1 /\ j = 1
    BY <2>1
  <2>2. CASE i = 1 /\ j # 1
    <3>1. PICK e \in 1..m : h[e] \in 1..n /\ plan[j].path = In(h[e])
      BY <1>6, <2>2
    <3>2. Len(plan[j].path) > 0 /\ Len(<<>>) = 0
      BY <1>4, <3>1
    <3> QED
      BY <1>7, <1>8, <2>2, <3>2
  <2>3. CASE i # 1 /\ j = 1
    <3>1. PICK e \in 1..m : h[e] \in 1..n /\ plan[i].path = In(h[e])
      BY <1>6, <2>3
    <3>2. Len(plan[i].path) > 0 /\ Len(<<>>) = 0
      BY <1>4, <3>1
    <3> QED
      BY <1>7, <1>8, <2>3, <3>2
  <2>4. CASE i # 1 /\ j # 1
    <3>1. PICK e \in 1..m : i = e + 1 /\ h[e] \in 1..n /\ plan[i].path = In(h[e])
      BY <1>6, <2>4
    <3>2. PICK f \in 1..m : j = f + 1 /\ h[f] \in 1..n /\ plan[j].path = In(h[f])
      BY <1>6, <2>4
    <3>3. IsPrefix(In(h[e]), In(h[f]))
      <4>1. In(h[e]) \in Seq(Names) /\ In(h[e]) = In(h[f])
        BY <1>4, <1>8, <3>1, <3>2
      <4> QED
        BY <4>1, PrefixByElement, LenProperties
    <3>4. h[e] = h[f]
      BY <1>5, <3>1, <3>2, <3>3
    <3> QED
      BY <1>3, <3>1, <3>2, <3>4
  <2> QED
    BY <2>1, <2>2, <2>3, <2>4
<1>9. ASSUME NEW i \in 1..(m + 1) PROVE plan[i].text = (plan[i].type = "file")
  <2>1. CASE i = 1
    <3>1. plan[i].type = "folder" /\ plan[i].text = FALSE
      BY <1>7, <2>1
    <3> QED
      BY <3>1
  <2>2. CASE i # 1
    <3>1. plan[i].type = "file" /\ plan[i].text = TRUE
      BY <1>6, <2>2
    <3> QED
      BY <3>1
  <2> QED
    BY <2>1, <2>2
<1>10. ASSUME NEW i \in 1..(m + 1), NEW j \in 1..(m + 1),
              plan[i].type = "file", IsPrefix(plan[i].path, plan[j].path)
       PROVE  i = j
  <2>1. i # 1
    BY <1>7, <1>10
  <2>2. PICK e \in 1..m : i = e + 1 /\ h[e] \in 1..n /\ plan[i].path = In(h[e])
    BY <1>6, <2>1
  <2>3. CASE j = 1
    <3>1. plan[j].path = <<>> /\ <<>> \in Seq(Names) /\ Len(<<>>) = 0
      BY <1>7, <2>3, EmptySeq
    <3>2. Len(In(h[e])) <= Len(<<>>)
      BY <1>4, <1>10, <2>2, <3>1, PrefixByElement
    <3> QED
      BY <1>4, <2>2, <3>1, <3>2
  <2>4. CASE j # 1
    <3>1. PICK f \in 1..m : j = f + 1 /\ h[f] \in 1..n /\ plan[j].path = In(h[f])
      BY <1>6, <2>4
    <3>2. h[e] = h[f]
      BY <1>5, <1>10, <2>2, <3>1
    <3> QED
      BY <1>3, <2>2, <3>1, <3>2
  <2> QED
    BY <2>3, <2>4
<1>11. ASSUME NEW i \in 1..(m + 1), plan[i].path # Root
       PROVE  \E j \in 1..(m + 1) : plan[j].type = "file" /\ IsPrefix(plan[i].path, plan[j].path)
  <2>1. i # 1
    BY <1>7, <1>11 DEF Root
  <2>2. PICK e \in 1..m : h[e] \in 1..n /\ plan[i].path = In(h[e]) /\ plan[i].type = "file"
    BY <1>6, <2>1
  <2>3. IsPrefix(plan[i].path, plan[i].path)
    BY <1>4, <2>2, PrefixByElement
  <2> QED
    BY <2>2, <2>3
<1>12. Proper(plan, Names)
  BY <1>1, <1>3, <1>8, <1>9, <1>10, <1>11 DEF Proper
<1> QED
  BY <1>12 DEF plan

\* Its files are the wanted ones.
LEMMA FolderPlanHasWanted ==
  ASSUME NEW s, Accepted(s)
  PROVE  /\ {FolderPlan(s)[j].path : j \in FilesIn(FolderPlan(s))} = {Inner(s, s.files[i]) : i \in Wanted(s)}
         /\ Cardinality(FilesIn(FolderPlan(s))) = Cardinality(Wanted(s))
<1> DEFINE plan == FolderPlan(s)
           m == Len(Found(s))
           n == Len(s.files)
           F == FilesIn(plan)
           W == Wanted(s)
<1>1. m \in Nat /\ \E h : PlacedAt(h, s, plan)
  BY FolderPlanIs
<1>2. PICK h : PlacedAt(h, s, plan)
  BY <1>1
<1> HIDE DEF plan, m, n
<1>3. /\ h \in [1..m -> 1..n]
      /\ \A i, j \in 1..m : h[i] = h[j] => i = j
      /\ \A i \in 1..n : i \in W <=> \E j \in 1..m : h[j] = i
      /\ plan \in Seq(Entries(Names)) /\ Len(plan) = m + 1 /\ plan[1] = Folder(Root)
      /\ \A j \in 1..m : plan[j + 1] = File(Inner(s, s.files[h[j]]))
  BY <1>2 DEF PlacedAt, m, n
<1>4. n \in Nat /\ W \subseteq 1..n
  BY FilesType DEF Wanted, n
<1>5. \A j \in 1..m : /\ j + 1 \in 1..(m + 1) /\ plan[j + 1].type = "file"
                      /\ plan[j + 1].path = Inner(s, s.files[h[j]])
  <2> SUFFICES ASSUME NEW j \in 1..m
               PROVE  /\ j + 1 \in 1..(m + 1) /\ plan[j + 1].type = "file"
                      /\ plan[j + 1].path = Inner(s, s.files[h[j]])
    OBVIOUS
  <2>1. plan[j + 1] = File(Inner(s, s.files[h[j]]))
    BY <1>3
  <2>2. j + 1 \in 1..(m + 1)
    BY <1>1
  <2> QED
    BY <2>1, <2>2 DEF File, Entry
<1>6. plan[1].type = "folder"
  BY <1>3 DEF Folder, Entry
<1>7. \A i : i \in F <=> \E j \in 1..m : i = j + 1
  <2> SUFFICES ASSUME NEW i PROVE i \in F <=> \E j \in 1..m : i = j + 1
    OBVIOUS
  <2>1. i \in F <=> i \in 1..(m + 1) /\ plan[i].type = "file"
    BY <1>3 DEF FilesIn
  <2>2. ASSUME i \in F PROVE \E j \in 1..m : i = j + 1
    <3>1. i \in 1..(m + 1) /\ i # 1
      BY <1>6, <2>1, <2>2
    <3>2. i - 1 \in 1..m /\ i = i - 1 + 1
      BY <1>1, <3>1
    <3> QED
      BY <3>2
  <2> QED
    BY <1>5, <2>1, <2>2
<1> HIDE DEF F, W
<1> DEFINE g == [j \in 1..m |-> j + 1]
<1>8. IsFiniteSet(1..m)
  BY <1>1, FS_Interval
<1>9. Cardinality(F) = Cardinality(1..m)
  <2>1. g \in [1..m -> F] /\ \A x, y \in 1..m : g[x] = g[y] => x = y
    BY <1>1, <1>7
  <2>2. \A i \in F : \E j \in 1..m : g[j] = i
    BY <1>7
  <2> HIDE DEF g
  <2> QED
    BY <1>8, <2>1, <2>2, SameCount
<1>10. Cardinality(W) = Cardinality(1..m)
  <2>1. h \in [1..m -> W]
    BY <1>3
  <2>2. \A i \in W : \E j \in 1..m : h[j] = i
    BY <1>3, <1>4
  <2> QED
    BY <1>3, <1>8, <2>1, <2>2, SameCount
<1>11. {plan[j].path : j \in F} = {Inner(s, s.files[i]) : i \in W}
  <2>1. ASSUME NEW i \in F PROVE \E e \in W : plan[i].path = Inner(s, s.files[e])
    <3>1. PICK j \in 1..m : i = j + 1
      BY <1>7
    <3>2. h[j] \in W
      BY <1>3
    <3> QED
      BY <1>5, <3>1, <3>2
  <2>2. ASSUME NEW e \in W PROVE \E i \in F : plan[i].path = Inner(s, s.files[e])
    <3>1. PICK j \in 1..m : h[j] = e
      BY <1>3, <1>4
    <3>2. j + 1 \in F
      BY <1>7
    <3> QED
      BY <1>5, <3>1, <3>2
  <2> QED
    BY <2>1, <2>2
<1> QED
  BY <1>9, <1>10, <1>11 DEF plan, F, W

\* What an upload has besides is reported as skipped.
LEMMA SkippedIsTheRest ==
  ASSUME NEW s, Accepted(s), Uploaded(s)
  PROVE  Skipped(s) = {s.files[i].path : i \in 1..Len(s.files) \ Wanted(s)}
<1> DEFINE n == Len(s.files)
           v == Visible(s)
           R == {s.files[i].path : i \in 1..n \ Wanted(s)}
<1>1. s.files \in Seq(Given) /\ n \in Nat /\ Range(s.files) = {s.files[i] : i \in 1..n}
  BY FilesType
<1>2. v \in Seq(Given) /\ \E h : Picks(h, v, s.files, Seen(s), n)
  BY VisiblePicks
<1>3. PICK h : Picks(h, v, s.files, Seen(s), n)
  BY <1>2
<1>4. Holding(v, s.files, Seen(s), n)
  BY <1>2, <1>3, PicksRange
<1>5. \A f \in Range(s.files) : ~f.link
  BY DEF Accepted, IsSource, Uploaded
<1>6. \A f : f \in Range(v) <=> f \in Range(s.files) /\ ~Skips(s, f)
  <2>1. \A f : f \in Range(v) <=> \E i \in 1..n : f = s.files[i] /\ s.files[i] \in Seen(s)
    BY <1>4 DEF Holding
  <2>2. \A f : f \in Seen(s) <=> f \in Range(s.files) /\ ~Skips(s, f)
    BY <1>5 DEF Seen
  <2>3. \A f : f \in Range(v) <=> f \in Seen(s)
    BY <1>1, <2>1, <2>2
  <2> QED
    BY <2>2, <2>3
<1>7. \A f : f \in Alien(s) <=> f \in Range(s.files) /\ ~Skips(s, f) /\ HandlerOf(f.path) = "none"
  BY <1>6 DEF Alien
<1>8. \A i \in 1..n : i \in Wanted(s) <=> ~Skips(s, s.files[i]) /\ HandlerOf(s.files[i].path) # "none"
  <2> SUFFICES ASSUME NEW i \in 1..n
               PROVE  i \in Wanted(s) <=> ~Skips(s, s.files[i]) /\ HandlerOf(s.files[i].path) # "none"
    OBVIOUS
  <2> DEFINE f == s.files[i]
  <2>1. f \in Range(s.files)
    BY <1>1
  <2>2. Skips(s, f) <=> ~\A x \in Range(Inner(s, f)) : x.key \notin Hidden
    BY <2>1, InnerIs
  <2>3. Plain(s, f) <=> ~Skips(s, f)
    BY <1>5, <2>1, <2>2 DEF Plain
  <2>4. i \in Wanted(s) <=> Plain(s, f) /\ HandlerOf(f.path) # "none"
    BY DEF Wanted, HandlerOf
  <2> QED
    BY <2>3, <2>4
<1>9. Skipped(s) = {f.path : f \in Alien(s)} \union {f.path : f \in {g \in Range(s.files) : Skips(s, g)}}
  BY DEF Skipped, Unsupported
<1>10. ASSUME NEW x \in R PROVE x \in Skipped(s)
  <2>1. PICK i \in 1..n : i \notin Wanted(s) /\ x = s.files[i].path
    BY <1>10
  <2>2. s.files[i] \in Range(s.files)
    BY <1>1
  <2>3. s.files[i] \in Alien(s) \/ Skips(s, s.files[i])
    BY <1>7, <1>8, <2>1, <2>2
  <2>4. CASE s.files[i] \in Alien(s)
    BY <1>9, <2>1, <2>4
  <2>5. CASE Skips(s, s.files[i])
    <3>1. s.files[i] \in {g \in Range(s.files) : Skips(s, g)}
      BY <2>2, <2>5
    <3> QED
      BY <1>9, <2>1, <3>1
  <2> QED
    BY <2>3, <2>4, <2>5
<1>11. ASSUME NEW x \in Skipped(s) PROVE x \in R
  <2>1. PICK f \in Range(s.files) : x = f.path /\ (Skips(s, f) \/ HandlerOf(f.path) = "none")
    <3>1. CASE x \in {f.path : f \in Alien(s)}
      BY <1>7, <3>1
    <3>2. CASE x \in {f.path : f \in {g \in Range(s.files) : Skips(s, g)}}
      BY <3>2
    <3> QED
      BY <1>9, <1>11, <3>1, <3>2
  <2>2. PICK i \in 1..n : f = s.files[i]
    BY <1>1
  <2>3. i \notin Wanted(s)
    BY <1>8, <2>1, <2>2
  <2> QED
    BY <2>1, <2>2, <2>3
<1> QED
  BY <1>10, <1>11

\* What goes to the converters has a processor.
LEMMA FoundHasHandlers ==
  ASSUME NEW s, Accepted(s)
  PROVE  [i \in 1..Len(Found(s)) |-> HandlerOf(Found(s)[i].path)] \in Seq(Formats)
<1> DEFINE n == Len(s.files)
           t == Found(s)
           K == {f \in Seen(s) : HandlerOf(f.path) # "none"}
<1>1. /\ t \in Seq(Given)
      /\ \E h : /\ Picks(h, t, s.files, K, n)
                /\ \A i \in 1..n : i \in Wanted(s) <=> \E j \in 1..Len(t) : h[j] = i
  BY FoundPicks
<1>2. PICK h : Picks(h, t, s.files, K, n)
  BY <1>1
<1>3. Len(t) \in Nat
  BY <1>1, LenProperties
<1>4. ASSUME NEW i \in 1..Len(t) PROVE HandlerOf(t[i].path) \in Formats
  <2>1. h[i] \in 1..n /\ t[i] = s.files[h[i]] /\ s.files[h[i]] \in K
    BY <1>2 DEF Picks
  <2>2. t[i] \in Given
    BY <1>1, ElementOfSeq
  <2>3. HandlerOf(t[i].path) \in Formats \union {"none"}
    BY <2>2, FilesType
  <2> QED
    BY <2>1, <2>3
<1> HIDE DEF t
<1>5. [i \in 1..Len(t) |-> HandlerOf(t[i].path)] \in Seq(Formats)
  BY <1>3, <1>4
<1> QED
  BY <1>5 DEF t

-----------------------------------------------------------------------------
\* Sequences without repetition.

Distinct(s) == \A i, j \in 1..Len(s) : s[i] = s[j] => i = j

\* A filter repeats nothing.
LEMMA OnlyDistinct ==
  ASSUME NEW S, NEW s \in Seq(S), Distinct(s), NEW keep
  PROVE  /\ Only(s, keep) \in Seq(S) /\ Distinct(Only(s, keep))
         /\ Range(Only(s, keep)) = Range(s) \cap keep
<1> DEFINE t == Only(s, keep)
<1>1. t \in Seq(S) /\ \E h : Picks(h, t, s, keep, Len(s))
  BY OnlyPicks
<1>2. PICK h : Picks(h, t, s, keep, Len(s))
  BY <1>1
<1>3. Range(t) = Range(s) \cap keep
  BY OnlyRange
<1> HIDE DEF t
<1>4. Distinct(t)
  <2> SUFFICES ASSUME NEW i \in 1..Len(t), NEW j \in 1..Len(t), t[i] = t[j] PROVE i = j
    BY DEF Distinct
  <2>1. /\ h[i] \in 1..Len(s) /\ h[j] \in 1..Len(s) /\ t[i] = s[h[i]] /\ t[j] = s[h[j]]
        /\ i < j => h[i] < h[j]
        /\ j < i => h[j] < h[i]
    BY <1>2 DEF Picks
  <2>2. h[i] = h[j]
    BY <2>1 DEF Distinct
  <2>3. h[i] \in Int /\ h[j] \in Int /\ i \in Int /\ j \in Int
    BY <2>1
  <2> QED
    BY <2>1, <2>2, <2>3
<1> QED
  BY <1>1, <1>3, <1>4 DEF t

\* What there is in two sequences.
LEMMA JoinedRange ==
  ASSUME NEW S, NEW s \in Seq(S), NEW t \in Seq(S)
  PROVE  /\ s \o t \in Seq(S) /\ Range(s \o t) = Range(s) \union Range(t)
         /\ Range(s) = {s[i] : i \in 1..Len(s)}
<1> DEFINE u == s \o t
           p == Len(s)
           q == Len(t)
<1>1. /\ u \in Seq(S) /\ p \in Nat /\ q \in Nat /\ Len(u) = p + q
      /\ \A i \in 1..(p + q) : u[i] = IF i <= p THEN s[i] ELSE t[i - p]
  BY ConcatProperties, LenProperties
<1>2. /\ Range(u) = {u[i] : i \in 1..(p + q)} /\ Range(s) = {s[i] : i \in 1..p}
      /\ Range(t) = {t[i] : i \in 1..q}
  BY <1>1, LenProperties DEF Range
<1> HIDE DEF u, p, q
<1>3. ASSUME NEW i \in 1..(p + q) PROVE u[i] \in Range(s) \union Range(t)
  <2>1. CASE i <= p
    <3>1. i \in 1..p /\ u[i] = s[i]
      BY <1>1, <2>1
    <3> QED
      BY <1>2, <3>1
  <2>2. CASE ~(i <= p)
    <3>1. i - p \in 1..q /\ u[i] = t[i - p]
      BY <1>1, <2>2
    <3> QED
      BY <1>2, <3>1
  <2> QED
    BY <2>1, <2>2
<1>4. ASSUME NEW i \in 1..p PROVE s[i] \in Range(u)
  <2>1. i \in 1..(p + q) /\ i <= p
    BY <1>1
  <2> QED
    BY <1>1, <1>2, <2>1
<1>5. ASSUME NEW j \in 1..q PROVE t[j] \in Range(u)
  <2>1. PICK i \in 1..(p + q) : i = p + j /\ ~(i <= p) /\ i - p = j
    BY <1>1
  <2>2. u[i] = t[j]
    BY <1>1, <2>1
  <2> QED
    BY <1>2, <2>2
<1>6. Range(u) = Range(s) \union Range(t)
  BY <1>2, <1>3, <1>4, <1>5
<1> QED
  BY <1>1, <1>2, <1>6 DEF u, p

\* Two sequences without repetition that have nothing in common.
LEMMA JoinedDistinct ==
  ASSUME NEW S, NEW s \in Seq(S), NEW t \in Seq(S), Distinct(s), Distinct(t),
         Range(s) \cap Range(t) = {}
  PROVE  Distinct(s \o t)
<1> DEFINE u == s \o t
           p == Len(s)
           q == Len(t)
<1>1. /\ u \in Seq(S) /\ p \in Nat /\ q \in Nat /\ Len(u) = p + q
      /\ \A i \in 1..(p + q) : u[i] = IF i <= p THEN s[i] ELSE t[i - p]
  BY ConcatProperties, LenProperties
<1>2. Range(s) = {s[i] : i \in 1..p} /\ Range(t) = {t[i] : i \in 1..q}
  BY <1>1, LenProperties DEF Range
<1>3. (\A i, j \in 1..p : s[i] = s[j] => i = j) /\ \A i, j \in 1..q : t[i] = t[j] => i = j
  BY DEF Distinct
<1>4. \A i \in 1..p : \A j \in 1..q : s[i] # t[j]
  BY <1>2
<1> HIDE DEF u, p, q
<1>5. ASSUME NEW i \in 1..(p + q), NEW j \in 1..(p + q), u[i] = u[j] PROVE i = j
  <2>1. \A k \in 1..(p + q) : \/ k \in 1..p /\ u[k] = s[k]
                              \/ k - p \in 1..q /\ u[k] = t[k - p]
    BY <1>1
  <2>2. CASE i \in 1..p /\ u[i] = s[i]
    <3>1. CASE j \in 1..p /\ u[j] = s[j]
      BY <1>3, <1>5, <2>2, <3>1
    <3>2. CASE j - p \in 1..q /\ u[j] = t[j - p]
      BY <1>4, <1>5, <2>2, <3>2
    <3> QED
      BY <2>1, <3>1, <3>2
  <2>3. CASE i - p \in 1..q /\ u[i] = t[i - p]
    <3>1. CASE j \in 1..p /\ u[j] = s[j]
      BY <1>4, <1>5, <2>3, <3>1
    <3>2. CASE j - p \in 1..q /\ u[j] = t[j - p]
      <4>1. i - p = j - p
        BY <1>3, <1>5, <2>3, <3>2
      <4> QED
        BY <1>1, <4>1
    <3> QED
      BY <2>1, <3>1, <3>2
  <2> QED
    BY <2>1, <2>2, <2>3
<1> QED
  BY <1>1, <1>5 DEF Distinct, u

\* What is missing is added.
LEMMA AddMissing ==
  ASSUME NEW S, NEW s \in Seq(S), NEW t \in Seq(S), Distinct(s), Distinct(t)
  PROVE  LET u == s \o Without(t, Range(s))
         IN  u \in Seq(S) /\ Distinct(u) /\ Range(u) = Range(s) \union Range(t)
<1> DEFINE w == Without(t, Range(s))
<1>1. w = Only(t, Range(t) \ Range(s))
  BY DEF Without
<1>2. w \in Seq(S) /\ Distinct(w) /\ Range(w) = Range(t) \ Range(s)
  BY <1>1, OnlyDistinct
<1> HIDE DEF w
<1>3. s \o w \in Seq(S) /\ Range(s \o w) = Range(s) \union Range(w) /\ Distinct(s \o w)
  BY <1>2, JoinedRange, JoinedDistinct
<1> QED
  BY <1>2, <1>3 DEF w

-----------------------------------------------------------------------------
\* The headings of a paper.

IsPaper(p) == IsSource(p) /\ p.kind = "paper"
Titles == STRING
SectionRow == [heading : Seq(Titles) \ {<<>>}, text : BOOLEAN]
FloatRow == [folder : {"figures", "tables"}, number : Nat]

\* The sections and images of a paper.
LEMMA PaperType ==
  ASSUME NEW p, IsPaper(p)
  PROVE  /\ p.sections \in Seq(SectionRow) /\ p.floats \in Seq(FloatRow)
         /\ Range(p.sections) = {p.sections[i] : i \in 1..Len(p.sections)}
         /\ \A s \in SectionRow : s.heading \in Seq(Titles) /\ Len(s.heading) \in Nat /\ Len(s.heading) > 0
<1>1. p.sections \in Seq(SectionRow) /\ p.floats \in Seq(FloatRow)
  BY DEF IsPaper, IsSource, SectionRow, FloatRow, Titles
<1>2. Range(p.sections) = {p.sections[i] : i \in 1..Len(p.sections)}
  BY <1>1, LenProperties DEF Range
<1>3. ASSUME NEW s \in SectionRow PROVE s.heading \in Seq(Titles) /\ Len(s.heading) \in Nat /\ Len(s.heading) > 0
  <2>1. s.heading \in Seq(Titles) /\ s.heading # <<>>
    BY DEF SectionRow
  <2> QED
    BY <2>1, EmptySeq
<1> QED
  BY <1>1, <1>2, <1>3

\* The beginnings of a heading that are headings.
Above(h) == {a \in Seq(Titles) : a # <<>> /\ IsPrefix(a, h)}

\* The ancestors of a heading, without the root.
LEMMA AncestorsOf ==
  ASSUME NEW h \in Seq(Titles)
  PROVE  /\ Tail(Ancestry(h)) \in Seq(Seq(Titles)) /\ Distinct(Tail(Ancestry(h)))
         /\ Range(Tail(Ancestry(h))) = Above(h)
<1> DEFINE a == Ancestry(h)
           t == Tail(a)
           n == Len(h)
<1>1. /\ n \in Nat /\ a \in Seq(Seq(Titles)) /\ Len(a) = n + 1
      /\ \A i \in 1..(n + 1) : /\ a[i] \in Seq(Titles) /\ Len(a[i]) = i - 1 /\ IsPrefix(a[i], h)
  BY AncestryType, LenProperties
<1> HIDE DEF a, n
<1>2. a # <<>>
  BY <1>1, EmptySeq
<1>3. /\ t \in Seq(Seq(Titles)) /\ Len(t) = n + 1 - 1 /\ \A i \in 1..Len(t) : t[i] = a[i + 1]
  BY <1>1, <1>2, HeadTailProperties
<1> HIDE DEF t
<1>4. Len(t) = n
  BY <1>1, <1>3
<1>5. ASSUME NEW i \in 1..n
      PROVE  t[i] \in Seq(Titles) /\ Len(t[i]) = i /\ IsPrefix(t[i], h)
  <2>1. PICK j \in 1..(n + 1) : j = i + 1 /\ j - 1 = i
    BY <1>1
  <2> QED
    BY <1>1, <1>3, <1>4, <2>1
<1>6. Distinct(t)
  BY <1>4, <1>5 DEF Distinct
<1>7. Range(t) = {t[i] : i \in 1..n}
  BY <1>3, <1>4, LenProperties DEF Range
<1>8. ASSUME NEW i \in 1..n PROVE t[i] \in Above(h)
  <2>1. t[i] # <<>>
    BY <1>5, EmptySeq
  <2> QED
    BY <1>5, <2>1 DEF Above
<1>9. ASSUME NEW x \in Above(h) PROVE \E i \in 1..n : x = t[i]
  <2>1. x \in Seq(Titles) /\ x # <<>> /\ IsPrefix(x, h)
    BY DEF Above
  <2>2. Len(x) \in Nat \ {0} /\ Len(x) <= n /\ \A k \in 1..Len(x) : x[k] = h[k]
    BY <2>1, EmptySeq, PrefixByElement DEF n
  <2> DEFINE i == Len(x)
  <2>6. i \in 1..n
    BY <1>1, <2>2
  <2>3. i \in 1..n /\ t[i] \in Seq(Titles) /\ Len(t[i]) = i /\ IsPrefix(t[i], h)
    <3> HIDE DEF i
    <3> QED
      BY <1>5, <2>6
  <2>4. \A k \in 1..i : t[i][k] = h[k]
    BY <2>3, PrefixByElement
  <2>5. x = t[i]
    BY <2>1, <2>2, <2>3, <2>4, SeqEqual
  <2> QED
    BY <2>3, <2>5
<1>10. Range(t) = Above(h)
  BY <1>7, <1>8, <1>9
<1> QED
  BY <1>3, <1>6, <1>10 DEF t, a

\* One section more is outlined.
Outlined(seen, h) == seen \o Without(Tail(Ancestry(h)), Range(seen))

\* m[k] is the outline of the first k sections.
Outlining(m, p) ==
  /\ m[0] = <<>>
  /\ \A k \in 1..Len(p.sections) : m[k] = Outlined(m[k - 1], p.sections[k].heading)
  /\ Headings(p) = m[Len(p.sections)]

\* The outline is of headings, and repeats none.
LEMMA OutlinedType ==
  ASSUME NEW h \in Seq(Titles), NEW seen \in Seq(Seq(Titles))
  PROVE  /\ Outlined(seen, h) \in Seq(Seq(Titles))
         /\ Distinct(seen) => /\ Distinct(Outlined(seen, h))
                              /\ Range(Outlined(seen, h)) = Range(seen) \union Above(h)
<1> DEFINE t == Tail(Ancestry(h))
           w == Without(t, Range(seen))
<1>1. t \in Seq(Seq(Titles)) /\ Distinct(t) /\ Range(t) = Above(h)
  BY AncestorsOf
<1> HIDE DEF t
<1>2. w \in Seq(Seq(Titles))
  BY <1>1, OnlyPicks DEF Without
<1>3. seen \o w \in Seq(Seq(Titles))
  <2> HIDE DEF w
  <2> QED
    BY <1>2, ConcatProperties
<1>4. ASSUME Distinct(seen)
      PROVE  Distinct(seen \o w) /\ Range(seen \o w) = Range(seen) \union Above(h)
  BY <1>1, <1>4, AddMissing
<1> QED
  BY <1>3, <1>4 DEF Outlined, t

\* The outline is the end of such a sequence.
LEMMA HeadingsSteps ==
  ASSUME NEW p, IsPaper(p)
  PROVE  \E m \in [0..Len(p.sections) -> Seq(Seq(Titles))] : Outlining(m, p)
<1> DEFINE T == Seq(Seq(Titles))
           t == p.sections
           n == Len(t)
           D == DOMAIN t
           Eq(f) == f = [s \in SUBSET D |->
                            IF s = {} THEN <<>>
                            ELSE LET x == Max(s)
                                 IN  f[s \ {x}] \o Without(Tail(Ancestry(t[x].heading)), Range(f[s \ {x}]))]
           h == CHOOSE h : Eq(h)
           G == [y \in (1..n) \X T |-> Outlined(y[2], t[y[1]].heading)]
<1>1. Headings(p) = h[D]
  BY DEF Headings, FoldLeft, MapThenFoldSet
<1>2. n \in Nat /\ D = 1..n /\ <<>> \in T /\ \A i \in 1..n : t[i].heading \in Seq(Titles)
  <2>1. t \in Seq(SectionRow) /\ \A s \in SectionRow : s.heading \in Seq(Titles)
    BY PaperType
  <2>2. \A i \in 1..n : t[i] \in SectionRow
    BY <2>1, ElementOfSeq
  <2> QED
    BY <2>1, <2>2, LenProperties, EmptySeq
<1> HIDE DEF D, n, t
<1>3. ASSUME NEW x \in 1..n, NEW u \in T
      PROVE  G[<<x, u>>] = Outlined(u, t[x].heading) /\ Outlined(u, t[x].heading) \in T
  <2>1. <<x, u>> \in (1..n) \X T /\ <<x, u>>[1] = x /\ <<x, u>>[2] = u
    OBVIOUS
  <2>2. Outlined(u, t[x].heading) \in T
    BY <1>2, OutlinedType
  <2> QED
    BY <2>1, <2>2
<1>4. G \in [(1..n) \X T -> T]
  <2>1. \A y \in (1..n) \X T : y[1] \in 1..n /\ y[2] \in T
    OBVIOUS
  <2>2. \A y \in (1..n) \X T : Outlined(y[2], t[y[1]].heading) \in T
    BY <1>3, <2>1
  <2> HIDE DEF T
  <2> QED
    BY <2>2
<1> HIDE DEF G, T
<1>5. PICK f \in [SUBSET (1..n) -> T] : FoldsUp(f, n, <<>>, T, G)
  BY <1>2, <1>4, FoldExists
<1>6. Eq(f)
  <2> DEFINE r == [s \in SUBSET D |->
                            IF s = {} THEN <<>>
                            ELSE LET x == Max(s)
                                 IN  f[s \ {x}] \o Without(Tail(Ancestry(t[x].heading)), Range(f[s \ {x}]))]
  <2>1. ASSUME NEW s \in SUBSET D PROVE f[s] = r[s]
    <3>1. s # {} => Max(s) \in 1..n /\ f[s \ {Max(s)}] \in T
      BY <1>2, <1>5, LastPlace
    <3>2. CASE s = {}
      BY <1>5, <3>2 DEF FoldsUp
    <3>3. CASE s # {}
      <4>1. f[s] = G[<<Max(s), f[s \ {Max(s)}]>>]
        BY <1>2, <1>5, <3>1, <3>3 DEF FoldsUp
      <4>2. f[s] = Outlined(f[s \ {Max(s)}], t[Max(s)].heading)
        BY <1>3, <3>1, <3>3, <4>1
      <4> QED
        BY <3>3, <4>2 DEF Outlined
    <3> QED
      BY <3>2, <3>3
  <2> QED
    BY <1>2, <2>1
<1>7. Eq(h)
  <2> HIDE DEF Eq
  <2> QED
    BY <1>6
<1> HIDE DEF h
<1>8. FoldsUp(h, n, <<>>, T, G)
  <2>1. h[{}] = <<>>
    BY <1>7
  <2>2. ASSUME NEW s \in SUBSET (1..n), s # {}, h[s \ {Max(s)}] \in T
        PROVE  h[s] = G[<<Max(s), h[s \ {Max(s)}]>>]
    <3>1. Max(s) \in 1..n
      BY <1>2, <2>2, LastPlace
    <3>2. h[s] = Outlined(h[s \ {Max(s)}], t[Max(s)].heading)
      BY <1>2, <1>7, <2>2 DEF Outlined
    <3> QED
      BY <1>3, <2>2, <3>1, <3>2
  <2> QED
    BY <2>1, <2>2 DEF FoldsUp
<1> HIDE DEF Eq
<1>9. PICK m \in [0..n -> T] : m[n] = h[1..n] /\ Steps(m, n, <<>>, G)
  BY <1>2, <1>4, <1>8, FoldSteps
<1>10. ASSUME NEW k \in 1..n PROVE m[k] = Outlined(m[k - 1], t[k].heading)
  <2>1. k - 1 \in 0..n
    BY <1>2
  <2> QED
    BY <1>3, <1>9, <2>1 DEF Steps
<1>11. Outlining(m, p)
  BY <1>1, <1>2, <1>9, <1>10 DEF Outlining, Steps, n, t
<1> QED
  BY <1>9, <1>11 DEF n, t, T

\* The outline has every beginning of every heading, once.
LEMMA HeadingsAre ==
  ASSUME NEW p, IsPaper(p)
  PROVE  /\ Headings(p) \in Seq(Seq(Titles)) /\ Distinct(Headings(p))
         /\ \A h : h \in Range(Headings(p)) <=> \E s \in Range(p.sections) : h \in Above(s.heading)
<1> DEFINE n == Len(p.sections)
           B(k) == {h \in Seq(Titles) : \E j \in 1..k : h \in Above(p.sections[j].heading)}
<1>1. PICK m \in [0..n -> Seq(Seq(Titles))] : Outlining(m, p)
  BY HeadingsSteps
<1>2. n \in Nat /\ \A i \in 1..n : p.sections[i] \in SectionRow /\ p.sections[i].heading \in Seq(Titles)
  <2>1. p.sections \in Seq(SectionRow) /\ \A s \in SectionRow : s.heading \in Seq(Titles)
    BY PaperType
  <2> QED
    BY <2>1, ElementOfSeq, LenProperties
<1>3. /\ m[0] = <<>>
      /\ \A k \in 1..n : m[k] = Outlined(m[k - 1], p.sections[k].heading)
      /\ Headings(p) = m[n]
  BY <1>1 DEF Outlining
<1> DEFINE Same(k) == Distinct(m[k]) /\ Range(m[k]) = B(k)
           P == {k \in Nat : k \in 0..n => Same(k)}
<1> HIDE DEF n
<1>4. 0 \in P
  <2>1. Len(<<>>) = 0 /\ 1..0 = {} /\ DOMAIN <<>> = {}
    OBVIOUS
  <2>2. Distinct(m[0]) /\ Range(m[0]) = {}
    BY <1>3, <2>1 DEF Distinct, Range
  <2>3. B(0) = {}
    BY <2>1
  <2>4. Same(0)
    BY <2>2, <2>3
  <2> HIDE DEF Same
  <2> QED
    BY <2>4
<1>5. ASSUME NEW k \in Nat, k \in P PROVE k + 1 \in P
  <2> SUFFICES ASSUME k + 1 \in 0..n PROVE Same(k + 1)
    OBVIOUS
  <2>1. PICK j \in 1..n : j = k + 1 /\ j - 1 = k /\ k \in 0..n
    BY <1>2
  <2>2. m[k] \in Seq(Seq(Titles)) /\ Distinct(m[k]) /\ Range(m[k]) = B(k)
    BY <1>5, <2>1
  <2>3. m[j] = Outlined(m[k], p.sections[j].heading)
    BY <1>3, <2>1
  <2>4. Distinct(m[j]) /\ Range(m[j]) = B(k) \union Above(p.sections[j].heading)
    <3> HIDE DEF B
    <3> QED
      BY <1>2, <2>2, <2>3, OutlinedType
  <2>5. B(j) = B(k) \union Above(p.sections[j].heading)
    <3>1. \A i \in 1..(k + 1) : i \in 1..k \/ i = k + 1
      OBVIOUS
    <3>2. \A i \in 1..k : i \in 1..(k + 1)
      OBVIOUS
    <3>3. j \in 1..j /\ Above(p.sections[j].heading) \subseteq Seq(Titles)
      BY DEF Above
    <3> QED
      BY <2>1, <3>1, <3>2, <3>3
  <2> QED
    BY <2>1, <2>4, <2>5
<1> HIDE DEF P
<1>6. Nat \subseteq P
  BY <1>4, <1>5, NumberInduction
<1>7. Same(n)
  <2>1. n \in 0..n /\ n \in P
    BY <1>2, <1>6
  <2> HIDE DEF Same
  <2> QED
    BY <2>1 DEF P
<1>8. Range(p.sections) = {p.sections[i] : i \in 1..n}
  BY PaperType DEF n
<1>9. \A h : h \in B(n) <=> \E s \in Range(p.sections) : h \in Above(s.heading)
  BY <1>8 DEF Above
<1> QED
  BY <1>2, <1>3, <1>7, <1>9

\* The headings that lead to a text are kept, once each.
LEMMA KeptAre ==
  ASSUME NEW p, IsPaper(p)
  PROVE  /\ Kept(p) \in Seq(Seq(Titles)) /\ Distinct(Kept(p))
         /\ \A h : h \in Range(Kept(p)) <=> \E s \in Range(p.sections) : s.text /\ h \in Above(s.heading)
<1> DEFINE hs == Headings(p)
           keep == {h \in Range(hs) : Leads(p, h)}
<1>1. /\ hs \in Seq(Seq(Titles)) /\ Distinct(hs)
      /\ \A h : h \in Range(hs) <=> \E s \in Range(p.sections) : h \in Above(s.heading)
  BY HeadingsAre
<1>2. Kept(p) = Only(hs, keep)
  BY DEF Kept
<1> HIDE DEF hs
<1>3. Only(hs, keep) \in Seq(Seq(Titles)) /\ Distinct(Only(hs, keep)) /\ Range(Only(hs, keep)) = Range(hs) \cap keep
  BY <1>1, OnlyDistinct
<1>4. ASSUME NEW h PROVE h \in keep <=> \E s \in Range(p.sections) : s.text /\ h \in Above(s.heading)
  <2>1. ASSUME h \in keep PROVE \E s \in Range(p.sections) : s.text /\ h \in Above(s.heading)
    <3>1. PICK s \in Range(p.sections) : s.text /\ IsPrefix(h, s.heading)
      BY <2>1 DEF Leads
    <3>2. PICK u \in Range(p.sections) : h \in Above(u.heading)
      BY <1>1, <2>1
    <3> QED
      BY <3>1, <3>2 DEF Above
  <2>2. ASSUME NEW s \in Range(p.sections), s.text, h \in Above(s.heading) PROVE h \in keep
    BY <1>1, <2>2 DEF Above, Leads
  <2> QED
    BY <2>1, <2>2
<1> HIDE DEF keep
<1> QED
  BY <1>2, <1>3, <1>4 DEF keep

-----------------------------------------------------------------------------
\* The places of headings.

\* The headings that are kept.
KeptOf(p) == Range(Kept(p))

\* With a heading its parents are kept.
LEMMA KeptIs ==
  ASSUME NEW p, IsPaper(p)
  PROVE  /\ \A h \in KeptOf(p) : h \in Seq(Titles) /\ Len(h) \in Nat /\ Len(h) > 0
         /\ \A h \in KeptOf(p) : \A a \in Seq(Titles) : a # <<>> /\ IsPrefix(a, h) => a \in KeptOf(p)
<1>1. \A h : h \in KeptOf(p) <=> \E s \in Range(p.sections) : s.text /\ h \in Above(s.heading)
  BY KeptAre DEF KeptOf
<1>2. ASSUME NEW h \in KeptOf(p) PROVE h \in Seq(Titles) /\ Len(h) \in Nat /\ Len(h) > 0
  <2>1. h \in Seq(Titles) /\ h # <<>>
    BY <1>1 DEF Above
  <2> QED
    BY <2>1, EmptySeq
<1>3. ASSUME NEW h \in KeptOf(p), NEW a \in Seq(Titles), a # <<>>, IsPrefix(a, h) PROVE a \in KeptOf(p)
  <2>1. PICK s \in Range(p.sections) : s.text /\ h \in Above(s.heading)
    BY <1>1
  <2>2. s.heading \in Seq(Titles)
    <3>1. s \in SectionRow
      <4>1. PICK i \in 1..Len(p.sections) : s = p.sections[i]
        BY PaperType
      <4>2. p.sections \in Seq(SectionRow)
        BY PaperType
      <4> QED
        BY <4>1, <4>2, ElementOfSeq
    <3> QED
      BY <3>1, PaperType
  <2>3. h \in Seq(Titles) /\ IsPrefix(h, s.heading)
    BY <2>1 DEF Above
  <2>4. IsPrefix(a, s.heading)
    BY <1>3, <2>2, <2>3, PrefixOfPrefix
  <2>5. a \in Above(s.heading)
    BY <1>3, <2>4 DEF Above
  <2> QED
    BY <1>1, <2>1, <2>5
<1> QED
  BY <1>2, <1>3

\* The headings inside one are those of which it is the front.
LEMMA InsideIs ==
  ASSUME NEW p, IsPaper(p), NEW h
  PROVE  /\ Inside(p, h) \in Seq(Seq(Titles)) /\ Distinct(Inside(p, h))
         /\ Range(Inside(p, h)) = {c \in KeptOf(p) : Front(c) = h}
         /\ \A c \in KeptOf(p) : Front(c) = h => \E i \in 1..Len(Inside(p, h)) : Inside(p, h)[i] = c
<1> DEFINE keep == {c \in Range(Kept(p)) : Front(c) = h}
           t == Inside(p, h)
<1>1. t = Only(Kept(p), keep)
  BY DEF Inside
<1>2. Kept(p) \in Seq(Seq(Titles)) /\ Distinct(Kept(p))
  BY KeptAre
<1> HIDE DEF t
<1>3. t \in Seq(Seq(Titles)) /\ Distinct(t) /\ Range(t) = Range(Kept(p)) \cap keep
  BY <1>1, <1>2, OnlyDistinct
<1>4. Range(t) = keep /\ Range(t) = {t[i] : i \in 1..Len(t)}
  BY <1>3, LenProperties DEF Range
<1>5. \A c \in KeptOf(p) : Front(c) = h => \E i \in 1..Len(t) : t[i] = c
  BY <1>4 DEF KeptOf
<1> QED
  BY <1>3, <1>4, <1>5 DEF KeptOf, t

\* The number among its siblings tells a heading apart.
LEMMA SegmentsDiffer ==
  ASSUME NEW p, IsPaper(p), NEW h \in KeptOf(p), NEW k \in KeptOf(p), Front(h) = Front(k),
         Segment(p, h) = Segment(p, k)
  PROVE  h = k
<1> DEFINE t == Inside(p, Front(h))
           i == CHOOSE i \in 1..Len(t) : t[i] = h
           j == CHOOSE j \in 1..Len(t) : t[j] = k
<1>1. (\E x \in 1..Len(t) : t[x] = h) /\ \E x \in 1..Len(t) : t[x] = k
  <2>1. \A c \in KeptOf(p) : Front(c) = Front(h) => \E x \in 1..Len(t) : t[x] = c
    BY InsideIs
  <2> HIDE DEF t
  <2> QED
    BY <2>1
<1>2. t[i] = h /\ t[j] = k
  BY <1>1
<1>3. Segment(p, h)[2] = i
  BY DEF Segment
<1>4. Segment(p, k)[2] = j
  BY DEF Segment
<1> QED
  BY <1>2, <1>3, <1>4

\* The names of a paper's nodes.
Segments(p) == {Segment(p, h) : h \in Seq(Titles)}
Captions == {<<"figures">>, <<"tables">>}
Images == {<<"image", x>> : x \in Seq(Nat)}
PaperNames(p) == Segments(p) \union {Overview, <<"metadata">>} \union Captions \union Images

\* No section is called as a file or folder of another kind is.
LEMMA SegmentIsNoName ==
  ASSUME NEW p
  PROVE  /\ Overview \notin Segments(p) /\ <<"metadata">> \notin Segments(p)
         /\ Captions \cap Segments(p) = {}
<1>1. \A h : \E x, y : Segment(p, h) = <<"section", x, y>>
  BY DEF Segment
<1>2. \A x, y, z : <<"section", x, y>> # <<z>>
  <2> SUFFICES ASSUME NEW x, NEW y, NEW z, <<"section", x, y>> = <<z>> PROVE FALSE
    OBVIOUS
  <2>1. Len(<<"section", x, y>>) = 3 /\ Len(<<z>>) = 1
    OBVIOUS
  <2> QED
    BY <2>1
<1>3. \A n \in Segments(p) : \A z : n # <<z>>
  BY <1>1, <1>2 DEF Segments
<1> QED
  BY <1>3 DEF Overview, Captions

\* Where a heading is, name by name.
LEMMA PlaceIs ==
  ASSUME NEW p, IsPaper(p), NEW h \in Seq(Titles)
  PROVE  /\ Place(p, h) \in Seq(Segments(p)) /\ Place(p, h) \in Seq(PaperNames(p)) /\ Len(Place(p, h)) = Len(h)
         /\ \A i \in 1..Len(h) : Place(p, h)[i] = Segment(p, SubSeq(h, 1, i))
<1>1. Len(h) \in Nat
  BY LenProperties
<1>2. ASSUME NEW i \in 1..Len(h) PROVE Segment(p, SubSeq(h, 1, i)) \in Segments(p)
  <2>1. i \in 0..Len(h)
    BY <1>1
  <2>2. SubSeq(h, 1, i) \in Seq(Titles)
    BY <2>1, FirstLines
  <2> QED
    BY <2>2 DEF Segments
<1> DEFINE t == [i \in 1..Len(h) |-> Segment(p, SubSeq(h, 1, i))]
<1>3. t \in Seq(Segments(p)) /\ Len(t) = Len(h) /\ t \in Seq(PaperNames(p))
  <2>1. Segments(p) \subseteq PaperNames(p)
    BY DEF PaperNames
  <2>2. \A i \in 1..Len(h) : Segment(p, SubSeq(h, 1, i)) \in PaperNames(p)
    BY <1>2, <2>1
  <2>3. t \in Seq(Segments(p)) /\ Len(t) = Len(h)
    BY <1>1, <1>2
  <2>4. t \in Seq(PaperNames(p))
    BY <1>1, <2>2
  <2> QED
    BY <2>3, <2>4
<1> QED
  BY <1>3 DEF Place

\* One is inside the other exactly where their headings are.
LEMMA PlaceOfPrefix ==
  ASSUME NEW p, IsPaper(p), NEW h \in KeptOf(p), NEW k \in KeptOf(p)
  PROVE  IsPrefix(Place(p, h), Place(p, k)) <=> IsPrefix(h, k)
<1> DEFINE n == Len(h)
           H(i) == SubSeq(h, 1, i)
           K(i) == SubSeq(k, 1, i)
<1>1. h \in Seq(Titles) /\ k \in Seq(Titles) /\ n \in Nat /\ Len(k) \in Nat
  BY KeptIs
<1>2. /\ Place(p, h) \in Seq(Segments(p)) /\ Len(Place(p, h)) = n
      /\ \A i \in 1..n : Place(p, h)[i] = Segment(p, H(i))
      /\ Place(p, k) \in Seq(Segments(p)) /\ Len(Place(p, k)) = Len(k)
      /\ \A i \in 1..Len(k) : Place(p, k)[i] = Segment(p, K(i))
  BY <1>1, PlaceIs
<1>3. \A i \in 0..n : /\ H(i) \in Seq(Titles) /\ Len(H(i)) = i /\ IsPrefix(H(i), h)
                      /\ i = n => H(i) = h
  BY <1>1, FirstLines
<1>4. \A i \in 0..Len(k) : K(i) \in Seq(Titles) /\ Len(K(i)) = i /\ IsPrefix(K(i), k)
  BY <1>1, FirstLines
<1> HIDE DEF n, H, K
<1>5. ASSUME IsPrefix(Place(p, h), Place(p, k)) PROVE IsPrefix(h, k)
  <2>1. n <= Len(k) /\ \A i \in 1..n : Place(p, h)[i] = Place(p, k)[i]
    BY <1>2, <1>5, PrefixByElement
  <2>2. \A i \in 1..n : Segment(p, H(i)) = Segment(p, K(i))
    <3>1. \A i \in 1..n : i \in 1..Len(k)
      BY <1>1, <2>1
    <3> QED
      BY <1>2, <2>1, <3>1
  <2> DEFINE P == {i \in Nat : i \in 0..n => H(i) = K(i)}
  <2>3. 0 \in P
    <3>1. 0 \in 0..n /\ 0 \in 0..Len(k)
      BY <1>1
    <3>2. Len(H(0)) = 0 /\ Len(K(0)) = 0
      BY <1>3, <1>4, <3>1
    <3>3. H(0) = <<>> /\ K(0) = <<>>
      BY <1>3, <1>4, <3>1, <3>2, EmptySeq
    <3> QED
      BY <3>3
  <2>4. ASSUME NEW i \in Nat, i \in P PROVE i + 1 \in P
    <3> SUFFICES ASSUME i + 1 \in 0..n PROVE H(i + 1) = K(i + 1)
      OBVIOUS
    <3>1. PICK j \in 1..n : j = i + 1 /\ j - 1 = i /\ i \in 0..n /\ j \in 0..n /\ j \in 0..Len(k) /\ i \in 0..Len(k)
      BY <1>1, <2>1
    <3>2. H(i) = K(i)
      BY <2>4, <3>1
    <3>3. H(j) \in KeptOf(p) /\ K(j) \in KeptOf(p)
      <4>1. H(j) \in Seq(Titles) /\ Len(H(j)) = j /\ IsPrefix(H(j), h)
        BY <1>3, <3>1
      <4>2. K(j) \in Seq(Titles) /\ Len(K(j)) = j /\ IsPrefix(K(j), k)
        BY <1>4, <3>1
      <4>3. H(j) # <<>> /\ K(j) # <<>>
        BY <3>1, <4>1, <4>2, EmptySeq
      <4> QED
        BY <4>1, <4>2, <4>3, KeptIs
    <3>4. Front(H(j)) = H(i) /\ Front(K(j)) = K(i)
      <4>1. /\ Len(H(j)) = j /\ Len(K(j)) = j /\ H(j) \in Seq(Titles) /\ K(j) \in Seq(Titles)
            /\ IsPrefix(H(j), h) /\ IsPrefix(K(j), k) /\ j > 0
        BY <1>3, <1>4, <3>1
      <4>2. /\ Front(H(j)) \in Seq(Titles) /\ Len(Front(H(j))) = i /\ IsPrefix(Front(H(j)), H(j))
            /\ Front(K(j)) \in Seq(Titles) /\ Len(Front(K(j))) = i /\ IsPrefix(Front(K(j)), K(j))
        BY <3>1, <4>1, FrontOf
      <4>3. IsPrefix(Front(H(j)), h) /\ IsPrefix(Front(K(j)), k)
        BY <1>1, <4>1, <4>2, PrefixOfPrefix
      <4>4. \A e \in 1..i : Front(H(j))[e] = h[e] /\ H(i)[e] = h[e]
        <5>1. \A e \in 1..i : Front(H(j))[e] = h[e]
          BY <1>1, <4>2, <4>3, PrefixByElement
        <5>2. \A e \in 1..i : H(i)[e] = h[e]
          BY <1>1, <1>3, <3>1, PrefixByElement
        <5> QED
          BY <5>1, <5>2
      <4>5. \A e \in 1..i : Front(K(j))[e] = k[e] /\ K(i)[e] = k[e]
        BY <1>1, <1>4, <3>1, <4>2, <4>3, PrefixByElement
      <4>6. Front(H(j)) = H(i)
        BY <1>3, <3>1, <4>2, <4>4, SeqEqual
      <4>7. Front(K(j)) = K(i)
        BY <1>4, <3>1, <4>2, <4>5, SeqEqual
      <4> QED
        BY <4>6, <4>7
    <3>5. Segment(p, H(j)) = Segment(p, K(j))
      BY <2>2
    <3>6. H(j) = K(j)
      BY <3>2, <3>3, <3>4, <3>5, SegmentsDiffer
    <3> QED
      BY <3>1, <3>6
  <2> HIDE DEF P
  <2>5. Nat \subseteq P
    BY <2>3, <2>4, NumberInduction
  <2>6. H(n) = K(n) /\ n \in 0..n /\ n \in 0..Len(k)
    BY <1>1, <2>1, <2>5 DEF P
  <2> QED
    BY <1>3, <1>4, <2>6
<1>6. ASSUME IsPrefix(h, k) PROVE IsPrefix(Place(p, h), Place(p, k))
  <2>1. n <= Len(k) /\ \A i \in 1..n : h[i] = k[i]
    BY <1>1, <1>6, PrefixByElement DEF n
  <2>2. ASSUME NEW i \in 1..n PROVE H(i) = K(i)
    <3>1. i \in 0..n /\ i \in 0..Len(k)
      BY <1>1, <2>1
    <3>2. \A e \in 1..i : H(i)[e] = h[e] /\ K(i)[e] = k[e] /\ h[e] = k[e]
      <4>1. \A e \in 1..i : e \in 1..n
        BY <1>1
      <4> QED
        <5>1. \A e \in 1..i : H(i)[e] = h[e]
          BY <1>1, <1>3, <3>1, PrefixByElement
        <5>2. \A e \in 1..i : K(i)[e] = k[e]
          BY <1>1, <1>4, <3>1, PrefixByElement
        <5> QED
          BY <2>1, <4>1, <5>1, <5>2
    <3> QED
      BY <1>3, <1>4, <3>1, <3>2, SeqEqual
  <2>3. \A i \in 1..n : i \in 1..Len(k) /\ Place(p, h)[i] = Place(p, k)[i]
    <3>1. \A i \in 1..n : i \in 1..Len(k)
      BY <1>1, <2>1
    <3> QED
      BY <1>2, <2>2, <3>1
  <2> QED
    BY <1>2, <2>1, <2>3, PrefixByElement
<1> QED
  BY <1>5, <1>6

\* Sequences that have nothing in common are flattened to one without repetition.
LEMMA FlattenDistinct ==
  ASSUME NEW S, NEW seqs \in Seq(Seq(S)), \A i \in 1..Len(seqs) : Distinct(seqs[i]),
         \A i, j \in 1..Len(seqs) : i # j => Range(seqs[i]) \cap Range(seqs[j]) = {}
  PROVE  /\ FlattenSeq(seqs) \in Seq(S) /\ Distinct(FlattenSeq(seqs))
         /\ \A x : x \in Range(FlattenSeq(seqs)) <=> \E i \in 1..Len(seqs) : x \in Range(seqs[i])
<1> DEFINE n == Len(seqs)
           U(k) == {x \in S : \E i \in 1..k : x \in Range(seqs[i])}
<1>1. n \in Nat /\ \A i \in 1..n : seqs[i] \in Seq(S) /\ Range(seqs[i]) \subseteq S
  <2>1. n \in Nat
    BY LenProperties
  <2>2. \A i \in 1..n : seqs[i] \in Seq(S)
    BY ElementOfSeq
  <2>3. \A s \in Seq(S) : Range(s) \subseteq S
    BY DEF Range
  <2> QED
    BY <2>1, <2>2, <2>3
<1>2. CASE n = 0
  <2>1. FlattenSeq(seqs) = <<>>
    BY <1>2, EmptySeq DEF FlattenSeq
  <2>2. Len(<<>>) = 0 /\ DOMAIN <<>> = {} /\ <<>> \in Seq(S) /\ 1..0 = {}
    OBVIOUS
  <2>3. Distinct(<<>>) /\ Range(<<>>) = {}
    BY <2>2 DEF Distinct, Range
  <2> QED
    BY <1>2, <2>1, <2>2, <2>3
<1>3. CASE n # 0
  <2>1. PICK f \in [1..n -> Seq(S)] : Appending(f, n, seqs) /\ FlattenSeq(seqs) = f[n]
    BY <1>1, <1>3, FlattenSteps
  <2> HIDE DEF n
  <2>2. f[1] = seqs[1] /\ \A i \in 2..n : f[i] = f[i - 1] \o seqs[i]
    BY <2>1 DEF Appending
  <2> DEFINE Good(k) == Distinct(f[k]) /\ Range(f[k]) = U(k)
             P == {k \in Nat : k + 1 \in 1..n => Good(k + 1)}
  <2>3. 0 \in P
    <3>1. 1 \in 1..n /\ 0 + 1 = 1
      BY <1>1, <1>3
    <3>2. U(1) = Range(seqs[1])
      BY <1>1, <3>1
    <3>3. Distinct(seqs[1])
      BY <3>1 DEF n
    <3>4. Good(1)
      BY <2>2, <3>2, <3>3
    <3> HIDE DEF Good
    <3> QED
      BY <3>1, <3>4
  <2>4. ASSUME NEW k \in Nat, k \in P PROVE k + 1 \in P
    <3> SUFFICES ASSUME k + 1 + 1 \in 1..n PROVE Good(k + 1 + 1)
      OBVIOUS
    <3>1. PICK e \in 1..n : e = k + 1
      BY <1>1
    <3>2. PICK j \in 2..n : j = k + 1 + 1 /\ j - 1 = e /\ j \in 1..n /\ j = e + 1
      BY <1>1, <3>1
    <3>3. Distinct(f[e]) /\ Range(f[e]) = U(e) /\ f[e] \in Seq(S)
      BY <2>4, <3>1
    <3>4. f[j] = f[e] \o seqs[j]
      BY <2>2, <3>2
    <3>5. Distinct(seqs[j]) /\ seqs[j] \in Seq(S) /\ Range(seqs[j]) \subseteq S
      BY <1>1, <3>2 DEF n
    <3>6. U(e) \cap Range(seqs[j]) = {}
      <4>1. \A i \in 1..e : i \in 1..n /\ i # j
        BY <1>1, <3>1, <3>2
      <4>2. \A i \in 1..e : Range(seqs[i]) \cap Range(seqs[j]) = {}
        BY <3>2, <4>1 DEF n
      <4> QED
        BY <4>2
    <3>7. U(j) = U(e) \union Range(seqs[j])
      <4>1. \A i \in 1..j : i \in 1..e \/ i = j
        BY <3>2
      <4>2. j \in 1..j /\ \A i \in 1..e : i \in 1..j
        BY <3>1, <3>2
      <4> QED
        BY <3>5, <4>1, <4>2
    <3> HIDE DEF U
    <3>8. Distinct(f[j]) /\ Range(f[j]) = U(j)
      BY <3>3, <3>4, <3>5, <3>6, <3>7, JoinedRange, JoinedDistinct
    <3> QED
      BY <3>2, <3>8
  <2> HIDE DEF P
  <2>5. Nat \subseteq P
    BY <2>3, <2>4, NumberInduction
  <2>6. Good(n)
    <3>1. n - 1 \in Nat /\ n - 1 + 1 = n /\ n \in 1..n
      BY <1>1, <1>3
    <3>2. n - 1 \in P
      BY <2>5, <3>1
    <3> HIDE DEF Good
    <3> QED
      BY <3>1, <3>2 DEF P
  <2>7. \A x : x \in U(n) <=> \E i \in 1..n : x \in Range(seqs[i])
    BY <1>1
  <2> HIDE DEF U
  <2>8. \A x : x \in Range(FlattenSeq(seqs)) <=> \E i \in 1..n : x \in Range(seqs[i])
    BY <2>1, <2>6, <2>7
  <2>9. FlattenSeq(seqs) \in Seq(S)
    BY FlattenType
  <2> QED
    BY <2>1, <2>6, <2>8, <2>9 DEF n
<1> QED
  BY <1>2, <1>3

\* Sequences that end with an item that is in no other place.
LEMMA EndsApart ==
  ASSUME NEW S, NEW v, v \notin S, NEW a \in Seq(S), NEW b \in Seq(S)
  PROVE  /\ ~IsPrefix(Append(a, v), b)
         /\ IsPrefix(Append(a, v), Append(b, v)) => a = b
         /\ IsPrefix(a, Append(b, v)) => IsPrefix(a, b)
<1> DEFINE T == S \union {v}
           m == Len(a)
           n == Len(b)
           c == Append(a, v)
           d == Append(b, v)
<1>1. a \in Seq(T) /\ b \in Seq(T) /\ m \in Nat /\ n \in Nat /\ v \in T
  <2>1. S \subseteq T /\ m \in Nat /\ n \in Nat
    BY LenProperties
  <2>2. (\A i \in 1..m : a[i] \in T) /\ \A i \in 1..n : b[i] \in T
    BY ElementOfSeq
  <2>3. a \in [1..m -> T] /\ b \in [1..n -> T]
    BY <2>2, LenProperties
  <2> QED
    BY <2>1, <2>3
<1>2. /\ c \in Seq(T) /\ Len(c) = m + 1 /\ (\A i \in 1..m : c[i] = a[i]) /\ c[m + 1] = v
      /\ d \in Seq(T) /\ Len(d) = n + 1 /\ (\A i \in 1..n : d[i] = b[i]) /\ d[n + 1] = v
  <2> HIDE DEF T
  <2> QED
    BY <1>1, AppendProperties
<1>3. (\A i \in 1..m : a[i] # v) /\ \A i \in 1..n : b[i] # v
  BY ElementOfSeq
<1> HIDE DEF T, c, d
<1>4. ASSUME IsPrefix(c, b) PROVE FALSE
  <2>1. m + 1 <= n /\ \A i \in 1..(m + 1) : c[i] = b[i]
    BY <1>1, <1>2, <1>4, PrefixByElement
  <2>2. m + 1 \in 1..(m + 1) /\ m + 1 \in 1..n
    BY <1>1, <2>1
  <2> QED
    BY <1>2, <1>3, <2>1, <2>2
<1>5. ASSUME IsPrefix(c, d) PROVE a = b
  <2>1. m + 1 <= n + 1 /\ \A i \in 1..(m + 1) : c[i] = d[i]
    BY <1>1, <1>2, <1>5, PrefixByElement
  <2>2. m + 1 \in 1..(m + 1) /\ \A i \in 1..m : i \in 1..(m + 1)
    BY <1>1
  <2>3. m = n
    <3>1. m + 1 \notin 1..n
      BY <1>2, <1>3, <2>1, <2>2
    <3> QED
      BY <1>1, <2>1, <3>1
  <2>4. \A i \in 1..m : a[i] = b[i]
    BY <1>2, <2>1, <2>2, <2>3
  <2> QED
    BY <2>3, <2>4, SeqEqual
<1>6. ASSUME IsPrefix(a, d) PROVE IsPrefix(a, b)
  <2>1. m <= n + 1 /\ \A i \in 1..m : a[i] = d[i]
    BY <1>1, <1>2, <1>6, PrefixByElement
  <2>2. m <= n
    <3>1. n + 1 \notin 1..m
      BY <1>2, <1>3, <2>1
    <3> QED
      BY <1>1, <2>1, <3>1
  <2>3. \A i \in 1..m : i \in 1..n
    BY <1>1, <2>2
  <2>4. \A i \in 1..m : a[i] = b[i]
    BY <1>2, <2>1, <2>3
  <2> QED
    BY <2>2, <2>4, PrefixByElement
<1> QED
  BY <1>4, <1>5, <1>6 DEF c, d

-----------------------------------------------------------------------------
\* The nodes of the sections.

\* A heading with nothing inside is at the end of its branch.
LEMMA LeafIsLast ==
  ASSUME NEW p, IsPaper(p), NEW h \in KeptOf(p), Inside(p, h) = <<>>
  PROVE  \A k \in KeptOf(p) : IsPrefix(h, k) => k = h
<1> SUFFICES ASSUME NEW k \in KeptOf(p), IsPrefix(h, k), k # h PROVE FALSE
  OBVIOUS
<1> DEFINE n == Len(h)
           a == SubSeq(k, 1, n + 1)
<1>1. h \in Seq(Titles) /\ k \in Seq(Titles) /\ n \in Nat /\ Len(k) \in Nat
  BY KeptIs
<1>2. n <= Len(k) /\ \A i \in 1..n : h[i] = k[i]
  BY <1>1, PrefixByElement
<1>3. n + 1 \in 0..Len(k)
  <2>1. n # Len(k)
    BY <1>1, <1>2, SeqEqual
  <2> QED
    BY <1>1, <1>2, <2>1
<1>4. a \in Seq(Titles) /\ Len(a) = n + 1 /\ IsPrefix(a, k)
  BY <1>1, <1>3, FirstLines
<1> HIDE DEF a, n
<1>5. a \in KeptOf(p)
  <2>1. a # <<>>
    BY <1>1, <1>4, EmptySeq
  <2> QED
    BY <1>4, <2>1, KeptIs
<1>6. Front(a) = h
  <2>1. Front(a) \in Seq(Titles) /\ Len(Front(a)) = n /\ IsPrefix(Front(a), a)
    BY <1>1, <1>4, FrontOf
  <2>2. IsPrefix(Front(a), k)
    BY <1>1, <1>4, <2>1, PrefixOfPrefix
  <2>3. \A i \in 1..n : Front(a)[i] = k[i]
    BY <1>1, <2>1, <2>2, PrefixByElement
  <2> QED
    BY <1>1, <1>2, <2>1, <2>3, SeqEqual DEF n
<1>7. \E i \in 1..Len(Inside(p, h)) : Inside(p, h)[i] = a
  BY <1>5, <1>6, InsideIs
<1>8. Len(<<>>) = 0 /\ 1..0 = {}
  OBVIOUS
<1> QED
  BY <1>7, <1>8

\* The headings with a text.
Texts(p) == {t.heading : t \in {u \in Range(p.sections) : u.text}}

\* They are kept, and every heading that is kept leads to one.
LEMMA TextsAre ==
  ASSUME NEW p, IsPaper(p)
  PROVE  /\ \A h : h \in Texts(p) <=> HasText(p, h)
         /\ Texts(p) \subseteq KeptOf(p)
         /\ \A h \in KeptOf(p) : \E t \in Texts(p) : IsPrefix(h, t)
         /\ IsFiniteSet(Texts(p))
<1>1. \A h : h \in Texts(p) <=> HasText(p, h)
  BY DEF Texts, HasText
<1>2. \A h : h \in KeptOf(p) <=> \E s \in Range(p.sections) : s.text /\ h \in Above(s.heading)
  BY KeptAre DEF KeptOf
<1>3. \A s \in Range(p.sections) : s.heading \in Seq(Titles) /\ s.heading # <<>> /\ IsPrefix(s.heading, s.heading)
  <2> SUFFICES ASSUME NEW s \in Range(p.sections)
               PROVE  s.heading \in Seq(Titles) /\ s.heading # <<>> /\ IsPrefix(s.heading, s.heading)
    OBVIOUS
  <2>1. s \in SectionRow
    <3>1. PICK i \in 1..Len(p.sections) : s = p.sections[i]
      BY PaperType
    <3>2. p.sections \in Seq(SectionRow)
      BY PaperType
    <3> QED
      BY <3>1, <3>2, ElementOfSeq
  <2>2. s.heading \in Seq(Titles) /\ s.heading # <<>>
    BY <2>1 DEF SectionRow
  <2> QED
    BY <2>2, PrefixByElement, LenProperties
<1>4. Texts(p) \subseteq KeptOf(p)
  <2> SUFFICES ASSUME NEW h \in Texts(p) PROVE h \in KeptOf(p)
    OBVIOUS
  <2>1. PICK s \in Range(p.sections) : s.text /\ h = s.heading
    BY DEF Texts
  <2>2. h \in Above(s.heading)
    BY <1>3, <2>1 DEF Above
  <2> QED
    BY <1>2, <2>1, <2>2
<1>5. ASSUME NEW h \in KeptOf(p) PROVE \E t \in Texts(p) : IsPrefix(h, t)
  <2>1. PICK s \in Range(p.sections) : s.text /\ h \in Above(s.heading)
    BY <1>2
  <2>2. s.heading \in Texts(p)
    BY <2>1 DEF Texts
  <2> QED
    BY <2>1, <2>2 DEF Above
<1>6. IsFiniteSet(Texts(p))
  <2> DEFINE n == Len(p.sections)
             D == {i \in 1..n : p.sections[i].text}
             g == [i \in D |-> p.sections[i].heading]
  <2>1. n \in Nat /\ Range(p.sections) = {p.sections[i] : i \in 1..n}
    BY PaperType, LenProperties
  <2>2. IsFiniteSet(D)
    <3>1. IsFiniteSet(1..n) /\ D \subseteq 1..n
      BY <2>1, FS_Interval
    <3> HIDE DEF D
    <3> QED
      BY <3>1, FS_Subset
  <2>3. \A i \in D : p.sections[i].heading \in Texts(p)
    BY <2>1 DEF Texts
  <2>4. \A t \in Texts(p) : \E i \in D : p.sections[i].heading = t
    <3> SUFFICES ASSUME NEW t \in Texts(p) PROVE \E i \in D : p.sections[i].heading = t
      OBVIOUS
    <3>1. PICK s \in Range(p.sections) : s.text /\ t = s.heading
      BY DEF Texts
    <3>2. PICK i \in 1..n : s = p.sections[i]
      BY <2>1
    <3> QED
      BY <3>1, <3>2
  <2> HIDE DEF D
  <2>5. g \in [D -> Texts(p)] /\ \A t \in Texts(p) : \E i \in D : g[i] = t
    BY <2>3, <2>4
  <2> HIDE DEF g
  <2> QED
    BY <2>2, <2>5, FiniteImage
<1> QED
  BY <1>1, <1>4, <1>5, <1>6

\* The file of a heading with a text.
FileOf(p, h) == IF Inside(p, h) = <<>> THEN File(Place(p, h)) ELSE File(Append(Place(p, h), Overview))

\* x is a node of heading h.
NodeOf(x, p, h) ==
  \/ x = Folder(Place(p, h)) /\ Inside(p, h) # <<>>
  \/ x = FileOf(p, h) /\ HasText(p, h)

\* What kind of node it is, and below which place.
LEMMA NodeType ==
  ASSUME NEW p, IsPaper(p), NEW h \in KeptOf(p), NEW x, NodeOf(x, p, h)
  PROVE  /\ x \in Entries(PaperNames(p)) /\ x.text = (x.type = "file")
         /\ Len(x.path) > 0 /\ x.path[1] \in Segments(p)
         /\ IsPrefix(Place(p, h), x.path)
         /\ x.type = "file" <=> x = FileOf(p, h)
         /\ FileOf(p, h) \in Entries(PaperNames(p)) /\ IsPrefix(Place(p, h), FileOf(p, h).path)
         /\ FileOf(p, h).type = "file"
<1> DEFINE a == Place(p, h)
           b == Append(a, Overview)
           N == PaperNames(p)
<1>1. /\ a \in Seq(Segments(p)) /\ a \in Seq(N) /\ Len(a) \in Nat /\ Len(a) > 0 /\ a[1] \in Segments(p)
  <2>1. h \in Seq(Titles) /\ Len(h) \in Nat /\ Len(h) > 0
    BY KeptIs
  <2>2. a \in Seq(Segments(p)) /\ a \in Seq(N) /\ Len(a) = Len(h)
    BY <2>1, PlaceIs
  <2>3. 1 \in 1..Len(a)
    BY <2>1, <2>2
  <2>4. a[1] \in Segments(p)
    BY <2>2, <2>3, ElementOfSeq
  <2> QED
    BY <2>1, <2>2, <2>4
<1> HIDE DEF a
<1>2. Overview \in N
  BY DEF PaperNames
<1> HIDE DEF N
<1>3. b \in Seq(N) /\ Len(b) = Len(a) + 1 /\ \A i \in 1..Len(a) : b[i] = a[i]
  BY <1>1, <1>2, AppendProperties
<1> HIDE DEF b
<1>4. Len(b) > 0 /\ b[1] \in Segments(p) /\ IsPrefix(a, b) /\ IsPrefix(a, a)
  <2>1. 1 \in 1..Len(a)
    BY <1>1
  <2>2. IsPrefix(a, b)
    BY <1>1, <1>3, PrefixByElement
  <2>3. IsPrefix(a, a)
    BY <1>1, PrefixByElement
  <2> QED
    BY <1>1, <1>3, <2>1, <2>2, <2>3
<1>5. /\ Folder(a).path = a /\ Folder(a).type = "folder" /\ Folder(a).text = FALSE
      /\ File(a).path = a /\ File(a).type = "file" /\ File(a).text = TRUE
      /\ File(b).path = b /\ File(b).type = "file" /\ File(b).text = TRUE
  BY DEF Folder, File, Entry
<1>6. Folder(a) \in Entries(N) /\ File(a) \in Entries(N) /\ File(b) \in Entries(N)
  BY <1>1, <1>3 DEF Folder, File, Entry, Entries
<1>7. FileOf(p, h) \in {File(a), File(b)}
  BY DEF FileOf, a, b
<1>8. /\ FileOf(p, h) \in Entries(N) /\ IsPrefix(a, FileOf(p, h).path) /\ FileOf(p, h).type = "file"
      /\ FileOf(p, h).text = TRUE /\ Len(FileOf(p, h).path) > 0 /\ FileOf(p, h).path[1] \in Segments(p)
  <2>1. CASE FileOf(p, h) = File(a)
    BY <1>1, <1>4, <1>5, <1>6, <2>1
  <2>2. CASE FileOf(p, h) = File(b)
    BY <1>4, <1>5, <1>6, <2>2
  <2> QED
    BY <1>7, <2>1, <2>2
<1>9. x = Folder(a) \/ x = FileOf(p, h)
  BY DEF NodeOf, a
<1>10. CASE x = Folder(a)
  <2>1. x # FileOf(p, h) /\ x.type # "file"
    BY <1>5, <1>8, <1>10
  <2> QED
    BY <1>1, <1>4, <1>5, <1>6, <1>8, <1>10, <2>1 DEF a, N
<1>11. CASE x = FileOf(p, h)
  BY <1>8, <1>11 DEF a, N
<1> QED
  BY <1>9, <1>10, <1>11

\* A file of a heading is above no node of any other.
LEMMA FileIsLast ==
  ASSUME NEW p, IsPaper(p), NEW h \in KeptOf(p), NEW k \in KeptOf(p), NEW y, NodeOf(y, p, k),
         IsPrefix(FileOf(p, h).path, y.path)
  PROVE  h = k /\ y = FileOf(p, h)
<1> DEFINE a == Place(p, h)
           b == Place(p, k)
           v == Overview
<1>1. a \in Seq(Segments(p)) /\ b \in Seq(Segments(p)) /\ v \notin Segments(p)
  <2>1. h \in Seq(Titles) /\ k \in Seq(Titles)
    BY KeptIs
  <2> QED
    BY <2>1, PlaceIs, SegmentIsNoName
<1>2. IsPrefix(a, b) => IsPrefix(h, k)
  BY PlaceOfPrefix
<1>3. Inside(p, h) = <<>> /\ IsPrefix(h, k) => k = h
  BY LeafIsLast
<1>4. a = b => h = k
  <2> SUFFICES ASSUME a = b PROVE h = k
    OBVIOUS
  <2>1. IsPrefix(a, b) /\ IsPrefix(b, a)
    BY <1>1, PrefixByElement, LenProperties
  <2>2. IsPrefix(h, k) /\ IsPrefix(k, h)
    BY <2>1, PlaceOfPrefix
  <2>3. h \in Seq(Titles) /\ k \in Seq(Titles) /\ Len(h) \in Nat /\ Len(k) \in Nat
    BY KeptIs
  <2>4. Len(h) = Len(k) /\ \A i \in 1..Len(h) : h[i] = k[i]
    BY <2>2, <2>3, PrefixByElement
  <2> QED
    BY <2>3, <2>4, SeqEqual
<1> HIDE DEF a, b, v
<1>5. /\ ~IsPrefix(Append(a, v), b)
      /\ IsPrefix(Append(a, v), Append(b, v)) => a = b
      /\ IsPrefix(a, Append(b, v)) => IsPrefix(a, b)
  BY <1>1, EndsApart
<1>6. /\ Folder(b).path = b /\ File(a).path = a /\ File(b).path = b
      /\ File(Append(a, v)).path = Append(a, v) /\ File(Append(b, v)).path = Append(b, v)
  BY DEF Folder, File, Entry
<1>7. /\ Inside(p, h) = <<>> => FileOf(p, h) = File(a)
      /\ Inside(p, h) # <<>> => FileOf(p, h) = File(Append(a, v))
      /\ Inside(p, k) = <<>> => FileOf(p, k) = File(b)
      /\ Inside(p, k) # <<>> => FileOf(p, k) = File(Append(b, v))
  BY DEF FileOf, a, b, v
<1>8. \/ y = Folder(b) /\ Inside(p, k) # <<>>
      \/ y = FileOf(p, k)
  BY DEF NodeOf, b
<1>9. h = k
  <2>1. CASE Inside(p, h) = <<>>
    <3>1. IsPrefix(a, y.path)
      BY <1>6, <1>7, <2>1
    <3>2. IsPrefix(a, b)
      BY <1>5, <1>6, <1>7, <1>8, <3>1
    <3> QED
      BY <1>2, <1>3, <2>1, <3>2
  <2>2. CASE Inside(p, h) # <<>>
    <3>1. IsPrefix(Append(a, v), y.path)
      BY <1>6, <1>7, <2>2
    <3>2. a = b
      BY <1>5, <1>6, <1>7, <1>8, <3>1
    <3> QED
      BY <1>4, <3>2
  <2> QED
    BY <2>1, <2>2
<1>10. y # Folder(b) \/ Inside(p, k) = <<>>
  <2> SUFFICES ASSUME y = Folder(b), Inside(p, k) # <<>> PROVE FALSE
    OBVIOUS
  <2>1. FileOf(p, h).path = Append(a, v) /\ y.path = b
    BY <1>6, <1>7, <1>9
  <2> QED
    BY <1>5, <2>1
<1> QED
  BY <1>8, <1>9, <1>10

\* Two headings have no node in common.
LEMMA NodesApart ==
  ASSUME NEW p, IsPaper(p), NEW h \in KeptOf(p), NEW k \in KeptOf(p),
         NEW x, NodeOf(x, p, h), NEW y, NodeOf(y, p, k), x.path = y.path
  PROVE  h = k /\ x = y
<1>1. /\ x \in Entries(PaperNames(p)) /\ y \in Entries(PaperNames(p))
      /\ x.type = "file" <=> x = FileOf(p, h)
      /\ y.type = "file" <=> y = FileOf(p, k)
  BY NodeType
<1>2. IsPrefix(x.path, y.path) /\ IsPrefix(y.path, x.path)
  <2>1. x.path \in Seq(PaperNames(p))
    BY <1>1 DEF Entries
  <2>2. IsPrefix(x.path, x.path)
    BY <2>1, PrefixByElement, LenProperties
  <2> QED
    BY <2>2
<1>3. CASE x.type = "file"
  <2>1. IsPrefix(FileOf(p, h).path, y.path) /\ x = FileOf(p, h)
    BY <1>1, <1>2, <1>3
  <2> QED
    BY <2>1, FileIsLast
<1>4. CASE y.type = "file"
  <2>1. IsPrefix(FileOf(p, k).path, x.path) /\ y = FileOf(p, k)
    BY <1>1, <1>2, <1>4
  <2> QED
    BY <2>1, FileIsLast
<1>5. CASE x.type # "file" /\ y.type # "file"
  <2>1. x = Folder(Place(p, h)) /\ y = Folder(Place(p, k))
    BY <1>1, <1>5 DEF NodeOf
  <2>2. Place(p, h) = Place(p, k)
    BY <2>1 DEF Folder, Entry
  <2>3. h \in Seq(Titles) /\ k \in Seq(Titles) /\ Len(h) \in Nat /\ Len(k) \in Nat
    BY KeptIs
  <2>4. IsPrefix(Place(p, h), Place(p, k)) /\ IsPrefix(Place(p, k), Place(p, h))
    <3>1. Place(p, h) \in Seq(Segments(p))
      BY <2>3, PlaceIs
    <3>2. IsPrefix(Place(p, h), Place(p, h))
      BY <3>1, PrefixByElement, LenProperties
    <3> QED
      BY <2>2, <3>2
  <2>5. IsPrefix(h, k) /\ IsPrefix(k, h)
    BY <2>4, PlaceOfPrefix
  <2>6. Len(h) = Len(k) /\ \A i \in 1..Len(h) : h[i] = k[i]
    BY <2>3, <2>5, PrefixByElement
  <2>7. h = k
    BY <2>3, <2>6, SeqEqual
  <2> QED
    BY <2>1, <2>7
<1> QED
  BY <1>3, <1>4, <1>5

\* The nodes that add makes for a heading.
LEMMA SectionNodesAre ==
  ASSUME NEW p, IsPaper(p), NEW h \in KeptOf(p)
  PROVE  /\ SectionNodes(p, h) \in Seq(Entries(PaperNames(p))) /\ Distinct(SectionNodes(p, h))
         /\ \A x : x \in Range(SectionNodes(p, h)) <=> NodeOf(x, p, h)
<1> DEFINE a == Folder(Place(p, h))
           b == FileOf(p, h)
           E == Entries(PaperNames(p))
           s == SectionNodes(p, h)
<1>1. ASSUME Inside(p, h) # <<>> PROVE NodeOf(a, p, h)
  BY <1>1 DEF NodeOf
<1>2. ASSUME HasText(p, h) PROVE NodeOf(b, p, h)
  BY <1>2 DEF NodeOf
<1>3. Inside(p, h) = <<>> => HasText(p, h)
  <2> SUFFICES ASSUME Inside(p, h) = <<>> PROVE HasText(p, h)
    OBVIOUS
  <2>1. PICK t \in Texts(p) : IsPrefix(h, t)
    BY TextsAre
  <2>2. t \in KeptOf(p) /\ HasText(p, t)
    BY TextsAre
  <2>3. t = h
    BY <2>1, <2>2, LeafIsLast
  <2> QED
    BY <2>2, <2>3
<1>4. a # b
  BY DEF FileOf, Folder, File, Entry
<1>5. \A x : NodeOf(x, p, h) => x \in E
  BY NodeType
<1>6. \A x, y : /\ Range(<<x>>) = {x} /\ Distinct(<<x>>) /\ Range(<<x, y>>) = {x, y}
                /\ x # y => Distinct(<<x, y>>)
  <2> SUFFICES ASSUME NEW x, NEW y
               PROVE  /\ Range(<<x>>) = {x} /\ Distinct(<<x>>) /\ Range(<<x, y>>) = {x, y}
                      /\ x # y => Distinct(<<x, y>>)
    OBVIOUS
  <2>1. DOMAIN <<x>> = {1} /\ Len(<<x>>) = 1 /\ <<x>>[1] = x /\ \A i \in 1..1 : i = 1
    OBVIOUS
  <2>2. /\ DOMAIN <<x, y>> = {1, 2} /\ Len(<<x, y>>) = 2 /\ <<x, y>>[1] = x /\ <<x, y>>[2] = y
        /\ \A i \in 1..2 : i = 1 \/ i = 2
    OBVIOUS
  <2>3. Range(<<x>>) = {x} /\ Distinct(<<x>>)
    BY <2>1 DEF Range, Distinct
  <2>4. Range(<<x, y>>) = {x, y}
    BY <2>2 DEF Range
  <2>5. x # y => Distinct(<<x, y>>)
    BY <2>2 DEF Distinct
  <2> QED
    BY <2>3, <2>4, <2>5
<1>7. CASE Inside(p, h) = <<>>
  <2>1. s = <<b>>
    BY <1>7 DEF SectionNodes, FileOf
  <2>2. b \in E
    BY <1>2, <1>3, <1>5, <1>7
  <2>3. \A x : NodeOf(x, p, h) <=> x = b
    BY <1>3, <1>7 DEF NodeOf
  <2> HIDE DEF a, b, E, s
  <2>4. <<b>> \in Seq(E)
    BY <2>2
  <2> QED
    BY <1>6, <2>1, <2>3, <2>4 DEF s, E
<1>8. CASE Inside(p, h) # <<>> /\ HasText(p, h)
  <2>1. s = <<a>> \o <<b>>
    BY <1>8 DEF SectionNodes, FileOf
  <2>2. a \in E /\ b \in E
    BY <1>1, <1>2, <1>5, <1>8
  <2>3. \A x : NodeOf(x, p, h) <=> x \in {a, b}
    BY <1>8 DEF NodeOf
  <2> HIDE DEF a, b, E, s
  <2>4. <<a, b>> \in Seq(E) /\ <<a>> \in Seq(E) /\ <<b>> \in Seq(E)
    BY <2>2
  <2>5. <<a>> \o <<b>> = <<a, b>>
    <3>1. /\ <<a>> \o <<b>> \in Seq(E) /\ Len(<<a>> \o <<b>>) = 2
          /\ (<<a>> \o <<b>>)[1] = a /\ (<<a>> \o <<b>>)[2] = b
      BY <2>2
    <3>2. Len(<<a, b>>) = 2 /\ <<a, b>>[1] = a /\ <<a, b>>[2] = b /\ \A i \in 1..2 : i = 1 \/ i = 2
      OBVIOUS
    <3> QED
      BY <2>4, <3>1, <3>2, SeqEqual
  <2>6. Range(s) = {a, b} /\ Distinct(s) /\ s \in Seq(E)
    <3>1. s = <<a, b>>
      BY <2>1, <2>5
    <3>2. Range(<<a, b>>) = {a, b} /\ (a # b => Distinct(<<a, b>>))
      BY <1>6
    <3> QED
      BY <1>4, <2>4, <3>1, <3>2
  <2>7. \A x : x \in Range(s) <=> NodeOf(x, p, h)
    BY <2>3, <2>6
  <2> QED
    BY <2>6, <2>7 DEF s, E
<1>9. CASE Inside(p, h) # <<>> /\ ~HasText(p, h)
  <2>1. s = <<a>> \o <<>>
    BY <1>9 DEF SectionNodes
  <2>2. a \in E
    BY <1>1, <1>5, <1>9
  <2>3. \A x : NodeOf(x, p, h) <=> x = a
    BY <1>9 DEF NodeOf
  <2> HIDE DEF a, b, E, s
  <2>4. <<a>> \in Seq(E) /\ <<a>> \o <<>> = <<a>>
    <3>1. <<a>> \in Seq(E)
      BY <2>2
    <3> QED
      BY <3>1, ConcatEmptySeq
  <2>5. Range(s) = {a} /\ Distinct(s) /\ s \in Seq(E)
    BY <1>6, <2>1, <2>4
  <2>6. \A x : x \in Range(s) <=> NodeOf(x, p, h)
    BY <2>3, <2>5
  <2> QED
    BY <2>5, <2>6 DEF s, E
<1> QED
  BY <1>7, <1>8, <1>9

-----------------------------------------------------------------------------
\* The nodes of the captions.

\* What an image is called: its number, if it has one, and a suffix where the name is taken.
Suffix(f, i) == (IF f.number = 0 THEN <<>> ELSE <<f.number>>) \o (IF i = 1 THEN <<>> ELSE <<i>>)

\* It tells the number and the suffix.
LEMMA SuffixIs ==
  ASSUME NEW f \in FloatRow, NEW i \in Nat
  PROVE  /\ Suffix(f, i) \in Seq(Nat)
         /\ \A j \in Nat : Suffix(f, i) = Suffix(f, j) => i = j
<1> DEFINE a == IF f.number = 0 THEN <<>> ELSE <<f.number>>
           b(j) == IF j = 1 THEN <<>> ELSE <<j>>
<1>1. a \in Seq(Nat) /\ f.number \in Nat
  BY EmptySeq DEF FloatRow
<1>2. ASSUME NEW j \in Nat
      PROVE  /\ b(j) \in Seq(Nat) /\ (j = 1 => Len(b(j)) = 0) /\ (j # 1 => Len(b(j)) = 1 /\ b(j)[1] = j)
  BY EmptySeq
<1>3. \A j \in Nat : Suffix(f, j) = a \o b(j)
  BY DEF Suffix
<1> HIDE DEF a, b
<1>4. ASSUME NEW j \in Nat
      PROVE  /\ Suffix(f, j) \in Seq(Nat) /\ (j = 1 => Len(Suffix(f, j)) = Len(a))
             /\ (j # 1 => Len(Suffix(f, j)) = Len(a) + 1 /\ Suffix(f, j)[Len(a) + 1] = j)
  <2>1. /\ a \o b(j) \in Seq(Nat) /\ Len(a \o b(j)) = Len(a) + Len(b(j)) /\ Len(a) \in Nat
        /\ \A e \in 1..(Len(a) + Len(b(j))) : (a \o b(j))[e] = IF e <= Len(a) THEN a[e] ELSE b(j)[e - Len(a)]
    BY <1>1, <1>2, ConcatProperties, LenProperties
  <2>4. Suffix(f, j) = a \o b(j)
    BY <1>3
  <2>2. CASE j = 1
    <3>1. Len(b(j)) = 0
      BY <1>2, <2>2
    <3>2. Len(Suffix(f, j)) = Len(a)
      BY <2>1, <2>4, <3>1
    <3>3. Suffix(f, j) \in Seq(Nat)
      BY <2>1, <2>4
    <3> QED
      BY <2>2, <3>2, <3>3
  <2>3. CASE j # 1
    <3>1. Len(b(j)) = 1 /\ b(j)[1] = j
      BY <1>2, <2>3
    <3>2. PICK e \in 1..(Len(a) + 1) : e = Len(a) + 1 /\ ~(e <= Len(a)) /\ e - Len(a) = 1
      BY <2>1
    <3>3. (a \o b(j))[e] = b(j)[e - Len(a)]
      BY <2>1, <3>1, <3>2
    <3>4. (a \o b(j))[Len(a) + 1] = j
      BY <3>1, <3>2, <3>3
    <3> QED
      BY <2>1, <2>3, <2>4, <3>1, <3>4
  <2> QED
    BY <2>2, <2>3
<1>5. Len(a) \in Nat
  BY <1>1, LenProperties
<1>6. ASSUME NEW j \in Nat, Suffix(f, i) = Suffix(f, j) PROVE i = j
  <2>1. CASE i = 1
    <3>1. Len(Suffix(f, j)) = Len(a)
      BY <1>4, <1>6, <2>1
    <3>2. j = 1
      BY <1>4, <1>5, <3>1
    <3> QED
      BY <2>1, <3>2
  <2>2. CASE i # 1
    <3>1. Len(Suffix(f, j)) = Len(a) + 1 /\ Suffix(f, j)[Len(a) + 1] = i
      BY <1>4, <1>6, <2>2
    <3>2. j # 1
      BY <1>4, <1>5, <3>1
    <3> QED
      BY <1>4, <3>1, <3>2
  <2> QED
    BY <2>1, <2>2
<1> QED
  BY <1>4, <1>6

\* Its path.
LEMMA FloatFileIs ==
  ASSUME NEW p, NEW f \in FloatRow, NEW i \in Nat
  PROVE  /\ FloatFile(f, i) \in Seq(PaperNames(p)) /\ Len(FloatFile(f, i)) = 2
         /\ FloatFile(f, i)[1] = <<f.folder>> /\ <<f.folder>> \in Captions
         /\ \A j \in Nat : FloatFile(f, i) = FloatFile(f, j) => i = j
<1>1. \A j : FloatFile(f, j) = <<<<f.folder>>, <<"image", Suffix(f, j)>>>>
  BY DEF FloatFile, Suffix
<1>2. f.folder = "figures" \/ f.folder = "tables"
  BY DEF FloatRow
<1>3. <<f.folder>> \in Captions
  BY <1>2 DEF Captions
<1>4. Suffix(f, i) \in Seq(Nat) /\ \A j \in Nat : Suffix(f, i) = Suffix(f, j) => i = j
  BY SuffixIs
<1>5. <<"image", Suffix(f, i)>> \in Images
  BY <1>4 DEF Images
<1>6. <<f.folder>> \in PaperNames(p) /\ <<"image", Suffix(f, i)>> \in PaperNames(p)
  BY <1>3, <1>5 DEF PaperNames
<1>7. ASSUME NEW j \in Nat, FloatFile(f, i) = FloatFile(f, j) PROVE i = j
  <2>1. <<<<f.folder>>, <<"image", Suffix(f, i)>>>> = <<<<f.folder>>, <<"image", Suffix(f, j)>>>>
    BY <1>1, <1>7
  <2>2. Suffix(f, i) = Suffix(f, j)
    BY <2>1
  <2> QED
    BY <1>4, <2>2
<1> DEFINE x == <<f.folder>>
           y == <<"image", Suffix(f, i)>>
<1>8. FloatFile(f, i) = <<x, y>>
  BY <1>1
<1>9. x \in PaperNames(p) /\ y \in PaperNames(p)
  BY <1>6
<1> HIDE DEF x, y
<1>10. <<x, y>> \in Seq(PaperNames(p)) /\ Len(<<x, y>>) = 2 /\ <<x, y>>[1] = x
  BY <1>9
<1> QED
  BY <1>3, <1>7, <1>8, <1>10 DEF x

\* There is always a suffix that is not taken.
LEMMA FloatNameIs ==
  ASSUME NEW p, NEW used \in Seq(Seq(PaperNames(p))), NEW f \in FloatRow
  PROVE  \E i \in Nat : /\ FloatName(used, f) = Append(used, FloatFile(f, i))
                        /\ FloatFile(f, i) \notin Range(used)
<1> DEFINE n == Len(used)
           free == {i \in 1..(n + 1) : FloatFile(f, i) \notin Range(used)}
           c == CHOOSE i \in free : \A j \in free : i <= j
<1>1. n \in Nat /\ Range(used) = {used[i] : i \in 1..n}
  BY LenProperties DEF Range
<1>2. FloatName(used, f) = Append(used, FloatFile(f, c))
  BY DEF FloatName
<1>3. free # {}
  <2> SUFFICES ASSUME free = {} PROVE FALSE
    OBVIOUS
  <2> DEFINE g == [i \in 1..(n + 1) |-> FloatFile(f, i)]
             u == [i \in 1..n |-> used[i]]
  <2>1. \A i \in 1..(n + 1) : FloatFile(f, i) \in Range(used)
    OBVIOUS
  <2>2. IsFiniteSet(1..n) /\ Cardinality(1..n) = n /\ IsFiniteSet(1..(n + 1)) /\ Cardinality(1..(n + 1)) = n + 1
    <3>1. 1 \in Int /\ n \in Int /\ n + 1 \in Int /\ n >= 1 - 1 /\ n + 1 >= 1 - 1
      BY <1>1
    <3> HIDE DEF n
    <3> QED
      BY <1>1, <3>1, FS_Interval
  <2>3. u \in [1..n -> Range(used)] /\ \A t \in Range(used) : \E i \in 1..n : u[i] = t
    BY <1>1
  <2>4. g \in [1..(n + 1) -> Range(used)]
    BY <2>1
  <2>5. \A i \in 1..(n + 1) : g[i] = FloatFile(f, i) /\ i \in Nat
    BY <1>1
  <2> HIDE DEF g, u, n
  <2>6. IsFiniteSet(Range(used)) /\ Cardinality(Range(used)) <= n
    BY <2>2, <2>3, FiniteImage
  <2>7. Cardinality(Range(used)) \in Nat
    BY <2>6, FS_CardinalityType
  <2>8. Cardinality(Range(used)) < Cardinality(1..(n + 1))
    BY <1>1, <2>2, <2>6, <2>7
  <2>9. \E x, y \in 1..(n + 1) : x # y /\ g[x] = g[y]
    <3> DEFINE S == 1..(n + 1)
               T == Range(used)
    <3>1. IsFiniteSet(S) /\ IsFiniteSet(T) /\ Cardinality(T) < Cardinality(S) /\ g \in [S -> T]
      BY <2>2, <2>4, <2>6, <2>8
    <3> HIDE DEF S, T
    <3>2. \E x, y \in S : x # y /\ g[x] = g[y]
      BY <3>1, FS_PigeonHole
    <3> QED
      BY <3>2 DEF S
  <2>10. PICK x \in 1..(n + 1), y \in 1..(n + 1) : x # y /\ g[x] = g[y]
    BY <2>9
  <2>11. x \in Nat /\ y \in Nat /\ FloatFile(f, x) = FloatFile(f, y)
    BY <2>5, <2>10
  <2> QED
    BY <2>10, <2>11, FloatFileIs
<1>4. \E i \in free : \A j \in free : i <= j
  <2>1. free \subseteq Nat
    BY <1>1
  <2> HIDE DEF free
  <2> QED
    BY <1>3, <2>1, Least
<1>5. c \in free
  <2> HIDE DEF free
  <2> QED
    BY <1>4
<1> HIDE DEF c
<1>6. c \in Nat /\ FloatFile(f, c) \notin Range(used)
  BY <1>1, <1>5
<1> QED
  BY <1>2, <1>6

\* m[k] has the paths of the first k images.
Naming(m, p) ==
  /\ m[0] = <<>>
  /\ \A k \in 1..Len(p.floats) : m[k] = FloatName(m[k - 1], p.floats[k])
  /\ Floats(p) = m[Len(p.floats)]

\* The names of all images are the end of such a sequence.
LEMMA FloatsSteps ==
  ASSUME NEW p, IsPaper(p)
  PROVE  \E m \in [0..Len(p.floats) -> Seq(Seq(PaperNames(p)))] : Naming(m, p)
<1> DEFINE T == Seq(Seq(PaperNames(p)))
           t == p.floats
           n == Len(t)
           D == DOMAIN t
           Eq(f) == f = [s \in SUBSET D |->
                            IF s = {} THEN <<>>
                            ELSE LET x == Max(s) IN FloatName(f[s \ {x}], t[x])]
           h == CHOOSE h : Eq(h)
           G == [y \in (1..n) \X T |-> FloatName(y[2], t[y[1]])]
<1>1. Floats(p) = h[D]
  BY DEF Floats, FoldLeft, MapThenFoldSet
<1>2. n \in Nat /\ D = 1..n /\ <<>> \in T /\ \A i \in 1..n : t[i] \in FloatRow
  <2>1. t \in Seq(FloatRow)
    BY PaperType
  <2> QED
    BY <2>1, LenProperties, EmptySeq, ElementOfSeq
<1> HIDE DEF D, n, t
<1>3. ASSUME NEW x \in 1..n, NEW u \in T
      PROVE  G[<<x, u>>] = FloatName(u, t[x]) /\ FloatName(u, t[x]) \in T
  <2>1. <<x, u>> \in (1..n) \X T /\ <<x, u>>[1] = x /\ <<x, u>>[2] = u
    OBVIOUS
  <2>2. FloatName(u, t[x]) \in T
    <3>1. t[x] \in FloatRow
      BY <1>2
    <3>2. PICK i \in Nat : FloatName(u, t[x]) = Append(u, FloatFile(t[x], i))
      BY <3>1, FloatNameIs
    <3>3. FloatFile(t[x], i) \in Seq(PaperNames(p))
      BY <3>1, FloatFileIs
    <3> QED
      BY <3>2, <3>3, AppendProperties
  <2> QED
    BY <2>1, <2>2
<1>4. G \in [(1..n) \X T -> T]
  <2>1. \A y \in (1..n) \X T : y[1] \in 1..n /\ y[2] \in T
    OBVIOUS
  <2>2. \A y \in (1..n) \X T : FloatName(y[2], t[y[1]]) \in T
    BY <1>3, <2>1
  <2> HIDE DEF T
  <2> QED
    BY <2>2
<1> HIDE DEF G, T
<1>5. PICK f \in [SUBSET (1..n) -> T] : FoldsUp(f, n, <<>>, T, G)
  BY <1>2, <1>4, FoldExists
<1>6. Eq(f)
  <2> DEFINE r == [s \in SUBSET D |->
                            IF s = {} THEN <<>>
                            ELSE LET x == Max(s) IN FloatName(f[s \ {x}], t[x])]
  <2>1. ASSUME NEW s \in SUBSET D PROVE f[s] = r[s]
    <3>1. s # {} => Max(s) \in 1..n /\ f[s \ {Max(s)}] \in T
      BY <1>2, <1>5, LastPlace
    <3> QED
      BY <1>2, <1>3, <1>5, <3>1 DEF FoldsUp
  <2> QED
    BY <1>2, <2>1
<1>7. Eq(h)
  <2> HIDE DEF Eq
  <2> QED
    BY <1>6
<1> HIDE DEF h
<1>8. FoldsUp(h, n, <<>>, T, G)
  <2>1. h[{}] = <<>>
    BY <1>7
  <2>2. ASSUME NEW s \in SUBSET (1..n), s # {}, h[s \ {Max(s)}] \in T
        PROVE  h[s] = G[<<Max(s), h[s \ {Max(s)}]>>]
    <3>1. Max(s) \in 1..n
      BY <1>2, <2>2, LastPlace
    <3>2. h[s] = FloatName(h[s \ {Max(s)}], t[Max(s)])
      BY <1>2, <1>7, <2>2
    <3> QED
      BY <1>3, <2>2, <3>1, <3>2
  <2> QED
    BY <2>1, <2>2 DEF FoldsUp
<1> HIDE DEF Eq
<1>9. PICK m \in [0..n -> T] : m[n] = h[1..n] /\ Steps(m, n, <<>>, G)
  BY <1>2, <1>4, <1>8, FoldSteps
<1>10. ASSUME NEW k \in 1..n PROVE m[k] = FloatName(m[k - 1], t[k])
  <2>1. k - 1 \in 0..n
    BY <1>2
  <2> QED
    BY <1>3, <1>9, <2>1 DEF Steps
<1>11. Naming(m, p)
  BY <1>1, <1>2, <1>9, <1>10 DEF Naming, Steps, n, t
<1> QED
  BY <1>9, <1>11 DEF n, t, T

\* Every image has a path of its own.
Named(u, p, k) ==
  /\ u \in Seq(Seq(PaperNames(p))) /\ Len(u) = k /\ Distinct(u)
  /\ \A i \in 1..k : \E c \in Nat : u[i] = FloatFile(p.floats[i], c)

\* Every image has a name of its own.
LEMMA FloatsAre ==
  ASSUME NEW p, IsPaper(p)
  PROVE  Named(Floats(p), p, Len(p.floats))
<1> DEFINE n == Len(p.floats)
           S == Seq(PaperNames(p))
<1>1. PICK m \in [0..n -> Seq(S)] : Naming(m, p)
  BY FloatsSteps
<1>2. n \in Nat /\ \A i \in 1..n : p.floats[i] \in FloatRow
  <2>1. p.floats \in Seq(FloatRow)
    BY PaperType
  <2> QED
    BY <2>1, ElementOfSeq, LenProperties
<1>3. /\ m[0] = <<>> /\ Floats(p) = m[n]
      /\ \A k \in 1..n : m[k] = FloatName(m[k - 1], p.floats[k])
  BY <1>1 DEF Naming
<1> DEFINE P == {k \in Nat : k \in 0..n => Named(m[k], p, k)}
<1> HIDE DEF n
<1>4. 0 \in P
  <2>1. Len(<<>>) = 0 /\ 1..0 = {} /\ <<>> \in Seq(S)
    OBVIOUS
  <2>2. Named(<<>>, p, 0)
    BY <2>1 DEF Named, Distinct
  <2> QED
    BY <1>3, <2>2
<1>5. ASSUME NEW k \in Nat, k \in P PROVE k + 1 \in P
  <2> SUFFICES ASSUME k + 1 \in 0..n PROVE Named(m[k + 1], p, k + 1)
    OBVIOUS
  <2>1. PICK j \in 1..n : j = k + 1 /\ j - 1 = k /\ k \in 0..n
    BY <1>2
  <2> DEFINE u == m[k]
             f == p.floats[j]
  <2>2. Named(u, p, k) /\ f \in FloatRow /\ m[j] = FloatName(u, f)
    <3>1. Named(u, p, k)
      BY <1>5, <2>1
    <3>2. f \in FloatRow
      BY <1>2
    <3>3. m[j] = FloatName(m[j - 1], p.floats[j])
      BY <1>3
    <3> QED
      BY <2>1, <3>1, <3>2, <3>3
  <2>3. /\ u \in Seq(S) /\ Len(u) = k /\ Distinct(u)
        /\ \A i \in 1..k : \E c \in Nat : u[i] = FloatFile(p.floats[i], c)
    BY <2>2 DEF Named
  <2> HIDE DEF u
  <2>4. PICK c \in Nat : m[j] = Append(u, FloatFile(f, c)) /\ FloatFile(f, c) \notin Range(u)
    BY <2>2, <2>3, FloatNameIs
  <2> DEFINE x == FloatFile(f, c)
             v == Append(u, x)
  <2>5. x \in S
    BY <2>2, FloatFileIs
  <2>6. x = FloatFile(p.floats[j], c) /\ x \notin Range(u)
    BY <2>4
  <2> HIDE DEF x, f, S
  <2>7. /\ v \in Seq(S) /\ Len(v) = k + 1 /\ (\A i \in 1..k : v[i] = u[i]) /\ v[k + 1] = x
    BY <2>3, <2>5, AppendProperties
  <2>8. \A i \in 1..k : u[i] # x
    BY <2>3, <2>6, LenProperties DEF Range
  <2> HIDE DEF v
  <2>9. \A i \in 1..(k + 1) : i \in 1..k \/ i = k + 1
    OBVIOUS
  <2>10. Distinct(v)
    <3>1. \A i, e \in 1..k : u[i] = u[e] => i = e
      BY <2>3 DEF Distinct
    <3> QED
      BY <2>7, <2>8, <2>9, <3>1 DEF Distinct
  <2>11. \A i \in 1..(k + 1) : \E d \in Nat : v[i] = FloatFile(p.floats[i], d)
    <3> SUFFICES ASSUME NEW i \in 1..(k + 1) PROVE \E d \in Nat : v[i] = FloatFile(p.floats[i], d)
      OBVIOUS
    <3>1. CASE i \in 1..k
      BY <2>3, <2>7, <3>1
    <3>2. CASE i = k + 1
      BY <2>1, <2>6, <2>7, <3>2
    <3> QED
      BY <2>9, <3>1, <3>2
  <2>12. Named(v, p, k + 1)
    BY <2>7, <2>10, <2>11 DEF Named, S
  <2> QED
    BY <2>1, <2>4, <2>12 DEF v, x
<1> HIDE DEF P
<1>6. Nat \subseteq P
  BY <1>4, <1>5, NumberInduction
<1>7. Named(m[n], p, n)
  BY <1>2, <1>6 DEF P
<1> QED
  BY <1>3, <1>7 DEF n

\* Its folder.
LEMMA FloatFoldersAre ==
  ASSUME NEW p, IsPaper(p)
  PROVE  /\ FloatFolders(p) \in Seq({"figures", "tables"}) /\ Distinct(FloatFolders(p))
         /\ \A c : c \in Range(FloatFolders(p)) <=> \E i \in 1..Len(p.floats) : c = p.floats[i].folder
<1> DEFINE F == {f.folder : f \in Range(p.floats)}
           b == <<"figures", "tables">>
           n == Len(p.floats)
<1>1. b \in Seq({"figures", "tables"}) /\ Distinct(b) /\ Range(b) = {"figures", "tables"}
  <2>1. Len(b) = 2 /\ b[1] = "figures" /\ b[2] = "tables" /\ (\A i \in 1..2 : i = 1 \/ i = 2) /\ DOMAIN b = {1, 2}
    OBVIOUS
  <2>2. b \in Seq({"figures", "tables"})
    OBVIOUS
  <2> HIDE DEF b
  <2>3. Distinct(b)
    BY <2>1 DEF Distinct
  <2>4. Range(b) = {"figures", "tables"}
    BY <2>1 DEF Range
  <2> QED
    BY <2>2, <2>3, <2>4
<1>2. FloatFolders(p) = Only(b, F)
  BY DEF FloatFolders
<1> HIDE DEF b, F
<1>3. /\ Only(b, F) \in Seq({"figures", "tables"}) /\ Distinct(Only(b, F))
      /\ Range(Only(b, F)) = {"figures", "tables"} \cap F
  BY <1>1, OnlyDistinct
<1>4. Range(p.floats) = {p.floats[i] : i \in 1..n} /\ \A i \in 1..n : p.floats[i].folder \in {"figures", "tables"}
  <2>1. p.floats \in Seq(FloatRow)
    BY PaperType
  <2>2. \A i \in 1..n : p.floats[i] \in FloatRow
    BY <2>1, ElementOfSeq
  <2>3. \A f \in FloatRow : f.folder \in {"figures", "tables"}
    BY DEF FloatRow
  <2> QED
    BY <2>1, <2>2, <2>3, LenProperties DEF Range
<1>5. \A c : c \in F <=> \E i \in 1..n : c = p.floats[i].folder
  BY <1>4 DEF F
<1> QED
  BY <1>2, <1>3, <1>4, <1>5

-----------------------------------------------------------------------------
\* The plan of a paper.

\* Its nodes, by the name they begin with.
Cover(x) == x = Folder(Root) \/ x = File(<<Overview>>) \/ x = File(<<<<"metadata">>>>)
Sections(x, p) == \E h \in KeptOf(p) : NodeOf(x, p, h)
Shelf(x, p) == \E i \in 1..Len(p.floats) : x = Folder(<<<<p.floats[i].folder>>>>)
Image(x, p) == \E i \in 1..Len(p.floats) : x = File(Floats(p)[i])
PaperEntry(x, p) == Cover(x) \/ Sections(x, p) \/ Shelf(x, p) \/ Image(x, p)

\* The nodes that every paper has.
LEMMA CoverIs ==
  ASSUME NEW p, NEW x, Cover(x)
  PROVE  /\ x \in Entries(PaperNames(p)) /\ x.text = (x.type = "file")
         /\ \/ x = Folder(Root) /\ x.path = <<>> /\ Len(x.path) = 0 /\ x.type = "folder"
            \/ /\ x.type = "file" /\ x = File(x.path) /\ Len(x.path) = 1
               /\ x.path[1] \in {Overview, <<"metadata">>}
<1> DEFINE N == PaperNames(p)
           o == Overview
           d == <<"metadata">>
<1>1. <<o>> \in Seq(N) /\ <<d>> \in Seq(N) /\ <<>> \in Seq(N)
  <2>1. o \in N /\ d \in N
    BY DEF PaperNames
  <2> HIDE DEF N, o, d
  <2> QED
    BY <2>1
<1>2. Len(<<o>>) = 1 /\ <<o>>[1] = o /\ Len(<<d>>) = 1 /\ <<d>>[1] = d /\ Len(<<>>) = 0
  OBVIOUS
<1> HIDE DEF N, o, d
<1>3. CASE x = Folder(Root)
  <2>1. x.path = <<>> /\ x.type = "folder" /\ x.text = FALSE /\ x \in Entries(N)
    BY <1>1, <1>3 DEF Folder, Entry, Root, Entries
  <2> QED
    BY <1>2, <1>3, <2>1 DEF N
<1>4. CASE x = File(<<o>>)
  <2>1. x.path = <<o>> /\ x.type = "file" /\ x.text = TRUE /\ x \in Entries(N)
    BY <1>1, <1>4 DEF File, Entry, Entries
  <2> QED
    BY <1>2, <1>4, <2>1 DEF N, o
<1>5. CASE x = File(<<d>>)
  <2>1. x.path = <<d>> /\ x.type = "file" /\ x.text = TRUE /\ x \in Entries(N)
    BY <1>1, <1>5 DEF File, Entry, Entries
  <2> QED
    BY <1>2, <1>5, <2>1 DEF N, d
<1> QED
  BY <1>3, <1>4, <1>5 DEF Cover, o, d

ShelfName(p, i) == <<p.floats[i].folder>>

\* The folder of a caption.
LEMMA ShelfIs ==
  ASSUME NEW p, IsPaper(p), NEW i \in 1..Len(p.floats), NEW x, x = Folder(<<<<p.floats[i].folder>>>>)
  PROVE  /\ x \in Entries(PaperNames(p)) /\ x.text = (x.type = "file") /\ x.type = "folder"
         /\ x = Folder(x.path) /\ Len(x.path) = 1 /\ x.path[1] = ShelfName(p, i)
         /\ x.path[1] \in Captions
<1> DEFINE c == <<p.floats[i].folder>>
           N == PaperNames(p)
<1>1. c \in Captions
  <2>1. p.floats \in Seq(FloatRow)
    BY PaperType
  <2>2. p.floats[i] \in FloatRow
    BY <2>1, ElementOfSeq
  <2>3. p.floats[i].folder = "figures" \/ p.floats[i].folder = "tables"
    BY <2>2 DEF FloatRow
  <2> QED
    BY <2>3 DEF Captions
<1>2. c \in N
  BY <1>1 DEF PaperNames
<1> HIDE DEF c, N
<1>3. <<c>> \in Seq(N) /\ Len(<<c>>) = 1 /\ <<c>>[1] = c
  BY <1>2
<1>4. x = Folder(<<c>>)
  BY DEF c
<1>5. x.path = <<c>> /\ x.type = "folder" /\ x.text = FALSE /\ x \in Entries(N)
  BY <1>3, <1>4 DEF Folder, Entry, Entries
<1> QED
  BY <1>1, <1>3, <1>4, <1>5 DEF c, N, ShelfName

\* The file of a caption.
LEMMA ImageIs ==
  ASSUME NEW p, IsPaper(p), NEW i \in 1..Len(p.floats), NEW x, x = File(Floats(p)[i])
  PROVE  /\ x \in Entries(PaperNames(p)) /\ x.text = (x.type = "file") /\ x.type = "file"
         /\ x = File(x.path) /\ x.path = Floats(p)[i] /\ Len(x.path) = 2
         /\ x.path[1] = ShelfName(p, i) /\ x.path[1] \in Captions
<1> DEFINE N == PaperNames(p)
           q == Floats(p)[i]
<1>1. p.floats[i] \in FloatRow
  <2>1. p.floats \in Seq(FloatRow)
    BY PaperType
  <2> QED
    BY <2>1, ElementOfSeq
<1>2. PICK c \in Nat : q = FloatFile(p.floats[i], c)
  BY FloatsAre DEF Named
<1> HIDE DEF q
<1>3. q \in Seq(N) /\ Len(q) = 2 /\ q[1] = ShelfName(p, i) /\ q[1] \in Captions
  <2> DEFINE f == p.floats[i]
             r == FloatFile(f, c)
  <2>1. f \in FloatRow
    BY <1>1
  <2> HIDE DEF f
  <2>2. r \in Seq(PaperNames(p)) /\ Len(r) = 2 /\ r[1] = <<f.folder>> /\ r[1] \in Captions
    BY <2>1, FloatFileIs
  <2>3. q = r
    BY <1>2 DEF f
  <2> HIDE DEF r
  <2> QED
    BY <2>2, <2>3 DEF f, ShelfName
<1> HIDE DEF N
<1>4. x = File(q)
  BY DEF q
<1>5. x.path = q /\ x.type = "file" /\ x.text = TRUE /\ x \in Entries(N)
  BY <1>3, <1>4 DEF File, Entry, Entries
<1> QED
  BY <1>3, <1>4, <1>5 DEF N, q

\* The nodes of the sections.
LEMMA SectionIs ==
  ASSUME NEW p, IsPaper(p), NEW x, Sections(x, p)
  PROVE  /\ x \in Entries(PaperNames(p)) /\ x.text = (x.type = "file")
         /\ Len(x.path) > 0 /\ x.path[1] \in Segments(p)
         /\ x.path[1] \notin Captions /\ x.path[1] \notin {Overview, <<"metadata">>}
         /\ x = File(x.path) \/ x = Folder(x.path)
<1>1. PICK h \in KeptOf(p) : NodeOf(x, p, h)
  BY DEF Sections
<1>2. /\ x \in Entries(PaperNames(p)) /\ x.text = (x.type = "file")
      /\ Len(x.path) > 0 /\ x.path[1] \in Segments(p)
  BY <1>1, NodeType
<1>3. \A q : Folder(q).path = q /\ File(q).path = q
  BY DEF Folder, File, Entry
<1>4. x = File(x.path) \/ x = Folder(x.path)
  BY <1>1, <1>3 DEF NodeOf, FileOf
<1> QED
  BY <1>2, <1>4, SegmentIsNoName

\* No caption is called as the other files are.
LEMMA CaptionIsNoName == Overview \notin Captions /\ <<"metadata">> \notin Captions
<1>1. \A a, b : <<a>> = <<b>> => a = b
  OBVIOUS
<1> QED
  BY <1>1 DEF Overview, Captions

\* The parts have nothing in common.
LEMMA PartsApart ==
  ASSUME NEW p, IsPaper(p), NEW x
  PROVE  /\ ~(Cover(x) /\ Sections(x, p)) /\ ~(Cover(x) /\ Shelf(x, p)) /\ ~(Cover(x) /\ Image(x, p))
         /\ ~(Sections(x, p) /\ Shelf(x, p)) /\ ~(Sections(x, p) /\ Image(x, p))
         /\ ~(Shelf(x, p) /\ Image(x, p))
<1>1. Cover(x) => Len(x.path) = 0 \/ (Len(x.path) = 1 /\ x.path[1] \in {Overview, <<"metadata">>})
  <2> SUFFICES ASSUME Cover(x)
               PROVE  Len(x.path) = 0 \/ (Len(x.path) = 1 /\ x.path[1] \in {Overview, <<"metadata">>})
    OBVIOUS
  <2> QED
    BY CoverIs
<1>2. Sections(x, p) => /\ Len(x.path) > 0 /\ x.path[1] \notin Captions
                        /\ x.path[1] \notin {Overview, <<"metadata">>}
  BY SectionIs
<1>3. Shelf(x, p) => Len(x.path) = 1 /\ x.path[1] \in Captions
  BY ShelfIs DEF Shelf
<1>4. Image(x, p) => Len(x.path) = 2 /\ x.path[1] \in Captions
  BY ImageIs DEF Image
<1> QED
  BY <1>1, <1>2, <1>3, <1>4, CaptionIsNoName

\* What each part of the plan has.
LEMMA CoverNodes ==
  ASSUME NEW p
  PROVE  LET a == <<Folder(Root), File(<<Overview>>), File(<<<<"metadata">>>>)>>
         IN  /\ a \in Seq(Entries(PaperNames(p))) /\ Distinct(a) /\ a[1] = Folder(Root) /\ Len(a) = 3
             /\ \A x : x \in Range(a) <=> Cover(x)
<1> DEFINE x == Folder(Root)
           y == File(<<Overview>>)
           z == File(<<<<"metadata">>>>)
           a == <<x, y, z>>
           E == Entries(PaperNames(p))
<1>1. x \in E /\ y \in E /\ z \in E
  BY CoverIs DEF Cover
<1>2. x # y /\ x # z /\ y # z
  <2>1. x.type = "folder" /\ y.type = "file" /\ z.type = "file"
    BY DEF Folder, File, Entry
  <2>2. y.path = <<Overview>> /\ z.path = <<<<"metadata">>>>
    BY DEF File, Entry
  <2>3. \A u, v : <<u>> = <<v>> => u = v
    OBVIOUS
  <2>4. Overview # <<"metadata">>
    BY <2>3 DEF Overview
  <2>5. y.path # z.path
    BY <2>2, <2>3, <2>4
  <2> HIDE DEF x, y, z
  <2> QED
    BY <2>1, <2>5
<1> HIDE DEF x, y, z, E
<1>3. /\ a \in Seq(E) /\ Len(a) = 3 /\ a[1] = x /\ a[2] = y /\ a[3] = z /\ DOMAIN a = 1..3
      /\ \A i \in 1..3 : i = 1 \/ i = 2 \/ i = 3
  BY <1>1
<1> HIDE DEF a
<1>4. Distinct(a)
  BY <1>2, <1>3 DEF Distinct
<1>5. \A u : u \in Range(a) <=> u = x \/ u = y \/ u = z
  <2>1. Range(a) = {a[i] : i \in 1..3} /\ 1 \in 1..3 /\ 2 \in 1..3 /\ 3 \in 1..3
    BY <1>3 DEF Range
  <2> QED
    BY <1>3, <2>1
<1>6. \A u : u \in Range(a) <=> Cover(u)
  BY <1>5 DEF Cover, x, y, z
<1> QED
  BY <1>3, <1>4, <1>6 DEF a, x, y, z, E

\* The sections, one heading after another.
LEMMA SectionsNodes ==
  ASSUME NEW p, IsPaper(p)
  PROVE  LET b == FlattenSeq([i \in 1..Len(Kept(p)) |-> SectionNodes(p, Kept(p)[i])])
         IN  /\ b \in Seq(Entries(PaperNames(p))) /\ Distinct(b)
             /\ \A x : x \in Range(b) <=> Sections(x, p)
<1> DEFINE ks == Kept(p)
           n == Len(ks)
           E == Entries(PaperNames(p))
           seqs == [i \in 1..n |-> SectionNodes(p, ks[i])]
<1>1. ks \in Seq(Seq(Titles)) /\ Distinct(ks)
  BY KeptAre
<1>2. n \in Nat /\ KeptOf(p) = {ks[i] : i \in 1..n}
  BY <1>1, LenProperties DEF KeptOf, Range
<1> HIDE DEF ks
<1>3. \A i \in 1..n : ks[i] \in KeptOf(p)
  BY <1>2
<1>4. \A i, j \in 1..n : ks[i] = ks[j] => i = j
  BY <1>1 DEF Distinct
<1>5. ASSUME NEW i \in 1..n
      PROVE  /\ seqs[i] \in Seq(E) /\ Distinct(seqs[i])
             /\ \A x : x \in Range(seqs[i]) <=> NodeOf(x, p, ks[i])
  BY <1>3, SectionNodesAre
<1>6. seqs \in Seq(Seq(E)) /\ Len(seqs) = n
  BY <1>2, <1>5
<1> HIDE DEF seqs, E, n
<1>7. ASSUME NEW i \in 1..n, NEW j \in 1..n, i # j PROVE Range(seqs[i]) \cap Range(seqs[j]) = {}
  <2> SUFFICES ASSUME NEW x, x \in Range(seqs[i]), x \in Range(seqs[j]) PROVE FALSE
    OBVIOUS
  <2>1. NodeOf(x, p, ks[i]) /\ NodeOf(x, p, ks[j])
    BY <1>5
  <2>2. ks[i] = ks[j]
    BY <1>3, <2>1, NodesApart
  <2> QED
    BY <1>4, <1>7, <2>2
<1>8. /\ FlattenSeq(seqs) \in Seq(E) /\ Distinct(FlattenSeq(seqs))
      /\ \A x : x \in Range(FlattenSeq(seqs)) <=> \E i \in 1..Len(seqs) : x \in Range(seqs[i])
  <2>1. \A i \in 1..Len(seqs) : Distinct(seqs[i])
    BY <1>5, <1>6
  <2>2. \A i, j \in 1..Len(seqs) : i # j => Range(seqs[i]) \cap Range(seqs[j]) = {}
    BY <1>6, <1>7
  <2>3. seqs \in Seq(Seq(E))
    BY <1>6
  <2> QED
    BY ONLY <2>1, <2>2, <2>3, FlattenDistinct
<1>9. \A x : x \in Range(FlattenSeq(seqs)) <=> Sections(x, p)
  <2>1. \A x : x \in Range(FlattenSeq(seqs)) <=> \E i \in 1..n : NodeOf(x, p, ks[i])
    BY <1>5, <1>6, <1>8
  <2> QED
    BY <1>2, <2>1 DEF Sections
<1> QED
  BY <1>8, <1>9 DEF seqs, E, n, ks

\* The folders of the captions.
LEMMA ShelfNodes ==
  ASSUME NEW p, IsPaper(p)
  PROVE  LET c == [i \in 1..Len(FloatFolders(p)) |-> Folder(<<<<FloatFolders(p)[i]>>>>)]
         IN  /\ c \in Seq(Entries(PaperNames(p))) /\ Distinct(c)
             /\ \A x : x \in Range(c) <=> Shelf(x, p)
<1> DEFINE t == FloatFolders(p)
           n == Len(t)
           E == Entries(PaperNames(p))
           c == [i \in 1..n |-> Folder(<<<<t[i]>>>>)]
           m == Len(p.floats)
<1>1. /\ t \in Seq({"figures", "tables"}) /\ Distinct(t)
      /\ \A u : u \in Range(t) <=> \E i \in 1..m : u = p.floats[i].folder
  BY FloatFoldersAre
<1>2. n \in Nat /\ Range(t) = {t[i] : i \in 1..n} /\ \A i, j \in 1..n : t[i] = t[j] => i = j
  BY <1>1, LenProperties DEF Range, Distinct
<1> HIDE DEF t
<1>3. ASSUME NEW i \in 1..n PROVE \E j \in 1..m : t[i] = p.floats[j].folder
  BY <1>1, <1>2
<1>4. ASSUME NEW i \in 1..n PROVE Folder(<<<<t[i]>>>>) \in E
  <2>1. PICK j \in 1..m : t[i] = p.floats[j].folder
    BY <1>3
  <2> QED
    BY <2>1, ShelfIs
<1>5. c \in Seq(E) /\ Len(c) = n /\ Range(c) = {Folder(<<<<t[i]>>>>) : i \in 1..n}
  <2>1. c \in Seq(E) /\ Len(c) = n
    BY <1>2, <1>4
  <2> QED
    BY <2>1 DEF Range
<1>6. \A u, v : Folder(<<<<u>>>>) = Folder(<<<<v>>>>) => u = v
  <2> SUFFICES ASSUME NEW u, NEW v, Folder(<<<<u>>>>) = Folder(<<<<v>>>>) PROVE u = v
    OBVIOUS
  <2>1. Folder(<<<<u>>>>).path = <<<<u>>>> /\ Folder(<<<<v>>>>).path = <<<<v>>>>
    BY DEF Folder, Entry
  <2>2. <<<<u>>>> = <<<<v>>>>
    BY <2>1
  <2> QED
    BY <2>2
<1>7. \A i \in 1..n : c[i] = Folder(<<<<t[i]>>>>)
  OBVIOUS
<1> HIDE DEF c, n, m
<1>8. Distinct(c)
  <2> SUFFICES ASSUME NEW i \in 1..n, NEW j \in 1..n, c[i] = c[j] PROVE i = j
    BY <1>5 DEF Distinct
  <2>1. Folder(<<<<t[i]>>>>) = Folder(<<<<t[j]>>>>)
    BY <1>7
  <2>2. t[i] = t[j]
    BY <1>6, <2>1
  <2> QED
    BY <1>2, <2>2
<1>9. \A x : x \in Range(c) <=> Shelf(x, p)
  <2>1. ASSUME NEW x, x \in Range(c) PROVE Shelf(x, p)
    <3>1. PICK i \in 1..n : x = Folder(<<<<t[i]>>>>)
      BY <1>5, <2>1
    <3>2. PICK j \in 1..m : t[i] = p.floats[j].folder
      BY <1>3
    <3> QED
      BY <3>1, <3>2 DEF Shelf, m
  <2>2. ASSUME NEW x, Shelf(x, p) PROVE x \in Range(c)
    <3>1. PICK j \in 1..m : x = Folder(<<<<p.floats[j].folder>>>>)
      BY <2>2 DEF Shelf, m
    <3>2. PICK i \in 1..n : t[i] = p.floats[j].folder
      BY <1>1, <1>2
    <3> QED
      BY <1>5, <3>1, <3>2
  <2> QED
    BY <2>1, <2>2
<1> QED
  BY <1>5, <1>8, <1>9 DEF c, n, t, E

\* The files of the captions.
LEMMA ImageNodes ==
  ASSUME NEW p, IsPaper(p)
  PROVE  LET d == [i \in 1..Len(Floats(p)) |-> File(Floats(p)[i])]
         IN  /\ d \in Seq(Entries(PaperNames(p))) /\ Distinct(d)
             /\ \A x : x \in Range(d) <=> Image(x, p)
             /\ Len(d) = Len(p.floats)
<1> DEFINE t == Floats(p)
           n == Len(t)
           E == Entries(PaperNames(p))
           d == [i \in 1..n |-> File(t[i])]
<1>1. /\ t \in Seq(Seq(PaperNames(p))) /\ n = Len(p.floats)
      /\ \A i, j \in 1..n : t[i] = t[j] => i = j
  BY FloatsAre DEF Named, Distinct
<1>2. n \in Nat
  BY <1>1, LenProperties
<1>3. ASSUME NEW i \in 1..n PROVE File(t[i]) \in E /\ File(t[i]).path = t[i]
  <2>1. i \in 1..Len(p.floats)
    BY <1>1
  <2> QED
    BY <2>1, ImageIs
<1>4. d \in Seq(E) /\ Len(d) = n /\ Range(d) = {File(t[i]) : i \in 1..n}
  <2>1. d \in Seq(E) /\ Len(d) = n
    BY <1>2, <1>3
  <2> QED
    BY <2>1 DEF Range
<1>5. Distinct(d)
  <2>1. \A i \in 1..n : d[i] = File(t[i])
    OBVIOUS
  <2> HIDE DEF d, n
  <2> QED
    BY <1>1, <1>3, <1>4, <2>1 DEF Distinct
<1>6. \A x : x \in Range(d) <=> Image(x, p)
  BY <1>1, <1>4 DEF Image
<1> QED
  BY <1>1, <1>4, <1>5, <1>6

\* All together.
LEMMA PaperNodesAre ==
  ASSUME NEW p, IsPaper(p)
  PROVE  /\ PaperNodes(p) \in Seq(Entries(PaperNames(p))) /\ Distinct(PaperNodes(p))
         /\ \A x : x \in Range(PaperNodes(p)) <=> PaperEntry(x, p)
         /\ Len(PaperNodes(p)) > 0 /\ PaperNodes(p)[1] = Folder(Root)
<1> DEFINE E == Entries(PaperNames(p))
           a == <<Folder(Root), File(<<Overview>>), File(<<<<"metadata">>>>)>>
           b == FlattenSeq([i \in 1..Len(Kept(p)) |-> SectionNodes(p, Kept(p)[i])])
           c == [i \in 1..Len(FloatFolders(p)) |-> Folder(<<<<FloatFolders(p)[i]>>>>)]
           d == [i \in 1..Len(Floats(p)) |-> File(Floats(p)[i])]
           ab == a \o b
           abc == ab \o c
           all == abc \o d
<1>1. /\ a \in Seq(E) /\ Distinct(a) /\ a[1] = Folder(Root) /\ Len(a) = 3
      /\ \A x : x \in Range(a) <=> Cover(x)
  BY CoverNodes
<1>2. b \in Seq(E) /\ Distinct(b) /\ \A x : x \in Range(b) <=> Sections(x, p)
  BY SectionsNodes
<1>3. c \in Seq(E) /\ Distinct(c) /\ \A x : x \in Range(c) <=> Shelf(x, p)
  BY ShelfNodes
<1>4. d \in Seq(E) /\ Distinct(d) /\ \A x : x \in Range(d) <=> Image(x, p)
  BY ImageNodes
<1>5. PaperNodes(p) = all
  BY DEF PaperNodes
<1> HIDE DEF E, a, b, c, d
<1>6. /\ ab \in Seq(E) /\ Distinct(ab) /\ \A x : x \in Range(ab) <=> Cover(x) \/ Sections(x, p)
      /\ Len(ab) > 0 /\ ab[1] = Folder(Root)
  <2>1. Range(a) \cap Range(b) = {}
    BY <1>1, <1>2, PartsApart
  <2>2. ab \in Seq(E) /\ Range(ab) = Range(a) \union Range(b)
    BY <1>1, <1>2, JoinedRange
  <2>3. Distinct(ab)
    BY <1>1, <1>2, <2>1, JoinedDistinct
  <2>4. Len(ab) > 0 /\ ab[1] = Folder(Root)
    BY <1>1, <1>2
  <2> QED
    BY <1>1, <1>2, <2>2, <2>3, <2>4
<1> HIDE DEF ab
<1>7. /\ abc \in Seq(E) /\ Distinct(abc)
      /\ \A x : x \in Range(abc) <=> Cover(x) \/ Sections(x, p) \/ Shelf(x, p)
      /\ Len(abc) > 0 /\ abc[1] = Folder(Root)
  <2>1. Range(ab) \cap Range(c) = {}
    BY <1>6, <1>3, PartsApart
  <2>2. abc \in Seq(E) /\ Range(abc) = Range(ab) \union Range(c)
    BY <1>6, <1>3, JoinedRange
  <2>3. Distinct(abc)
    BY <1>6, <1>3, <2>1, JoinedDistinct
  <2>4. Len(abc) > 0 /\ abc[1] = Folder(Root)
    BY <1>6, <1>3
  <2> QED
    BY <1>6, <1>3, <2>2, <2>3, <2>4
<1> HIDE DEF abc
<1>8. /\ all \in Seq(E) /\ Distinct(all)
      /\ \A x : x \in Range(all) <=> Cover(x) \/ Sections(x, p) \/ Shelf(x, p) \/ Image(x, p)
      /\ Len(all) > 0 /\ all[1] = Folder(Root)
  <2>1. Range(abc) \cap Range(d) = {}
    BY <1>7, <1>4, PartsApart
  <2>2. all \in Seq(E) /\ Range(all) = Range(abc) \union Range(d)
    BY <1>7, <1>4, JoinedRange
  <2>3. Distinct(all)
    BY <1>7, <1>4, <2>1, JoinedDistinct
  <2>4. Len(all) > 0 /\ all[1] = Folder(Root)
    BY <1>7, <1>4
  <2> QED
    BY <1>7, <1>4, <2>2, <2>3, <2>4
<1> HIDE DEF all
<1> QED
  BY <1>5, <1>8 DEF E, PaperEntry

\* A node of the paper is a file with a text or a folder without.
LEMMA PaperEntryIs ==
  ASSUME NEW p, IsPaper(p), NEW x, PaperEntry(x, p)
  PROVE  /\ x \in Entries(PaperNames(p)) /\ x.text = (x.type = "file")
         /\ x = File(x.path) \/ x = Folder(x.path)
<1>1. CASE Cover(x)
  <2>1. x = Folder(Root) => x = Folder(x.path)
    BY CoverIs, <1>1 DEF Folder, Entry
  <2> QED
    BY CoverIs, <1>1, <2>1
<1>2. CASE Sections(x, p)
  BY SectionIs, <1>2
<1>3. CASE Shelf(x, p)
  BY ShelfIs, <1>3 DEF Shelf
<1>4. CASE Image(x, p)
  BY ImageIs, <1>4 DEF Image
<1> QED
  BY <1>1, <1>2, <1>3, <1>4 DEF PaperEntry

\* Where a node of the paper is, by what it is.
CoverPlace(x) ==
  \/ Len(x.path) = 0 /\ x.type = "folder"
  \/ Len(x.path) = 1 /\ x.path[1] \in {Overview, <<"metadata">>} /\ x.type = "file"
ShelfPlace(x) == Len(x.path) = 1 /\ x.path[1] \in Captions /\ x.type = "folder"
ImagePlace(x) == Len(x.path) = 2 /\ x.path[1] \in Captions /\ x.type = "file"
SectionPlace(x) ==
  Len(x.path) > 0 /\ x.path[1] \notin Captions /\ x.path[1] \notin {Overview, <<"metadata">>}

\* Each is where its kind is.
LEMMA Placed ==
  ASSUME NEW p, IsPaper(p), NEW x, PaperEntry(x, p)
  PROVE  \/ Cover(x) /\ CoverPlace(x)
         \/ Sections(x, p) /\ SectionPlace(x)
         \/ Shelf(x, p) /\ ShelfPlace(x)
         \/ Image(x, p) /\ ImagePlace(x)
<1>1. CASE Cover(x)
  BY CoverIs, <1>1 DEF CoverPlace
<1>2. CASE Sections(x, p)
  BY SectionIs, <1>2 DEF SectionPlace
<1>3. CASE Shelf(x, p)
  BY ShelfIs, <1>3 DEF Shelf, ShelfPlace
<1>4. CASE Image(x, p)
  BY ImageIs, <1>4 DEF Image, ImagePlace
<1> QED
  BY <1>1, <1>2, <1>3, <1>4 DEF PaperEntry

\* No file is above another node, and no two nodes have the same path.
LEMMA PaperFileIsLast ==
  ASSUME NEW p, IsPaper(p), NEW x, PaperEntry(x, p), NEW y, PaperEntry(y, p)
  PROVE  /\ x.path = y.path => x = y
         /\ x.type = "file" /\ IsPrefix(x.path, y.path) => x = y
<1> DEFINE N == PaperNames(p)
<1>1. /\ x.path \in Seq(N) /\ y.path \in Seq(N) /\ Len(x.path) \in Nat /\ Len(y.path) \in Nat
      /\ x.type \in {"file", "folder"} /\ y.type \in {"file", "folder"}
      /\ x = File(x.path) \/ x = Folder(x.path)
      /\ y = File(y.path) \/ y = Folder(y.path)
  BY PaperEntryIs, LenProperties DEF Entries
<1>2. /\ x.type = "file" => x = File(x.path)
      /\ x.type = "folder" => x = Folder(x.path)
      /\ y.type = "file" => y = File(y.path)
      /\ y.type = "folder" => y = Folder(y.path)
  <2>1. \A q : File(q).type = "file" /\ Folder(q).type = "folder"
    BY DEF File, Folder, Entry
  <2> QED
    BY <1>1, <2>1
<1>3. x.type = y.type /\ x.path = y.path => x = y
  BY <1>1, <1>2
<1>4. /\ IsPrefix(x.path, y.path) <=> Len(x.path) <= Len(y.path) /\ \A i \in 1..Len(x.path) : x.path[i] = y.path[i]
  BY <1>1, PrefixByElement
<1>6. ASSUME x.path = y.path PROVE x = y
  <2>1. CASE Sections(x, p) /\ SectionPlace(x)
    <3>1. Sections(y, p)
      BY <1>6, <2>1, Placed DEF SectionPlace, CoverPlace, ShelfPlace, ImagePlace
    <3> QED
      BY <1>6, <2>1, <3>1, NodesApart DEF Sections
  <2>2. CASE ~(Sections(x, p) /\ SectionPlace(x))
    <3>1. CoverPlace(x) \/ ShelfPlace(x) \/ ImagePlace(x)
      BY <2>2, Placed
    <3>2. CoverPlace(y) \/ ShelfPlace(y) \/ ImagePlace(y)
      BY <3>1, <1>6, Placed DEF SectionPlace, CoverPlace, ShelfPlace, ImagePlace
    <3>3. x.type = y.type
      BY <1>6, <3>1, <3>2, CaptionIsNoName DEF CoverPlace, ShelfPlace, ImagePlace
    <3> QED
      BY <1>3, <1>6, <3>3
  <2> QED
    BY <2>1, <2>2
<1>7. ASSUME x.type = "file", IsPrefix(x.path, y.path) PROVE x = y
  <2>1. CASE Sections(x, p) /\ SectionPlace(x)
    <3>1. 1 \in 1..Len(x.path) /\ x.path[1] = y.path[1] /\ Len(y.path) > 0
      BY <1>1, <1>4, <1>7, <2>1 DEF SectionPlace
    <3>2. Sections(y, p)
      BY <3>1, <2>1, Placed DEF SectionPlace, CoverPlace, ShelfPlace, ImagePlace
    <3>3. PICK h \in KeptOf(p) : NodeOf(x, p, h)
      BY <2>1 DEF Sections
    <3>4. x = FileOf(p, h)
      BY <1>7, <3>3, NodeType
    <3>5. PICK k \in KeptOf(p) : NodeOf(y, p, k)
      BY <3>2 DEF Sections
    <3> QED
      BY <1>7, <3>4, <3>5, FileIsLast
  <2>2. CASE CoverPlace(x) \/ ImagePlace(x)
    <3>1. Len(x.path) > 0
      BY <1>7, <2>2 DEF CoverPlace, ImagePlace
    <3>2. 1 \in 1..Len(x.path) /\ x.path[1] = y.path[1] /\ Len(y.path) >= Len(x.path)
      BY <1>1, <1>4, <1>7, <3>1
    <3>3. Len(y.path) = Len(x.path)
      BY <1>7, <2>2, <3>2, Placed, CaptionIsNoName DEF SectionPlace, CoverPlace, ShelfPlace, ImagePlace
    <3>4. \A i \in 1..Len(x.path) : x.path[i] = y.path[i]
      BY <1>4, <1>7
    <3>5. x.path = y.path
      <4> DEFINE u == x.path
                 v == y.path
      <4>1. u \in Seq(N) /\ v \in Seq(N) /\ Len(u) = Len(v) /\ \A i \in 1..Len(u) : u[i] = v[i]
        BY <1>1, <3>3, <3>4
      <4> HIDE DEF u, v, N
      <4>2. u = v
        BY <4>1, SeqEqual
      <4> QED
        BY <4>2 DEF u, v
    <3> QED
      BY <1>6, <3>5
  <2> QED
    BY <1>7, <2>1, <2>2, Placed DEF ShelfPlace
<1> QED
  BY <1>6, <1>7

\* Every folder of the paper leads to a file.
LEMMA PaperLeadsToFile ==
  ASSUME NEW p, IsPaper(p), NEW x, PaperEntry(x, p), x.path # Root
  PROVE  \E y : PaperEntry(y, p) /\ y.type = "file" /\ IsPrefix(x.path, y.path)
<1> DEFINE N == PaperNames(p)
<1>1. x \in Entries(N)
  BY PaperEntryIs
<1>2. x.path \in Seq(N) /\ x.type \in {"file", "folder"}
  BY <1>1 DEF Entries
<1>3. CASE x.type = "file"
  <2>1. IsPrefix(x.path, x.path)
    BY <1>2, PrefixByElement, LenProperties
  <2> QED
    BY <1>3, <2>1
<1>4. CASE Cover(x) /\ x.type # "file"
  BY <1>4, CoverIs DEF Root
<1>5. CASE Shelf(x, p)
  <2>1. PICK i \in 1..Len(p.floats) : x = Folder(<<<<p.floats[i].folder>>>>)
    BY <1>5 DEF Shelf
  <2>2. Len(x.path) = 1 /\ x.path[1] = ShelfName(p, i)
    BY <2>1, ShelfIs
  <2>0. PICK y : y = File(Floats(p)[i])
    OBVIOUS
  <2>3. y \in Entries(N) /\ y.type = "file" /\ Len(y.path) = 2 /\ y.path[1] = ShelfName(p, i)
    BY <2>0, <2>1, ImageIs
  <2>4. PaperEntry(y, p)
    BY <2>0 DEF PaperEntry, Image
  <2>5. y.path \in Seq(N)
    BY <2>3 DEF Entries
  <2>6. \A j \in 1..Len(x.path) : j = 1
    BY <2>2
  <2>7. IsPrefix(x.path, y.path)
    BY <1>2, <2>2, <2>3, <2>5, <2>6, PrefixByElement
  <2> QED
    BY <2>3, <2>4, <2>7
<1>6. CASE Sections(x, p) /\ x.type # "file"
  <2>1. PICK h \in KeptOf(p) : NodeOf(x, p, h)
    BY <1>6 DEF Sections
  <2>2. x = Folder(Place(p, h))
    BY <1>6, <2>1, NodeType DEF NodeOf
  <2>3. x.path = Place(p, h)
    BY <2>2 DEF Folder, Entry
  <2>4. PICK t \in Texts(p) : IsPrefix(h, t)
    BY TextsAre
  <2>5. t \in KeptOf(p) /\ HasText(p, t)
    BY TextsAre
  <2> DEFINE y == FileOf(p, t)
  <2>6. NodeOf(y, p, t)
    BY <2>5 DEF NodeOf
  <2>7. PaperEntry(y, p)
    BY <2>5, <2>6 DEF PaperEntry, Sections
  <2>8. y \in Entries(N) /\ y.type = "file" /\ IsPrefix(Place(p, t), y.path)
    BY <2>5, <2>6, NodeType
  <2>9. IsPrefix(Place(p, h), Place(p, t))
    BY <2>4, <2>5, PlaceOfPrefix
  <2> HIDE DEF y
  <2>10. y.path \in Seq(N)
    BY <2>8 DEF Entries
  <2>11. Place(p, t) \in Seq(N)
    BY <2>5, KeptIs, PlaceIs
  <2>12. IsPrefix(x.path, y.path)
    BY <1>2, <2>3, <2>8, <2>9, <2>10, <2>11, PrefixOfPrefix
  <2> QED
    BY <2>7, <2>8, <2>12
<1>7. CASE Image(x, p)
  BY <1>3, <1>7, ImageIs DEF Image
<1> QED
  BY <1>3, <1>4, <1>5, <1>6, <1>7 DEF PaperEntry

\* So the plan is one that materialize takes.
LEMMA PaperIsProper ==
  ASSUME NEW p, IsPaper(p)
  PROVE  Proper(PaperNodes(p), PaperNames(p))
<1> DEFINE plan == PaperNodes(p)
           n == Len(plan)
           N == PaperNames(p)
<1>1. /\ plan \in Seq(Entries(N)) /\ Distinct(plan) /\ n > 0 /\ plan[1] = Folder(Root)
      /\ \A x : x \in Range(plan) <=> PaperEntry(x, p)
  BY PaperNodesAre
<1> HIDE DEF plan, N
<1>2. n \in Nat /\ Range(plan) = {plan[i] : i \in 1..n}
  BY <1>1, LenProperties DEF Range
<1> HIDE DEF n
<1>3. \A i \in 1..n : PaperEntry(plan[i], p)
  BY <1>1, <1>2
<1>4. \A x : PaperEntry(x, p) => \E i \in 1..n : x = plan[i]
  BY <1>1, <1>2
<1>5. \A i, j \in 1..n : plan[i] = plan[j] => i = j
  BY <1>1 DEF Distinct, n
<1>6. \A i \in 1..n : plan[i].text = (plan[i].type = "file")
  BY <1>3, PaperEntryIs
<1>7. \A i, j \in 1..n : plan[i].path = plan[j].path => i = j
  <2> SUFFICES ASSUME NEW i \in 1..n, NEW j \in 1..n, plan[i].path = plan[j].path PROVE i = j
    OBVIOUS
  <2>1. PaperEntry(plan[i], p) /\ PaperEntry(plan[j], p)
    BY <1>3
  <2>2. plan[i] = plan[j]
    BY <2>1, PaperFileIsLast
  <2> QED
    BY <1>5, <2>2
<1>8. \A i, j \in 1..n : plan[i].type = "file" /\ IsPrefix(plan[i].path, plan[j].path) => i = j
  <2> SUFFICES ASSUME NEW i \in 1..n, NEW j \in 1..n, plan[i].type = "file", IsPrefix(plan[i].path, plan[j].path)
               PROVE i = j
    OBVIOUS
  <2>1. PaperEntry(plan[i], p) /\ PaperEntry(plan[j], p)
    BY <1>3
  <2>2. plan[i] = plan[j]
    BY <2>1, PaperFileIsLast
  <2> QED
    BY <1>5, <2>2
<1>9. ASSUME NEW i \in 1..n, plan[i].path # Root
      PROVE  \E j \in 1..n : plan[j].type = "file" /\ IsPrefix(plan[i].path, plan[j].path)
  <2>1. PaperEntry(plan[i], p)
    BY <1>3
  <2>2. PICK y : PaperEntry(y, p) /\ y.type = "file" /\ IsPrefix(plan[i].path, y.path)
    BY <1>9, <2>1, PaperLeadsToFile
  <2>3. PICK j \in 1..n : y = plan[j]
    BY <1>4, <2>2
  <2> QED
    BY <2>2, <2>3
<1> QED
  BY <1>1, <1>6, <1>7, <1>8, <1>9 DEF Proper, n, plan, N

\* Its files.
CoverFiles == {File(<<Overview>>), File(<<<<"metadata">>>>)}
TextFiles(p) == {FileOf(p, h) : h \in Texts(p)}
ImageFiles(p) == {File(Floats(p)[i]) : i \in 1..Len(p.floats)}

\* They are all there are, each of one kind.
LEMMA PaperFilesAre ==
  ASSUME NEW p, IsPaper(p), NEW x
  PROVE  /\ PaperEntry(x, p) /\ x.type = "file"
            <=> x \in CoverFiles \union TextFiles(p) \union ImageFiles(p)
         /\ x \in CoverFiles => Cover(x)
         /\ x \in TextFiles(p) => Sections(x, p)
         /\ x \in ImageFiles(p) => Image(x, p)
<1>1. x \in CoverFiles => Cover(x) /\ x.type = "file"
  BY DEF CoverFiles, Cover, File, Entry
<1>2. Cover(x) /\ x.type = "file" => x \in CoverFiles
  BY DEF CoverFiles, Cover, Folder, Entry
<1>3. ASSUME x \in TextFiles(p) PROVE Sections(x, p) /\ x.type = "file"
  <2>1. PICK h \in Texts(p) : x = FileOf(p, h)
    BY <1>3 DEF TextFiles
  <2>2. h \in KeptOf(p) /\ HasText(p, h)
    BY TextsAre
  <2>3. NodeOf(x, p, h)
    BY <2>1, <2>2 DEF NodeOf
  <2> QED
    BY <2>1, <2>2, <2>3, NodeType DEF Sections
<1>4. ASSUME Sections(x, p), x.type = "file" PROVE x \in TextFiles(p)
  <2>1. PICK h \in KeptOf(p) : NodeOf(x, p, h)
    BY <1>4 DEF Sections
  <2>2. x = FileOf(p, h)
    BY <1>4, <2>1, NodeType
  <2>3. HasText(p, h)
    <3>1. Folder(Place(p, h)).type # "file"
      BY DEF Folder, Entry
    <3> QED
      BY <1>4, <2>1, <3>1 DEF NodeOf
  <2> QED
    BY <2>2, <2>3, TextsAre DEF TextFiles
<1>5. x \in ImageFiles(p) <=> Image(x, p)
  BY DEF ImageFiles, Image
<1>6. Image(x, p) => x.type = "file"
  BY ImageIs DEF Image
<1>7. Shelf(x, p) => x.type # "file"
  BY ShelfIs DEF Shelf
<1> QED
  BY <1>1, <1>2, <1>3, <1>4, <1>5, <1>6, <1>7 DEF PaperEntry

\* Two, and one for every heading with a text and for every caption.
LEMMA PaperFilesCount ==
  ASSUME NEW p, IsPaper(p)
  PROVE  Cardinality(FilesIn(PaperNodes(p))) = 2 + Cardinality(Texts(p)) + Len(p.floats)
<1> DEFINE A == CoverFiles
           B == TextFiles(p)
           C == ImageFiles(p)
           n == Len(p.floats)
           plan == PaperNodes(p)
           F == FilesIn(plan)
<1>1. IsFiniteSet(A) /\ Cardinality(A) = 2
  <2> DEFINE y == File(<<Overview>>)
             z == File(<<<<"metadata">>>>)
  <2>1. y # z
    <3>1. y.path = <<Overview>> /\ z.path = <<<<"metadata">>>>
      BY DEF File, Entry
    <3>2. \A u, v : <<u>> = <<v>> => u = v
      OBVIOUS
    <3>3. Overview # <<"metadata">>
      BY <3>2 DEF Overview
    <3> QED
      BY <3>1, <3>2, <3>3
  <2>2. A = {y} \union {z}
    BY DEF CoverFiles
  <2> HIDE DEF y, z
  <2>3. IsFiniteSet({y}) /\ Cardinality({y}) = 1 /\ z \notin {y}
    BY <2>1, FS_Singleton
  <2> QED
    BY <2>2, <2>3, FS_AddElement
<1>2. IsFiniteSet(B) /\ Cardinality(B) = Cardinality(Texts(p))
  <2> DEFINE T == Texts(p)
             g == [h \in T |-> FileOf(p, h)]
  <2>1. \A h \in T : h \in KeptOf(p) /\ NodeOf(FileOf(p, h), p, h)
    BY TextsAre DEF NodeOf
  <2>2. \A h, k \in T : FileOf(p, h) = FileOf(p, k) => h = k
    <3> SUFFICES ASSUME NEW h \in T, NEW k \in T, FileOf(p, h) = FileOf(p, k) PROVE h = k
      OBVIOUS
    <3> HIDE DEF T
    <3>1. FileOf(p, h).path = FileOf(p, k).path
      OBVIOUS
    <3>2. /\ h \in KeptOf(p) /\ NodeOf(FileOf(p, h), p, h)
          /\ k \in KeptOf(p) /\ NodeOf(FileOf(p, k), p, k)
      BY <2>1
    <3> QED
      BY <3>1, <3>2, NodesApart
  <2>3. IsFiniteSet(T)
    BY TextsAre
  <2>4. g \in [T -> B] /\ \A y \in B : \E h \in T : g[h] = y
    BY DEF TextFiles
  <2>5. \A h, k \in T : g[h] = g[k] => h = k
    BY <2>2
  <2> HIDE DEF g, T
  <2>6. IsFiniteSet(B) /\ Cardinality(B) = Cardinality(T)
    BY <2>3, <2>4, <2>5, SameCount
  <2> QED
    BY <2>6 DEF T
<1>3. IsFiniteSet(C) /\ Cardinality(C) = n
  <2> DEFINE t == Floats(p)
             g == [i \in 1..n |-> File(t[i])]
  <2>1. Len(t) = n /\ \A i, j \in 1..n : t[i] = t[j] => i = j
    BY FloatsAre DEF Named, Distinct
  <2>2. \A i, j \in 1..n : File(t[i]) = File(t[j]) => i = j
    <3>1. \A q : File(q).path = q
      BY DEF File, Entry
    <3> HIDE DEF t
    <3> SUFFICES ASSUME NEW i \in 1..n, NEW j \in 1..n, File(t[i]) = File(t[j]) PROVE i = j
      OBVIOUS
    <3>2. t[i] = t[j]
      BY <3>1
    <3> QED
      BY <2>1, <3>2
  <2>3. g \in [1..n -> C] /\ \A y \in C : \E i \in 1..n : g[i] = y
    BY DEF ImageFiles
  <2>4. \A i, j \in 1..n : g[i] = g[j] => i = j
    BY <2>2
  <2>5. n \in Nat
    BY PaperType, LenProperties
  <2>6. IsFiniteSet(1..n) /\ Cardinality(1..n) = n
    BY <2>5, FS_Interval
  <2> HIDE DEF g, n
  <2> QED
    BY <2>3, <2>4, <2>6, SameCount
<1>4. A \cap B = {} /\ (A \union B) \cap C = {}
  <2>1. \A x : ~(x \in A /\ x \in B) /\ ~(x \in A /\ x \in C) /\ ~(x \in B /\ x \in C)
    BY PaperFilesAre, PartsApart
  <2> QED
    BY <2>1
<1>5. IsFiniteSet(A \union B \union C) /\ Cardinality(A \union B \union C) = 2 + Cardinality(Texts(p)) + n
  <2> HIDE DEF A, B, C, n
  <2>1. Cardinality(Texts(p)) \in Nat /\ n \in Nat
    BY <1>2, <1>3, FS_CardinalityType
  <2>2. IsFiniteSet(A \union B) /\ Cardinality(A \union B) = 2 + Cardinality(Texts(p))
    BY <1>1, <1>2, <1>4, <2>1, FS_Union, FS_EmptySet
  <2> QED
    BY <1>3, <1>4, <2>1, <2>2, FS_Union, FS_EmptySet
<1>6. Cardinality(F) = Cardinality(A \union B \union C)
  <2> DEFINE g == [i \in F |-> plan[i]]
             m == Len(plan)
             U == A \union B \union C
  <2>1. /\ plan \in Seq(Entries(PaperNames(p))) /\ Distinct(plan)
        /\ \A x : x \in Range(plan) <=> PaperEntry(x, p)
    BY PaperNodesAre
  <2>2. m \in Nat /\ Range(plan) = {plan[i] : i \in 1..m}
    BY <2>1, LenProperties DEF Range
  <2>3. \A i, j \in 1..m : plan[i] = plan[j] => i = j
    BY <2>1 DEF Distinct
  <2>4. \A x : x \in U <=> PaperEntry(x, p) /\ x.type = "file"
    BY PaperFilesAre
  <2>5. F = {i \in 1..m : plan[i].type = "file"}
    BY DEF FilesIn
  <2> HIDE DEF U, F, plan, m
  <2>6. \A i \in F : i \in 1..m /\ plan[i] \in U
    BY <2>1, <2>2, <2>4, <2>5
  <2>7. \A x \in U : \E i \in F : plan[i] = x
    BY <2>1, <2>2, <2>4, <2>5
  <2>8. g \in [F -> U] /\ \A x \in U : \E i \in F : g[i] = x
    BY <2>6, <2>7
  <2>9. \A i, j \in F : g[i] = g[j] => i = j
    BY <2>3, <2>6
  <2>10. IsFiniteSet(F)
    <3>1. IsFiniteSet(1..m) /\ F \subseteq 1..m
      BY <2>2, <2>5, FS_Interval
    <3> QED
      BY <3>1, FS_Subset
  <2> HIDE DEF g
  <2>11. Cardinality(U) = Cardinality(F)
    BY <2>8, <2>9, <2>10, SameCount
  <2> QED
    BY <2>11 DEF U
<1> QED
  BY <1>5, <1>6 DEF n, F, plan

-----------------------------------------------------------------------------
\* The calls.

\* Once the local files are done, what has no result is still waited for.
Awaits(c) == c.at \in {"wait", "done"} \/ (c.at \in {"drop", "shut"} /\ c.then = "wait")

Whole(c) ==
  /\ c.items \in Seq(Formats) /\ c.results \in [Slots(c) -> Results] /\ c.todo \subseteq Slots(c)
  /\ Awaits(c) => \A i \in Slots(c) : c.results[i] = "none" => i \in c.todo
  /\ c.at = "done" => c.todo = {}

\* The step of a call changes that call only, and keeps it whole.
LEMMA WholeSteps ==
  ASSUME PoolInv, NEW r \in Requests, Whole(call[r]), ConvertStep(r)
  PROVE  /\ DOMAIN call' = Requests /\ Whole(call'[r])
         /\ \A q \in Requests \ {r} : call'[q] = call[q]
<1> DEFINE c == call[r]
<1>1. DOMAIN call = Requests /\ DOMAIN c = Fields /\ Whole(c) /\ c.then \in {"wait", "get"}
  BY DEF PoolInv, Sound
<1>2. /\ c.items \in Seq(Formats) /\ c.results \in [Slots(c) -> Results] /\ c.todo \subseteq Slots(c)
      /\ Awaits(c) => \A i \in Slots(c) : c.results[i] = "none" => i \in c.todo
      /\ c.at = "done" => c.todo = {}
  BY <1>1 DEF Whole
<1>3. Offload(r) \subseteq Slots(c) /\ Items(r) = Slots(c)
  BY DEF Offload, OffloadOf, Items, Slots
<1>4. SUFFICES \E d : call' = [call EXCEPT ![r] = d] /\ Whole(d)
  BY <1>1
<1>5. CASE GetPool(r)
  <2>1. PICK d : d = [c EXCEPT !.at = "submit", !.exec = pool', !.todo = Offload(r)]
    OBVIOUS
  <2>2. call' = [call EXCEPT ![r] = d]
    BY <1>5, <2>1 DEF GetPool
  <2>3. d.at = "submit" /\ d.items = c.items /\ d.results = c.results /\ d.todo = Offload(r)
    BY <1>1, <2>1 DEF Fields
  <2>4. Whole(d)
    BY <1>2, <1>3, <2>3 DEF Whole, Slots, Awaits
  <2> QED
    BY <2>2, <2>4
<1>6. CASE Submit(r)
  <2>1. PICK i : call' = [call EXCEPT ![r].todo = @ \ {i},
                                      ![r].at = IF call[r].todo = {i} THEN "local" ELSE "submit"]
    BY <1>6 DEF Submit
  <2>2. PICK d : d = [c EXCEPT !.todo = @ \ {i}, !.at = IF call[r].todo = {i} THEN "local" ELSE "submit"]
    OBVIOUS
  <2>3. call' = [call EXCEPT ![r] = d]
    BY <2>1, <2>2
  <2>4. d.at \in {"local", "submit"} /\ d.items = c.items /\ d.results = c.results /\ d.todo = c.todo \ {i}
    BY <1>1, <2>2 DEF Fields
  <2>5. Whole(d)
    BY <1>2, <2>4 DEF Whole, Slots, Awaits
  <2> QED
    BY <2>3, <2>5
<1>7. CASE StartOver(r)
  <2>1. PICK d : d = [c EXCEPT !.again = TRUE, !.at = "drop", !.kill = FALSE, !.then = "get"]
    OBVIOUS
  <2>2. call' = [call EXCEPT ![r] = d]
    BY <1>7, <2>1 DEF StartOver
  <2>3. d.at = "drop" /\ d.then = "get" /\ d.items = c.items /\ d.results = c.results /\ d.todo = c.todo
    BY <1>1, <2>1 DEF Fields
  <2>4. Whole(d)
    BY <1>2, <2>3 DEF Whole, Slots, Awaits
  <2> QED
    BY <2>2, <2>4
<1>8. CASE SubmitRaises(r)
  <2>1. PICK d : d = [c EXCEPT !.at = "raised"]
    OBVIOUS
  <2>2. call' = [call EXCEPT ![r] = d]
    BY <1>8, <2>1 DEF SubmitRaises
  <2>3. d.at = "raised" /\ d.items = c.items /\ d.results = c.results /\ d.todo = c.todo
    BY <1>1, <2>1 DEF Fields
  <2>4. Whole(d)
    BY <1>2, <2>3 DEF Whole, Slots, Awaits
  <2> QED
    BY <2>2, <2>4
<1>9. CASE Local(r)
  <2>1. PICK outcome \in [LocalItems(r) -> {"doc", "error"}] :
          call' = [call EXCEPT ![r].at = "wait", ![r].todo = Offload(r),
            ![r].results = [i \in Items(r) |-> IF i \in LocalItems(r) THEN outcome[i] ELSE "none"]]
    BY <1>9 DEF Local
  <2>2. PICK R : R = [i \in Items(r) |-> IF i \in LocalItems(r) THEN outcome[i] ELSE "none"]
    OBVIOUS
  <2>3. PICK d : d = [c EXCEPT !.at = "wait", !.todo = Offload(r), !.results = R]
    OBVIOUS
  <2>4. call' = [call EXCEPT ![r] = d]
    BY <2>1, <2>2, <2>3
  <2>5. d.at = "wait" /\ d.items = c.items /\ d.results = R /\ d.todo = Offload(r)
    BY <1>1, <2>3 DEF Fields
  <2>6. R \in [Items(r) -> Results] /\ \A i \in Items(r) : R[i] = "none" => i \in Offload(r)
    BY <2>1, <2>2 DEF LocalItems, Results
  <2>7. Slots(d) = Slots(c)
    BY <2>5 DEF Slots
  <2>8. Whole(d)
    BY <1>2, <1>3, <2>5, <2>6, <2>7 DEF Whole
  <2> QED
    BY <2>4, <2>8
<1>10. CASE Answered(r) \/ WasReset(r) \/ WasBroken(r) \/ TimesOut(r)
  <2>1. c.at = "wait" /\ c.todo # {}
    BY <1>10 DEF Answered, WasReset, WasBroken, TimesOut, Waiting, At
  <2>2. PICK i : i = Next1(r)
    OBVIOUS
  <2>3. i \in c.todo
    <3>1. c.todo \subseteq Nat
      BY <1>2 DEF Slots
    <3> QED
      BY <2>1, <2>2, <3>1, MinIsLeast DEF Next1
  <2>4. PICK x, kill, drops :
          /\ x \in Results \ {"none"} /\ drops \in BOOLEAN
          /\ call' = [call EXCEPT ![r] = IF drops THEN Discarding(Conclude(r, x), kill) ELSE Conclude(r, x)]
    <3>1. CASE Answered(r)
      <4>1. StateOf(r) \in Results \ {"none"}
        BY <3>1 DEF Answered, Results
      <4> WITNESS StateOf(r), FALSE, FALSE
      <4> QED
        BY <3>1, <4>1 DEF Answered
    <3>2. CASE WasReset(r)
      <4>1. "reset" \in Results \ {"none"}
        BY DEF Results
      <4> WITNESS "reset", FALSE, FALSE
      <4> QED
        BY <3>2, <4>1 DEF WasReset
    <3>3. CASE WasBroken(r)
      <4>1. "crashed" \in Results \ {"none"}
        BY DEF Results
      <4> WITNESS "crashed", FALSE, TRUE
      <4> QED
        BY <3>3, <4>1 DEF WasBroken
    <3>4. CASE TimesOut(r)
      <4>1. "timed out" \in Results \ {"none"}
        BY DEF Results
      <4> WITNESS "timed out", TRUE, TRUE
      <4> QED
        BY <3>4, <4>1 DEF TimesOut
    <3> QED
      BY <1>10, <3>1, <3>2, <3>3, <3>4
  <2>5. PICK e : e = [c EXCEPT !.results[i] = x, !.todo = @ \ {i}]
    OBVIOUS
  <2>6. PICK d : d = IF drops THEN [e EXCEPT !.at = "drop", !.kill = kill, !.then = "wait"] ELSE e
    OBVIOUS
  <2>7. call' = [call EXCEPT ![r] = d]
    BY <2>2, <2>4, <2>5, <2>6 DEF Conclude, Discarding
  <2>8. /\ e.items = c.items /\ e.results = [c.results EXCEPT ![i] = x] /\ e.todo = c.todo \ {i}
        /\ DOMAIN e = Fields /\ e.at = "wait"
    BY <1>1, <2>1, <2>5 DEF Fields
  <2>9. /\ d.items = c.items /\ d.results = [c.results EXCEPT ![i] = x] /\ d.todo = c.todo \ {i}
        /\ d.at # "done"
    BY <2>6, <2>8 DEF Fields
  <2>10. Slots(d) = Slots(c)
    BY <2>9 DEF Slots
  <2>11. \A j \in Slots(c) : c.results[j] = "none" => j \in c.todo
    BY <1>2, <2>1 DEF Awaits
  <2>12. Whole(d)
    BY <1>2, <2>3, <2>4, <2>9, <2>10, <2>11 DEF Whole
  <2> QED
    BY <2>7, <2>12
<1>11. CASE Return(r)
  <2>1. PICK d : d = [c EXCEPT !.at = "done"]
    OBVIOUS
  <2>2. call' = [call EXCEPT ![r] = d] /\ c.at = "wait" /\ c.todo = {}
    BY <1>11, <2>1 DEF Return, At
  <2>3. d.at = "done" /\ d.items = c.items /\ d.results = c.results /\ d.todo = c.todo
    BY <1>1, <2>1 DEF Fields
  <2>4. Whole(d)
    BY <1>2, <2>2, <2>3 DEF Whole, Slots, Awaits
  <2> QED
    BY <2>2, <2>4
<1>12. CASE Drop(r)
  <2>1. PICK d : d = [c EXCEPT !.at = "shut"]
    OBVIOUS
  <2>2. call' = [call EXCEPT ![r] = d] /\ c.at = "drop"
    BY <1>12, <2>1 DEF Drop, At
  <2>3. d.at = "shut" /\ d.then = c.then /\ d.items = c.items /\ d.results = c.results /\ d.todo = c.todo
    BY <1>1, <2>1 DEF Fields
  <2>4. Whole(d)
    BY <1>2, <2>2, <2>3 DEF Whole, Slots, Awaits
  <2> QED
    BY <2>2, <2>4
<1>13. CASE Shut(r)
  <2>1. PICK d : d = [c EXCEPT !.at = c.then]
    OBVIOUS
  <2>2. call' = [call EXCEPT ![r] = d] /\ c.at = "shut"
    BY <1>13, <2>1 DEF Shut, At
  <2>3. d.at = c.then /\ d.items = c.items /\ d.results = c.results /\ d.todo = c.todo
    BY <1>1, <2>1 DEF Fields
  <2>4. Whole(d)
    BY <1>1, <1>2, <2>2, <2>3 DEF Whole, Slots, Awaits
  <2> QED
    BY <2>2, <2>4
<1> QED
  BY <1>5, <1>6, <1>7, <1>8, <1>9, <1>10, <1>11, <1>12, <1>13 DEF ConvertStep

\* It begins whole.
LEMMA WholeEnters ==
  ASSUME PoolInv, NEW r \in Requests, NEW items \in Seq(Formats), Enter(r, items)
  PROVE  /\ DOMAIN call' = Requests /\ Whole(call'[r])
         /\ \A q \in Requests \ {r} : call'[q] = call[q]
<1>1. PICK d : d = [Idle EXCEPT
        !.at = IF OffloadOf(items) = {} THEN "local" ELSE "get",
        !.items = items, !.results = [i \in 1..Len(items) |-> "none"]]
  OBVIOUS
<1>2. call' = [call EXCEPT ![r] = d] /\ DOMAIN call = Requests
  BY <1>1 DEF Enter, PoolInv
<1>3. /\ d.at \in {"local", "get"} /\ d.items = items /\ d.todo = {}
      /\ d.results = [i \in 1..Len(items) |-> "none"]
  BY <1>1 DEF Idle
<1>4. d.results \in [Slots(d) -> Results]
  BY <1>3 DEF Slots, Results
<1>5. Whole(d)
  BY <1>3, <1>4 DEF Whole, Slots, Awaits
<1> QED
  BY <1>2, <1>5

-----------------------------------------------------------------------------
\* The requests.

AskRow == {"source", "plan", "outcome"}

\* Request a, its call, and what it has made and reported.
Tracked(a, c, made, rest) ==
  /\ DOMAIN a = AskRow
  /\ a.source = NoSource \/ IsSource(a.source)
  /\ a.outcome \in Outcomes \ {"malformed"}
  /\ a.outcome = "asked" => c.at = "idle"
  /\ a.outcome \notin {"asked", "refused"} =>
       \/ a.source.kind = "paper" /\ a.outcome = "created" /\ IsSource(a.source)
       \/ /\ Accepted(a.source)
          /\ a.plan = [nodes |-> FolderPlan(a.source), skipped |-> Skipped(a.source)]
  /\ a.outcome # "created" => made = <<>>
  /\ a.outcome = "created" =>
       IF a.source.kind = "paper" THEN made = Created(PaperNodes(a.source), FALSE)
       ELSE /\ made = Created(FolderPlan(a.source), Loose(a.source))
            /\ rest = Skipped(a.source)
            /\ \A i \in Slots(c) : c.results[i] = "doc"

Track(r) == Tracked(ask[r], call[r], nodes[r], skipped[r])

IngestInv ==
  /\ PoolInv
  /\ DOMAIN ask = Requests /\ DOMAIN nodes = Requests /\ DOMAIN skipped = Requests
  /\ parent \in BOOLEAN
  /\ \A r \in Requests : Whole(call[r]) /\ Track(r)

\* A request ends.
LEMMA EndIs ==
  ASSUME IngestInv, NEW r \in Requests, NEW outcome, Ends(r, outcome)
  PROVE  /\ DOMAIN ask' = Requests /\ DOMAIN ask'[r] = AskRow /\ ask'[r].outcome = outcome
         /\ ask'[r].source = ask[r].source /\ ask'[r].plan = ask[r].plan
         /\ \A q \in Requests \ {r} : ask'[q] = ask[q]
<1>1. PICK a : a = [ask[r] EXCEPT !.outcome = outcome]
  OBVIOUS
<1>2. ask' = [ask EXCEPT ![r] = a] /\ DOMAIN ask = Requests /\ DOMAIN ask[r] = AskRow
  BY <1>1 DEF Ends, IngestInv, Track, Tracked
<1>3. DOMAIN a = AskRow /\ a.outcome = outcome /\ a.source = ask[r].source /\ a.plan = ask[r].plan
  BY <1>1, <1>2 DEF AskRow
<1> QED
  BY <1>2, <1>3

\* The other requests are as they were.
LEMMA OthersKeep ==
  ASSUME IngestInv, PoolInv', NEW r \in Requests,
         DOMAIN ask' = Requests, DOMAIN nodes' = Requests, DOMAIN skipped' = Requests,
         parent' \in BOOLEAN, Whole(call'[r]), Track(r)',
         \A q \in Requests \ {r} :
           /\ call'[q] = call[q] /\ ask'[q] = ask[q]
           /\ nodes'[q] = nodes[q] /\ skipped'[q] = skipped[q]
  PROVE  IngestInv'
<1>1. \A q \in Requests \ {r} : Whole(call'[q]) /\ Track(q)'
  BY DEF IngestInv, Track
<1> QED
  BY <1>1 DEF IngestInv

\* Where a request is when it can end.
LEMMA WhenDone ==
  ASSUME IngestInv, NEW r \in Requests, ~Over(r), call[r].at # "idle"
  PROVE  /\ ask[r].outcome = "none" /\ nodes[r] = <<>> /\ Accepted(Source(r)) /\ Source(r).kind # "paper"
         /\ ask[r].plan = [nodes |-> FolderPlan(Source(r)), skipped |-> Skipped(Source(r))]
<1>1. ask[r].outcome = "none" /\ Track(r)
  BY DEF IngestInv, Over, Track, Tracked
<1> QED
  BY <1>1 DEF Track, Tracked, Accepted, Source

\* An end without nodes.
LEMMA EndKeeps ==
  ASSUME IngestInv, PoolInv', NEW r \in Requests, NEW outcome \in {"refused", "failed", "raised", "rolled back"},
         Ends(r, outcome), UNCHANGED <<poolVars, nodes, skipped, parent>>,
         (outcome = "refused" /\ ask[r].outcome = "asked") \/ (~Over(r) /\ call[r].at # "idle")
  PROVE  IngestInv'
<1>1. /\ DOMAIN ask' = Requests /\ DOMAIN ask'[r] = AskRow /\ ask'[r].outcome = outcome
      /\ ask'[r].source = ask[r].source /\ ask'[r].plan = ask[r].plan
      /\ \A q \in Requests \ {r} : ask'[q] = ask[q]
  BY EndIs
<1>2. call' = call /\ nodes' = nodes /\ skipped' = skipped /\ parent' = parent
  BY DEF poolVars
<1>3. Track(r) /\ Whole(call[r]) /\ parent \in BOOLEAN /\ DOMAIN nodes = Requests /\ DOMAIN skipped = Requests
  BY DEF IngestInv
<1>4. /\ outcome \in Outcomes \ {"malformed"} /\ outcome # "asked" /\ outcome # "created"
  BY DEF Outcomes
<1>5. nodes[r] = <<>>
  BY <1>3, WhenDone DEF Track, Tracked
<1>6. outcome # "refused" =>
        /\ Accepted(ask[r].source)
        /\ ask[r].plan = [nodes |-> FolderPlan(ask[r].source), skipped |-> Skipped(ask[r].source)]
  BY WhenDone DEF Source
<1>7. Track(r)'
  BY <1>1, <1>2, <1>3, <1>4, <1>5, <1>6 DEF Track, Tracked
<1> QED
  BY <1>1, <1>2, <1>3, <1>7, OthersKeep

\* The plan is known, and the conversion begins.
LEMMA ConvertKeeps ==
  ASSUME IngestInv, PoolInv', NEW r \in Requests, Convert(r)
  PROVE  IngestInv'
<1> DEFINE s == Source(r)
           items == [i \in 1..Len(Found(s)) |-> HandlerOf(Found(s)[i].path)]
<1>1. /\ ask[r].outcome = "asked" /\ s.kind \in {"upload", "folder", "git"}
      /\ ~(Uploaded(s) /\ UploadRefused(s)) /\ Enter(r, items)
      /\ ask' = [ask EXCEPT ![r].outcome = "none",
                        ![r].plan = [nodes |-> FolderPlan(s), skipped |-> Skipped(s)]]
      /\ UNCHANGED <<nodes, skipped, parent>>
  BY DEF Convert, Asked
<1>2. /\ Track(r) /\ Whole(call[r]) /\ parent \in BOOLEAN /\ DOMAIN nodes = Requests /\ DOMAIN skipped = Requests
      /\ DOMAIN ask = Requests /\ PoolInv
  BY DEF IngestInv
<1>3. DOMAIN ask[r] = AskRow /\ (ask[r].source = NoSource \/ IsSource(ask[r].source)) /\ nodes[r] = <<>>
  BY <1>1, <1>2 DEF Track, Tracked
<1>4. Accepted(s)
  BY <1>1, <1>3 DEF Accepted, NoSource, Source
<1>5. items \in Seq(Formats)
  BY <1>4, FoundHasHandlers
<1> HIDE DEF items
<1>6. /\ DOMAIN call' = Requests /\ Whole(call'[r])
      /\ \A q \in Requests \ {r} : call'[q] = call[q]
  BY <1>1, <1>2, <1>5, WholeEnters
<1>7. PICK p : p = [nodes |-> FolderPlan(s), skipped |-> Skipped(s)]
  OBVIOUS
<1>8. PICK a : a = [ask[r] EXCEPT !.outcome = "none", !.plan = p]
  OBVIOUS
<1>9. ask' = [ask EXCEPT ![r] = a]
  BY <1>1, <1>7, <1>8
<1>10. DOMAIN a = AskRow /\ a.outcome = "none" /\ a.source = s /\ a.plan = p
  BY <1>3, <1>8 DEF AskRow, Source
<1>11. ask'[r] = a /\ DOMAIN ask' = Requests /\ \A q \in Requests \ {r} : ask'[q] = ask[q]
  BY <1>2, <1>9
<1>12. nodes' = nodes /\ skipped' = skipped /\ parent' = parent
  BY <1>1
<1>13. IsSource(s)
  BY <1>4 DEF Accepted
<1> HIDE DEF s
<1>14. Track(r)'
  BY <1>3, <1>4, <1>7, <1>10, <1>11, <1>12, <1>13 DEF Track, Tracked, Outcomes
<1> QED
  BY <1>2, <1>6, <1>11, <1>12, <1>14, OthersKeep

\* The conversion goes on.
LEMMA ConvertingKeeps ==
  ASSUME IngestInv, PoolInv', NEW r \in Requests, Converting(r)
  PROVE  IngestInv'
<1>1. ask[r].outcome = "none" /\ ConvertStep(r) /\ UNCHANGED <<ask, nodes, skipped, parent>>
  BY DEF Converting, Began, Over
<1>2. /\ Track(r) /\ Whole(call[r]) /\ parent \in BOOLEAN /\ DOMAIN nodes = Requests /\ DOMAIN skipped = Requests
      /\ DOMAIN ask = Requests /\ PoolInv
  BY DEF IngestInv
<1>3. /\ DOMAIN call' = Requests /\ Whole(call'[r])
      /\ \A q \in Requests \ {r} : call'[q] = call[q]
  BY <1>1, <1>2, WholeSteps
<1>4. Track(r)'
  BY <1>1, <1>2 DEF Track, Tracked
<1> QED
  BY <1>1, <1>2, <1>3, <1>4, OthersKeep

\* materialize takes the plan.
LEMMA CreateKeeps ==
  ASSUME IngestInv, PoolInv', NEW r \in Requests, Create(r)
  PROVE  IngestInv'
<1> DEFINE s == Source(r)
           plan == FolderPlan(s)
<1>1. call[r].at = "done" /\ ~Over(r) /\ ~Failed(r) /\ call[r].at # "idle" /\ UNCHANGED <<poolVars, parent>>
  BY DEF Create, At
<1>2. /\ ask[r].outcome = "none" /\ nodes[r] = <<>> /\ Accepted(s) /\ s.kind # "paper"
      /\ ask[r].plan = [nodes |-> plan, skipped |-> Skipped(s)]
  BY <1>1, WhenDone
<1>3. Plan(r).nodes = plan /\ Plan(r).skipped = Skipped(s)
  BY <1>2 DEF Plan
<1>4. WellFormed(plan)
  BY <1>2, FolderPlanIsProper, ProperIsWellFormed
<1>5. CASE s.dry
  <2>1. Ends(r, "rolled back") /\ UNCHANGED <<nodes, skipped>>
    BY <1>3, <1>4, <1>5 DEF Create
  <2> QED
    BY <1>1, <2>1, EndKeeps
<1>6. CASE ~s.dry
  <2>1. /\ Ends(r, "created") /\ nodes' = [nodes EXCEPT ![r] = Created(plan, Loose(s))]
        /\ skipped' = [skipped EXCEPT ![r] = Skipped(s)]
    BY <1>3, <1>4, <1>6 DEF Create
  <2>2. /\ DOMAIN ask' = Requests /\ DOMAIN ask'[r] = AskRow /\ ask'[r].outcome = "created"
        /\ ask'[r].source = s /\ ask'[r].plan = ask[r].plan
        /\ \A q \in Requests \ {r} : ask'[q] = ask[q]
    BY <2>1, EndIs DEF Source
  <2>3. /\ Whole(call[r]) /\ parent \in BOOLEAN /\ DOMAIN nodes = Requests /\ DOMAIN skipped = Requests
    BY DEF IngestInv
  <2>4. call' = call /\ parent' = parent
    BY <1>1 DEF poolVars
  <2>5. /\ nodes'[r] = Created(plan, Loose(s)) /\ skipped'[r] = Skipped(s)
        /\ DOMAIN nodes' = Requests /\ DOMAIN skipped' = Requests
        /\ \A q \in Requests \ {r} : nodes'[q] = nodes[q] /\ skipped'[q] = skipped[q]
    BY <2>1, <2>3
  <2>6. \A i \in Slots(call[r]) : call[r].results[i] = "doc"
    BY <1>1 DEF Failed, Items, Slots
  <2>7. IsSource(s) /\ "created" \in Outcomes
    BY <1>2 DEF Accepted, Outcomes
  <2> HIDE DEF s
  <2>8. Track(r)'
    BY <1>2, <2>2, <2>4, <2>5, <2>6, <2>7 DEF Track, Tracked
  <2> QED
    BY <2>2, <2>3, <2>4, <2>5, <2>8, OthersKeep
<1> QED
  BY <1>5, <1>6

\* So it does a paper's.
LEMMA LoadPaperKeeps ==
  ASSUME IngestInv, PoolInv', NEW r \in Requests, LoadPaper(r)
  PROVE  IngestInv'
<1> DEFINE s == Source(r)
           plan == PaperNodes(s)
<1>1. ask[r].outcome = "asked" /\ s.kind = "paper" /\ UNCHANGED <<poolVars, skipped, parent>>
  BY DEF LoadPaper, Asked
<1>2. /\ Track(r) /\ Whole(call[r]) /\ parent \in BOOLEAN /\ DOMAIN nodes = Requests /\ DOMAIN skipped = Requests
  BY DEF IngestInv
<1>3. IsSource(s) /\ IsPaper(s)
  BY <1>1, <1>2 DEF Track, Tracked, NoSource, Source, IsPaper
<1>4. WellFormed(plan)
  BY <1>3, PaperIsProper, ProperIsWellFormed
<1>5. Ends(r, "created") /\ nodes' = [nodes EXCEPT ![r] = Created(plan, FALSE)]
  BY <1>4 DEF LoadPaper
<1>6. /\ DOMAIN ask' = Requests /\ DOMAIN ask'[r] = AskRow /\ ask'[r].outcome = "created"
      /\ ask'[r].source = s /\ ask'[r].plan = ask[r].plan
      /\ \A q \in Requests \ {r} : ask'[q] = ask[q]
  BY <1>5, EndIs DEF Source
<1>7. /\ nodes'[r] = Created(plan, FALSE) /\ DOMAIN nodes' = Requests
      /\ \A q \in Requests \ {r} : nodes'[q] = nodes[q]
  BY <1>2, <1>5
<1>8. call' = call /\ skipped' = skipped /\ parent' = parent
  BY <1>1 DEF poolVars
<1> HIDE DEF s
<1>9. Track(r)'
  BY <1>1, <1>3, <1>6, <1>7, <1>8 DEF Track, Tracked, Outcomes
<1> QED
  BY <1>2, <1>6, <1>7, <1>8, <1>9, OthersKeep

\* A request that is refused, or ends without nodes.
LEMMA NothingMadeKeeps ==
  ASSUME IngestInv, PoolInv', NEW r \in Requests,
         RefuseUpload(r) \/ NoParent(r) \/ CloneFails(r) \/ LetOut(r) \/ FailIngest(r) \/ ParentGone(r)
  PROVE  IngestInv'
<1>1. CASE RefuseUpload(r) \/ NoParent(r) \/ CloneFails(r)
  <2>1. ask[r].outcome = "asked" /\ Ends(r, "refused") /\ UNCHANGED <<poolVars, nodes, skipped, parent>>
    BY <1>1 DEF RefuseUpload, NoParent, CloneFails, Refused, Asked
  <2> QED
    BY <2>1, EndKeeps
<1>2. CASE LetOut(r)
  <2>1. call[r].at # "idle" /\ ~Over(r) /\ Ends(r, "raised") /\ UNCHANGED <<poolVars, nodes, skipped, parent>>
    BY <1>2 DEF LetOut, At
  <2> QED
    BY <2>1, EndKeeps
<1>3. CASE FailIngest(r)
  <2>1. call[r].at # "idle" /\ ~Over(r) /\ Ends(r, "failed") /\ UNCHANGED <<poolVars, nodes, skipped, parent>>
    BY <1>3 DEF FailIngest, At
  <2> QED
    BY <2>1, EndKeeps
<1>4. CASE ParentGone(r)
  <2>1. call[r].at # "idle" /\ ~Over(r) /\ Ends(r, "refused") /\ UNCHANGED <<poolVars, nodes, skipped, parent>>
    BY <1>4 DEF ParentGone, At
  <2> QED
    BY <2>1, EndKeeps
<1> QED
  BY <1>1, <1>2, <1>3, <1>4

\* What the executors and another session do concerns no request's nodes.
LEMMA OutsideKeeps ==
  ASSUME IngestInv, PoolInv', UNCHANGED <<call, ask, nodes, skipped>>, parent' \in BOOLEAN
  PROVE  IngestInv'
<1>1. \A r \in Requests : Track(r)'
  BY DEF IngestInv, Track
<1> QED
  BY <1>1 DEF IngestInv

\* At the start nothing is created.
LEMMA IngestInit == Init => IngestInv
<1> SUFFICES ASSUME Init PROVE IngestInv
  OBVIOUS
<1>1. PICK input \in Inputs :
        ask = [r \in Requests |-> [source |-> Asking(input, r), plan |-> NoPlan, outcome |-> "asked"]]
  BY DEF Init
<1>2. /\ call = [r \in Requests |-> Idle] /\ nodes = [r \in Requests |-> <<>>]
      /\ skipped = [r \in Requests |-> {}] /\ parent = TRUE
  BY DEF Init, PoolInit
<1>3. \A r \in Requests : Asking(input, r) = NoSource \/ IsSource(Asking(input, r))
  BY InputsAssumption DEF Asking
<1>4. Idle.at = "idle" /\ Idle.items = <<>> /\ Idle.results = <<>> /\ Idle.todo = {} /\ Slots(Idle) = {}
  BY DEF Idle, Slots
<1>5. Whole(Idle)
  <2>1. <<>> \in Seq(Formats) /\ <<>> \in [{} -> Results]
    OBVIOUS
  <2> QED
    BY <1>4, <2>1 DEF Whole, Awaits
<1>6. ASSUME NEW r \in Requests PROVE Track(r)
  <2> DEFINE a == ask[r]
  <2>1. DOMAIN a = AskRow /\ a.source = Asking(input, r) /\ a.outcome = "asked"
    BY <1>1 DEF AskRow
  <2>2. nodes[r] = <<>> /\ call[r].at = "idle"
    BY <1>2, <1>4
  <2> QED
    BY <1>3, <2>1, <2>2 DEF Track, Tracked, Outcomes
<1> QED
  BY <1>1, <1>2, <1>5, <1>6, InitInv DEF IngestInv

\* Every step keeps the invariant.
LEMMA IngestNext == IngestInv /\ [Next]_vars => IngestInv'
<1> SUFFICES ASSUME IngestInv, [Next]_vars PROVE IngestInv'
  OBVIOUS
<1>1. PoolInv'
  BY NextInv DEF IngestInv
<1>2. ASSUME NEW r \in Requests, Begin(r) PROVE IngestInv'
  BY <1>1, <1>2, NothingMadeKeeps, ConvertKeeps, LoadPaperKeeps DEF Begin
<1>3. ASSUME NEW r \in Requests, Work(r) PROVE IngestInv'
  BY <1>1, <1>3, NothingMadeKeeps, ConvertingKeeps, CreateKeeps DEF Work
<1>4. CASE ParentVanishes
  BY <1>1, <1>4, OutsideKeeps DEF ParentVanishes, poolVars
<1>5. CASE Executors
  <2>1. UNCHANGED <<call, ask, nodes, skipped>> /\ parent' = parent
    BY <1>5 DEF Executors, ExecutorStep, StartItem, FinishItem, WorkerDies, CancelPending
  <2> QED
    BY <1>1, <2>1, OutsideKeeps DEF IngestInv
<1>6. CASE UNCHANGED vars
  BY <1>1, <1>6, OutsideKeeps DEF vars, poolVars, IngestInv
<1> QED
  BY <1>2, <1>3, <1>4, <1>5, <1>6 DEF Next

\* It holds in every run.
LEMMA IngestInvariance == Spec => []IngestInv
<1> QED
  BY IngestInit, IngestNext, PTL DEF Spec

-----------------------------------------------------------------------------
\* What the invariant says of a request that has created something.

\* The plan that it has made.
LEMMA MadeIs ==
  ASSUME IngestInv, NEW r \in Requests, ask[r].outcome = "created"
  PROVE  IF Source(r).kind = "paper"
         THEN /\ IsPaper(Source(r))
              /\ Laid(nodes[r], PaperNodes(Source(r)), PaperNames(Source(r)))
              /\ Proper(PaperNodes(Source(r)), PaperNames(Source(r)))
         ELSE /\ Accepted(Source(r)) /\ Laid(nodes[r], FolderPlan(Source(r)), Names)
              /\ Proper(FolderPlan(Source(r)), Names)
              /\ skipped[r] = Skipped(Source(r)) /\ \A i \in Items(r) : call[r].results[i] = "doc"
<1> DEFINE s == ask[r].source
<1>1. /\ (s.kind = "paper" /\ IsSource(s)) \/ Accepted(s)
      /\ IF s.kind = "paper" THEN nodes[r] = Created(PaperNodes(s), FALSE)
         ELSE /\ nodes[r] = Created(FolderPlan(s), Loose(s))
              /\ skipped[r] = Skipped(s)
              /\ \A i \in Slots(call[r]) : call[r].results[i] = "doc"
  BY DEF IngestInv, Track, Tracked
<1>2. Accepted(s) => s.kind # "paper"
  BY DEF Accepted
<1> HIDE DEF s
<1>3. CASE s.kind = "paper"
  <2>1. IsPaper(s) /\ nodes[r] = Created(PaperNodes(s), FALSE)
    BY <1>1, <1>2, <1>3 DEF IsPaper
  <2>2. Proper(PaperNodes(s), PaperNames(s))
    BY <2>1, PaperIsProper
  <2>3. Laid(nodes[r], PaperNodes(s), PaperNames(s))
    BY <2>1, <2>2, ProperIsLaid
  <2> QED
    BY <1>3, <2>1, <2>2, <2>3 DEF s, Source
<1>4. CASE s.kind # "paper"
  <2>1. Accepted(s) /\ nodes[r] = Created(FolderPlan(s), Loose(s))
    BY <1>1, <1>4
  <2>2. Proper(FolderPlan(s), Names)
    BY <2>1, FolderPlanIsProper
  <2>3. Loose(s) \in BOOLEAN
    BY DEF Loose
  <2>4. Laid(nodes[r], FolderPlan(s), Names)
    BY <2>1, <2>2, <2>3, ProperIsLaid
  <2>5. skipped[r] = Skipped(s) /\ \A i \in Items(r) : call[r].results[i] = "doc"
    BY <1>1, <1>4 DEF Items, Slots
  <2> QED
    BY <1>4, <2>1, <2>2, <2>4, <2>5 DEF s, Source
<1> QED
  BY <1>3, <1>4

\* Its parents come first, and its folders lead to files.
LEMMA LaidIsWellPlaced ==
  ASSUME NEW r \in Requests, NEW plan, NEW N, Laid(nodes[r], plan, N)
  PROVE  WellPlaced(r)
<1>1. /\ nodes[r] \in Seq(Entries(N))
      /\ \A i \in 1..Len(nodes[r]) :
           /\ Len(nodes[r][i].path) > 1 =>
                \E j \in 1..(i - 1) :
                  nodes[r][j] = [path |-> Front(nodes[r][i].path), type |-> "folder", text |-> FALSE]
           /\ nodes[r][i].path # Root =>
                \E j \in 1..Len(plan) : plan[j].type = "file" /\ IsPrefix(nodes[r][i].path, plan[j].path)
      /\ \A j \in 1..Len(plan) : plan[j].type = "file" => \E i \in 1..Len(nodes[r]) : nodes[r][i] = plan[j]
  BY DEF Laid
<1>2. ASSUME NEW i \in 1..Len(nodes[r]), nodes[r][i].path # <<>>
      PROVE  \E file \in PathsOf(r) : IsPrefix(nodes[r][i].path, file)
  <2>1. PICK j \in 1..Len(plan) : plan[j].type = "file" /\ IsPrefix(nodes[r][i].path, plan[j].path)
    BY <1>1, <1>2 DEF Root
  <2>2. PICK k \in 1..Len(nodes[r]) : nodes[r][k] = plan[j]
    BY <1>1, <2>1
  <2>3. nodes[r][k].path \in PathsOf(r)
    BY <2>1, <2>2 DEF PathsOf, FilesOf
  <2> QED
    BY <2>1, <2>2, <2>3
<1> QED
  BY <1>1, <1>2 DEF WellPlaced

\* It has the types.
LEMMA InvIsTyped == IngestInv => TypeOK
<1> SUFFICES ASSUME IngestInv PROVE TypeOK
  OBVIOUS
<1>1. PoolTypeOK
  <2>1. /\ pool \in {NoPool} \union 1..Len(execs) /\ execs \in Seq(ExecutorRow)
        /\ \A r \in Requests : Sound(call[r], futures[r], execs) /\ Whole(call[r])
    BY DEF IngestInv, PoolInv
  <2>2. \A e \in 1..Len(execs) : execs[e] \in [broken : BOOLEAN, shut : BOOLEAN, killed : BOOLEAN]
    BY <2>1, ElementOfSeq DEF ExecutorRow
  <2>3. ASSUME NEW r \in Requests
        PROVE  /\ call[r].items \in Seq(Formats)
               /\ call[r].results \in [Items(r) -> Results]
               /\ \A i \in Items(r) : futures[r][i].state \in States
               /\ At(r, "done") => \A i \in Items(r) : call[r].results[i] # "none"
    <3>1. Items(r) = Slots(call[r]) /\ Whole(call[r]) /\ Sound(call[r], futures[r], execs)
      BY <2>1 DEF Items, Slots
    <3>2. \A i \in Items(r) : Backed(futures[r][i], call[r], execs)
      BY <3>1 DEF Sound
    <3>3. \A f : Backed(f, call[r], execs) => f.state \in States
      BY DEF Backed, Nowhere, States
    <3>4. \A i \in Items(r) : futures[r][i].state \in States
      BY <3>2, <3>3
    <3>5. At(r, "done") => \A i \in Items(r) : call[r].results[i] # "none"
      BY <3>1 DEF Whole, Awaits, At
    <3> QED
      BY <3>1, <3>4, <3>5 DEF Whole
  <2> QED
    BY <2>1, <2>2, <2>3 DEF PoolTypeOK
<1>2. ASSUME NEW r \in Requests
      PROVE  /\ ask[r].outcome \in Outcomes
             /\ \A i \in 1..Len(nodes[r]) : nodes[r][i].type \in {"file", "folder"}
  <2>1. ask[r].outcome \in Outcomes /\ (ask[r].outcome # "created" => nodes[r] = <<>>)
    BY DEF IngestInv, Track, Tracked
  <2>2. ASSUME NEW N, NEW plan, Laid(nodes[r], plan, N)
        PROVE  \A i \in 1..Len(nodes[r]) : nodes[r][i].type \in {"file", "folder"}
    <3>1. nodes[r] \in Seq(Entries(N))
      BY <2>2 DEF Laid
    <3>2. \A i \in 1..Len(nodes[r]) : nodes[r][i] \in Entries(N)
      BY <3>1, ElementOfSeq
    <3> QED
      BY <3>2 DEF Entries
  <2>3. CASE ask[r].outcome = "created"
    BY <2>1, <2>2, <2>3, MadeIs
  <2>4. CASE nodes[r] = <<>>
    <3>1. \A i \in 1..Len(nodes[r]) : FALSE
      BY <2>4
    <3> QED
      BY <2>1, <3>1
  <2> QED
    BY <2>1, <2>3, <2>4
<1> QED
  BY <1>1, <1>2 DEF TypeOK, IngestInv

\* It has the files.
LEMMA InvAccounts == IngestInv => EveryFileAccounted
<1> SUFFICES ASSUME IngestInv, NEW r \in Requests
             PROVE  LET s == Source(r) IN
                    /\ ask[r].outcome # "malformed"
                    /\ ask[r].outcome # "created" => nodes[r] = <<>>
                    /\ ask[r].outcome = "created" => WellPlaced(r)
                    /\ (ask[r].outcome = "created" /\ s.kind # "paper") =>
                         /\ \A i \in Items(r) : call[r].results[i] = "doc"
                         /\ PathsOf(r) = {Inner(s, s.files[i]) : i \in Wanted(s)}
                         /\ Cardinality(FilesOf(r)) = Cardinality(Wanted(s))
                         /\ s.kind = "upload" =>
                              skipped[r] = {s.files[i].path : i \in 1..Len(s.files) \ Wanted(s)}
                    /\ (ask[r].outcome = "created" /\ s.kind = "paper") =>
                         Cardinality(FilesOf(r)) =
                           2 + Cardinality({t.heading : t \in {u \in Range(s.sections) : u.text}})
                             + Len(s.floats)
  BY DEF EveryFileAccounted
<1> DEFINE s == Source(r)
<1>1. ask[r].outcome # "malformed" /\ (ask[r].outcome # "created" => nodes[r] = <<>>)
  BY DEF IngestInv, Track, Tracked
<1>2. FilesOf(r) = FilesIn(nodes[r]) /\ PathsOf(r) = {nodes[r][i].path : i \in FilesIn(nodes[r])}
  BY DEF FilesOf, PathsOf, FilesIn
<1>3. CASE ask[r].outcome = "created" /\ s.kind # "paper"
  <2>1. /\ Accepted(s) /\ Laid(nodes[r], FolderPlan(s), Names)
        /\ Proper(FolderPlan(s), Names)
        /\ skipped[r] = Skipped(s) /\ \A i \in Items(r) : call[r].results[i] = "doc"
    BY <1>3, MadeIs
  <2> HIDE DEF s
  <2>2. WellPlaced(r)
    BY <2>1, LaidIsWellPlaced
  <2>3. /\ Cardinality(FilesIn(nodes[r])) = Cardinality(FilesIn(FolderPlan(s)))
        /\ {nodes[r][i].path : i \in FilesIn(nodes[r])} = {FolderPlan(s)[j].path : j \in FilesIn(FolderPlan(s))}
    BY <2>1, FilesCount
  <2>4. /\ PathsOf(r) = {Inner(s, s.files[i]) : i \in Wanted(s)}
        /\ Cardinality(FilesOf(r)) = Cardinality(Wanted(s))
    BY <1>2, <2>1, <2>3, FolderPlanHasWanted
  <2>5. s.kind = "upload" => skipped[r] = {s.files[i].path : i \in 1..Len(s.files) \ Wanted(s)}
    BY <2>1, SkippedIsTheRest DEF Uploaded
  <2> QED
    BY <1>1, <1>3, <2>1, <2>2, <2>4, <2>5 DEF s
<1>4. CASE ask[r].outcome = "created" /\ s.kind = "paper"
  <2>1. /\ IsPaper(s) /\ Laid(nodes[r], PaperNodes(s), PaperNames(s))
        /\ Proper(PaperNodes(s), PaperNames(s))
    BY <1>4, MadeIs
  <2> HIDE DEF s
  <2>2. WellPlaced(r)
    BY <2>1, LaidIsWellPlaced
  <2>3. Cardinality(FilesIn(nodes[r])) = Cardinality(FilesIn(PaperNodes(s)))
    BY <2>1, FilesCount
  <2>4. Cardinality(FilesIn(PaperNodes(s))) = 2 + Cardinality(Texts(s)) + Len(s.floats)
    BY <2>1, PaperFilesCount
  <2>5. Cardinality(FilesOf(r)) =
          2 + Cardinality({t.heading : t \in {u \in Range(s.sections) : u.text}}) + Len(s.floats)
    BY <1>2, <2>3, <2>4 DEF Texts
  <2> QED
    BY <1>1, <1>4, <2>2, <2>5 DEF s
<1> QED
  BY <1>1, <1>3, <1>4

\* The states of every run are well formed: in particular, a call that has returned
\* has a result for every item.
THEOREM TypeCorrect == Spec => []TypeOK
<1> QED
  BY IngestInvariance, InvIsTyped, PTL

\* For any requests and files: an ingest that succeeds has a file node for exactly the
\* files it should take, at their paths and below the folders these need; a paper, for
\* every heading with a text and for every caption; no plan is refused by materialize,
\* and an ingest that ends otherwise creates nothing.
THEOREM EveryFileIsAccounted == Spec => []EveryFileAccounted
<1> QED
  BY IngestInvariance, InvAccounts, PTL
=============================================================================
