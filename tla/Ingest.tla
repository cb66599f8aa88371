------------------------------- MODULE Ingest -------------------------------
(***************************************************************************)
(* Ingests of one process from the request to the COMMIT: ingest_upload,   *)
(* ingest_folder, ingest_git_repo and their callers (POST /ingest, the two *)
(* scripts, the QASPER loader).  Between the checks and the writes a       *)
(* request converts its files, which may take minutes, in the pool that it *)
(* shares with the others (ConvertPool).                                   *)
(*                                                                         *)
(* How the chunks and the originals are staged and undone is WriteSeam's,  *)
(* and how a new node meets a folder that is deleted beside it is Tree's.  *)
(***************************************************************************)

EXTENDS ConvertPool, Upload, PaperPlan

CONSTANTS
  Inputs,    \* bound: which requests are made, and of which sources
  MayVanish  \* whether another session may delete the parent folder

\* A request is given files; those of a directory are not inside each other.  A heading
\* has a title: one that QASPER gives none is "Untitled".
Given == [path : Seq(Names) \ {<<>>}, size : Nat, link : BOOLEAN]
IsSource(s) ==
  /\ s.kind \in {"upload", "folder", "git", "paper"}
  /\ s.files \in Seq(Given)
  /\ s.kind = "upload" => \A f \in Range(s.files) : ~f.link
  /\ s.kind \in {"folder", "git"} =>
       \A i, j \in 1..Len(s.files) : i # j => ~IsPrefix(s.files[i].path, s.files[j].path)
  /\ s.kind = "paper" =>
       /\ s.sections \in Seq([heading : Seq(STRING) \ {<<>>}, text : BOOLEAN])
       /\ s.floats \in Seq([folder : {"figures", "tables"}, number : Nat])

ASSUME HandlerAssumption == \A n \in Names : Handler[n.key] \in Formats \union {"none"}
ASSUME InputsAssumption == \A input \in Inputs : \A r \in DOMAIN input : IsSource(input[r])

Outcomes == {"asked", "none", "refused", "malformed", "failed", "created", "rolled back", "raised"}
NoSource == [kind |-> "none", parent |-> FALSE, dry |-> FALSE, files |-> <<>>]
NoPlan == [nodes |-> <<>>, skipped |-> {}]
Asking(input, r) == IF r \in DOMAIN input THEN input[r] ELSE NoSource

VARIABLES
  ask,      \* what each request was given, its plan, and how it ended
  nodes,    \* the nodes each request has committed, in the order of their creation
  skipped,  \* what its report lists as skipped
  parent    \* whether the parent folder that requests name is there

vars == <<poolVars, ask, nodes, skipped, parent>>

Init ==
  /\ PoolInit
  /\ \E input \in Inputs :
       ask = [r \in Requests |-> [source |-> Asking(input, r), plan |-> NoPlan, outcome |-> "asked"]]
  /\ nodes = [r \in Requests |-> <<>>]
  /\ skipped = [r \in Requests |-> {}]
  /\ parent = TRUE

Source(r) == ask[r].source
Plan(r) == ask[r].plan
Asked(r, kinds) == ask[r].outcome = "asked" /\ Source(r).kind \in kinds
Began(r) == ask[r].outcome # "asked"
Over(r) == ask[r].outcome \notin {"asked", "none"}

Ends(r, outcome) == ask' = [ask EXCEPT ![r].outcome = outcome]

HasParent(s) == s.parent => parent

-----------------------------------------------------------------------------
\* The request, up to the conversion.

\* Nothing has been touched yet.
Refused(r) ==
  /\ Ends(r, "refused")
  /\ UNCHANGED <<poolVars, nodes, skipped, parent>>

\* ingest_upload: UploadError and UploadTooLarge.
RefuseUpload(r) ==
  /\ Asked(r, {"upload"})
  /\ UploadRefused(Source(r))
  /\ Refused(r)

\* ingest_folder, which all of them call: there is no such folder.
NoParent(r) ==
  /\ Asked(r, {"upload", "folder", "git"})
  /\ ~HasParent(Source(r))
  /\ Refused(r)

\* _run_git: GitError.
CloneFails(r) ==
  /\ Asked(r, {"git"})
  /\ Refused(r)

\* The files the walk has found go to the converters; the nodes they become are known.
Convert(r) ==
  /\ Asked(r, {"upload", "folder", "git"})
  /\ LET s == Source(r) IN
     /\ ~(Uploaded(s) /\ UploadRefused(s)) /\ HasParent(s)
     /\ Enter(r, [i \in 1..Len(Found(s)) |-> HandlerOf(Found(s)[i].path)])
  /\ ask' = [ask EXCEPT ![r].outcome = "none",
                        ![r].plan = [nodes |-> FolderPlan(Source(r)), skipped |-> Skipped(Source(r))]]
  /\ UNCHANGED <<nodes, skipped, parent>>

Converting(r) ==
  /\ Began(r) /\ ~Over(r)
  /\ ConvertStep(r)
  /\ UNCHANGED <<ask, nodes, skipped, parent>>

\* An exception that convert_documents lets out.
LetOut(r) ==
  /\ At(r, "raised") /\ ~Over(r)
  /\ Ends(r, "raised")
  /\ UNCHANGED <<poolVars, nodes, skipped, parent>>

-----------------------------------------------------------------------------
\* The plan, and the transaction.

Failed(r) == \E i \in Items(r) : call[r].results[i] # "doc"

\* plan.failed: one file that was not converted, or whose original cannot be read, is
\* enough.
FailIngest(r) ==
  /\ At(r, "done") /\ ~Over(r)
  /\ Failed(r) \/ \E i \in Items(r) : call[r].items[i] = "loader"
  /\ Ends(r, "failed")
  /\ UNCHANGED <<poolVars, nodes, skipped, parent>>

\* materialize looks for the parent again: it may have been deleted meanwhile.
ParentGone(r) ==
  /\ At(r, "done") /\ ~Over(r) /\ ~Failed(r)
  /\ ~HasParent(Source(r))
  /\ Ends(r, "refused")
  /\ UNCHANGED <<poolVars, nodes, skipped, parent>>

\* Staging, materialize and the COMMIT of the caller; with --dry-run its rollback.
Create(r) ==
  /\ At(r, "done") /\ ~Over(r) /\ ~Failed(r)
  /\ HasParent(Source(r))
  /\ IF ~WellFormed(Plan(r).nodes)
     THEN Ends(r, "malformed") /\ UNCHANGED <<nodes, skipped>>
     ELSE IF Source(r).dry
     THEN Ends(r, "rolled back") /\ UNCHANGED <<nodes, skipped>>
     ELSE /\ Ends(r, "created")
          /\ nodes' = [nodes EXCEPT ![r] = Created(Plan(r).nodes, Loose(Source(r)))]
          /\ skipped' = [skipped EXCEPT ![r] = Plan(r).skipped]
  /\ UNCHANGED <<poolVars, parent>>

\* load_into_kb: a paper has no files to convert.
LoadPaper(r) ==
  /\ Asked(r, {"paper"})
  /\ LET plan == PaperNodes(Source(r)) IN
     IF WellFormed(plan)
     THEN Ends(r, "created") /\ nodes' = [nodes EXCEPT ![r] = Created(plan, FALSE)]
     ELSE Ends(r, "malformed") /\ UNCHANGED nodes
  /\ UNCHANGED <<poolVars, skipped, parent>>

\* Another session deletes the folder that a request names.
ParentVanishes ==
  /\ MayVanish /\ parent /\ \E r \in Requests : Source(r).parent
  /\ parent' = FALSE
  /\ UNCHANGED <<poolVars, ask, nodes, skipped>>

Executors == ExecutorStep /\ UNCHANGED <<ask, nodes, skipped, parent>>

Begin(r) == RefuseUpload(r) \/ NoParent(r) \/ CloneFails(r) \/ Convert(r) \/ LoadPaper(r)
Work(r) == Converting(r) \/ LetOut(r) \/ FailIngest(r) \/ ParentGone(r) \/ Create(r)

Next ==
  \/ \E r \in Requests : Begin(r) \/ Work(r)
  \/ ParentVanishes
  \/ Executors

\* A request that has begun goes on; in particular the limit on a conversion it waits
\* for runs out (KB_CONVERT_TIMEOUT).  Nothing is asked of the executors.
Spec == Init /\ [][Next]_vars /\ \A r \in Requests : WF_vars(Work(r))

-----------------------------------------------------------------------------
\* The states are well formed.
TypeOK ==
  /\ PoolTypeOK
  /\ \A r \in Requests :
       /\ ask[r].outcome \in Outcomes
       /\ \A i \in 1..Len(nodes[r]) : nodes[r][i].type \in {"file", "folder"}
  /\ parent \in BOOLEAN

FilesOf(r) == {i \in 1..Len(nodes[r]) : nodes[r][i].type = "file"}
PathsOf(r) == {nodes[r][i].path : i \in FilesOf(r)}

\* Parents come first, and a folder that is not the root leads to a file.
WellPlaced(r) ==
  \A i \in 1..Len(nodes[r]) :
    LET path == nodes[r][i].path IN
    /\ Len(path) > 1 =>
         \E j \in 1..(i - 1) : nodes[r][j] = [path |-> Front(path), type |-> "folder", text |-> FALSE]
    /\ (nodes[r][i].type = "folder" /\ path # <<>>) =>
         \E file \in PathsOf(r) : IsPrefix(path, file)

\* What an ingest must take of a source: everything that has a processor, and that is
\* neither hidden below the root nor a symlink.
Inner(s, f) == IF s.kind = "upload" /\ Len(f.path) > 1 THEN Tail(f.path) ELSE f.path
Plain(s, f) == ~f.link /\ \A n \in Range(Inner(s, f)) : n.key \notin Hidden
Wanted(s) ==
  {i \in 1..Len(s.files) : Plain(s, s.files[i]) /\ Handler[Last(s.files[i].path).key] # "none"}

\* An ingest that reports success has converted every file, has made one file node for
\* each file of the source it should take, at its path, with the folders these need and
\* no other, and reports the rest of an upload as skipped; a paper has a file for every
\* heading with text and for every caption.  No plan of either kind is refused by
\* materialize, and an ingest that ends otherwise has created nothing.
EveryFileAccounted ==
  \A r \in Requests :
    LET s == Source(r) IN
    /\ ask[r].outcome # "malformed"
    /\ ask[r].outcome # "created" => nodes[r] = <<>>
    /\ ask[r].outcome = "created" => WellPlaced(r)
    /\ (ask[r].outcome = "created" /\ s.kind # "paper") =>
         /\ \A i \in Items(r) : call[r].results[i] = "doc"
         /\ PathsOf(r) = {Inner(s, s.files[i]) : i \in Wanted(s)}
         /\ Cardinality(FilesOf(r)) = Cardinality(Wanted(s))
         /\ s.kind = "upload" =>
              skipped[r] = {s.files[i].path : i \in 1..Len(s.files) \ Wanted(s)}
    /\ (ask[r].outcome = "created" /\ s.kind = "paper") =>
         Cardinality(FilesOf(r)) =
           2 + Cardinality({t.heading : t \in {u \in Range(s.sections) : u.text}}) + Len(s.floats)

\* Every ingest comes to an end, whatever the converters do: a conversion that hangs
\* runs into its limit, and one whose pool another request has killed is cancelled or
\* breaks.
EveryIngestEnds == \A r \in Requests : Began(r) ~> Over(r)
=============================================================================
