------------------------------- MODULE Upload -------------------------------
(***************************************************************************)
(* The sources an ingest reads, the checks an upload must pass, and the    *)
(* walk that finds what to convert: kb.ingest.upload and the first half of *)
(* kb.ingest.folder.                                                       *)
(***************************************************************************)

EXTENDS Naturals, Sequences, FiniteSets, SequencesExt, Functions, TreePlan

CONSTANTS
  Names,         \* the names files have: [key, form]
  Handler,       \* the registry: the processor of a name's extension, or "none"
  Hidden,        \* the names that begin with a dot
  Up,            \* the name ".."
  MaxFiles, MaxFileBytes, MaxTotalBytes  \* the KB_UPLOAD_MAX_* caps

\* A name is its case-folded form and the spelling that was used.  Folding changes
\* neither the extension nor the leading dot.
HandlerOf(path) == Handler[Last(path).key]
IsHidden(name) == name.key \in Hidden

Folded(path) == [i \in 1..Len(path) |-> path[i].key]

\* A source is an upload, or a directory tree (a git checkout is one); its files,
\* each [path, size, link]; whether a parent folder is named; and whether the
\* caller rolls back (--dry-run).
Uploaded(s) == s.kind = "upload"
Loose(s) == Uploaded(s) /\ \A f \in Range(s.files) : Len(f.path) = 1

-----------------------------------------------------------------------------
\* ingest_upload: what raises UploadError or UploadTooLarge.

Unsafe(s) == \E f \in Range(s.files) : \E n \in Range(f.path) : n.key = Up

TooMany(s) == s.files = <<>> \/ Len(s.files) > MaxFiles

NeitherFolderNorLoose(s) ==
  /\ ~Loose(s)
  /\ \/ Cardinality({Head(f.path) : f \in Range(s.files)}) # 1
     \/ \E f \in Range(s.files) : Len(f.path) < 2

\* Mutant: two names that differ in case only are let through.
CollideExactly(s) ==
  \E i, j \in 1..Len(s.files) : i # j /\ IsPrefix(s.files[i].path, s.files[j].path)

\* _check_collisions: a duplicate, or a file where another one needs a directory.
Collide(s) ==
  \E i, j \in 1..Len(s.files) :
    i # j /\ IsPrefix(Folded(s.files[i].path), Folded(s.files[j].path))

\* Below the root, as the walk sees it: the uploaded folder may itself be hidden.
Skips(s, f) ==
  \E i \in (IF Uploaded(s) /\ ~Loose(s) THEN 2 ELSE 1)..Len(f.path) : IsHidden(f.path[i])

\* _write_upload: the hidden files are not written and do not count.
Total(s) ==
  FoldLeft(LAMBDA total, f : total + IF Skips(s, f) THEN 0 ELSE f.size, 0, s.files)
TooLarge(s) ==
  \/ \E f \in Range(s.files) : ~Skips(s, f) /\ f.size > MaxFileBytes
  \/ Total(s) > MaxTotalBytes

UploadRefused(s) ==
  \/ Unsafe(s) \/ TooMany(s)
  \/ Loose(s) /\ ~s.parent
  \/ NeitherFolderNorLoose(s)
  \/ Collide(s)
  \/ TooLarge(s)

-----------------------------------------------------------------------------
\* The directory that is walked.

\* The path of a file below the root that ingest_folder is given.
Below(s, f) == IF Uploaded(s) /\ ~Loose(s) THEN Tail(f.path) ELSE f.path

\* The temporary directory after the upload is written: where names are compared
\* without case, the second of two files lands in the first.  Left out is that
\* there the files of two directories come to lie in the one that was made first.
Landed(seen, f) ==
  IF \E g \in Range(seen) : Folded(g.path) = Folded(f.path) THEN seen ELSE Append(seen, f)
Directory(s) ==
  IF Uploaded(s)
  THEN FoldLeft(LAMBDA seen, f : Landed(seen, f), <<>>,
                Without(s.files, {f \in Range(s.files) : Skips(s, f)}))
  ELSE s.files

\* plan_folder's walk: hidden entries and symlinks are passed over, a file without a
\* processor is skipped, the others are converted.
Visible(s) == Without(Directory(s), {f \in Range(Directory(s)) : Skips(s, f) \/ f.link})
Alien(s) == {f \in Range(Visible(s)) : HandlerOf(f.path) = "none"}
Found(s) == Without(Visible(s), Alien(s))
Unsupported(s) == {f.path : f \in Alien(s)}

\* What the report lists as skipped: an upload's hidden files too.
Skipped(s) ==
  Unsupported(s) \union
  (IF Uploaded(s) THEN {f.path : f \in {g \in Range(s.files) : Skips(s, g)}} ELSE {})

\* plan_folder: the root, and one node for each file that was converted.
FolderPlan(s) ==
  <<Folder(Root)>> \o [i \in 1..Len(Found(s)) |-> File(Below(s, Found(s)[i]))]
=============================================================================
