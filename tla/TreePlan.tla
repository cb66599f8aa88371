------------------------------ MODULE TreePlan ------------------------------
(***************************************************************************)
(* A tree plan (kb.ingest.plan): the nodes a producer wants, addressed by  *)
(* their path below the plan's root, and what materialize makes of it.     *)
(***************************************************************************)

EXTENDS Naturals, Sequences, SequencesExt, Functions

\* A path is a sequence of names; the plan's root has the empty one.
Root == <<>>

\* A planned or created node; `text` says whether it has content.
Entry(path, type, text) == [path |-> path, type |-> type, text |-> text]

\* The items of s that are in the set `keep`, or not in `drop`, in their order.
Only(s, keep) == FlattenSeq([i \in 1..Len(s) |-> IF s[i] \in keep THEN <<s[i]>> ELSE <<>>])
Without(s, drop) == Only(s, Range(s) \ drop)

\* The ancestors of a path and the path itself, the root first.
Ancestry(path) == [i \in 1..(Len(path) + 1) |-> SubSeq(path, 1, i - 1)]

Folder(path) == Entry(path, "folder", FALSE)
File(path) == Entry(path, "file", TRUE)

\* What the plan says of a path; an ancestor it does not list is a plain folder.
Planned(plan, path) ==
  IF \E n \in Range(plan) : n.path = path
  THEN CHOOSE n \in Range(plan) : n.path = path
  ELSE Folder(path)

\* The nodes on the way to a path.
Way(plan, path) == [i \in 1..(Len(path) + 1) |-> Planned(plan, Ancestry(path)[i])]

\* ensure(): what is missing on the way to a planned node is made, parents first.
Ensured(plan, made, path) == made \o Without(Way(plan, path), Range(made))

\* Every node there is after materialize, in the order it was first reached.
Materialized(plan) == FoldLeft(LAMBDA made, n : Ensured(plan, made, n.path), <<>>, plan)

\* materialize raises ValueError for any other plan, and create_file or
\* create_folder do for a parent that is no folder.
WellFormed(plan) ==
  /\ \A i, j \in 1..Len(plan) : plan[i].path = plan[j].path => i = j
  /\ \A n \in Range(plan) : n.text = (n.type = "file")
  /\ \E n \in Range(plan) : n = Folder(Root)
  /\ \A n \in Range(Materialized(plan)) :
       n.path # Root => Planned(plan, Front(n.path)).type = "folder"

\* The nodes it creates: the root of a plan may be the parent itself.
Created(plan, rootIsParent) ==
  Without(Materialized(plan), IF rootIsParent THEN {Folder(Root)} ELSE {})
=============================================================================
