------------------------------- MODULE NodeTable ----------------------------
(***************************************************************************)
(* The `folders` and `files` tables as one function from node ids, and the *)
(* queries of kb.storage.dal on the tree the parent ids make.              *)
(***************************************************************************)

CONSTANTS
  Folders,  \* the folder ids that can be issued
  Docs,     \* the file ids that can be issued
  Top,      \* the parent of a root folder
  None      \* "no such row"

Nodes == Folders \union Docs
Row == [parent : Folders \union {Top}, active : BOOLEAN]
MaybeRow == Row \union {None}

\* A table, or the part of one a transaction has changed.  files.parent_id is
\* NOT NULL; for a folder NULL is the top.
Table ==
  {t \in [Nodes -> MaybeRow] : \A n \in Docs : t[n] # None => t[n].parent # Top}

ASSUME NodesApart == Folders \intersect Docs = {}
ASSUME TopIsNoNode == Top \notin Nodes
Nothing == [n \in Nodes |-> None]

Active(table, n) == table[n] # None /\ table[n].active

\* C has every folder whose parent is n or in C.
Closed(table, n, C) ==
  \A m \in Folders : table[m] # None /\ table[m].parent \in C \union {n} => m \in C

\* The folders below n: the smallest closed set.  Deleted ones are included.
Below(table, n) ==
  {m \in Folders : \A C \in SUBSET Folders : Closed(table, n, C) => m \in C}

\* list_descendants(include_deleted=False).
ActiveDescendants(table, n) ==
  {m \in Nodes : /\ Active(table, m)
                 /\ table[m].parent \in Below(table, n) \union {n}}
=============================================================================
