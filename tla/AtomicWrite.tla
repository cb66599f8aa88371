---------------------------- MODULE AtomicWrite ----------------------------
(***************************************************************************)
(* What kb.service promises of its three stores together: a write changes  *)
(* the table, the originals that can be downloaded and the texts that can  *)
(* be found in one step, or changes none of them.                          *)
(***************************************************************************)

CONSTANTS Files, Texts, NoRow

VARIABLES
  db,      \* the `files` table
  served,  \* files whose original a reader can download
  found    \* <<file, text>> pairs a search can return

vars == <<db, served, found>>

Row == [text : Texts, active : BOOLEAN, blob : BOOLEAN]

\* The originals and the texts a table promises: a deleted file keeps its
\* original (it can be restored) and is not found.
Originals(table) == {f \in Files : table[f] # NoRow /\ table[f].blob}

Findable(table) ==
  {hit \in Files \X Texts :
     /\ table[hit[1]] # NoRow
     /\ table[hit[1]].active
     /\ table[hit[1]].text = hit[2]}

\* No file loses its row, and none gains or loses an original later on.
Keeps(old, new) ==
  \A f \in Files : old[f] # NoRow => new[f] # NoRow /\ new[f].blob = old[f].blob

Init ==
  /\ db = [f \in Files |-> NoRow]
  /\ served = {}
  /\ found = {}

Write ==
  /\ db' \in [Files -> Row \union {NoRow}]
  /\ Keeps(db, db')
  /\ served' = Originals(db')
  /\ found' = Findable(db')

Spec == Init /\ [][Write]_vars
=============================================================================
