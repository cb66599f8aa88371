------------------------- MODULE GarbageCollection -------------------------
(***************************************************************************)
(* kb.maintenance (scripts/gc.py) beside the writers of WriteSeam: it       *)
(* reclaims what a crashed write left behind, and spares what a write in   *)
(* flight has staged because that is younger than the grace period.        *)
(***************************************************************************)
EXTENDS WriteSeam

CONSTANT
  GraceOutlastsIngest   \* the grace period outlasts the longest write

ASSUME GraceAssumption == GraceOutlastsIngest \in BOOLEAN

VARIABLES
  aged,     \* files whose staged chunks and original are past the grace period
  gc,       \* where the collector is
  victims,  \* the keys gc_originals has still to delete
  groups    \* the groups gc_chunks has selected

gcVars == <<aged, gc, victims, groups>>
allVars == <<vars, gcVars>>

GcInit ==
  /\ aged = {}
  /\ gc = "idle"
  /\ victims = {}
  /\ groups = {}

\* Some session or some COMMIT under way may still make f visible.
InFlight(f) ==
  \E w \in Writers : \/ f \in touched[w]
                     \/ w \in inDoubt /\ tx[w][f] # NoRow

\* Time passes: what was staged for f is now older than gc_grace.
Age(f) ==
  /\ f \in issued \ aged
  /\ GraceOutlastsIngest => ~InFlight(f)
  /\ aged' = aged \union {f}
  /\ UNCHANGED <<vars, gc, victims, groups>>

\* Mutant: the cutoff is not applied to the keys.
ListAll ==
  /\ gc = "idle"
  /\ victims' = objects
  /\ gc' = "listed"
  /\ UNCHANGED <<vars, aged, groups>>


\* list_originals, reduced to the keys older than the cutoff.
ListOld ==
  /\ gc = "idle"
  /\ victims' = objects \intersect aged
  /\ gc' = "listed"
  /\ UNCHANGED <<vars, aged, groups>>

\* Mutant: only active rows keep their original.
KeepActive ==
  /\ gc = "listed"
  /\ victims' = {f \in victims : ~(HasOriginal(rows[f]) /\ rows[f].active)}
  /\ gc' = "doomed"
  /\ UNCHANGED <<vars, aged, groups>>

\* The query that keeps every key a row names, deleted rows included.
KeepReferenced ==
  /\ gc = "listed"
  /\ victims' = {f \in victims : ~HasOriginal(rows[f])}
  /\ gc' = "doomed"
  /\ UNCHANGED <<vars, aged, groups>>

\* delete_originals: one request after the other.
DeleteVictims ==
  /\ gc = "doomed"
  /\ \E batch \in SUBSET victims :
       /\ batch # {} \/ victims = {}
       /\ objects' = objects \ batch
       /\ victims' = victims \ batch
  /\ gc' = IF victims' = {} THEN "chunks" ELSE gc
  /\ UNCHANGED <<rows, chunks, issued, pc, tx, inDoubt, plan, puts, info,
                 settling, residue, aged, groups>>

\* S3 or the database fails, or the script is killed: this round ends.
CollectFails ==
  /\ gc # "idle"
  /\ victims' = {} /\ groups' = {}
  /\ gc' = "idle"
  /\ UNCHANGED <<vars, aged>>

\* Mutant: groups without a row are selected whatever their age.
SelectAnyGroups ==
  /\ gc = "chunks"
  /\ groups' = {c[1] : c \in {d \in chunks : rows[d[1]] = NoRow}}
  /\ gc' = "grouped"
  /\ UNCHANGED <<vars, aged, victims>>

\* The query of gc_chunks: groups past the grace period that have no row at all.
SelectGroups ==
  /\ gc = "chunks"
  /\ groups' = {c[1] : c \in {d \in chunks : d[1] \in aged /\ rows[d[1]] = NoRow}}
  /\ gc' = "grouped"
  /\ UNCHANGED <<vars, aged, victims>>

\* _delete_chunks: what these groups have now.
DeleteGroups ==
  /\ gc = "grouped"
  /\ chunks' = {c \in chunks : c[1] \notin groups}
  /\ groups' = {}
  /\ gc' = "idle"
  /\ UNCHANGED <<rows, objects, issued, pc, tx, inDoubt, plan, puts, info,
                 settling, residue, aged, victims>>

GcNext ==
  \/ \E f \in Files : Age(f)
  \/ ListOld \/ KeepReferenced \/ DeleteVictims \/ CollectFails
  \/ SelectGroups \/ DeleteGroups

SeamStep == Next /\ UNCHANGED gcVars

AllNext == GcNext \/ SeamStep

\* Time passes, the server decides every COMMIT it was sent, and the collector
\* runs again and again, not failing every time.
GcFairness ==
  /\ \A f \in Files : WF_allVars(Age(f))
  /\ \A w \in Writers : WF_allVars(Server(w) /\ UNCHANGED gcVars)
  /\ WF_allVars(ListOld)
  /\ SF_allVars(KeepReferenced)
  /\ SF_allVars(DeleteVictims)
  /\ SF_allVars(SelectGroups)
  /\ SF_allVars(DeleteGroups)

GcSpec == Init /\ GcInit /\ [][AllNext]_allVars /\ GcFairness

-----------------------------------------------------------------------------
\* Properties.

GcTypeOK ==
  /\ TypeOK
  /\ aged \subseteq issued
  /\ gc \in {"idle", "listed", "doomed", "chunks", "grouped"}
  /\ victims \subseteq aged
  /\ groups \subseteq aged

\* The collector never takes a chunk or an original from under a write that
\* is staged and not yet committed: its files are younger than the grace.
SparesInFlight ==
  [][(DeleteVictims \/ DeleteGroups) =>
       \A f \in Files : InFlight(f) =>
         /\ f \in objects => f \in objects'
         /\ chunks \intersect ({f} \X Texts) \subseteq chunks']_allVars

\* Left behind: nobody's row, and in the hands of no session.
Abandoned(f) ==
  /\ rows[f] = NoRow
  /\ ~InFlight(f)
  /\ f \in objects \/ \E t \in Texts : <<f, t>> \in chunks

=============================================================================
