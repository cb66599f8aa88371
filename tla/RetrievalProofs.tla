-------------------------- MODULE RetrievalProofs ---------------------------
(***************************************************************************)
(* Proofs about Retrieval: what a search returns was committed while it    *)
(* ran, it returns enough, and paths lead to one node and agree with the   *)
(* tree.                                                                   *)
(***************************************************************************)
EXTENDS Retrieval, FoldProofs

USE NodesApart, TopIsNoNode, NoneIsNothing, MaxOpsAssumption, ChunkLinesAssumption

-----------------------------------------------------------------------------
\* Lines and chunks.

FrontLines ==
  {Line(key, of) : key \in {"---", "id", "type", "kind", "title", "status", "tags"},
                   of \in Titles \union Nodes \union {None}}
TextLines == {Line("text", of) : of \in Texts \union {None}}

\* A chunk is text, at as many lines.
WellCut(c) ==
  /\ c.file \in Docs
  /\ c.text \in Seq(TextLines) /\ c.text # <<>>
  /\ c.first \in Nat \ {0} /\ c.last = c.first + Len(c.text) - 1

\* A front is made of front lines.
LEMMA FrontIsFront ==
  ASSUME NEW n \in Nodes, NEW row \in NodeRow
  PROVE  RenderFrontmatter(n, row) \in Seq(FrontLines)
<1> DEFINE A == <<Line("---", None), Line("id", n), Line("type", None), Line("kind", None),
                  Line("title", row.title)>>
           B == IF n \in Docs THEN <<Line("status", None)>> ELSE <<>>
           C == IF "tags" \in row.fields THEN <<Line("tags", None)>> ELSE <<>>
           D == <<Line("---", None)>>
<1>1. /\ Line("---", None) \in FrontLines /\ Line("id", n) \in FrontLines
      /\ Line("type", None) \in FrontLines /\ Line("kind", None) \in FrontLines
      /\ Line("title", row.title) \in FrontLines /\ Line("status", None) \in FrontLines
      /\ Line("tags", None) \in FrontLines
  <2>1. row.title \in Titles
    BY DEF NodeRow
  <2> QED
    BY <2>1 DEF FrontLines
<1>2. A \in Seq(FrontLines) /\ B \in Seq(FrontLines) /\ C \in Seq(FrontLines) /\ D \in Seq(FrontLines)
  BY <1>1
<1>3. A \o B \in Seq(FrontLines)
  BY <1>2, ConcatProperties
<1>4. A \o B \o C \in Seq(FrontLines)
  BY <1>2, <1>3, ConcatProperties
<1>5. A \o B \o C \o D \in Seq(FrontLines)
  BY <1>2, <1>4, ConcatProperties
<1> QED
  BY <1>5 DEF RenderFrontmatter

\* A body is made of text lines.
LEMMA BodyIsText ==
  ASSUME NEW b \in Seq(Texts)
  PROVE  /\ RenderBody(b) \in Seq(TextLines)
         /\ b # <<>> =>
              /\ Len(RenderBody(b)) = Len(b)
              /\ \A i \in 1..Len(b) : RenderBody(b)[i] = Line("text", b[i])
<1>1. \A i \in 1..Len(b) : Line("text", b[i]) \in TextLines
  BY DEF TextLines
<1>2. Line("text", None) \in TextLines
  BY DEF TextLines
<1>3. CASE b = <<>>
  BY <1>2, <1>3 DEF RenderBody
<1>4. CASE b # <<>>
  BY <1>1, <1>4 DEF RenderBody
<1> QED
  BY <1>3, <1>4

\* A text occurs in no line of a front.
LEMMA LinesApart ==
  ASSUME NEW x \in FrontLines, NEW y \in TextLines
  PROVE  ~Occurs(y, x)
BY DEF FrontLines, TextLines, Line, Occurs

\* A text occurs in itself.
LEMMA OccursInItself ==
  ASSUME NEW text
  PROVE  OccursAt(text, text)
BY DEF OccursAt, Occurs

\* A chunk that is found at its lines below one front is found below any other,
\* so many lines further on.
LEMMA Shifted ==
  ASSUME NEW F \in Seq(FrontLines), NEW G \in Seq(FrontLines), NEW B \in Seq(TextLines),
         NEW c, WellCut(c), OccursAt(c.text, Slice(F \o B, c.first, c.last))
  PROVE  LET i == c.first + Len(G) - Len(F) IN
         /\ i \in 1..Len(G \o B)
         /\ OccursAt(c.text, Slice(G \o B, i, i + c.last - c.first))
<1> DEFINE All == FrontLines \union TextLines
           f == c.first
           l == c.last
           X == F \o B
           Y == G \o B
           p == Len(F)
           q == Len(G)
           r == Len(B)
<1>1. /\ c.text \in Seq(All) /\ \A j \in 1..Len(c.text) : c.text[j] \in TextLines
      /\ Len(c.text) \in Nat \ {0} /\ f \in Nat \ {0} /\ l = f + Len(c.text) - 1
  BY SeqMonotonic, EmptySeq DEF WellCut
<1>2. /\ p \in Nat /\ q \in Nat /\ r \in Nat
      /\ X \in Seq(All) /\ Len(X) = p + r
      /\ Y \in Seq(All) /\ Len(Y) = q + r
      /\ \A i \in 1..p : X[i] \in FrontLines
      /\ \A i \in 1..r : X[i + p] = B[i] /\ Y[i + q] = B[i]
  <2>1. F \in Seq(All) /\ G \in Seq(All) /\ B \in Seq(All)
    BY SeqMonotonic
  <2>2. /\ X \in Seq(All) /\ Len(X) = p + r
        /\ \A i \in 1..(p + r) : X[i] = IF i <= p THEN F[i] ELSE B[i - p]
    BY <2>1, ConcatProperties
  <2>3. /\ Y \in Seq(All) /\ Len(Y) = q + r
        /\ \A i \in 1..(q + r) : Y[i] = IF i <= q THEN G[i] ELSE B[i - q]
    BY <2>1, ConcatProperties
  <2> QED
    BY <2>2, <2>3
<1>3. OccursAt(c.text, Slice(X, f, l))
  OBVIOUS
<1> SUFFICES /\ f + q - p \in 1..Len(Y)
             /\ OccursAt(c.text, Slice(Y, f + q - p, f + q - p + l - f))
  OBVIOUS
<1> HIDE DEF All, f, l, X, Y, p, q, r
<1>4. l <= p + r
  <2> SUFFICES ASSUME l > p + r PROVE FALSE
    BY <1>1, <1>2
  <2>1. Len(SubSeq(X, f, p + r)) = Len(c.text)
    BY <1>1, <1>2, <1>3 DEF Slice, OccursAt
  <2>2. Len(SubSeq(X, f, p + r)) = IF f <= p + r THEN p + r - f + 1 ELSE 0
    <3>1. \A i \in f..(p + r) : X[i] \in All
      BY <1>1, <1>2
    <3> QED
      BY <1>1, <1>2, <3>1, SubSeqProperties
  <2> QED
    BY <1>1, <1>2, <2>1, <2>2
<1>5. /\ f \in 1..Len(X) /\ l \in f..Len(X) /\ Len(c.text) = l - f + 1
      /\ OccursAt(c.text, SubSeq(X, f, l))
  BY <1>1, <1>2, <1>3, <1>4 DEF Slice
<1>6. /\ SubSeq(X, f, l) \in Seq(All) /\ Len(SubSeq(X, f, l)) = l - f + 1
      /\ \A j \in 1..(l - f + 1) : SubSeq(X, f, l)[j] = X[f + j - 1]
  <2>1. f \in 1..Len(X) /\ l \in f..Len(X)
    BY <1>5
  <2> QED
    BY <1>2, <2>1, PartOf
<1>7. f > p
  <2> SUFFICES ASSUME f <= p PROVE FALSE
    BY <1>1, <1>2
  <2>1. Occurs(c.text[1], X[f]) /\ c.text[1] \in TextLines
    <3>1. 1 \in 1..(l - f + 1) /\ 1 \in 1..Len(c.text) /\ f + 1 - 1 = f
      BY <1>1
    <3>2. Occurs(c.text[1], SubSeq(X, f, l)[1])
      BY <1>5, <3>1 DEF OccursAt
    <3>3. c.text[1] \in TextLines
      BY <1>1, <3>1
    <3>4. SubSeq(X, f, l)[1] = X[f]
      BY <1>6, <3>1
    <3> QED
      BY <3>2, <3>3, <3>4
  <2>2. X[f] \in FrontLines
    BY <1>1, <1>2
  <2> QED
    BY <2>1, <2>2, LinesApart
<1> DEFINE i == f + q - p
           k == l + q - p
<1>8. i \in 1..Len(Y) /\ k \in i..Len(Y) /\ k = i + l - f /\ k - i = l - f
  <2>1. /\ p \in Nat /\ q \in Nat /\ r \in Nat /\ f \in Nat /\ l \in Nat
        /\ p < f /\ f <= l /\ l <= p + r
    BY <1>1, <1>2, <1>4, <1>7
  <2>2. Len(Y) = q + r
    BY <1>2
  <2> QED
    BY <2>1, <2>2
<1>9. \A j \in 1..(l - f + 1) : Y[i + j - 1] = X[f + j - 1]
  <2> SUFFICES ASSUME NEW j \in 1..(l - f + 1) PROVE Y[i + j - 1] = X[f + j - 1]
    OBVIOUS
  <2> DEFINE h == f + j - 1 - p
  <2>1. h \in 1..r /\ i + j - 1 = h + q /\ f + j - 1 = h + p
    BY <1>1, <1>2, <1>4, <1>7
  <2> HIDE DEF h
  <2> QED
    BY <1>2, <2>1
<1> HIDE DEF i, k
<1>10. /\ SubSeq(Y, i, k) \in Seq(All) /\ Len(SubSeq(Y, i, k)) = k - i + 1
       /\ \A j \in 1..(k - i + 1) : SubSeq(Y, i, k)[j] = Y[i + j - 1]
  BY <1>2, <1>8, PartOf
<1>11. SubSeq(Y, i, k) = SubSeq(X, f, l)
  <2>1. Len(SubSeq(Y, i, k)) = Len(SubSeq(X, f, l))
    BY <1>6, <1>8, <1>10
  <2>2. \A j \in 1..Len(SubSeq(Y, i, k)) : SubSeq(Y, i, k)[j] = SubSeq(X, f, l)[j]
    BY <1>6, <1>8, <1>9, <1>10
  <2> QED
    BY <1>6, <1>10, <2>1, <2>2, SeqEqual
<1>12. OccursAt(c.text, Slice(Y, i, k))
  <2>1. k <= Len(Y)
    BY <1>8
  <2>2. Slice(Y, i, k) = SubSeq(Y, i, k)
    BY <2>1 DEF Slice
  <2> QED
    BY <1>5, <1>11, <2>2
<1> QED
  BY <1>8, <1>12 DEF i, k

\* A file's chunks are at their lines, and finitely many.
LEMMA ChunksAreCut ==
  ASSUME NEW n \in Docs, NEW row \in NodeRow, NEW c \in ChunksOf(n, row)
  PROVE  /\ WellCut(c) /\ c.file = n
         /\ Slice(Render(n, row, row.body), c.first, c.last) = c.text
<1> DEFINE F == RenderFrontmatter(n, row)
           b == row.body
           B == RenderBody(b)
           All == FrontLines \union TextLines
           m(i) == IF i + ChunkLines - 1 <= Len(b) THEN i + ChunkLines - 1 ELSE Len(b)
           piece(i) == SubSeq(b, i, m(i))
<1>1. PICK i \in 1..Len(b) :
        c = [file |-> n, title |-> row.title, heading |-> Heading(b, i),
             first |-> Len(F) + i, last |-> Len(F) + i + Len(piece(i)) - 1,
             text |-> RenderBody(piece(i))]
  BY DEF ChunksOf, BodyLineOffset, Slice
<1>2. b \in Seq(Texts) /\ F \in Seq(FrontLines)
  BY BodiesAreLines, FrontIsFront DEF NodeRow, Nodes
<1>3. Len(b) \in Nat /\ Len(F) \in Nat /\ m(i) \in i..Len(b)
  <2>1. Len(b) \in Nat /\ Len(F) \in Nat
    BY <1>2
  <2> HIDE DEF b, F
  <2> QED
    BY <2>1
<1> DEFINE M == m(i)
           P == SubSeq(b, i, M)
<1>4. c.file = n /\ c.first = Len(F) + i /\ c.last = Len(F) + i + Len(P) - 1 /\ c.text = RenderBody(P)
  BY <1>1
<1>5. Slice(Render(n, row, row.body), c.first, c.last) = Slice(F \o B, c.first, c.last)
  BY DEF Render
<1> SUFFICES WellCut(c) /\ c.file = n /\ Slice(F \o B, c.first, c.last) = c.text
  BY <1>5
<1>6. B \in Seq(TextLines) /\ Len(B) = Len(b) /\ \A j \in 1..Len(b) : B[j] = Line("text", b[j])
  BY <1>2, <1>3, BodyIsText
<1> HIDE DEF F, b, B, M, All
<1>7. M \in i..Len(b)
  BY <1>3 DEF M
<1>8. /\ P \in Seq(Texts) /\ Len(P) = M - i + 1
      /\ \A j \in 1..(M - i + 1) : P[j] = b[i + j - 1]
  BY <1>2, <1>7, PartOf
<1>9. /\ RenderBody(P) \in Seq(TextLines) /\ Len(RenderBody(P)) = M - i + 1
      /\ \A j \in 1..(M - i + 1) : RenderBody(P)[j] = Line("text", b[i + j - 1])
  <2>1. P # <<>>
    BY <1>3, <1>7, <1>8
  <2> QED
    BY <1>8, <2>1, BodyIsText
<1>10. /\ SubSeq(B, i, M) \in Seq(TextLines) /\ Len(SubSeq(B, i, M)) = M - i + 1
       /\ \A j \in 1..(M - i + 1) : SubSeq(B, i, M)[j] = Line("text", b[i + j - 1])
  <2>1. /\ SubSeq(B, i, M) \in Seq(TextLines) /\ Len(SubSeq(B, i, M)) = M - i + 1
        /\ \A j \in 1..(M - i + 1) : SubSeq(B, i, M)[j] = B[i + j - 1]
    BY <1>6, <1>7, PartOf
  <2>2. \A j \in 1..(M - i + 1) : i + j - 1 \in 1..Len(b)
    BY <1>3, <1>7
  <2> QED
    BY <1>6, <2>1, <2>2
<1>11. SubSeq(B, i, M) = RenderBody(P)
  BY <1>9, <1>10, SeqEqual
<1>12. F \in Seq(All) /\ B \in Seq(All)
  BY <1>2, <1>6, SeqMonotonic DEF All
<1>13. /\ Len(F \o B) = Len(F) + Len(b)
       /\ SubSeq(F \o B, Len(F) + i, Len(F) + M) = SubSeq(B, i, M)
  <2> DEFINE j == Len(F) + i
             k == Len(F) + M
  <2>1. j \in Len(F) + 1 .. Len(F) + Len(B) /\ k \in Len(F) + 1 .. Len(F) + Len(B)
    BY <1>3, <1>6, <1>7
  <2>2. j - Len(F) = i /\ k - Len(F) = M
    BY <1>3, <1>7
  <2>3. Len(F \o B) = Len(F) + Len(B)
    BY <1>12, ConcatProperties
  <2> HIDE DEF j, k
  <2>4. SubSeq(F \o B, j, k) = SubSeq(B, j - Len(F), k - Len(F))
    BY <1>12, <2>1, SubSeqOfConcat2
  <2> QED
    BY <1>6, <2>2, <2>3, <2>4 DEF j, k
<1>14. c.last = Len(F) + M /\ c.first \in Nat \ {0} /\ c.last <= Len(F) + Len(b)
  BY <1>3, <1>4, <1>7, <1>8
<1>15. Slice(F \o B, c.first, c.last) = c.text
  BY <1>4, <1>11, <1>13, <1>14 DEF Slice
<1>16. WellCut(c)
  <2>1. Len(c.text) # 0
    BY <1>3, <1>4, <1>7, <1>9
  <2> QED
    BY <1>3, <1>4, <1>7, <1>8, <1>9, <1>14, <2>1 DEF WellCut
<1> QED
  BY <1>4, <1>15, <1>16

-----------------------------------------------------------------------------
\* The invariant.

\* A table of rows, with every file in a folder, no folder with a body, and
\* everything active in a folder that is.
TableOK(t) ==
  /\ t \in [Nodes -> NodeRow \union {None}]
  /\ \A n \in Docs : t[n] # None => t[n].parent # Top
  /\ \A n \in Folders : t[n] # None => t[n].body = <<>>
  /\ \A n \in Nodes : Active(t, n) => t[n].parent = Top \/ Active(t, t[n].parent)

\* Rows are never removed.
Stay(t, u) == \A n \in Nodes : t[n] # None => u[n] # None

\* What is committed, and what is about to be, is in the index.
WriterInv ==
  /\ TableOK(rows)
  /\ draft # None => TableOK(draft) /\ Stay(rows, draft)
  /\ IsFiniteSet(index) /\ \A c \in index : WellCut(c)
  /\ \A n \in Docs : StagedChunks(rows, n) \subseteq index
  /\ draft # None => \A n \in Docs : StagedChunks(draft, n) \subseteq index
  /\ ops \in 0..MaxOps

\* What a path can be made of.
Segments ==
  {SegmentOf[title] : title \in Titles}
  \union {Suffixed(SegmentOf[title], n) : title \in Titles, n \in Nodes}

\* The shape of what a call keeps.
Shape ==
  /\ call \in Calls \union {None}
  /\ scope \subseteq Nodes
  /\ allowed # None => allowed \subseteq scope \intersect Docs
  /\ DOMAIN loaded = Nodes /\ DOMAIN path = Nodes /\ DOMAIN body = Nodes
  /\ \A n \in Nodes : path[n] # None => loaded[n] # None /\ path[n] \in Seq(Segments)
  /\ \A n \in scope : loaded[n] # None
  /\ answer # None => call = None

\* Everything a call has read was committed while it ran.
Reads ==
  /\ rows \in past
  /\ \A t \in past : TableOK(t) /\ Stay(t, rows)
  /\ \A n \in Nodes : loaded[n] # None => \E t \in past : loaded[n] = t[n]
  /\ \A n \in Nodes : body[n] # None => \E t \in past : t[n] # None /\ body[n] = t[n].body

\* Chunks are searched for once everything in scope has a path, and what was
\* found are as many as were asked for, of all that is committed and more.
Searched ==
  found # None =>
    /\ call.tool = "semantic" /\ allowed # None
    /\ \A n \in scope : path[n] # None
    /\ IsFiniteSet(found) /\ \A c \in found : WellCut(c) /\ c.file \in allowed
    /\ past = {rows} => \E cands :
         /\ IsFiniteSet(cands) /\ UNION {StagedChunks(rows, n) : n \in allowed} \subseteq cands
         /\ found \subseteq cands
         /\ Cardinality(found) = Min({call.k * OverfetchFactor, Cardinality(cands)})

\* The segment of a node by the committed rows.
Seg(n) ==
  LET base == SegmentOf[rows[n].title] IN
  IF \E m \in Nodes \ {n} : /\ Active(rows, m) /\ rows[m].parent = rows[n].parent
                            /\ SegmentOf[rows[m].title] = base
    THEN Suffixed(base, n) ELSE base

\* If nothing is committed meanwhile, a call sees the committed tree: its scope
\* goes all the way down, and a path is the folder's path and one segment.
Fresh ==
  /\ \A n \in Nodes : loaded[n] # None => loaded[n] = rows[n] /\ Active(rows, n)
  /\ \A n \in Nodes : body[n] # None => body[n] = rows[n].body
  /\ \A m \in Nodes : Active(rows, m) /\ rows[m].parent \in scope => m \in scope
  /\ \A n \in Nodes : path[n] # None =>
       /\ path[n] \in Seq(Segments)
       /\ rows[n].parent # Top => path[rows[n].parent] # None
       /\ path[n] = (IF rows[n].parent = Top THEN <<>> ELSE path[rows[n].parent]) \o <<Seg(n)>>

CallInv == call # None => Reads /\ Searched /\ (past = {rows} => Fresh)

IInv == WriterInv /\ Shape /\ CallInv

-----------------------------------------------------------------------------
\* Tables.

\* A folder whose folder is below n is below n.
LEMMA BelowOn ==
  ASSUME NEW t, NEW n \in Nodes, NEW m \in Folders, t[m] # None,
         t[m].parent \in Below(t, n) \union {n}
  PROVE  m \in Below(t, n)
BY DEF Below, Closed

\* One write leaves a table a table, and every row.
LEMMA WrittenOK ==
  ASSUME TableOK(rows), NEW n \in Nodes, NEW row \in NodeRow, MayWrite(n, row)
  PROVE  TableOK(Written(n, row)) /\ Stay(rows, Written(n, row))
<1> DEFINE t == Written(n, row)
           gone == IF row.active \/ rows[n] = None THEN {} ELSE ActiveDescendants(rows, n)
<1>1. /\ t \in [Nodes -> NodeRow \union {None}] /\ t[n] = row
      /\ \A m \in Nodes \ {n} : t[m] = IF m \in gone THEN [rows[m] EXCEPT !.active = FALSE] ELSE rows[m]
  <2>1. t = [m \in Nodes |-> IF m = n THEN row
                   ELSE IF m \in gone THEN [rows[m] EXCEPT !.active = FALSE] ELSE rows[m]]
    BY DEF Written
  <2>2. \A m \in gone : m \in Nodes /\ rows[m] \in NodeRow
    BY DEF ActiveDescendants, Active, TableOK
  <2>3. \A m \in gone : [rows[m] EXCEPT !.active = FALSE] \in NodeRow
    BY <2>2 DEF NodeRow
  <2> HIDE DEF t, gone
  <2>4. \A m \in Nodes : t[m] = IF m = n THEN row
          ELSE IF m \in gone THEN [rows[m] EXCEPT !.active = FALSE] ELSE rows[m]
    <3> SUFFICES ASSUME NEW m \in Nodes
                 PROVE  t[m] = IF m = n THEN row
                               ELSE IF m \in gone THEN [rows[m] EXCEPT !.active = FALSE] ELSE rows[m]
      OBVIOUS
    <3> QED
      BY <2>1
  <2>5. \A m \in Nodes : t[m] \in NodeRow \union {None}
    BY <2>3, <2>4 DEF TableOK
  <2> QED
    BY <2>1, <2>4, <2>5
<1>2. \A m \in gone : /\ Active(rows, m) /\ rows[m].parent \in Below(rows, n) \union {n}
                      /\ ~row.active /\ rows[n] # None /\ m \in Nodes
  BY DEF ActiveDescendants
<1>3. \A m \in Nodes : Active(rows, m) /\ ~row.active /\ rows[n] # None
                       /\ rows[m].parent \in Below(rows, n) \union {n} => m \in gone
  BY DEF ActiveDescendants
<1> HIDE DEF t, gone
<1>4. \A m \in Nodes : rows[m] # None => rows[m] \in NodeRow
  BY DEF TableOK
<1>5. \A m \in gone : (t[m] # None /\ t[m].parent = rows[m].parent /\ ~t[m].active) \/ m = n
  <2> SUFFICES ASSUME NEW m \in gone, m # n
               PROVE  t[m] # None /\ t[m].parent = rows[m].parent /\ ~t[m].active
    OBVIOUS
  <2>1. m \in Nodes /\ rows[m] \in NodeRow
    BY <1>2, <1>4 DEF Active
  <2>2. t[m] = [rows[m] EXCEPT !.active = FALSE]
    BY <1>1, <2>1
  <2>3. t[m] \in NodeRow /\ t[m].parent = rows[m].parent /\ t[m].active = FALSE
    BY <2>1, <2>2 DEF NodeRow
  <2> QED
    BY <2>3
<1>6. Stay(rows, t)
  BY <1>1, <1>4, <1>5 DEF Stay
<1>7. ASSUME NEW m \in Docs, t[m] # None PROVE t[m].parent # Top
  <2>1. CASE m = n
    BY <1>1, <2>1 DEF MayWrite
  <2>2. CASE m # n
    BY <1>1, <1>2, <1>5, <1>7, <2>2 DEF TableOK, Active, Nodes
  <2> QED
    BY <2>1, <2>2
<1>9. ASSUME NEW m \in Folders, t[m] # None PROVE t[m].body = <<>>
  <2>1. CASE m = n
    BY <1>1, <2>1 DEF MayWrite
  <2>2. CASE m # n
    <3>1. m \in Nodes /\ (rows[m] # None => rows[m] \in NodeRow /\ rows[m].body = <<>>)
      BY <1>4 DEF TableOK, Nodes
    <3>2. [rows[m] EXCEPT !.active = FALSE].body = rows[m].body \/ rows[m] = None
      BY <3>1 DEF NodeRow
    <3> QED
      BY <1>1, <1>2, <1>9, <2>2, <3>1, <3>2 DEF Active
  <2> QED
    BY <2>1, <2>2
<1>8. ASSUME NEW m \in Nodes, Active(t, m), t[m].parent # Top
      PROVE  Active(t, t[m].parent)
  <2>1. CASE m = n
    <3>1. Active(rows, row.parent) /\ row.parent # n /\ row.parent \in Folders /\ row.active
      BY <1>1, <1>8, <2>1 DEF MayWrite, NodeRow, Active
    <3> QED
      BY <1>1, <1>2, <2>1, <3>1 DEF Active, Nodes
  <2>2. CASE m # n
    <3> DEFINE p == rows[m].parent
    <3>1. m \notin gone /\ t[m] = rows[m]
      BY <1>1, <1>5, <1>8, <2>2 DEF Active
    <3>2. p \in Folders /\ Active(rows, p)
      BY <1>4, <1>8, <3>1 DEF TableOK, Active, NodeRow
    <3>3. p = n => row.active
      BY <1>3, <1>8, <3>1, <3>2 DEF Active
    <3>4. p \notin gone
      <4> SUFFICES ASSUME p \in gone PROVE FALSE
        OBVIOUS
      <4>1. rows[p] # None /\ rows[p].parent \in Below(rows, n) \union {n}
        BY <1>2 DEF Active
      <4>2. p \in Below(rows, n)
        BY <3>2, <4>1, BelowOn
      <4>3. Active(rows, m)
        BY <1>8, <3>1 DEF Active
      <4> QED
        BY <1>2, <1>3, <3>1, <4>2, <4>3
    <3> QED
      BY <1>1, <3>1, <3>2, <3>3, <3>4 DEF Active, Nodes
  <2> QED
    BY <2>1, <2>2
<1> QED
  BY <1>1, <1>6, <1>7, <1>8, <1>9 DEF TableOK, t

\* The images of a finite set are finitely many.
LEMMA FiniteImage ==
  ASSUME NEW S, IsFiniteSet(S), NEW f, DOMAIN f = S
  PROVE  IsFiniteSet({f[x] : x \in S})
<1> DEFINE g == [x \in S |-> f[x]]
           T == {f[x] : x \in S}
<1>1. g \in [S -> T] /\ \A y \in T : \E x \in S : g[x] = y
  OBVIOUS
<1>2. g \in Surjection(S, T)
  BY <1>1 DEF Surjection
<1> QED
  BY <1>2, FS_Surjection

\* Chunks are well cut and, for a table, finitely many.
LEMMA ChunksFinite ==
  ASSUME NEW t, TableOK(t), NEW D \in SUBSET Docs
  PROVE  /\ IsFiniteSet(UNION {StagedChunks(t, m) : m \in D})
         /\ \A m \in D : \A c \in StagedChunks(t, m) :
              /\ WellCut(c) /\ c.file = m /\ Active(t, m)
              /\ Slice(Render(m, t[m], t[m].body), c.first, c.last) = c.text
<1>1. ASSUME NEW m \in Docs, Active(t, m) PROVE IsFiniteSet(ChunksOf(m, t[m]))
  <2> DEFINE row == t[m]
             Piece(i) == Slice(row.body, i, i + ChunkLines - 1)
             Chunk(i) == [file |-> m, title |-> row.title, heading |-> Heading(row.body, i),
                   first |-> BodyLineOffset(m, row) + i,
                   last |-> BodyLineOffset(m, row) + i + Len(Piece(i)) - 1,
                   text |-> RenderBody(Piece(i))]
             S == {j \in 1..Len(row.body) : j % ChunkLines = 1 % ChunkLines}
             f == [i \in S |-> Chunk(i)]
  <2>1. ChunksOf(m, row) = {f[i] : i \in S}
    BY DEF ChunksOf
  <2>2. row \in NodeRow
    BY <1>1 DEF TableOK, Active, Nodes
  <2>3. Len(row.body) \in Nat
    BY <2>2, BodiesAreLines DEF NodeRow
  <2>4. IsFiniteSet(S)
    <3>1. IsFiniteSet(1..Len(row.body)) /\ S \subseteq 1..Len(row.body)
      BY <2>3, FS_Interval
    <3> QED
      BY <3>1, FS_Subset
  <2>5. DOMAIN f = S
    OBVIOUS
  <2> HIDE DEF f, S
  <2> QED
    BY <2>1, <2>4, <2>5, FiniteImage
<1>2. \A m \in Docs : IsFiniteSet(StagedChunks(t, m))
  BY <1>1, FS_EmptySet DEF StagedChunks
<1> DEFINE g == [m \in D |-> StagedChunks(t, m)]
<1>3. IsFiniteSet(D)
  BY NodesAreFinite, FS_Subset DEF Nodes
<1>4. IsFiniteSet({g[m] : m \in D})
  BY <1>3, FiniteImage
<1>5. {g[m] : m \in D} = {StagedChunks(t, m) : m \in D}
  OBVIOUS
<1>6. IsFiniteSet(UNION {StagedChunks(t, m) : m \in D})
  BY <1>2, <1>4, <1>5, FS_UNION
<1>7. ASSUME NEW m \in D, NEW c \in StagedChunks(t, m)
      PROVE  /\ WellCut(c) /\ c.file = m /\ Active(t, m)
             /\ Slice(Render(m, t[m], t[m].body), c.first, c.last) = c.text
  <2>1. Active(t, m) /\ c \in ChunksOf(m, t[m]) /\ t[m] \in NodeRow
    BY <1>7 DEF StagedChunks, TableOK, Active, Nodes
  <2> QED
    BY <2>1, ChunksAreCut
<1> QED
  BY <1>6, <1>7

-----------------------------------------------------------------------------
\* The steps of the writer.

\* Everything holds at first.
LEMMA Initially == Init => IInv
<1> SUFFICES ASSUME Init PROVE IInv
  OBVIOUS
<1>1. TableOK(rows)
  BY StartsAssumption DEF Init, TableOK
<1>2. IsFiniteSet(index) /\ \A c \in index : WellCut(c)
  <2>1. index = UNION {StagedChunks(rows, n) : n \in Docs}
    BY DEF Init
  <2> QED
    BY <1>1, <2>1, ChunksFinite
<1>3. \A n \in Docs : StagedChunks(rows, n) \subseteq index
  BY DEF Init
<1>4. WriterInv
  BY <1>1, <1>2, <1>3 DEF Init, WriterInv
<1>5. Shape
  BY DEF Init, Shape, NoNode
<1> QED
  BY <1>4, <1>5 DEF Init, IInv, CallInv

\* Segments follow from the committed rows.
LEMMA SameSegments ==
  ASSUME rows' = rows
  PROVE  \A n \in Nodes : Seg(n)' = Seg(n)
BY DEF Seg, Active

\* A call goes on unless its own variables or the committed rows change.
LEMMA CallUndisturbed ==
  ASSUME IInv, UNCHANGED <<rows, calling, answer, past>>
  PROVE  Shape' /\ CallInv'
<1>1. /\ rows' = rows /\ past' = past /\ call' = call /\ scope' = scope /\ loaded' = loaded
      /\ path' = path /\ allowed' = allowed /\ found' = found /\ body' = body /\ answer' = answer
  BY DEF calling
<1>2. Shape'
  BY <1>1 DEF IInv, Shape
<1>3. Reads => Reads'
  BY <1>1 DEF Reads
<1>4. Searched => Searched'
  BY <1>1 DEF Searched
<1>5. Fresh => Fresh'
  BY <1>1, SameSegments DEF Fresh
<1> QED
  BY <1>1, <1>2, <1>3, <1>4, <1>5 DEF IInv, CallInv

\* The writer waits while a call reads.
LEMMA WriterUndisturbed ==
  ASSUME IInv, UNCHANGED <<rows, draft, index, ops>>
  PROVE  WriterInv'
BY DEF IInv, WriterInv

\* New chunks are in the index before their rows are committed.
LEMMA StageKeeps ==
  ASSUME IInv, NEW n \in Nodes, NEW row \in NodeRow, Stage(n, row)
  PROVE  IInv'
<1> DEFINE D == {k \in Docs : draft'[k] # rows[k]}
           new == UNION {StagedChunks(draft', m) : m \in D}
<1>1. /\ TableOK(rows) /\ MayWrite(n, row) /\ draft' = Written(n, row)
      /\ index' = index \union new /\ rows' = rows
  BY DEF IInv, WriterInv, Stage
<1>2. TableOK(draft') /\ Stay(rows, draft')
  BY <1>1, WrittenOK
<1>3. D \in SUBSET Docs
  OBVIOUS
<1>4. IsFiniteSet(new) /\ \A m \in D : \A c \in StagedChunks(draft', m) : WellCut(c)
  BY <1>2, <1>3, ChunksFinite
<1>5. IsFiniteSet(index') /\ \A c \in index' : WellCut(c)
  <2>1. \A c \in new : WellCut(c)
    BY <1>4
  <2> QED
    BY <1>1, <1>4, <2>1, FS_Union DEF IInv, WriterInv
<1>6. \A m \in Docs : StagedChunks(rows', m) \subseteq index'
  BY <1>1 DEF IInv, WriterInv
<1>7. \A m \in Docs : StagedChunks(draft', m) \subseteq index'
  <2> SUFFICES ASSUME NEW m \in Docs PROVE StagedChunks(draft', m) \subseteq index'
    OBVIOUS
  <2>1. CASE m \in D
    BY <1>1, <2>1
  <2>2. CASE m \notin D
    <3>1. StagedChunks(draft', m) = StagedChunks(rows, m)
      BY <2>2 DEF StagedChunks, Active
    <3> QED
      BY <1>1, <3>1 DEF IInv, WriterInv
  <2> QED
    BY <2>1, <2>2
<1>8. ops' \in 0..MaxOps
  BY DEF IInv, WriterInv, Stage
<1>9. WriterInv'
  BY <1>1, <1>2, <1>5, <1>6, <1>7, <1>8 DEF WriterInv
<1> QED
  BY <1>9, CallUndisturbed DEF IInv, Stage

\* A commit during a call adds one more table to those it may have read.
LEMMA CommitKeeps ==
  ASSUME IInv, Commit
  PROVE  IInv'
<1>1. WriterInv'
  BY DEF IInv, WriterInv, Commit
<1>2. Shape'
  BY DEF IInv, Shape, Commit, calling
<1>3. ASSUME call # None PROVE CallInv'
  <2>1. /\ Reads /\ Searched /\ (past = {rows} => Fresh)
        /\ past' = past \union {draft} /\ rows' = draft /\ UNCHANGED calling
        /\ TableOK(draft) /\ Stay(rows, draft)
    BY <1>3 DEF IInv, CallInv, WriterInv, Commit
  <2>2. Reads'
    <3>1. \A t \in past' : TableOK(t) /\ Stay(t, rows')
      BY <2>1 DEF Reads, Stay
    <3> QED
      BY <2>1, <3>1 DEF Reads, calling
  <2>3. past' = {rows'} => past = {rows} /\ rows' = rows
    BY <2>1 DEF Reads
  <2>4. Searched'
    <3>1. past' = {rows'} => UNCHANGED <<rows, past, calling>>
      BY <2>1, <2>3
    <3>2. found' = found /\ call' = call /\ allowed' = allowed /\ scope' = scope /\ path' = path
      BY <2>1 DEF calling
    <3> QED
      BY <2>1, <3>1, <3>2 DEF Searched
  <2>5. past' = {rows'} => Fresh'
    <3> SUFFICES ASSUME past' = {rows'} PROVE Fresh'
      OBVIOUS
    <3>1. /\ Fresh /\ rows' = rows /\ loaded' = loaded /\ path' = path /\ body' = body /\ scope' = scope
      BY <2>1, <2>3 DEF calling
    <3> QED
      BY <3>1, SameSegments DEF Fresh
  <2> QED
    BY <2>2, <2>4, <2>5 DEF CallInv
<1>4. ASSUME call = None PROVE CallInv'
  BY <1>4 DEF CallInv, Commit, calling
<1> QED
  BY <1>1, <1>2, <1>3, <1>4 DEF IInv

\* An abort leaves chunks behind.
LEMMA AbortKeeps ==
  ASSUME IInv, Abort
  PROVE  IInv'
<1>1. WriterInv'
  BY DEF IInv, WriterInv, Abort
<1> QED
  BY <1>1, CallUndisturbed DEF IInv, Abort

\* Settling takes only what is not committed.
LEMMA SettleKeeps ==
  ASSUME IInv, NEW n \in Docs, Settle(n)
  PROVE  IInv'
<1>1. /\ TableOK(rows) /\ rows' = rows /\ draft' = None /\ ops' = ops
      /\ index' = {c \in index : c.file # n} \union StagedChunks(rows, n)
  BY DEF IInv, WriterInv, Settle
<1>2. /\ IsFiniteSet(UNION {StagedChunks(rows, m) : m \in Docs})
      /\ \A m \in Docs : \A c \in StagedChunks(rows, m) : WellCut(c) /\ c.file = m
  BY <1>1, ChunksFinite
<1>3. IsFiniteSet(StagedChunks(rows, n))
  <2>1. StagedChunks(rows, n) \subseteq UNION {StagedChunks(rows, m) : m \in Docs}
    OBVIOUS
  <2> QED
    BY <1>2, <2>1, FS_Subset
<1>4. IsFiniteSet({c \in index : c.file # n})
  BY FS_Subset DEF IInv, WriterInv
<1>5. IsFiniteSet(index') /\ \A c \in index' : WellCut(c)
  BY <1>1, <1>2, <1>3, <1>4, FS_Union DEF IInv, WriterInv
<1>6. \A m \in Docs : StagedChunks(rows', m) \subseteq index'
  BY <1>1, <1>2 DEF IInv, WriterInv
<1>7. WriterInv'
  BY <1>1, <1>5, <1>6 DEF IInv, WriterInv
<1> QED
  BY <1>7, CallUndisturbed DEF IInv, Settle

-----------------------------------------------------------------------------
\* The steps of a call.

\* A manifest resolves to active nodes, all the way down.
LEMMA ResolvedIsClosed ==
  ASSUME TableOK(rows), NEW members \in SUBSET Nodes
  PROVE  /\ Resolved(members) \subseteq Nodes
         /\ \A n \in Resolved(members) : Active(rows, n)
         /\ \A m \in Nodes : Active(rows, m) /\ rows[m].parent \in Resolved(members)
                               => m \in Resolved(members)
<1> DEFINE active == {n \in members : Active(rows, n)}
           R == Resolved(members)
<1>1. R = active \union UNION {ActiveDescendants(rows, n) : n \in active \intersect Folders}
  BY DEF Resolved
<1>2. R \subseteq Nodes /\ \A n \in R : Active(rows, n)
  BY <1>1 DEF ActiveDescendants
<1>3. ASSUME NEW m \in Nodes, Active(rows, m), rows[m].parent \in R
      PROVE  m \in R
  <2> DEFINE q == rows[m].parent
  <2>1. q \in Folders /\ q \in Nodes
    BY <1>2, <1>3 DEF TableOK, Active, NodeRow, Nodes
  <2>2. CASE q \in active
    <3>1. m \in ActiveDescendants(rows, q)
      BY <1>3 DEF ActiveDescendants
    <3> QED
      BY <1>1, <2>1, <2>2, <3>1
  <2>3. ASSUME NEW n \in active \intersect Folders, q \in ActiveDescendants(rows, n)
        PROVE  m \in R
    <3>1. rows[q] # None /\ rows[q].parent \in Below(rows, n) \union {n} /\ n \in Nodes
      BY <2>3 DEF ActiveDescendants, Active, Nodes
    <3>2. q \in Below(rows, n)
      BY <2>1, <3>1, BelowOn
    <3>3. m \in ActiveDescendants(rows, n)
      BY <1>3, <3>2 DEF ActiveDescendants
    <3> QED
      BY <1>1, <2>3, <3>3
  <2> QED
    BY <1>1, <1>3, <2>2, <2>3
<1> QED
  BY <1>2, <1>3

\* A call starts with what is committed.
LEMMA BeginKeeps ==
  ASSUME IInv, NEW c \in Calls, NEW members \in Manifests, Begin(c, members)
  PROVE  IInv'
<1>1. TableOK(rows) /\ members \in SUBSET Nodes
  BY ManifestsHoldNodes DEF IInv, WriterInv
<1>2. /\ scope' \subseteq Nodes
      /\ \A n \in scope' : Active(rows, n)
      /\ \A m \in Nodes : Active(rows, m) /\ rows[m].parent \in scope' => m \in scope'
  BY <1>1, ResolvedIsClosed DEF Begin
<1>3. /\ call' = c /\ path' = NoNode /\ body' = NoNode /\ found' = None /\ answer' = None
      /\ loaded' = [n \in Nodes |-> IF n \in scope' THEN rows[n] ELSE None]
      /\ allowed' # None => allowed' = scope' \intersect Docs
      /\ past' = {rows} /\ rows' = rows
  BY DEF Begin
<1>4. Shape'
  BY <1>2, <1>3 DEF Shape, NoNode, Active
<1>5. Reads'
  BY <1>1, <1>3 DEF Reads, NoNode, Stay
<1>6. Searched'
  BY <1>3 DEF Searched
<1>7. Fresh'
  <2>1. \A n \in Nodes : loaded'[n] # None => loaded'[n] = rows[n] /\ Active(rows, n)
    BY <1>2, <1>3
  <2> QED
    BY <1>2, <1>3, <2>1 DEF Fresh, NoNode, Active
<1>8. WriterInv'
  BY WriterUndisturbed DEF Begin
<1> QED
  BY <1>4, <1>5, <1>6, <1>7, <1>8 DEF IInv, CallInv

\* What is loaded are rows, and rows again if nothing was committed.
LEMMA LoadedAreRows ==
  ASSUME IInv, call # None, NEW n \in Nodes
  PROVE  /\ Load(n) # None => Load(n) \in NodeRow /\ \E t \in past : Load(n) = t[n]
         /\ loaded[n] # None => loaded[n] \in NodeRow /\ rows[n] # None
         /\ past = {rows} => Load(n) = rows[n]
BY DEF IInv, CallInv, Reads, Fresh, TableOK, Stay, Load

\* A folder on the way up is read as it is now.
LEMMA LoadFolderKeeps ==
  ASSUME IInv, NEW n \in Nodes, LoadFolder(n)
  PROVE  IInv'
<1> DEFINE p == loaded[n].parent
<1>1. /\ call # None /\ loaded[n] # None /\ p # Top /\ loaded[p] = None
      /\ loaded' = [loaded EXCEPT ![p] = rows[p]]
      /\ rows' = rows /\ past' = past /\ call' = call /\ scope' = scope /\ path' = path
      /\ allowed' = allowed /\ found' = found /\ body' = body /\ answer' = answer
  BY DEF LoadFolder, Wanted
<1>2. p \in Nodes
  BY <1>1, LoadedAreRows DEF NodeRow, Nodes
<1>3. Reads /\ Searched /\ (past = {rows} => Fresh)
  BY <1>1 DEF IInv, CallInv
<1>4. /\ DOMAIN loaded' = Nodes /\ loaded'[p] = rows[p]
      /\ \A m \in Nodes \ {p} : loaded'[m] = loaded[m]
  BY <1>1, <1>2 DEF IInv, Shape
<1> HIDE DEF p
<1>5. Shape'
  BY <1>1, <1>2, <1>4 DEF IInv, Shape
<1>6. Reads'
  BY <1>1, <1>2, <1>3, <1>4 DEF Reads
<1>7. Searched'
  BY <1>1, <1>3 DEF Searched
<1>8. ASSUME past = {rows} PROVE Fresh'
  <2>1. Fresh
    BY <1>3, <1>8
  <2>2. Active(rows, p)
    BY <1>1, <1>2, <2>1, TopIsNoNode DEF IInv, WriterInv, TableOK, Fresh, p
  <2>3. \A m \in Nodes : loaded'[m] # None => loaded'[m] = rows[m] /\ Active(rows, m)
    BY <1>4, <2>1, <2>2 DEF Fresh
  <2> QED
    BY <1>1, <2>1, <2>3, SameSegments DEF Fresh, Active
<1>9. WriterInv'
  BY WriterUndisturbed DEF LoadFolder
<1> QED
  BY <1>1, <1>5, <1>6, <1>7, <1>8, <1>9 DEF IInv, CallInv

\* A segment is made of a title and perhaps an id.
LEMMA SegmentsTyped ==
  ASSUME IInv, call # None, NEW n \in Nodes, Load(n) # None
  PROVE  Segment(n) \in Segments
<1>1. Load(n).title \in Titles
  BY LoadedAreRows DEF NodeRow
<1> QED
  BY <1>1 DEF Segment, Base, Segments

\* If nothing was committed, siblings are told apart by the committed rows.
LEMMA SegmentsAreFresh ==
  ASSUME IInv, call # None, past = {rows}, NEW n \in Nodes
  PROVE  Segment(n) = Seg(n) /\ (rows[n] # None => Seg(n) \in Segments)
<1>1. \A m \in Nodes : Load(m) = rows[m]
  BY LoadedAreRows
<1>2. Segment(n) = Seg(n)
  BY <1>1 DEF Segment, Seg, Siblings, Base
<1>3. ASSUME rows[n] # None PROVE Seg(n) \in Segments
  <2>1. rows[n].title \in Titles
    BY <1>3 DEF IInv, WriterInv, TableOK, NodeRow
  <2> QED
    BY <2>1 DEF Seg, Segments
<1> QED
  BY <1>2, <1>3

\* The children of a folder get their paths together, by one list.
LEMMA NameInKeeps ==
  ASSUME IInv, NEW p \in Folders \union {Top}, NameIn(p)
  PROVE  IInv'
<1> DEFINE listed == UNION {Siblings(n) : n \in {m \in Nodes : Wanted(m) /\ loaded[m].parent = p}}
           new(n) == n \in listed /\ path[n] = None /\ Load(n).parent = p
<1>1. /\ p # Top => path[p] # None
      /\ listed # {}
      /\ path' = [n \in Nodes |-> IF new(n)
                    THEN (IF p = Top THEN <<>> ELSE path[p]) \o <<Segment(n)>> ELSE path[n]]
      /\ loaded' = [n \in Nodes |-> IF n \in listed THEN Load(n) ELSE loaded[n]]
      /\ rows' = rows /\ past' = past /\ call' = call /\ scope' = scope
      /\ allowed' = allowed /\ found' = found /\ body' = body /\ answer' = answer
  BY DEF NameIn
<1>2. \A n \in listed : /\ n \in Nodes
                        /\ \/ loaded[n] # None
                           \/ /\ Active(rows, n)
                              /\ \E m \in Nodes : loaded[m] # None /\ rows[n].parent = loaded[m].parent
  BY DEF Siblings, Wanted, Load
<1>3. call # None
  BY <1>1 DEF Wanted
<1>4. Reads /\ Searched /\ (past = {rows} => Fresh)
  BY <1>3 DEF IInv, CallInv
<1> HIDE DEF listed, new
<1>5. \A n \in Nodes : loaded'[n] = loaded[n] \/ (n \in listed /\ loaded'[n] = Load(n))
  BY <1>1
<1>6. \A n \in listed : Load(n) # None
  BY <1>2 DEF Load, Active
<1>7. \A n \in Nodes : loaded[n] # None => loaded'[n] = loaded[n]
  BY <1>1 DEF Load
<1>8. \A n \in Nodes : /\ path[n] # None => path'[n] = path[n]
                       /\ path'[n] # None => path[n] # None \/ new(n)
  BY <1>1 DEF new
<1>9. Shape'
  <2>1. \A n \in Nodes : new(n) => loaded'[n] # None
    BY <1>1, <1>6 DEF new
  <2>2. \A n \in Nodes : path'[n] # None => loaded'[n] # None
    BY <1>7, <1>8, <2>1 DEF IInv, Shape
  <2>5. ASSUME NEW n \in Nodes, path'[n] # None PROVE path'[n] \in Seq(Segments)
    <3>1. CASE path[n] # None
      BY <1>8, <3>1 DEF IInv, Shape
    <3>2. CASE new(n)
      <4>1. Segment(n) \in Segments
        BY <1>3, <1>6, <3>2, SegmentsTyped DEF new
      <4>2. (IF p = Top THEN <<>> ELSE path[p]) \in Seq(Segments)
        BY <1>1, EmptySeq DEF IInv, Shape, Nodes
      <4> HIDE DEF Segments
      <4>3. <<Segment(n)>> \in Seq(Segments)
        BY <4>1
      <4> QED
        BY <1>1, <3>2, <4>2, <4>3, ConcatProperties
    <3> QED
      BY <1>8, <2>5, <3>1, <3>2
  <2>3. \A n \in scope' : loaded'[n] # None
    BY <1>1, <1>7 DEF IInv, Shape
  <2>4. DOMAIN loaded' = Nodes /\ DOMAIN path' = Nodes
    BY <1>1
  <2> QED
    BY <1>1, <2>2, <2>3, <2>4, <2>5 DEF IInv, Shape
<1>10. Reads'
  <2>1. \A n \in Nodes : loaded'[n] # None => \E t \in past : loaded'[n] = t[n]
    BY <1>3, <1>4, <1>5, LoadedAreRows DEF Reads
  <2> QED
    BY <1>1, <1>4, <2>1 DEF Reads
<1>11. Searched'
  <2>1. (\A n \in scope : path[n] # None) => \A n \in scope' : path'[n] # None
    BY <1>1, <1>8 DEF IInv, Shape
  <2> QED
    BY <1>1, <1>4, <2>1 DEF Searched
<1>12. ASSUME past = {rows} PROVE Fresh'
  <2>1. Fresh
    BY <1>4, <1>12
  <2>2. \A n \in Nodes : loaded'[n] # None => loaded'[n] = rows[n] /\ Active(rows, n)
    BY <1>2, <1>3, <1>5, <1>12, <2>1, LoadedAreRows DEF Fresh
  <2>3. ASSUME NEW n \in Nodes, path'[n] # None
        PROVE  /\ path'[n] \in Seq(Segments)
               /\ rows[n].parent # Top => path'[rows[n].parent] # None
               /\ path'[n] = (IF rows[n].parent = Top THEN <<>> ELSE path'[rows[n].parent]) \o <<Seg(n)>>
    <3> DEFINE q == rows[n].parent
    <3>1. Active(rows, n) /\ rows[n] \in NodeRow
      BY <1>9, <2>2, <2>3 DEF Shape, IInv, WriterInv, TableOK, Active
    <3>2. q # Top => q \in Nodes
      BY <3>1 DEF NodeRow, Nodes
    <3>3. CASE path[n] # None
      BY <1>8, <2>1, <3>2, <3>3 DEF Fresh
    <3>4. CASE path[n] = None
      <4>1. new(n) /\ q = p
        BY <1>3, <1>8, <1>12, <2>3, <3>4, LoadedAreRows DEF new
      <4>2. path'[n] = (IF p = Top THEN <<>> ELSE path[p]) \o <<Seg(n)>> /\ Seg(n) \in Segments
        BY <1>1, <1>3, <1>12, <3>1, <4>1, SegmentsAreFresh DEF Active
      <4>3. p # Top => path'[p] = path[p] /\ path[p] # None /\ path[p] \in Seq(Segments)
        BY <1>1, <1>8, <2>1, <3>2, <4>1 DEF Fresh
      <4>4. path'[n] \in Seq(Segments)
        <5>1. <<Seg(n)>> \in Seq(Segments)
          BY <4>2
        <5>2. (IF p = Top THEN <<>> ELSE path[p]) \in Seq(Segments)
          BY <4>3, EmptySeq
        <5> QED
          BY <4>2, <5>1, <5>2, ConcatProperties
      <4> QED
        BY <4>1, <4>2, <4>3, <4>4
    <3> QED
      BY <3>3, <3>4
  <2> QED
    BY <1>1, <2>1, <2>2, <2>3, SameSegments DEF Fresh, Active
<1>13. WriterInv'
  BY WriterUndisturbed DEF NameIn
<1> QED
  BY <1>1, <1>9, <1>10, <1>11, <1>12, <1>13 DEF IInv, CallInv

\* The ids are selected before anything is searched for.
LEMMA FilterByTagsKeeps ==
  ASSUME IInv, FilterByTags
  PROVE  IInv'
<1>1. /\ call # None /\ allowed = None /\ allowed' = {n \in scope \intersect Docs : "tags" \in rows[n].fields}
      /\ rows' = rows /\ past' = past /\ call' = call /\ scope' = scope /\ loaded' = loaded
      /\ path' = path /\ found' = found /\ body' = body /\ answer' = answer
  BY DEF FilterByTags, Named
<1>2. Reads /\ Searched /\ (past = {rows} => Fresh)
  BY <1>1 DEF IInv, CallInv
<1>3. Shape'
  BY <1>1 DEF IInv, Shape
<1>4. Searched'
  BY <1>1, <1>2 DEF Searched
<1>5. Reads' /\ (past' = {rows'} => Fresh')
  BY <1>1, <1>2, SameSegments DEF Reads, Fresh
<1>6. WriterInv'
  BY WriterUndisturbed DEF FilterByTags
<1> QED
  BY <1>3, <1>4, <1>5, <1>6 DEF IInv, CallInv

\* Chunks are taken of everything in the index, which has all that is committed.
LEMMA VectorSearchKeeps ==
  ASSUME IInv, VectorSearch
  PROVE  IInv'
<1> DEFINE cands == {c \in index : c.file \in allowed}
<1>1. /\ call # None /\ call.tool = "semantic" /\ allowed # None /\ \A n \in scope : path[n] # None
      /\ found' \in {S \in SUBSET cands :
                       Cardinality(S) = Min({call.k * OverfetchFactor, Cardinality(cands)})}
      /\ rows' = rows /\ past' = past /\ call' = call /\ scope' = scope /\ loaded' = loaded
      /\ path' = path /\ allowed' = allowed /\ body' = body /\ answer' = answer
  BY DEF VectorSearch, Named
<1>2. Reads /\ Searched /\ (past = {rows} => Fresh)
  BY <1>1 DEF IInv, CallInv
<1>3. IsFiniteSet(cands) /\ \A c \in cands : WellCut(c) /\ c.file \in allowed
  BY FS_Subset DEF IInv, WriterInv
<1>4. found' \subseteq cands /\ IsFiniteSet(found')
  <2>1. found' \subseteq cands
    BY <1>1
  <2> QED
    BY <1>3, <2>1, FS_Subset
<1>5. UNION {StagedChunks(rows, n) : n \in allowed} \subseteq cands
  <2>1. allowed \in SUBSET Docs /\ TableOK(rows)
    BY <1>1 DEF IInv, Shape, WriterInv
  <2>2. \A n \in allowed : \A c \in StagedChunks(rows, n) : c.file = n
    BY <2>1, ChunksFinite
  <2>3. \A n \in allowed : StagedChunks(rows, n) \subseteq index
    BY <2>1 DEF IInv, WriterInv
  <2> QED
    BY <2>2, <2>3
<1> HIDE DEF cands
<1>6. UNION {StagedChunks(rows', n) : n \in allowed'} \subseteq cands
  BY <1>1, <1>5
<1>7. Searched'
  BY <1>1, <1>3, <1>4, <1>6 DEF Searched
<1>8. Shape'
  BY <1>1 DEF IInv, Shape
<1>9. Reads' /\ (past' = {rows'} => Fresh')
  BY <1>1, <1>2, SameSegments DEF Reads, Fresh
<1>10. WriterInv'
  BY WriterUndisturbed DEF VectorSearch
<1> QED
  BY <1>7, <1>8, <1>9, <1>10 DEF IInv, CallInv

\* A body is read as it is now.
LEMMA LoadBodyKeeps ==
  ASSUME IInv, NEW n \in Docs, LoadBody(n)
  PROVE  IInv'
<1>1. /\ call # None /\ found # None /\ body[n] = None /\ \E c \in found : c.file = n
      /\ body' = [body EXCEPT ![n] = rows[n].body]
      /\ rows' = rows /\ past' = past /\ call' = call /\ scope' = scope /\ loaded' = loaded
      /\ path' = path /\ allowed' = allowed /\ found' = found /\ answer' = answer
  BY DEF LoadBody
<1>2. Reads /\ Searched /\ (past = {rows} => Fresh)
  BY <1>1 DEF IInv, CallInv
<1>3. n \in Nodes /\ rows[n] # None
  <2>1. loaded[n] # None
    BY <1>1, <1>2 DEF Searched, IInv, Shape
  <2> QED
    BY <1>1, <2>1, LoadedAreRows DEF Nodes
<1>4. DOMAIN body' = Nodes /\ body'[n] = rows[n].body /\ \A m \in Nodes \ {n} : body'[m] = body[m]
  BY <1>1, <1>3 DEF IInv, Shape
<1>5. Shape'
  BY <1>1, <1>4 DEF IInv, Shape
<1>6. Reads'
  BY <1>1, <1>2, <1>3, <1>4 DEF Reads
<1>7. Searched'
  BY <1>1, <1>2 DEF Searched
<1>8. past' = {rows'} => Fresh'
  BY <1>1, <1>2, <1>4, SameSegments DEF Fresh, Active
<1>9. WriterInv'
  BY WriterUndisturbed DEF LoadBody
<1> QED
  BY <1>5, <1>6, <1>7, <1>8, <1>9 DEF IInv, CallInv

\* An answer ends the call.
LEMMA ReturnsKeeps ==
  ASSUME IInv, NEW a, Returns(a)
  PROVE  IInv'
<1>1. Shape'
  BY DEF IInv, Shape, Returns
<1>2. WriterInv'
  BY WriterUndisturbed DEF Returns
<1> QED
  BY <1>1, <1>2 DEF IInv, CallInv, Returns

\* Nothing of a call is kept.
LEMMA CloseKeeps ==
  ASSUME IInv, Close
  PROVE  IInv'
<1>1. Shape' /\ call' = None
  BY DEF IInv, Shape, Close, NoNode
<1>2. WriterInv'
  BY WriterUndisturbed DEF Close
<1> QED
  BY <1>1, <1>2 DEF IInv, CallInv

\* Every step keeps the invariant.
LEMMA StepKeeps == IInv /\ [Next]_vars => IInv'
<1> SUFFICES ASSUME IInv, [Next]_vars PROVE IInv'
  OBVIOUS
<1>1. CASE UNCHANGED vars
  BY <1>1, CallUndisturbed, WriterUndisturbed DEF vars, IInv
<1>2. CASE Close
  BY <1>2, CloseKeeps
<1>3. CASE WriterStep
  BY <1>3, StageKeeps, CommitKeeps, AbortKeeps, SettleKeeps DEF WriterStep
<1>4. CASE ToolStep
  <2>1. CASE Refuse \/ ListPaths \/ SearchLines \/ ReadLines \/ SemanticSearch
    <3>1. PICK a : Returns(a)
      BY <2>1 DEF Refuse, ListPaths, SearchLines, ReadLines, SemanticSearch
    <3> QED
      BY <3>1, ReturnsKeeps
  <2> QED
    BY <1>4, <2>1, FilterByTagsKeeps, VectorSearchKeeps, LoadBodyKeeps DEF ToolStep
<1>5. CASE CallStep
  BY <1>4, <1>5, BeginKeeps, LoadFolderKeeps, NameInKeeps DEF CallStep
<1> QED
  BY <1>1, <1>2, <1>3, <1>5 DEF Next

\* The inductive invariant: the index has what is committed and what is about to
\* be, and a call has read what was committed while it ran.
LEMMA Inductive == Spec => []IInv
BY Initially, StepKeeps, PTL DEF Spec

\* TypeOK: however the writer's transactions and the statements of a call are
\* mixed, a file has a folder, what has a path was loaded, and what may be
\* returned are files.
THEOREM TypeCorrect == Spec => []TypeOK
<1>1. IInv => TypeOK
  BY DEF IInv, WriterInv, TableOK, Shape, TypeOK, WellCut
<1> QED
  BY <1>1, Inductive, PTL

\* Only an answer's own step can make a property of answers false.
LEMMA AnswersAlone ==
  ASSUME IInv, [Next]_vars, answer' # None
  PROVE  \/ UNCHANGED vars
         \/ /\ call # None
            /\ \/ Refuse \/ ListPaths \/ SearchLines \/ ReadLines
               \/ SemanticSearch
<1>1. ~Close
  BY DEF Close
<1>2. CASE WriterStep /\ answer = None
  BY <1>2 DEF WriterStep, Stage, Commit, Abort, Settle
<1>3. CASE CallStep /\ answer = None
  BY <1>3 DEF CallStep, Begin, LoadFolder, NameIn, ToolStep, FilterByTags, VectorSearch, LoadBody,
              Refuse, ListPaths, SearchLines, ReadLines, SemanticSearch, Named
<1> QED
  BY <1>1, <1>2, <1>3 DEF Next

\* An answer is given once everything in scope has a path, and nothing else
\* changes by it.
LEMMA AnswerIsNamed ==
  ASSUME IInv, [Next]_vars, answer' # None, ~ UNCHANGED vars
  PROVE  /\ call # None /\ \A n \in scope : path[n] # None
         /\ rows' = rows /\ past' = past /\ scope' = scope /\ path' = path /\ loaded' = loaded
<1>1. /\ call # None
      /\ Refuse \/ ListPaths \/ SearchLines \/ ReadLines \/ SemanticSearch
  BY AnswersAlone
<1>2. PICK a : Returns(a)
  BY <1>1 DEF Refuse, ListPaths, SearchLines, ReadLines, SemanticSearch
<1>3. \A n \in scope : path[n] # None
  <2>1. CASE SemanticSearch
    BY <1>1, <2>1 DEF SemanticSearch, IInv, CallInv, Searched
  <2>2. CASE Refuse \/ ListPaths \/ SearchLines \/ ReadLines
    BY <2>2 DEF Refuse, ListPaths, SearchLines, ReadLines, Named
  <2> QED
    BY <1>1, <2>1, <2>2
<1> QED
  BY <1>1, <1>2, <1>3 DEF Returns

\* The other tools do not answer like a semantic search.
LEMMA OthersAnswer ==
  ASSUME Refuse \/ ListPaths \/ SearchLines \/ ReadLines
  PROVE  answer'.tool # "semantic"
<1>1. CASE Refuse
  BY <1>1 DEF Refuse, Returns
<1>2. CASE ListPaths \/ SearchLines \/ ReadLines
  <2>1. PICK under, all, cut : answer' = Lines(under, all, cut)
    BY <1>2 DEF ListPaths, SearchLines, ReadLines, Returns
  <2>2. call.tool # "semantic"
    BY <1>2 DEF ListPaths, SearchLines, ReadLines
  <2> QED
    BY <2>1, <2>2 DEF Lines
<1> QED
  BY <1>1, <1>2

\* Only list_paths answers like list_paths.
LEMMA ListsAnswer ==
  ASSUME Refuse \/ SearchLines \/ ReadLines \/ SemanticSearch
  PROVE  answer'.tool # "list"
<1>1. CASE Refuse
  BY <1>1 DEF Refuse, Returns
<1>2. CASE SearchLines \/ ReadLines
  <2>1. PICK under, all, cut : answer' = Lines(under, all, cut)
    BY <1>2 DEF SearchLines, ReadLines, Returns
  <2>2. call.tool # "list"
    BY <1>2 DEF SearchLines, ReadLines
  <2> QED
    BY <2>1, <2>2 DEF Lines
<1>3. CASE SemanticSearch
  BY <1>3 DEF SemanticSearch, Returns
<1> QED
  BY <1>1, <1>2, <1>3

-----------------------------------------------------------------------------
\* What a search returns was committed.

\* A chunk that is held against rows read at two moments is text of the later.
LEMMA HitIsCommitted ==
  ASSUME IInv, call # None, NEW h, WellCut(h), NEW n, n = h.file, n \in Nodes,
         loaded[n] # None, body[n] # None, Current(h)
  PROVE  \E t \in past :
           LET lines == Render(n, t[n], t[n].body)
           IN IF SameOffset(n) THEN OccursAt(h.text, Slice(lines, h.first, h.last))
              ELSE \E i \in 1..Len(lines) : OccursAt(h.text, Slice(lines, i, i + h.last - h.first))
<1>1. Reads
  BY DEF IInv, CallInv
<1>2. PICK t \in past : loaded[n] = t[n]
  BY <1>1 DEF Reads
<1>3. PICK u \in past : u[n] # None /\ body[n] = u[n].body
  BY <1>1 DEF Reads
<1>4. t[n] \in NodeRow /\ u[n] \in NodeRow
  BY <1>1, <1>2, <1>3 DEF Reads, TableOK
<1> DEFINE F == RenderFrontmatter(n, t[n])
           G == RenderFrontmatter(n, u[n])
           B == RenderBody(u[n].body)
<1>5. F \in Seq(FrontLines) /\ G \in Seq(FrontLines)
  BY <1>4, FrontIsFront
<1>6. B \in Seq(TextLines)
  <2>1. u[n].body \in Seq(Texts)
    BY <1>4, BodiesAreLines, EmptySeq DEF NodeRow
  <2> QED
    BY <2>1, BodyIsText
<1>7. OccursAt(h.text, Slice(F \o B, h.first, h.last))
  BY <1>2, <1>3 DEF Current, Render
<1>8. Render(n, u[n], u[n].body) = G \o B
  BY DEF Render
<1>9. SameOffset(n) => Len(F) = Len(G)
  BY DEF SameOffset, BodyLineOffset
<1> HIDE DEF F, G, B
<1> DEFINE i == h.first + Len(G) - Len(F)
<1>10. i \in 1..Len(G \o B) /\ OccursAt(h.text, Slice(G \o B, i, i + h.last - h.first))
  BY <1>5, <1>6, <1>7, Shifted
<1>11. SameOffset(n) => i = h.first /\ i + h.last - h.first = h.last
  <2>1. h.first \in Nat /\ h.last \in Int /\ Len(F) \in Nat
    <3>1. h.first \in Nat /\ Len(h.text) \in Nat /\ h.last = h.first + Len(h.text) - 1
      BY DEF WellCut
    <3> QED
      BY <1>5, <3>1
  <2> QED
    BY <1>9, <2>1
<1> HIDE DEF i
<1> QED
  BY <1>8, <1>10, <1>11

\* The text of a hit occurs at its lines in a version of the file that was
\* committed while the call ran, whatever is staged, replaced or left behind in
\* the index; if the front got longer or shorter in between, it occurs in one.
THEOREM HitsAreCommitted == Spec => []HitsWereCommitted
<1>1. Init => HitsWereCommitted
  BY DEF Init, HitsWereCommitted
<1>2. IInv /\ HitsWereCommitted /\ [Next]_vars => HitsWereCommitted'
  <2> SUFFICES ASSUME IInv, HitsWereCommitted, [Next]_vars, answer' # None, answer'.tool = "semantic",
                      NEW h \in answer'.hits
               PROVE  \E t \in past' :
                        LET n == h.file
                            lines == Render(n, t[n], t[n].body)
                        IN IF SameOffset(n)' THEN OccursAt(h.text, Slice(lines, h.first, h.last))
                           ELSE \E i \in 1..Len(lines) :
                                  OccursAt(h.text, Slice(lines, i, i + h.last - h.first))
    BY DEF HitsWereCommitted
  <2>1. CASE UNCHANGED vars
    BY <2>1 DEF vars, HitsWereCommitted, SameOffset
  <2>2. CASE call # None /\ SemanticSearch
    <3>1. /\ found # None /\ \A c \in found : body[c.file] # None
          /\ h \in found /\ Current(h) /\ past' = past
      BY <2>2 DEF SemanticSearch, Returns, Closest
    <3>2. Searched
      BY <2>2 DEF IInv, CallInv
    <3>3. WellCut(h) /\ h.file \in Nodes /\ loaded[h.file] # None
      BY <3>1, <3>2 DEF Searched, IInv, Shape
    <3>4. SameOffset(h.file)' <=> SameOffset(h.file)
      BY <3>1 DEF SameOffset
    <3> QED
      BY <2>2, <3>1, <3>3, <3>4, HitIsCommitted
  <2>3. CASE Refuse \/ ListPaths \/ SearchLines \/ ReadLines
    BY <2>3, OthersAnswer
  <2> QED
    BY <2>1, <2>2, <2>3, AnswersAlone
<1> QED
  BY <1>1, <1>2, Inductive, PTL DEF Spec

-----------------------------------------------------------------------------
\* A search returns enough.

\* The smaller of two numbers.
LEMMA MinOfTwo ==
  ASSUME NEW a \in Nat, NEW b \in Nat
  PROVE  Min({a, b}) = IF a <= b THEN a ELSE b
<1> DEFINE m == IF a <= b THEN a ELSE b
<1>1. m \in {a, b} /\ \A y \in {a, b} : m <= y
  OBVIOUS
<1>2. \A x \in {a, b} : (\A y \in {a, b} : x <= y) => x = m
  OBVIOUS
<1> HIDE DEF m
<1> DEFINE P(x) == x \in {a, b} /\ \A y \in {a, b} : x <= y
<1>3. Min({a, b}) = CHOOSE x : P(x)
  BY Zenon DEF Min
<1>4. P(m) /\ \A x : P(x) => x = m
  BY <1>1, <1>2
<1> HIDE DEF P
<1>5. P(CHOOSE x : P(x))
  BY <1>4, Zenon
<1> QED
  BY <1>3, <1>4, <1>5 DEF m

\* Fetching twice as many chunks as are asked for leaves enough of them if at
\* most k are owed to nobody.
LEMMA EnoughAreLeft ==
  ASSUME NEW k \in Nat, NEW cands, IsFiniteSet(cands), NEW owed, owed \subseteq cands,
         NEW fetched, fetched \subseteq cands,
         Cardinality(fetched) = Min({k * OverfetchFactor, Cardinality(cands)}),
         NEW good, good \subseteq fetched, owed \intersect fetched \subseteq good,
         Cardinality(fetched \ owed) <= k,
         NEW hits, hits \in Closest(good, k)
  PROVE  /\ \/ owed \subseteq hits
            \/ Cardinality(hits \intersect owed) >= k - Cardinality(good \ owed)
         /\ \A h \in hits, c \in (fetched \intersect owed) \ hits : Far(h) <= Far(c)
<1>1. /\ Cardinality(fetched) = Min({k * 2, Cardinality(cands)})
      /\ hits \subseteq good
      /\ Cardinality(hits) = Min({k, Cardinality(good)})
      /\ \A c \in hits, d \in good \ hits : Far(c) <= Far(d)
  BY DEF Closest, OverfetchFactor
<1>2. /\ IsFiniteSet(fetched) /\ IsFiniteSet(good) /\ IsFiniteSet(hits)
      /\ IsFiniteSet(hits \ owed) /\ IsFiniteSet(good \ owed)
      /\ IsFiniteSet(fetched \intersect owed) /\ IsFiniteSet(fetched \ owed)
      /\ IsFiniteSet(hits \intersect owed)
  <2>1. fetched \subseteq cands /\ good \subseteq cands /\ hits \subseteq cands
    BY <1>1
  <2>2. /\ hits \ owed \subseteq cands /\ good \ owed \subseteq cands /\ fetched \ owed \subseteq cands
        /\ fetched \intersect owed \subseteq cands /\ hits \intersect owed \subseteq cands
    BY <2>1
  <2> QED
    BY <2>1, <2>2, FS_Subset
<1>3. /\ Cardinality(cands) \in Nat /\ Cardinality(fetched) \in Nat /\ Cardinality(good) \in Nat
      /\ Cardinality(hits) \in Nat /\ Cardinality(hits \ owed) \in Nat
      /\ Cardinality(good \ owed) \in Nat /\ Cardinality(fetched \ owed) \in Nat
      /\ Cardinality(fetched \intersect owed) \in Nat /\ Cardinality(hits \intersect owed) \in Nat
  BY <1>2, FS_CardinalityType
<1>4. /\ Cardinality(fetched) = IF k * 2 <= Cardinality(cands) THEN k * 2 ELSE Cardinality(cands)
      /\ Cardinality(hits) = IF k <= Cardinality(good) THEN k ELSE Cardinality(good)
  BY <1>1, <1>3, MinOfTwo
<1>5. /\ Cardinality(hits \ owed) = Cardinality(hits) - Cardinality(hits \intersect owed)
      /\ Cardinality(fetched \ owed) = Cardinality(fetched) - Cardinality(fetched \intersect owed)
  BY <1>2, FS_Difference
<1>6. CASE Cardinality(good) >= k
  <2>1. Cardinality(hits) = k
    BY <1>3, <1>4, <1>6
  <2>2. Cardinality(hits \ owed) <= Cardinality(good \ owed)
    <3>1. hits \ owed \subseteq good \ owed
      BY <1>1
    <3> QED
      BY <1>2, <3>1, FS_Subset
  <2>3. Cardinality(hits \intersect owed) >= k - Cardinality(good \ owed)
    BY <1>3, <1>5, <2>1, <2>2
  <2> QED
    BY <1>1, <2>3
<1>7. CASE Cardinality(good) < k
  <2>1. hits = good
    <3>1. Cardinality(hits) = Cardinality(good)
      BY <1>3, <1>4, <1>7
    <3> QED
      BY <1>1, <1>2, <3>1, FS_Subset
  <2>2. Cardinality(fetched \intersect owed) <= Cardinality(good)
    <3>1. fetched \intersect owed \subseteq good
      OBVIOUS
    <3> QED
      BY <1>2, <3>1, FS_Subset
  <2>3. Cardinality(fetched) < k * 2
    BY <1>3, <1>5, <1>7, <2>2
  <2>4. Cardinality(fetched) = Cardinality(cands)
    BY <1>3, <1>4, <2>3
  <2>5. fetched = cands
    BY <2>4, FS_Subset
  <2>6. owed \subseteq hits
    BY <2>1, <2>5
  <2> QED
    BY <1>1, <2>6
<1> QED
  BY <1>3, <1>6, <1>7

\* If nothing is committed meanwhile and no more than k of the chunks it fetched
\* are owed to nobody, a search returns every chunk of the committed bodies, or k
\* hits, of which those that are still at their lines without being owed may have
\* taken a place; and it passes over no owed chunk that it fetched for one further
\* off.
THEOREM SearchesAreComplete == Spec => []EnoughHits
<1>1. Init => EnoughHits
  BY DEF Init, EnoughHits, Quiet
<1>2. IInv /\ EnoughHits /\ [Next]_vars => EnoughHits'
  <2> DEFINE owed == UNION {StagedChunks(rows, n) : n \in allowed}
             good == {c \in found : Current(c)}
             strays == {c \in found \ owed : Current(c)}
  <2> SUFFICES ASSUME IInv, EnoughHits, [Next]_vars, Quiet', answer'.tool = "semantic",
                      Cardinality(found' \ owed') <= answer'.call.k
               PROVE  /\ \/ owed' \subseteq answer'.hits
                         \/ Cardinality(answer'.hits \intersect owed')
                              >= answer'.call.k - Cardinality(strays')
                      /\ \A h \in answer'.hits, c \in (found' \intersect owed') \ answer'.hits :
                           Far(h) <= Far(c)
    BY DEF EnoughHits, Far
  <2>1. CASE UNCHANGED vars
    BY <2>1 DEF vars, calling, EnoughHits, Quiet, StagedChunks, Active, Current
  <2>2. CASE call # None /\ SemanticSearch
    <3> DEFINE k == call.k
    <3>1. /\ found # None /\ \A c \in found : body[c.file] # None
          /\ answer'.hits \in Closest(good, k) /\ answer'.call = call
          /\ rows' = rows /\ past' = past /\ loaded' = loaded /\ allowed' = allowed
          /\ found' = found /\ body' = body
      BY <2>2 DEF SemanticSearch, Returns
    <3>2. Searched /\ Reads /\ Fresh /\ past = {rows}
      BY <2>2, <3>1 DEF IInv, CallInv, Quiet
    <3>3. strays' = strays /\ owed' = owed
      BY <3>1 DEF Current, StagedChunks, Active
    <3>4. PICK cands : /\ IsFiniteSet(cands) /\ owed \subseteq cands
                       /\ found \subseteq cands
                       /\ Cardinality(found) = Min({k * OverfetchFactor, Cardinality(cands)})
      BY <3>1, <3>2 DEF Searched
    <3>5. k \in Nat
      BY <2>2, <3>1, <3>2, CallsAssumption DEF Searched, IInv, Shape
    <3>6. owed \intersect found \subseteq good
      <4> SUFFICES ASSUME NEW n \in allowed, NEW c \in StagedChunks(rows, n), c \in found
                   PROVE  Current(c)
        OBVIOUS
      <4>1. TableOK(rows) /\ allowed \in SUBSET Docs /\ n \in Nodes /\ loaded[n] # None
        BY <3>1, <3>2 DEF IInv, Shape, WriterInv, Searched, Nodes
      <4>2. c.file = n /\ Slice(Render(n, rows[n], rows[n].body), c.first, c.last) = c.text
        <5>1. n \in Docs /\ rows[n] \in NodeRow /\ c \in ChunksOf(n, rows[n])
          BY <4>1 DEF StagedChunks, TableOK, Active
        <5> QED
          BY <5>1, ChunksAreCut
      <4>3. loaded[n] = rows[n] /\ body[n] = rows[n].body
        BY <3>1, <3>2, <4>1, <4>2 DEF Fresh
      <4> QED
        BY <4>2, <4>3, OccursInItself DEF Current
    <3>7. good \subseteq found /\ good \ owed = strays
      OBVIOUS
    <3>8. Cardinality(found \ owed) <= k
      BY <3>1, <3>3
    <3> HIDE DEF good, strays, owed, k
    <3>9. /\ \/ owed \subseteq answer'.hits
             \/ Cardinality(answer'.hits \intersect owed) >= k - Cardinality(strays)
          /\ \A h \in answer'.hits, c \in (found \intersect owed) \ answer'.hits : Far(h) <= Far(c)
      BY <3>1, <3>4, <3>5, <3>6, <3>7, <3>8, EnoughAreLeft
    <3> QED
      BY <3>1, <3>3, <3>9 DEF k
  <2>3. CASE Refuse \/ ListPaths \/ SearchLines \/ ReadLines
    BY <2>3, OthersAnswer
  <2> QED
    BY <2>1, <2>2, <2>3, AnswersAlone DEF Quiet
<1> QED
  BY <1>1, <1>2, Inductive, PTL DEF Spec

-----------------------------------------------------------------------------
\* Paths.

\* Of the nodes with a path that are in a set, one has the shortest.
LEMMA Shortest ==
  ASSUME NEW S, S # {}, \A n \in S : Len(path[n]) \in Nat
  PROVE  \E n \in S : \A m \in S : Len(path[n]) <= Len(path[m])
<1> DEFINE T == {Len(path[n]) : n \in S}
<1>1. T \subseteq Nat /\ T # {}
  OBVIOUS
<1>2. PICK x \in T : \A y \in T : x <= y
  BY <1>1, Least
<1>3. PICK n \in S : x = Len(path[n])
  OBVIOUS
<1> QED
  BY <1>2, <1>3

\* A path is the folder's path and a segment.
LEMMA PathParts ==
  ASSUME IInv, call # None, past = {rows}, NEW n \in Nodes, path[n] # None
  PROVE  LET q == rows[n].parent IN
         /\ rows[n] # None /\ Active(rows, n) /\ loaded[n] = rows[n]
         /\ path[n] \in Seq(Segments) /\ path[n] # <<>> /\ Len(path[n]) \in Nat \ {0}
         /\ q = Top => path[n] = <<Seg(n)>>
         /\ q # Top => /\ q \in Folders /\ q \in Nodes /\ path[q] # None /\ path[q] \in Seq(Segments)
                       /\ path[n] = path[q] \o <<Seg(n)>> /\ path[q] # <<>>
                       /\ Len(path[q]) \in Nat /\ Len(path[n]) = Len(path[q]) + 1
<1> DEFINE q == rows[n].parent
<1>1. Fresh /\ TableOK(rows)
  BY DEF IInv, CallInv, WriterInv
<1>2. rows[n] # None /\ Active(rows, n) /\ loaded[n] = rows[n] /\ rows[n] \in NodeRow
  BY <1>1 DEF Fresh, IInv, Shape, TableOK, Active
<1>3. Seg(n) \in Segments
  BY <1>2, SegmentsAreFresh
<1>4. /\ path[n] \in Seq(Segments)
      /\ q # Top => path[q] # None
      /\ path[n] = (IF q = Top THEN <<>> ELSE path[q]) \o <<Seg(n)>>
  BY <1>1 DEF Fresh
<1>5. q # Top => q \in Folders /\ q \in Nodes
  BY <1>2 DEF NodeRow, Nodes
<1>6. <<Seg(n)>> \in Seq(Segments) /\ Len(<<Seg(n)>>) = 1
  BY <1>3
<1>7. CASE q = Top
  <2>1. path[n] = <<Seg(n)>>
    BY <1>4, <1>6, <1>7, ConcatEmptySeq
  <2> QED
    BY <1>2, <1>4, <1>6, <1>7, <2>1, EmptySeq
<1>8. CASE q # Top
  <2>1. path[q] \in Seq(Segments) /\ \E pre, s : path[q] = pre \o <<s>> /\ pre \in Seq(Segments)
                                                 /\ s \in Segments
    <3> DEFINE r == rows[q].parent
    <3>1. path[q] \in Seq(Segments) /\ rows[q] # None /\ Seg(q) \in Segments
      BY <1>1, <1>4, <1>5, <1>8, SegmentsAreFresh DEF Fresh, IInv, Shape
    <3>2. /\ path[q] = (IF r = Top THEN <<>> ELSE path[r]) \o <<Seg(q)>>
          /\ r # Top => path[r] # None /\ r \in Nodes
      BY <1>1, <1>4, <1>5, <1>8, <3>1 DEF Fresh, TableOK, NodeRow, Nodes
    <3>3. (IF r = Top THEN <<>> ELSE path[r]) \in Seq(Segments)
      BY <1>1, <3>2, EmptySeq DEF Fresh
    <3> QED
      BY <3>1, <3>2, <3>3
  <2>2. Len(path[q]) \in Nat \ {0}
    <3>1. PICK pre, s : path[q] = pre \o <<s>> /\ pre \in Seq(Segments) /\ s \in Segments
      BY <2>1
    <3>2. Len(path[q]) = Len(pre) + 1 /\ Len(pre) \in Nat
      <4>1. <<s>> \in Seq(Segments) /\ Len(<<s>>) = 1
        BY <3>1
      <4> QED
        BY <3>1, <4>1, ConcatProperties, LenProperties
    <3> QED
      BY <3>2
  <2>3. path[n] = path[q] \o <<Seg(n)>>
    BY <1>4, <1>8
  <2>4. Len(path[n]) = Len(path[q]) + 1
    BY <1>6, <2>1, <2>3, ConcatProperties
  <2> QED
    BY <1>2, <1>4, <1>5, <1>8, <2>1, <2>2, <2>3, <2>4, EmptySeq
<1> QED
  BY <1>7, <1>8

\* Two sequences that were extended by one element each.
LEMMA LastApart ==
  ASSUME NEW S, NEW s \in Seq(S), NEW t \in Seq(S), NEW x \in S, NEW y \in S,
         s \o <<x>> = t \o <<y>>
  PROVE  s = t /\ x = y
<1>1. <<x>> \in Seq(S) /\ <<y>> \in Seq(S) /\ Len(<<x>>) = 1 /\ Len(<<y>>) = 1
      /\ <<x>>[1] = x /\ <<y>>[1] = y
  OBVIOUS
<1>2. /\ Len(s \o <<x>>) = Len(s) + 1 /\ Len(s) \in Nat
      /\ \A i \in 1..(Len(s) + 1) : (s \o <<x>>)[i] = IF i <= Len(s) THEN s[i] ELSE <<x>>[i - Len(s)]
  BY <1>1, ConcatProperties, LenProperties
<1>3. /\ Len(t \o <<y>>) = Len(t) + 1 /\ Len(t) \in Nat
      /\ \A i \in 1..(Len(t) + 1) : (t \o <<y>>)[i] = IF i <= Len(t) THEN t[i] ELSE <<y>>[i - Len(t)]
  BY <1>1, ConcatProperties, LenProperties
<1>4. Len(s) = Len(t)
  BY <1>2, <1>3
<1>5. \A i \in 1..Len(s) : s[i] = t[i]
  <2> SUFFICES ASSUME NEW i \in 1..Len(s) PROVE s[i] = t[i]
    OBVIOUS
  <2>1. i \in 1..(Len(s) + 1) /\ i <= Len(s)
    BY <1>2
  <2> QED
    BY <1>2, <1>3, <1>4, <2>1
<1>6. x = y
  <2>1. Len(s) + 1 \in 1..(Len(s) + 1) /\ ~(Len(s) + 1 <= Len(s)) /\ Len(s) + 1 - Len(s) = 1
    BY <1>2
  <2>2. (s \o <<x>>)[Len(s) + 1] = x
    BY <1>1, <1>2, <2>1
  <2>3. (t \o <<y>>)[Len(s) + 1] = y
    BY <1>1, <1>3, <1>4, <2>1
  <2> QED
    BY <2>2, <2>3
<1> QED
  BY <1>4, <1>5, <1>6, SeqEqual

\* If no title is spelled like another node's segment, a path is of one node.
LEMMA PathsInjective ==
  ASSUME IInv, call # None, past = {rows}, NoMimic,
         NEW n \in Nodes, NEW m \in Nodes, path[n] # None, path[n] = path[m]
  PROVE  n = m
<1> DEFINE S == {x \in Nodes : path[x] # None /\ \E y \in Nodes : y # x /\ path[y] = path[x]}
<1> SUFFICES ASSUME S # {} PROVE FALSE
  OBVIOUS
<1>1. \A x \in S : Len(path[x]) \in Nat
  BY PathParts
<1>2. PICK x \in S : \A z \in S : Len(path[x]) <= Len(path[z])
  <2> HIDE DEF S
  <2> QED
    BY <1>1, Shortest
<1>3. PICK y \in Nodes : y # x /\ path[y] = path[x] /\ path[x] # None /\ x \in Nodes
  BY <1>2
<1> DEFINE q == rows[x].parent
           r == rows[y].parent
<1>4. Seg(x) \in Segments /\ Seg(y) \in Segments
  BY <1>3, PathParts, SegmentsAreFresh
<1>5. q = r /\ Seg(x) = Seg(y)
  <2>1. /\ q = Top => path[x] = <<Seg(x)>>
        /\ q # Top => /\ path[q] # None /\ path[q] \in Seq(Segments) /\ path[q] # <<>>
                      /\ path[x] = path[q] \o <<Seg(x)>> /\ q \in Nodes
                      /\ Len(path[q]) \in Nat /\ Len(path[x]) = Len(path[q]) + 1
    BY <1>3, PathParts
  <2>2. /\ r = Top => path[y] = <<Seg(y)>>
        /\ r # Top => /\ path[r] # None /\ path[r] \in Seq(Segments) /\ path[r] # <<>>
                      /\ path[y] = path[r] \o <<Seg(y)>> /\ r \in Nodes
    BY <1>3, PathParts
  <2> DEFINE s == IF q = Top THEN <<>> ELSE path[q]
             t == IF r = Top THEN <<>> ELSE path[r]
  <2>3. s \in Seq(Segments) /\ t \in Seq(Segments)
    BY <2>1, <2>2, EmptySeq
  <2>4. path[x] = s \o <<Seg(x)>>
    <3>1. <<Seg(x)>> \in Seq(Segments)
      BY <1>4
    <3> QED
      BY <2>1, <3>1, ConcatEmptySeq
  <2>5. path[y] = t \o <<Seg(y)>>
    <3>1. <<Seg(y)>> \in Seq(Segments)
      BY <1>4
    <3> QED
      BY <2>2, <3>1, ConcatEmptySeq
  <2> HIDE DEF s, t, q, r
  <2>6. s = t /\ Seg(x) = Seg(y)
    BY <1>3, <1>4, <2>3, <2>4, <2>5, LastApart
  <2>7. (q = Top) <=> (r = Top)
    BY <2>1, <2>2, <2>6 DEF s, t
  <2>8. ASSUME q # Top, q # r PROVE FALSE
    <3>1. path[q] = path[r] /\ path[q] # None /\ q \in Nodes /\ r \in Nodes
      BY <2>1, <2>2, <2>6, <2>7, <2>8 DEF s, t
    <3>2. q \in S
      BY <2>8, <3>1
    <3>3. Len(path[x]) <= Len(path[q])
      BY <1>2, <3>2
    <3> QED
      BY <2>1, <2>8, <3>3
  <2> QED
    BY <2>6, <2>7, <2>8
<1>6. /\ rows[x] # None /\ Active(rows, x)
      /\ rows[y] # None /\ Active(rows, y)
  BY <1>3, PathParts
<1> DEFINE b == SegmentOf[rows[x].title]
           c == SegmentOf[rows[y].title]
<1>7. b.of = None /\ c.of = None
  BY <1>3, <1>6 DEF NoMimic
<1>8. /\ Seg(x) = b \/ Seg(x) = Suffixed(b, x)
      /\ Seg(y) = c \/ Seg(y) = Suffixed(c, y)
      /\ b = c => Seg(x) = Suffixed(b, x) /\ Seg(y) = Suffixed(c, y)
  BY <1>3, <1>5, <1>6 DEF Seg
<1>9. Suffixed(b, x).of = x /\ Suffixed(c, y).of = y /\ x # None /\ y # None
  BY <1>3 DEF Suffixed
<1> QED
  BY <1>3, <1>5, <1>7, <1>8, <1>9

\* Of the nodes in scope each has a path of its own, so that a path which a tool
\* printed leads back to its node, if nothing is committed meanwhile.
THEOREM PathsLeadBack == Spec => []PathsApart
<1>1. Init => PathsApart
  BY DEF Init, PathsApart, Quiet
<1>2. IInv /\ PathsApart /\ [Next]_vars => PathsApart'
  <2> SUFFICES ASSUME IInv, PathsApart, [Next]_vars, Quiet', NoMimic', NEW n \in scope'
               PROVE  ResolvePath(n)' = {n}
    BY DEF PathsApart
  <2>1. CASE UNCHANGED vars
    BY <2>1 DEF vars, calling, PathsApart, Quiet, NoMimic, ResolvePath
  <2>2. CASE ~ UNCHANGED vars
    <3>1. /\ call # None /\ \A m \in scope : path[m] # None
          /\ rows' = rows /\ past' = past /\ scope' = scope /\ path' = path
      BY <2>2, AnswerIsNamed DEF Quiet
    <3>2. past = {rows} /\ NoMimic
      BY <3>1 DEF Quiet, NoMimic
    <3>3. \A m \in scope : path[m] = path[n] => m = n
      BY <3>1, <3>2, PathsInjective DEF IInv, Shape
    <3> QED
      BY <3>1, <3>3 DEF ResolvePath
  <2> QED
    BY <2>1, <2>2
<1> QED
  BY <1>1, <1>2, Inductive, PTL DEF Spec

-----------------------------------------------------------------------------
\* Two ways down a tree.

\* What is a strict prefix of a sequence that was extended by one element.
LEMMA PrefixOfExtended ==
  ASSUME NEW S, NEW a \in Seq(S), NEW t \in Seq(S), NEW x \in S
  PROVE  IsStrictPrefix(a, t \o <<x>>) <=> a = t \/ IsStrictPrefix(a, t)
<1> DEFINE e == t \o <<x>>
<1>1. <<x>> \in Seq(S) /\ Len(<<x>>) = 1
  OBVIOUS
<1>2. /\ e \in Seq(S) /\ Len(e) = Len(t) + 1 /\ Len(t) \in Nat /\ Len(a) \in Nat
      /\ \A i \in 1..(Len(t) + 1) : e[i] = IF i <= Len(t) THEN t[i] ELSE <<x>>[i - Len(t)]
  BY <1>1, ConcatProperties, LenProperties
<1>3. \A i \in 1..Len(t) : e[i] = t[i]
  <2> SUFFICES ASSUME NEW i \in 1..Len(t) PROVE e[i] = t[i]
    OBVIOUS
  <2>1. i \in 1..(Len(t) + 1) /\ i <= Len(t)
    BY <1>2
  <2> QED
    BY <1>2, <2>1
<1> HIDE DEF e
<1>4. IsPrefix(a, e) <=> Len(a) <= Len(e) /\ \A i \in 1..Len(a) : a[i] = e[i]
  BY <1>2, PrefixByElement
<1>5. IsPrefix(a, t) <=> Len(a) <= Len(t) /\ \A i \in 1..Len(a) : a[i] = t[i]
  BY PrefixByElement
<1>6. ASSUME IsPrefix(a, t) PROVE IsPrefix(a, e) /\ a # e
  BY <1>2, <1>3, <1>4, <1>5, <1>6
<1>7. ASSUME IsPrefix(a, e), a # e PROVE IsPrefix(a, t)
  <2>1. Len(a) # Len(e)
    BY <1>2, <1>4, <1>7, SeqEqual
  <2>2. Len(a) <= Len(t)
    BY <1>2, <1>4, <1>7, <2>1
  <2> QED
    BY <1>2, <1>3, <1>4, <1>5, <1>7, <2>2
<1>8. IsPrefix(t, t)
  BY <1>2, PrefixByElement
<1> QED
  BY <1>6, <1>7, <1>8 DEF IsStrictPrefix, e

\* A path begins with the paths of the folders above, and with no others.
LEMMA PrefixIsAbove ==
  ASSUME IInv, call # None, past = {rows}, NEW u \in Nodes, NEW n \in Nodes,
         path[u] # None, path[n] # None
  PROVE  IsStrictPrefix(path[u], path[n]) <=>
           LET q == rows[n].parent IN
           q # Top /\ (path[u] = path[q] \/ IsStrictPrefix(path[u], path[q]))
<1> DEFINE q == rows[n].parent
<1>1. path[u] \in Seq(Segments) /\ path[u] # <<>> /\ Seg(n) \in Segments
  BY PathParts, SegmentsAreFresh
<1>2. CASE q # Top
  <2>1. path[q] \in Seq(Segments) /\ path[n] = path[q] \o <<Seg(n)>>
    BY <1>2, PathParts
  <2> QED
    BY <1>1, <1>2, <2>1, PrefixOfExtended
<1>3. CASE q = Top
  <2>1. path[n] = <<Seg(n)>> /\ <<>> \in Seq(Segments) /\ <<Seg(n)>> \in Seq(Segments)
    BY <1>1, <1>3, PathParts, EmptySeq
  <2>2. path[n] = <<>> \o <<Seg(n)>>
    BY <2>1, ConcatEmptySeq
  <2>3. ~ IsStrictPrefix(path[u], <<>>)
    <3>1. Len(path[u]) \in Nat \ {0} /\ Len(<<>>) = 0
      BY PathParts
    <3> QED
      BY <3>1 DEF IsStrictPrefix, IsPrefix
  <2>4. IsStrictPrefix(path[u], path[n]) <=> path[u] = <<>> \/ IsStrictPrefix(path[u], <<>>)
    BY <1>1, <2>1, <2>2, PrefixOfExtended
  <2> QED
    BY <1>1, <1>3, <2>3, <2>4
<1> QED
  BY <1>2, <1>3

\* From the top level down, level by level, everything in scope is listed.
LEMMA AllAreListed ==
  ASSUME IInv, call # None, past = {rows}, \A n \in scope : path[n] # None
  PROVE  Listed(TopLevel, TRUE) = scope
<1> SUFFICES ASSUME NEW C \in SUBSET scope, TopLevel \subseteq C,
                    \A m \in scope : loaded[m].parent \in C => m \in C,
                    scope \ C # {}
             PROVE  FALSE
  BY DEF Listed
<1>1. scope \subseteq Nodes
  BY DEF IInv, Shape
<1>2. \A n \in scope \ C : Len(path[n]) \in Nat
  BY <1>1, PathParts
<1>3. PICK n \in scope \ C : \A m \in scope \ C : Len(path[n]) <= Len(path[m])
  BY <1>2, Shortest
<1> DEFINE q == rows[n].parent
<1>4. n \in Nodes /\ path[n] # None /\ loaded[n].parent = q
  BY <1>1, PathParts
<1>5. q \in scope \ C
  BY <1>4 DEF TopLevel
<1>6. Len(path[n]) = Len(path[q]) + 1 /\ Len(path[q]) \in Nat
  <2>1. q # Top
    BY <1>1, <1>5
  <2> QED
    BY <1>4, <2>1, PathParts
<1> QED
  BY <1>3, <1>5, <1>6

\* Level by level, what has a folder's path for a prefix is listed.
LEMMA BelowAreListed ==
  ASSUME IInv, call # None, past = {rows}, NoMimic, \A n \in scope : path[n] # None,
         NEW u \in scope
  PROVE  Listed({n \in scope : loaded[n].parent = u}, TRUE)
           = {n \in scope : IsStrictPrefix(path[u], path[n])}
<1> DEFINE frontier == {n \in scope : loaded[n].parent = u}
           B == {n \in scope : IsStrictPrefix(path[u], path[n])}
<1>1. scope \subseteq Nodes /\ u \in Nodes /\ path[u] # None
  BY DEF IInv, Shape
<1>2. \A n \in scope : path[n] # None /\ n \in Nodes /\ loaded[n].parent = rows[n].parent
  BY <1>1, PathParts
<1>3. u # Top
  BY <1>1
<1>4. frontier \subseteq B
  BY <1>1, <1>2, <1>3, PrefixIsAbove
<1>5. \A m \in scope : loaded[m].parent \in B => m \in B
  <2> SUFFICES ASSUME NEW m \in scope, rows[m].parent \in B PROVE m \in B
    BY <1>2
  <2>1. rows[m].parent # Top
    BY <1>1
  <2> QED
    BY <1>1, <1>2, <2>1, PrefixIsAbove
<1>6. Listed(frontier, TRUE) \subseteq B
  <2>1. B \in SUBSET scope
    OBVIOUS
  <2> HIDE DEF B, frontier
  <2> QED
    BY <1>4, <1>5, <2>1 DEF Listed
<1>7. ASSUME NEW C \in SUBSET scope, frontier \subseteq C,
             \A m \in scope : loaded[m].parent \in C => m \in C
      PROVE  B \subseteq C
  <2> DEFINE S == {n \in Nodes : path[n] # None /\ IsStrictPrefix(path[u], path[n]) /\ n \notin C}
  <2> SUFFICES ASSUME S # {} PROVE FALSE
    BY <1>2
  <2>1. \A n \in S : Len(path[n]) \in Nat
    BY PathParts
  <2>2. PICK n \in S : \A m \in S : Len(path[n]) <= Len(path[m])
    <3> HIDE DEF S
    <3> QED
      BY <2>1, Shortest
  <2> DEFINE q == rows[n].parent
  <2>3. n \in Nodes /\ path[n] # None /\ IsStrictPrefix(path[u], path[n]) /\ n \notin C
    BY <2>2
  <2>4. q # Top /\ (path[u] = path[q] \/ IsStrictPrefix(path[u], path[q]))
    BY <1>1, <2>3, PrefixIsAbove
  <2>5. /\ Active(rows, n) /\ loaded[n].parent = q
        /\ q \in Nodes /\ path[q] # None
        /\ Len(path[q]) \in Nat /\ Len(path[n]) = Len(path[q]) + 1
    BY <2>3, <2>4, PathParts
  <2>6. Fresh
    BY DEF IInv, CallInv
  <2>7. CASE path[u] = path[q]
    <3>1. u = q
      BY <1>1, <2>5, <2>7, PathsInjective
    <3>2. n \in scope
      BY <2>3, <2>5, <2>6, <3>1 DEF Fresh
    <3> QED
      BY <1>7, <2>3, <2>5, <3>1, <3>2
  <2>8. CASE IsStrictPrefix(path[u], path[q])
    <3>1. q \in C
      <4>1. q \notin S
        BY <2>2, <2>5
      <4> QED
        BY <2>5, <2>8, <4>1
    <3>2. n \in scope
      BY <2>3, <2>5, <2>6, <3>1 DEF Fresh
    <3> QED
      BY <1>7, <2>3, <2>5, <3>1, <3>2
  <2> QED
    BY <2>4, <2>7, <2>8
<1>8. B \subseteq Listed(frontier, TRUE)
  <2> HIDE DEF frontier
  <2> QED
    BY <1>7 DEF Listed
<1> QED
  BY <1>6, <1>8

\* A finite set's sequence has its elements.
LEMMA SequenceOfSet ==
  ASSUME NEW S, IsFiniteSet(S)
  PROVE  ToSet(SetToSeq(S)) = S
<1>1. PICK f : f \in Bijection(1..Cardinality(S), S)
  BY FS_CardinalityType DEF ExistsBijection
<1>2. f \in [1..Cardinality(S) -> S] /\ IsInjective(f)
  BY <1>1 DEF Bijection, Surjection, Injection, IsInjective
<1>3. SetToSeq(S) \in [1..Cardinality(S) -> S] /\ IsInjective(SetToSeq(S))
  BY <1>2, Zenon DEF SetToSeq
<1>4. SetToSeq(S) \in Surjection(1..Cardinality(S), S)
  <2>1. SetToSeq(S) \in Injection(1..Cardinality(S), S)
    BY <1>3 DEF Injection, IsInjective
  <2>2. Cardinality(1..Cardinality(S)) = Cardinality(S) /\ IsFiniteSet(1..Cardinality(S))
    BY FS_CardinalityType, FS_Interval
  <2> QED
    BY <2>1, <2>2, FS_Injection
<1> QED
  BY <1>4 DEF Surjection, ToSet

\* The two ways of going down a tree agree: what list_paths(recursive) finds
\* along the parent ids is what search_lines takes by the paths' prefixes.
THEOREM WaysDownAgree == Spec => []SubtreesAgree
<1>1. Init => SubtreesAgree
  BY DEF Init, SubtreesAgree, Quiet
<1>2. IInv /\ SubtreesAgree /\ [Next]_vars => SubtreesAgree'
  <2> SUFFICES ASSUME IInv, SubtreesAgree, [Next]_vars, Quiet', NoMimic',
                      answer'.tool = "list", answer'.call.recursive
               PROVE  {line.node : line \in ToSet(answer'.all)}
                        = Targets(answer.under)' \ {answer'.under}
    BY DEF SubtreesAgree
  <2>1. CASE UNCHANGED vars
    BY <2>1 DEF vars, calling, SubtreesAgree, Quiet, NoMimic, Targets
  <2>2. CASE ~ UNCHANGED vars
    <3>1. /\ call # None /\ \A m \in scope : path[m] # None
          /\ rows' = rows /\ past' = past /\ scope' = scope /\ path' = path
      BY <2>2, AnswerIsNamed DEF Quiet
    <3>2. past = {rows} /\ NoMimic
      BY <3>1 DEF Quiet, NoMimic
    <3>3. ListPaths
      BY <2>2, AnswersAlone, ListsAnswer DEF Quiet
    <3>4. PICK under \in (IF call.at = None THEN {None} ELSE ResolvePath(call.at)) :
            LET frontier == IF under = None THEN TopLevel ELSE {n \in scope : loaded[n].parent = under}
                lines == SetToSeq({PathLine(n) : n \in Listed(frontier, call.recursive)})
            IN answer' = Lines(under, lines, Truncate(lines, call.maxChars))
      BY <3>3 DEF ListPaths, Returns
    <3> DEFINE frontier == IF under = None THEN TopLevel ELSE {n \in scope : loaded[n].parent = under}
               listed == Listed(frontier, TRUE)
    <3>5. answer'.call = call /\ answer'.under = under
      BY <3>4 DEF Lines
    <3>6. answer'.all = SetToSeq({PathLine(n) : n \in listed})
      BY <3>4, <3>5 DEF Lines
    <3>7. listed \subseteq scope /\ IsFiniteSet(listed)
      <4>1. listed \subseteq scope
        BY DEF Listed
      <4> HIDE DEF listed
      <4> QED
        BY <4>1, NodesAreFinite, FS_Subset DEF IInv, Shape
    <3>8. listed = Targets(under) \ {under}
      <4>1. CASE under = None
        BY <3>1, <3>2, <4>1, AllAreListed DEF Targets, IInv, Shape
      <4>2. CASE under # None
        <5>1. under \in scope
          BY <3>4, <4>2 DEF ResolvePath
        <5>2. listed = {n \in scope : IsStrictPrefix(path[under], path[n])}
          BY <3>1, <3>2, <4>2, <5>1, BelowAreListed
        <5> QED
          BY <4>2, <5>2 DEF Targets, IsStrictPrefix
      <4> QED
        BY <4>1, <4>2
    <3> HIDE DEF listed
    <3>9. {line.node : line \in ToSet(answer'.all)} = listed
      <4> DEFINE f == [n \in listed |-> PathLine(n)]
                 L == {f[n] : n \in listed}
      <4>1. L = {PathLine(n) : n \in listed}
        OBVIOUS
      <4>2. IsFiniteSet(L)
        BY <3>7, FiniteImage
      <4>3. ToSet(answer'.all) = L
        BY <3>6, <4>1, <4>2, SequenceOfSet
      <4>4. \A n \in listed : PathLine(n).node = n
        BY DEF PathLine
      <4> HIDE DEF L
      <4> QED
        BY <4>1, <4>3, <4>4
    <3>10. Targets(answer.under)' = Targets(under)
      BY <3>1, <3>5 DEF Targets
    <3> QED
      BY <3>5, <3>8, <3>9, <3>10
  <2> QED
    BY <2>1, <2>2
<1> QED
  BY <1>1, <1>2, Inductive, PTL DEF Spec

-----------------------------------------------------------------------------
\* Cutting an answer.

\* What lines cost is a number.
LEMMA CostType ==
  ASSUME NEW S, \A x \in S : x.width \in Nat, NEW lines \in Seq(S)
  PROVE  Cost(lines) \in Nat /\ (lines = <<>> => Cost(lines) = 0)
<1> DEFINE D == DOMAIN lines
           Eq(f) == f = [s \in SUBSET D |->
                            IF s = {} THEN 0
                            ELSE LET x == CHOOSE x \in s : TRUE
                                 IN  f[s \ {x}] + lines[x].width + 1]
           h == CHOOSE h : Eq(h)
           c == [s \in SUBSET D |-> CHOOSE x \in s : TRUE]
           G == [p \in D \X Nat |-> p[2] + lines[p[1]].width + 1]
<1>1. Cost(lines) = h[D]
  BY DEF Cost, FoldSeq, FoldFunction, FoldFunctionOnSet, MapThenFoldSet
<1>2. /\ \A x \in D : lines[x].width \in Nat
      /\ IsFiniteSet(D) /\ D \in SUBSET D
      /\ lines = <<>> => D = {}
  BY FS_Interval
<1> HIDE DEF D
<1>3. \A s \in SUBSET D : s # {} => c[s] \in s /\ c[s] = CHOOSE x \in s : TRUE
  OBVIOUS
<1>4. ASSUME NEW x \in D, NEW t \in Nat
      PROVE  G[<<x, t>>] = t + lines[x].width + 1 /\ G[<<x, t>>] \in Nat
  <2>1. <<x, t>> \in D \X Nat /\ <<x, t>>[1] = x /\ <<x, t>>[2] = t
    OBVIOUS
  <2> QED
    BY <1>2, <2>1
<1>5. G \in [D \X Nat -> Nat]
  BY <1>2
<1> HIDE DEF c, G
<1>6. PICK f \in [SUBSET D -> Nat] : Folding(f, D, 0, c, G)
  BY <1>2, <1>3, <1>5, RecursionExists
<1>7. \A s \in SUBSET D : s # {} => f[s] = f[s \ {c[s]}] + lines[c[s]].width + 1
  BY <1>3, <1>4, <1>6 DEF Folding
<1>8. f[{}] = 0
  BY <1>6 DEF Folding
<1>9. Eq(f)
  <2> DEFINE r == [s \in SUBSET D |->
                            IF s = {} THEN 0
                            ELSE LET x == CHOOSE x \in s : TRUE
                                 IN  f[s \ {x}] + lines[x].width + 1]
  <2>1. \A s \in SUBSET D : f[s] = r[s]
    BY <1>3, <1>7, <1>8
  <2> QED
    BY <2>1
<1>10. Eq(h)
  <2> HIDE DEF Eq
  <2> QED
    BY <1>9
<1> HIDE DEF h
<1>11. h[{}] = 0
  BY <1>10
<1>12. \A s \in SUBSET D : s # {} => h[s] = h[s \ {c[s]}] + lines[c[s]].width + 1
  BY <1>3, <1>10
<1> HIDE DEF Eq
<1> DEFINE P == {s \in SUBSET D : h[s] \in Nat}
<1>13. {} \in P
  BY <1>11
<1>14. ASSUME NEW s \in SUBSET D, s # {}, s \ {c[s]} \in P PROVE s \in P
  <2>1. c[s] \in D /\ h[s \ {c[s]}] \in Nat
    BY <1>3, <1>14
  <2> HIDE DEF P
  <2>2. lines[c[s]].width \in Nat
    BY <1>2, <2>1
  <2>3. h[s] = h[s \ {c[s]}] + lines[c[s]].width + 1
    BY <1>12, <1>14
  <2>4. h[s] \in Nat
    BY <2>1, <2>2, <2>3
  <2> QED
    BY <2>4 DEF P
<1> HIDE DEF P
<1>15. SUBSET D \subseteq P
  <2>1. Grows(P, D, c)
    BY <1>3, <1>13, <1>14 DEF Grows
  <2> QED
    BY <1>2, <2>1, SubsetInduction
<1>16. D \in P
  BY <1>2, <1>15
<1> QED
  BY <1>1, <1>2, <1>11, <1>16 DEF P

\* What fits is the first of the lines.
LEMMA FittingIsFirst ==
  ASSUME NEW S, NEW lines \in Seq(S), NEW budget
  PROVE  Fitting(lines, budget) \in Seq(S) /\ IsPrefix(Fitting(lines, budget), lines)
<1> DEFINE T == {0} \union {i \in 1..Len(lines) : Cost(SubSeq(lines, 1, i)) <= budget}
<1>1. Len(lines) \in Nat
  BY LenProperties
<1>2. T \subseteq 0..Len(lines) /\ T # {}
  BY <1>1
<1>3. Fitting(lines, budget) = SubSeq(lines, 1, Max(T))
  BY DEF Fitting
<1> HIDE DEF T
<1>4. Max(T) \in 0..Len(lines)
  BY <1>1, <1>2, MaxIsGreatest
<1> QED
  BY <1>3, <1>4, FirstLines

\* search_lines stops only when it has read more than fits.
LEMMA ReadUntilFull ==
  ASSUME NEW S, NEW lines \in Seq(S), NEW maxChars
  PROVE  LET read == ReadUntil(lines, maxChars) IN
         /\ read \in Seq(S) /\ IsPrefix(read, lines)
         /\ read = lines \/ Cost(read) > maxChars
<1> DEFINE T == {Len(lines)} \union {i \in 1..Len(lines) : /\ lines[i] # Separator
                                                           /\ Cost(SubSeq(lines, 1, i)) > maxChars}
<1>1. Len(lines) \in Nat
  BY LenProperties
<1>2. T \subseteq 0..Len(lines) /\ T \subseteq Nat /\ T # {}
  BY <1>1
<1>3. ReadUntil(lines, maxChars) = SubSeq(lines, 1, Min(T))
  BY DEF ReadUntil
<1>4. \A i \in T : i = Len(lines) \/ Cost(SubSeq(lines, 1, i)) > maxChars
  OBVIOUS
<1> HIDE DEF T
<1>5. Min(T) \in T
  BY <1>2, MinIsLeast
<1>6. Min(T) \in 0..Len(lines)
  BY <1>2, <1>5
<1> QED
  BY <1>3, <1>4, <1>5, <1>6, FirstLines

\* An answer fits, has the first lines, and is called truncated if it lacks any.
LEMMA TruncateHonest ==
  ASSUME NEW S, \A x \in S : x.width \in Nat, NEW lines \in Seq(S), NEW maxChars \in Nat \ {0}
  PROVE  LET cut == Truncate(lines, maxChars) IN
         /\ cut.width \in Int /\ cut.width <= maxChars
         /\ cut.lines \in Seq(S) /\ IsPrefix(cut.lines, lines)
         /\ cut.truncated \/ (cut.lines = lines /\ cut.width = Cost(lines) - 1)
<1>1. Cost(lines) \in Nat
  BY CostType
<1>2. CASE JoinedWidth(lines) <= maxChars
  <2>1. Truncate(lines, maxChars)
          = [lines |-> lines, width |-> JoinedWidth(lines), truncated |-> FALSE]
    BY <1>2 DEF Truncate
  <2>2. IsPrefix(lines, lines)
    <3>1. Len(lines) \in Nat
      BY LenProperties
    <3> QED
      BY <3>1, PrefixByElement
  <2> QED
    BY <1>1, <1>2, <2>1, <2>2 DEF JoinedWidth
<1>3. CASE ~(JoinedWidth(lines) <= maxChars)
  <2> DEFINE budget == maxChars - NoticeWidth - 1
             kept == Fitting(lines, budget)
             part == IF kept = <<>> /\ budget > 0 THEN Min({budget, lines[1].width}) + 1 ELSE 0
             width == Cost(kept) + part + NoticeWidth
  <2>1. Truncate(lines, maxChars)
          = [lines |-> kept, width |-> Min({maxChars, width}), truncated |-> TRUE]
    BY <1>3 DEF Truncate
  <2>2. kept \in Seq(S) /\ IsPrefix(kept, lines)
    BY FittingIsFirst
  <2>3. Cost(kept) \in Nat
    BY <2>2, CostType
  <2>4. NoticeWidth \in Nat
    BY NoticeWidthAssumption
  <2>5. part \in Nat
    <3>1. lines[1].width \in Nat
      <4>1. lines # <<>>
        BY <1>1, <1>3, CostType DEF JoinedWidth
      <4>2. lines[1] \in S
        <5>1. 1 \in 1..Len(lines)
          BY <4>1, LenProperties, EmptySeq
        <5> QED
          BY <5>1, ElementOfSeq
      <4> QED
        BY <4>2
    <3>2. budget \in Int
      BY <2>4
    <3> HIDE DEF kept, budget
    <3>3. budget > 0 => Min({budget, lines[1].width}) \in Nat
      <4> SUFFICES ASSUME budget > 0 PROVE Min({budget, lines[1].width}) \in Nat
        OBVIOUS
      <4>1. budget \in Nat
        BY <3>2
      <4> QED
        BY <3>1, <4>1, MinOfTwo
    <3> QED
      BY <3>3
  <2> HIDE DEF kept, part
  <2>6. width \in Nat
    BY <2>3, <2>4, <2>5
  <2> HIDE DEF width
  <2>7. Min({maxChars, width}) \in Int /\ Min({maxChars, width}) <= maxChars
    BY <2>6, MinOfTwo
  <2> QED
    BY <2>1, <2>2, <2>7
<1> QED
  BY <1>2, <1>3

-----------------------------------------------------------------------------
\* The lines of an answer.

\* A virtual file as a tool finds it: the front that was loaded before, and the
\* content as it is now.
VirtualLines(n) == Render(n, loaded[n], Content(n))

\* Both ways of numbering, Postgres's and Python's, are the lines in their order.
NumberedLine(n, i, w) == [node |-> n, at |-> i, line |-> VirtualLines(n)[i], width |-> w]

\* The lines a tool can print in this state.
Printed ==
  {PathLine(n) : n \in {m \in Nodes : path[m] # None}}
  \union {Separator}
  \union UNION {{NumberedLine(n, i, w) : i \in 1..Len(VirtualLines(n)), w \in Nat} :
                  n \in {m \in Nodes : loaded[m] # None}}

\* A virtual file is front lines, and text lines after them.
LEMMA VirtualLinesTyped ==
  ASSUME IInv, call # None, NEW n \in Nodes, loaded[n] # None
  PROVE  /\ loaded[n] \in NodeRow /\ rows[n] \in NodeRow /\ Content(n) = rows[n].body
         /\ RenderBody(rows[n].body) \in Seq(TextLines)
         /\ VirtualLines(n) = RenderFrontmatter(n, loaded[n]) \o RenderBody(rows[n].body)
         /\ VirtualLines(n) \in Seq(FrontLines \union TextLines)
<1> DEFINE b == rows[n].body
           All == FrontLines \union TextLines
<1>1. loaded[n] \in NodeRow /\ rows[n] \in NodeRow
  BY LoadedAreRows DEF IInv, WriterInv, TableOK
<1>2. b \in Seq(Texts)
  BY <1>1, BodiesAreLines, EmptySeq DEF NodeRow
<1>3. Content(n) = b
  BY <1>1 DEF Content, IInv, WriterInv, TableOK, Nodes
<1>4. VirtualLines(n) = RenderFrontmatter(n, loaded[n]) \o RenderBody(b)
  BY <1>3 DEF VirtualLines, Render
<1>5. RenderBody(b) \in Seq(TextLines)
  BY <1>2, BodyIsText
<1> HIDE DEF b
<1>6. RenderFrontmatter(n, loaded[n]) \in Seq(All) /\ RenderBody(b) \in Seq(All)
  BY <1>1, <1>5, FrontIsFront, SeqMonotonic
<1> HIDE DEF All
<1>7. VirtualLines(n) \in Seq(All)
  BY <1>4, <1>6, ConcatProperties
<1> QED
  BY <1>1, <1>3, <1>4, <1>5, <1>7 DEF b, All

\* A line is so many characters wide.
LEMMA LineWidthType ==
  ASSUME NEW line \in FrontLines \union TextLines
  PROVE  LineWidth(line) \in Nat
<1>1. line.key = "text" => line.of \in Texts \union {None}
  BY DEF FrontLines, TextLines, Line
<1> QED
  BY <1>1, WidthsAssumption DEF LineWidth

\* A path is so many characters wide.
LEMMA PathWidthType ==
  ASSUME IInv, NEW n \in Nodes, path[n] # None
  PROVE  loaded[n] # None /\ PathWidth * Len(path[n]) \in Nat
<1>1. \A a, b \in Nat : a * b \in Nat
  OBVIOUS
<1>2. Len(path[n]) \in Nat
  BY LenProperties DEF IInv, Shape
<1> QED
  BY <1>1, <1>2, WidthsAssumption DEF IInv, Shape

\* So is everything that is printed.
LEMMA PrintedWidths ==
  ASSUME IInv
  PROVE  \A x \in Printed : x.width \in Nat
<1>1. ASSUME NEW n \in Nodes, path[n] # None PROVE PathLine(n).width \in Nat
  BY <1>1, PathWidthType DEF PathLine
<1>2. \A n, i : \A w \in Nat : NumberedLine(n, i, w).width \in Nat
  BY DEF NumberedLine
<1>3. Separator.width \in Nat
  BY DEF Separator
<1> QED
  BY <1>1, <1>2, <1>3 DEF Printed

\* A line with a number has its number in the virtual file.
LEMMA PrintedTrue ==
  ASSUME NEW x \in Printed, "at" \in DOMAIN x
  PROVE  /\ x.node \in Nodes /\ loaded[x.node] # None
         /\ x.at \in 1..Len(VirtualLines(x.node)) /\ x.line = VirtualLines(x.node)[x.at]
<1>1. x # Separator
  BY DEF Separator
<1>2. \A n : x # PathLine(n)
  BY DEF PathLine
<1>3. PICK n \in Nodes : loaded[n] # None
        /\ \E i \in 1..Len(VirtualLines(n)), w \in Nat : x = NumberedLine(n, i, w)
  BY <1>1, <1>2 DEF Printed
<1>4. PICK i \in 1..Len(VirtualLines(n)), w \in Nat : x = NumberedLine(n, i, w)
  BY <1>3
<1>5. x.node = n /\ x.at = i /\ x.line = VirtualLines(n)[i]
  BY <1>4 DEF NumberedLine
<1> QED
  BY <1>3, <1>4, <1>5

\* The sequence of a finite set.
LEMMA SequenceType ==
  ASSUME NEW S, NEW T \in SUBSET S, IsFiniteSet(T)
  PROVE  SetToSeq(T) \in Seq(S)
<1>1. PICK f : f \in Bijection(1..Cardinality(T), T)
  BY FS_CardinalityType DEF ExistsBijection
<1>2. f \in [1..Cardinality(T) -> T] /\ IsInjective(f)
  BY <1>1 DEF Bijection, Surjection, Injection, IsInjective
<1>3. SetToSeq(T) \in [1..Cardinality(T) -> T] /\ Cardinality(T) \in Nat
  BY <1>2, FS_CardinalityType, Zenon DEF SetToSeq
<1> QED
  BY <1>3

\* What one file contributes to a search.
LEMMA HitLinesPrinted ==
  ASSUME IInv, call \in Calls, call.tool = "search", call # None,
         NEW n \in Nodes, path[n] # None, NEW cut
  PROVE  HitLines(n, cut) \in Seq(Printed)
<1> DEFINE lines == VirtualLines(n)
           numbered == SearchRows(n)
           line(i) == HitLine(n, numbered[i])
           hits == [i \in 1..Len(numbered) |-> IF Near(numbered, i, cut) THEN <<line(i)>> ELSE <<>>]
<1>1. /\ loaded[n] # None /\ PathWidth * Len(path[n]) \in Nat
      /\ lines \in Seq(FrontLines \union TextLines) /\ Len(lines) \in Nat
  BY PathWidthType, VirtualLinesTyped, LenProperties
<1>2. /\ numbered = [i \in 1..Len(lines) |-> [at |-> i, line |-> lines[i]]]
      /\ Len(numbered) = Len(lines)
  <2>1. numbered = [i \in 1..Len(lines) |-> [at |-> i, line |-> lines[i]]]
    BY DEF SearchRows, VirtualLines, Render
  <2> HIDE DEF numbered, lines
  <2> QED
    BY <1>1, <2>1
<1>3. ASSUME NEW i \in 1..Len(lines) PROVE line(i) \in Printed
  <2> DEFINE indent == PathWidth * Len(path[n])
             w == indent + Min({LineWidth(lines[i]), call.maxChars})
  <2>1. numbered[i].at = i /\ numbered[i].line = lines[i]
    <3> HIDE DEF numbered, lines
    <3> QED
      BY <1>2
  <2>2. line(i) = NumberedLine(n, i, w)
    <3> HIDE DEF numbered
    <3> QED
      BY <2>1 DEF HitLine, NumberedLine
  <2>3. LineWidth(lines[i]) \in Nat
    <3>1. lines[i] \in FrontLines \union TextLines
      <4> HIDE DEF lines
      <4> QED
        BY <1>1, ElementOfSeq
    <3> QED
      BY <3>1, LineWidthType
  <2>4. call.maxChars \in Nat
    BY CallsAssumption
  <2>5. w \in Nat
    <3> HIDE DEF indent, lines
    <3>1. Min({LineWidth(lines[i]), call.maxChars}) \in Nat
      BY <2>3, <2>4, MinOfTwo
    <3>2. indent \in Nat
      BY <1>1 DEF indent
    <3> QED
      BY <3>1, <3>2
  <2> HIDE DEF w, line
  <2>6. i \in 1..Len(VirtualLines(n))
    OBVIOUS
  <2> QED
    BY <1>1, <2>2, <2>5, <2>6 DEF Printed
<1>4. PathLine(n) \in Printed
  BY DEF Printed
<1>5. <<PathLine(n)>> \in Seq(Printed) /\ <<>> \in Seq(Printed)
  <2> HIDE DEF Printed
  <2> QED
    BY <1>4, EmptySeq
<1>6. HitLines(n, cut) =
        IF ~call.filesOnly THEN FlattenSeq(hits)
        ELSE IF \E i \in 1..Len(numbered) : Near(numbered, i, cut) THEN <<PathLine(n)>> ELSE <<>>
  BY DEF HitLines
<1> HIDE DEF lines, numbered
<1>7. hits \in Seq(Seq(Printed))
  <2> DEFINE hit(i) == IF Near(numbered, i, cut) THEN <<line(i)>> ELSE <<>>
  <2>1. ASSUME NEW i \in 1..Len(numbered) PROVE hit(i) \in Seq(Printed)
    <3>1. line(i) \in Printed
      BY <1>2, <1>3
    <3> HIDE DEF Printed, line
    <3>2. <<line(i)>> \in Seq(Printed)
      BY <3>1
    <3> QED
      BY <1>5, <3>2
  <2> HIDE DEF hit, Printed
  <2>2. [i \in 1..Len(numbered) |-> hit(i)] \in Seq(Seq(Printed))
    BY <1>1, <1>2, <2>1
  <2> QED
    BY <2>2 DEF hit
<1> HIDE DEF hits
<1>8. FlattenSeq(hits) \in Seq(Printed)
  BY <1>7, FlattenType
<1> QED
  BY <1>5, <1>6, <1>8

\* A pattern whose matches all end within max_chars finds the same in a line
\* and in its first max_chars characters.
LEMMA CutFindsTheSame ==
  ASSUME call \in Calls, call.tool = "search", ~MatchesBeyond(call), NEW under
  PROVE  Hits(under, TRUE) = Hits(under, FALSE)
<1>1. ASSUME NEW line PROVE Matches(line, TRUE) <=> Matches(line, FALSE)
  <2>1. \A what \in DOMAIN call.pattern : call.pattern[what] \in Nat
    BY CallsAssumption
  <2>2. call.maxChars \in Nat
    BY CallsAssumption
  <2>3. \A what \in DOMAIN call.pattern : call.pattern[what] <= call.maxChars
    BY <2>1, <2>2 DEF MatchesBeyond
  <2> QED
    BY <2>3 DEF Matches
<1>2. ASSUME NEW numbered, NEW i PROVE Near(numbered, i, TRUE) <=> Near(numbered, i, FALSE)
  BY <1>1 DEF Near
<1>3. ASSUME NEW n PROVE HitLines(n, TRUE) = HitLines(n, FALSE)
  <2> DEFINE numbered == SearchRows(n)
             hits(cut) == [i \in 1..Len(numbered) |->
                             IF Near(numbered, i, cut) THEN <<HitLine(n, numbered[i])>> ELSE <<>>]
  <2>1. \A cut : HitLines(n, cut) =
          IF ~call.filesOnly THEN FlattenSeq(hits(cut))
          ELSE IF \E i \in 1..Len(numbered) : Near(numbered, i, cut) THEN <<PathLine(n)>> ELSE <<>>
    BY DEF HitLines
  <2> HIDE DEF numbered
  <2>2. hits(TRUE) = hits(FALSE)
    BY <1>2
  <2> HIDE DEF hits
  <2> QED
    BY <1>2, <2>1, <2>2
<1> DEFINE targets == SetToSeq(Targets(under))
           all(cut) == [i \in 1..Len(targets) |-> HitLines(targets[i], cut)]
<1>4. \A cut : Hits(under, cut) = Separated(FlattenSeq(all(cut)))
  BY DEF Hits
<1> HIDE DEF targets
<1>5. all(TRUE) = all(FALSE)
  BY <1>3
<1> HIDE DEF all
<1> QED
  BY <1>4, <1>5

\* Separators between the groups of lines.
LEMMA SeparatedPrinted ==
  ASSUME NEW lines \in Seq(Printed)
  PROVE  Separated(lines) \in Seq(Printed)
<1>1. CASE call.filesOnly \/ call.context = 0
  BY <1>1 DEF Separated
<1>2. CASE ~(call.filesOnly \/ call.context = 0)
  <2> DEFINE group(i) ==
         IF i = 1 \/ (lines[i].node = lines[i - 1].node /\ lines[i].at = lines[i - 1].at + 1)
           THEN <<lines[i]>> ELSE <<Separator, lines[i]>>
             groups == [i \in 1..Len(lines) |-> group(i)]
  <2>1. Separated(lines) = FlattenSeq(groups)
    BY <1>2 DEF Separated
  <2>2. Separator \in Printed /\ Len(lines) \in Nat
    BY LenProperties DEF Printed
  <2>3. ASSUME NEW i \in 1..Len(lines) PROVE group(i) \in Seq(Printed)
    <3>1. lines[i] \in Printed
      BY ElementOfSeq
    <3> HIDE DEF Printed
    <3>2. <<lines[i]>> \in Seq(Printed) /\ <<Separator, lines[i]>> \in Seq(Printed)
      BY <2>2, <3>1
    <3> QED
      BY <3>2
  <2> HIDE DEF group, Printed
  <2>4. groups \in Seq(Seq(Printed))
    BY <2>2, <2>3
  <2> HIDE DEF groups
  <2> QED
    BY <2>1, <2>4, FlattenType
<1> QED
  BY <1>1, <1>2

\* What list_paths prints.
LEMMA ListsPrinted ==
  ASSUME IInv, call # None, NEW listed \in SUBSET scope, \A n \in scope : path[n] # None
  PROVE  SetToSeq({PathLine(n) : n \in listed}) \in Seq(Printed)
<1> DEFINE f == [n \in listed |-> PathLine(n)]
           L == {f[n] : n \in listed}
<1>1. L = {PathLine(n) : n \in listed}
  OBVIOUS
<1>2. IsFiniteSet(listed) /\ scope \subseteq Nodes
  BY NodesAreFinite, FS_Subset DEF IInv, Shape
<1>3. IsFiniteSet(L)
  BY <1>2, FiniteImage
<1>4. L \subseteq Printed
  BY <1>2 DEF Printed
<1> HIDE DEF L, Printed
<1> QED
  BY <1>1, <1>3, <1>4, SequenceType

\* What search_lines finds.
LEMMA SearchesPrinted ==
  ASSUME IInv, call \in Calls, call.tool = "search", call # None,
         \A n \in scope : path[n] # None, NEW under, NEW cut
  PROVE  Hits(under, cut) \in Seq(Printed)
<1> DEFINE targets == SetToSeq(Targets(under))
           hits == [i \in 1..Len(targets) |-> HitLines(targets[i], cut)]
<1>1. Targets(under) \in SUBSET scope /\ IsFiniteSet(Targets(under)) /\ scope \subseteq Nodes
  <2>1. Targets(under) \in SUBSET scope
    BY DEF Targets
  <2>2. scope \subseteq Nodes
    BY DEF IInv, Shape
  <2> QED
    BY <2>1, <2>2, NodesAreFinite, FS_Subset
<1>2. targets \in Seq(scope) /\ Len(targets) \in Nat
  BY <1>1, SequenceType, LenProperties
<1> HIDE DEF targets
<1>3. \A i \in 1..Len(targets) : HitLines(targets[i], cut) \in Seq(Printed)
  BY <1>1, <1>2, ElementOfSeq, HitLinesPrinted
<1>4. hits \in Seq(Seq(Printed))
  BY <1>2, <1>3
<1> HIDE DEF hits
<1>5. FlattenSeq(hits) \in Seq(Printed)
  BY <1>4, FlattenType
<1> QED
  BY <1>5, SeparatedPrinted DEF Hits, hits, targets

\* The lines of a file that read_lines counts from zero.
LEMMA FileLinesAreLines ==
  ASSUME IInv, call # None, NEW n \in Nodes, loaded[n] # None
  PROVE  /\ Cardinality(DOMAIN FileLines(n)) = Len(VirtualLines(n)) /\ Len(VirtualLines(n)) \in Nat
         /\ \A i \in 1..Len(VirtualLines(n)) :
              /\ FileLines(n)[i - 1] = VirtualLines(n)[i]
              /\ VirtualLines(n)[i] \in FrontLines \union TextLines
<1> DEFINE text == VirtualLines(n)
<1>1. text \in Seq(FrontLines \union TextLines) /\ Len(text) \in Nat
  BY VirtualLinesTyped, LenProperties
<1>2. FileLines(n) = [i \in 0..(Len(text) - 1) |-> text[i + 1]]
  BY DEF FileLines, VirtualLines
<1> HIDE DEF text
<1>3. Cardinality(0..(Len(text) - 1)) = Len(text)
  <2> DEFINE last == Len(text) - 1
  <2>1. last \in Int /\ (0 > last => Len(text) = 0) /\ last - 0 + 1 = Len(text)
    BY <1>1
  <2> HIDE DEF last
  <2>2. Cardinality(0..last) = IF 0 > last THEN 0 ELSE last - 0 + 1
    BY <2>1, FS_Interval
  <2> QED
    BY <2>1, <2>2 DEF last
<1>4. \A i \in 1..Len(text) : i - 1 \in 0..(Len(text) - 1) /\ i - 1 + 1 = i
  BY <1>1
<1>5. \A i \in 1..Len(text) : FileLines(n)[i - 1] = text[i]
  BY <1>2, <1>4
<1>6. \A i \in 1..Len(text) : text[i] \in FrontLines \union TextLines
  BY <1>1, ElementOfSeq
<1> QED
  BY <1>1, <1>2, <1>3, <1>5, <1>6 DEF text

\* What read_lines prints.
LEMMA ReadsPrinted ==
  ASSUME IInv, call \in Calls, call.tool = "read", call # None, NEW n \in Nodes, path[n] # None
  PROVE  LET count == Cardinality(DOMAIN FileLines(n))
             end == Min({call.offset + call.limit - 1, count})
         IN <<PathLine(n)>> \o
              (IF call.offset > count THEN <<>> ELSE ReadRows(n, call.offset, end)) \in Seq(Printed)
<1> DEFINE first == call.offset
           count == Len(VirtualLines(n))
           end == Min({call.offset + call.limit - 1, count})
           read == IF first > count THEN <<>> ELSE ReadRows(n, first, end)
<1>1. loaded[n] # None
  BY DEF IInv, Shape
<1>2. /\ Cardinality(DOMAIN FileLines(n)) = count /\ count \in Nat
      /\ \A i \in 1..count : /\ FileLines(n)[i - 1] = VirtualLines(n)[i]
                             /\ VirtualLines(n)[i] \in FrontLines \union TextLines
  BY <1>1, FileLinesAreLines
<1>3. PathLine(n) \in Printed /\ <<PathLine(n)>> \in Seq(Printed)
  <2>1. PathLine(n) \in Printed
    BY DEF Printed
  <2> HIDE DEF Printed
  <2> QED
    BY <2>1
<1>4. first \in Nat \ {0} /\ call.limit \in Nat \ {0}
  BY CallsAssumption
<1>5. end \in Nat /\ end <= count
  <2> HIDE DEF count
  <2>1. call.offset + call.limit - 1 \in Nat
    BY <1>4
  <2> QED
    BY <1>2, <2>1, MinOfTwo
<1>6. ASSUME NEW at \in 1..count PROVE
        [node |-> n, at |-> at, line |-> FileLines(n)[at - 1],
         width |-> 1 + LineWidth(FileLines(n)[at - 1])] \in Printed
  <2> DEFINE w == 1 + LineWidth(FileLines(n)[at - 1])
  <2>1. w \in Nat
    <3>1. FileLines(n)[at - 1] \in FrontLines \union TextLines
      BY <1>2
    <3>2. LineWidth(FileLines(n)[at - 1]) \in Nat
      BY <3>1, LineWidthType
    <3> QED
      BY <3>2
  <2> HIDE DEF w
  <2>2. [node |-> n, at |-> at, line |-> FileLines(n)[at - 1], width |-> w] = NumberedLine(n, at, w)
    BY <1>2 DEF NumberedLine
  <2>3. NumberedLine(n, at, w) \in Printed
    BY <1>1, <2>1 DEF Printed
  <2> QED
    BY <2>2, <2>3 DEF w
<1> HIDE DEF Printed, count, first, end
<1>7. read \in Seq(Printed)
  <2>1. CASE first > count
    BY <2>1
  <2>2. CASE ~(first > count)
    <3> DEFINE size == end + 1 - first
               row(at) == [node |-> n, at |-> at, line |-> FileLines(n)[at - 1],
                           width |-> 1 + LineWidth(FileLines(n)[at - 1])]
    <3>1. read = [j \in 1..size |-> row(first + j - 1)]
      BY <2>2 DEF ReadRows
    <3>2. size \in Int
      BY <1>4, <1>5
    <3>3. \A j \in 1..size : first + j - 1 \in 1..count
      BY <1>2, <1>4, <1>5
    <3>4. \A j \in 1..size : row(first + j - 1) \in Printed
      BY <1>6, <3>3
    <3> HIDE DEF size, row
    <3>5. CASE size \in Nat
      BY <3>1, <3>4, <3>5
    <3>6. CASE size \notin Nat
      <4>1. 1..size = 1..0
        BY <3>2, <3>6
      <4>2. [j \in 1..size |-> row(first + j - 1)] = <<>>
        BY <4>1
      <4> QED
        BY <3>1, <4>2, EmptySeq
    <3> QED
      BY <3>5, <3>6
  <2> QED
    BY <2>1, <2>2
<1> HIDE DEF read
<1>8. <<PathLine(n)>> \o read \in Seq(Printed)
  BY <1>3, <1>7, ConcatProperties
<1> QED
  BY <1>2, <1>8 DEF read, first, count, end

\* A tool prints lines, and of them the first that fit.  search_lines stops once
\* it has read more than fit, and what it reads is all there is if every match
\* ends within max_chars.
LEMMA AnswerIsPrinted ==
  ASSUME IInv, [Next]_vars, answer' # None, ~ UNCHANGED vars,
         answer'.tool \in {"list", "search", "read"}
  PROVE  /\ call \in Calls /\ call # None /\ call.tool = answer'.tool
         /\ \E under : \E all, shown \in Seq(Printed) :
              \/ answer' = Lines(under, all, Truncate(all, call.maxChars))
              \/ /\ answer'.tool = "search" /\ (~MatchesBeyond(call) => shown = all)
                 /\ answer' = Lines(under, all, Truncate(ReadUntil(shown, call.maxChars), call.maxChars))
<1>1. /\ call # None
      /\ Refuse \/ ListPaths \/ SearchLines \/ ReadLines \/ SemanticSearch
  BY AnswersAlone
<1>2. ~Refuse /\ ~SemanticSearch
  <2>1. ASSUME Refuse PROVE FALSE
    BY <2>1 DEF Refuse, Returns
  <2>2. ASSUME SemanticSearch PROVE FALSE
    <3>1. PICK hits : Returns([tool |-> "semantic", call |-> call, hits |-> hits])
      BY <2>2 DEF SemanticSearch
    <3> QED
      BY <3>1 DEF Returns
  <2> QED
    BY <2>1, <2>2
<1>3. /\ call \in Calls /\ scope \subseteq Nodes
      /\ \A n \in scope : path[n] # None
  BY <1>1, AnswerIsNamed DEF IInv, Shape
<1>4. CASE ListPaths
  <2>1. PICK under : LET frontier == IF under = None THEN TopLevel ELSE {n \in scope : loaded[n].parent = under}
                         lines == SetToSeq({PathLine(n) : n \in Listed(frontier, call.recursive)})
                     IN Returns(Lines(under, lines, Truncate(lines, call.maxChars)))
    BY <1>4 DEF ListPaths
  <2> DEFINE frontier == IF under = None THEN TopLevel ELSE {n \in scope : loaded[n].parent = under}
             listed == Listed(frontier, call.recursive)
             lines == SetToSeq({PathLine(n) : n \in listed})
  <2>2. listed \in SUBSET scope
    <3>1. frontier \in SUBSET scope
      BY DEF TopLevel
    <3> HIDE DEF frontier
    <3> QED
      BY <3>1 DEF Listed
  <2> HIDE DEF listed
  <2>3. lines \in Seq(Printed)
    BY <1>1, <1>3, <2>2, ListsPrinted
  <2>4. answer' = Lines(under, lines, Truncate(lines, call.maxChars))
    BY <2>1 DEF Returns, listed
  <2>5. answer'.tool = call.tool
    BY <2>4 DEF Lines
  <2> HIDE DEF lines, Printed
  <2> QED
    BY <1>1, <1>3, <2>3, <2>4, <2>5
<1>5. CASE SearchLines
  <2>1. PICK under : Returns(Lines(under, Hits(under, FALSE),
                       Truncate(ReadUntil(Hits(under, TRUE), call.maxChars), call.maxChars)))
    BY <1>5 DEF SearchLines
  <2> DEFINE all == Hits(under, FALSE)
             shown == Hits(under, TRUE)
  <2>2. call.tool = "search"
    BY <1>5 DEF SearchLines
  <2>3. all \in Seq(Printed) /\ shown \in Seq(Printed)
    BY <1>1, <1>3, <2>2, SearchesPrinted
  <2>4. ~MatchesBeyond(call) => shown = all
    BY <1>3, <2>2, CutFindsTheSame
  <2> HIDE DEF all, shown, Printed
  <2>5. answer' = Lines(under, all, Truncate(ReadUntil(shown, call.maxChars), call.maxChars))
    BY <2>1 DEF Returns, all, shown
  <2>6. answer'.tool = call.tool
    BY <2>5 DEF Lines
  <2> QED
    BY <1>1, <1>3, <2>2, <2>3, <2>4, <2>5, <2>6
<1>6. CASE ReadLines
  <2> DEFINE read(n) == LET count == Cardinality(DOMAIN FileLines(n))
                            end == Min({call.offset + call.limit - 1, count})
                        IN <<PathLine(n)>> \o
                             (IF call.offset > count THEN <<>> ELSE ReadRows(n, call.offset, end))
  <2>1. PICK n \in ResolvePath(call.at) : Returns(Lines(n, read(n), Truncate(read(n), call.maxChars)))
    BY <1>6 DEF ReadLines
  <2>2. n \in scope /\ call.tool = "read"
    BY <1>6 DEF ResolvePath, ReadLines
  <2>3. read(n) \in Seq(Printed)
    BY <1>1, <1>3, <2>2, ReadsPrinted
  <2> HIDE DEF read, Printed
  <2>4. answer' = Lines(n, read(n), Truncate(read(n), call.maxChars))
    BY <2>1 DEF Returns
  <2>5. answer'.tool = call.tool
    BY <2>4 DEF Lines
  <2> QED
    BY <1>1, <1>3, <2>3, <2>4, <2>5
<1> QED
  BY <1>1, <1>2, <1>4, <1>5, <1>6

\* No answer is longer than max_chars.  It is the first lines of the full one, and
\* it is the full one unless it is called truncated; but a search may miss a match
\* that ends beyond max_chars, and need not say so if its answer has max_chars
\* characters exactly.
THEOREM AnswersAreHonest == Spec => []AnswerHonest
<1>1. Init => AnswerHonest
  BY DEF Init, AnswerHonest
<1>2. IInv /\ AnswerHonest /\ [Next]_vars => AnswerHonest'
  <2> SUFFICES ASSUME IInv, AnswerHonest, [Next]_vars, answer' # None,
                      answer'.tool \in {"list", "search", "read"}
               PROVE  /\ answer'.width <= answer'.call.maxChars
                      /\ \/ MatchesBeyond(answer'.call)
                         \/ /\ IsPrefix(answer'.lines, answer'.all)
                            /\ \/ answer'.truncated \/ answer'.lines = answer'.all
                               \/ answer'.tool = "search" /\ answer'.width = answer'.call.maxChars
    BY DEF AnswerHonest, MatchesBeyond
  <2>1. CASE UNCHANGED vars
    BY <2>1 DEF vars, AnswerHonest, MatchesBeyond
  <2>2. CASE ~ UNCHANGED vars
    <3> DEFINE max == call.maxChars
               Cut(under, all, shown) ==
                 \/ answer' = Lines(under, all, Truncate(all, max))
                 \/ /\ answer'.tool = "search" /\ (~MatchesBeyond(call) => shown = all)
                    /\ answer' = Lines(under, all, Truncate(ReadUntil(shown, max), max))
    <3>1. /\ call \in Calls /\ call # None /\ call.tool = answer'.tool
          /\ \E under : \E all, shown \in Seq(Printed) : Cut(under, all, shown)
      BY <2>2, AnswerIsPrinted
    <3>2. max \in Nat \ {0}
      BY <3>1, CallsAssumption
    <3>3. PICK under : \E all, shown \in Seq(Printed) : Cut(under, all, shown)
      <4> HIDE DEF Cut
      <4> QED
        BY <3>1
    <3>4. PICK all \in Seq(Printed), shown \in Seq(Printed) : Cut(under, all, shown)
      <4> HIDE DEF Cut, Printed
      <4> QED
        BY <3>3
    <3>5. \A x \in Printed : x.width \in Nat
      BY <3>1, PrintedWidths
    <3> HIDE DEF max, Printed
    <3>6. CASE answer' = Lines(under, all, Truncate(all, max))
      <4> DEFINE cut == Truncate(all, max)
      <4>1. /\ cut.width <= max /\ IsPrefix(cut.lines, all)
            /\ cut.truncated \/ cut.lines = all
        BY <3>2, <3>5, TruncateHonest
      <4> HIDE DEF cut
      <4>2. /\ answer'.width = cut.width /\ answer'.lines = cut.lines /\ answer'.truncated = cut.truncated
            /\ answer'.all = all /\ answer'.call.maxChars = max
        BY <3>6 DEF Lines, cut, max
      <4> QED
        BY <4>1, <4>2
    <3>7. CASE /\ answer'.tool = "search" /\ (~MatchesBeyond(call) => shown = all)
               /\ answer' = Lines(under, all, Truncate(ReadUntil(shown, max), max))
      <4> DEFINE read == ReadUntil(shown, max)
                 cut == Truncate(read, max)
      <4>1. read \in Seq(Printed) /\ IsPrefix(read, shown) /\ (read = shown \/ Cost(read) > max)
        BY ReadUntilFull
      <4> HIDE DEF read
      <4>2. /\ cut.width \in Int /\ cut.width <= max
            /\ cut.lines \in Seq(Printed) /\ IsPrefix(cut.lines, read)
            /\ cut.truncated \/ (cut.lines = read /\ cut.width = Cost(read) - 1)
        BY <3>2, <3>5, <4>1, TruncateHonest
      <4>3. Cost(read) \in Nat
        BY <3>5, <4>1, CostType
      <4> HIDE DEF cut
      <4>4. /\ answer'.width = cut.width /\ answer'.lines = cut.lines /\ answer'.truncated = cut.truncated
            /\ answer'.all = all /\ answer'.call = call /\ answer'.call.maxChars = max
        BY <3>7 DEF Lines, cut, read, max
      <4>5. IsPrefix(cut.lines, shown)
        BY <4>1, <4>2, PrefixOfPrefix
      <4>6. cut.truncated \/ cut.lines = shown \/ cut.width = max
        BY <3>2, <4>1, <4>2, <4>3
      <4>7. MatchesBeyond(answer'.call) \/ shown = all
        BY <3>7, <4>4
      <4> QED
        BY <3>7, <4>2, <4>4, <4>5, <4>6, <4>7
    <3> QED
      BY <3>4, <3>6, <3>7 DEF max
  <2> QED
    BY <2>1, <2>2
<1> QED
  BY <1>1, <1>2, Inductive, PTL DEF Spec

\* A line of a front that was loaded first before a body that is read later was
\* committed; it has its number unless the front got longer or shorter meanwhile.
LEMMA LineIsCommitted ==
  ASSUME IInv, call # None, NEW n \in Nodes, loaded[n] # None, NEW i \in 1..Len(VirtualLines(n))
  PROVE  \E t \in past :
           LET lines == Render(n, t[n], t[n].body)
           IN IF SameOffset(n) THEN i \in 1..Len(lines) /\ lines[i] = VirtualLines(n)[i]
              ELSE VirtualLines(n)[i] \in ToSet(lines)
<1>1. Reads
  BY DEF IInv, CallInv
<1>2. PICK t \in past : loaded[n] = t[n]
  BY <1>1 DEF Reads
<1>3. rows \in past
  BY <1>1 DEF Reads
<1> DEFINE F == RenderFrontmatter(n, t[n])
           G == RenderFrontmatter(n, rows[n])
           B == RenderBody(rows[n].body)
           C == RenderBody(t[n].body)
           X == VirtualLines(n)
           All == FrontLines \union TextLines
<1>4. t[n] \in NodeRow /\ rows[n] \in NodeRow
  BY <1>2, VirtualLinesTyped
<1>5. F \in Seq(All) /\ G \in Seq(All)
  BY <1>4, FrontIsFront, SeqMonotonic
<1>6. B \in Seq(All) /\ C \in Seq(All)
  <2>1. rows[n].body \in Seq(Texts) /\ t[n].body \in Seq(Texts)
    BY <1>4, BodiesAreLines, EmptySeq DEF NodeRow
  <2> QED
    BY <2>1, BodyIsText, SeqMonotonic
<1>7. X = F \o B
  BY <1>2, VirtualLinesTyped
<1>8. Render(n, rows[n], rows[n].body) = G \o B /\ Render(n, t[n], t[n].body) = F \o C
  BY DEF Render
<1>9. SameOffset(n) => Len(F) = Len(G)
  BY <1>2, <1>3 DEF SameOffset, BodyLineOffset
<1> HIDE DEF F, G, B, C, X, All
<1>10. /\ Len(F) \in Nat /\ Len(G) \in Nat /\ Len(B) \in Nat /\ Len(C) \in Nat
       /\ Len(X) = Len(F) + Len(B)
       /\ \A j \in 1..(Len(F) + Len(B)) : X[j] = IF j <= Len(F) THEN F[j] ELSE B[j - Len(F)]
  BY <1>5, <1>6, <1>7, ConcatProperties, LenProperties
<1>11. /\ Len(G \o B) = Len(G) + Len(B)
       /\ \A j \in 1..(Len(G) + Len(B)) :
            (G \o B)[j] = IF j <= Len(G) THEN G[j] ELSE B[j - Len(G)]
  BY <1>5, <1>6, ConcatProperties
<1>12. /\ Len(F \o C) = Len(F) + Len(C)
       /\ \A j \in 1..(Len(F) + Len(C)) :
            (F \o C)[j] = IF j <= Len(F) THEN F[j] ELSE C[j - Len(F)]
  BY <1>5, <1>6, ConcatProperties
<1>13. i \in 1..Len(X)
  BY DEF X
<1>14. DOMAIN (G \o B) = 1..Len(G \o B) /\ DOMAIN (F \o C) = 1..Len(F \o C)
  BY <1>5, <1>6, ConcatProperties, LenProperties
<1>15. CASE i <= Len(F)
  <2>1. i \in 1..Len(F \o C) /\ (F \o C)[i] = X[i]
    BY <1>10, <1>12, <1>13, <1>15
  <2>2. X[i] \in ToSet(F \o C)
    BY <1>14, <2>1 DEF ToSet
  <2> QED
    BY <1>8, <2>1, <2>2 DEF X
<1>16. CASE i > Len(F)
  <2> DEFINE j == i - Len(F) + Len(G)
  <2>1. j \in 1..Len(G \o B) /\ (G \o B)[j] = X[i]
    BY <1>10, <1>11, <1>13, <1>16
  <2>2. SameOffset(n) => j = i
    BY <1>9, <1>10, <1>13
  <2> HIDE DEF j
  <2>3. X[i] \in ToSet(G \o B)
    BY <1>14, <2>1 DEF ToSet
  <2> QED
    BY <1>3, <1>8, <2>1, <2>2, <2>3 DEF X
<1> QED
  BY <1>10, <1>13, <1>15, <1>16

\* A line that search_lines or read_lines prints was committed while the call ran,
\* and at the number it has there, unless the front got longer or shorter meanwhile.
THEOREM LinesAreCommitted == Spec => []LinesWereCommitted
<1>1. Init => LinesWereCommitted
  BY DEF Init, LinesWereCommitted
<1>2. IInv /\ LinesWereCommitted /\ [Next]_vars => LinesWereCommitted'
  <2> SUFFICES ASSUME IInv, LinesWereCommitted, [Next]_vars, answer' # None,
                      answer'.tool \in {"search", "read"},
                      NEW line \in ToSet(answer'.lines), "at" \in DOMAIN line
               PROVE  \E t \in past' :
                        LET n == line.node
                            lines == Render(n, t[n], t[n].body)
                        IN IF SameOffset(n)' THEN line.at \in 1..Len(lines) /\ lines[line.at] = line.line
                           ELSE line.line \in ToSet(lines)
    BY DEF LinesWereCommitted
  <2>1. CASE UNCHANGED vars
    BY <2>1 DEF vars, LinesWereCommitted, SameOffset
  <2>2. CASE ~ UNCHANGED vars
    <3> DEFINE max == call.maxChars
               Cut(under, all, shown) ==
                 \/ answer' = Lines(under, all, Truncate(all, max))
                 \/ answer' = Lines(under, all, Truncate(ReadUntil(shown, max), max))
    <3>1. /\ call \in Calls /\ call # None /\ call.tool = answer'.tool
          /\ \E under : \E all, shown \in Seq(Printed) : Cut(under, all, shown)
      BY <2>2, AnswerIsPrinted
    <3>2. max \in Nat \ {0}
      BY <3>1, CallsAssumption
    <3>3. past' = past
      BY <2>2, AnswerIsNamed
    <3>4. \A x \in Printed : x.width \in Nat
      BY <3>1, PrintedWidths
    <3>5. answer'.lines \in Seq(Printed)
      <4>1. PICK under : \E all, shown \in Seq(Printed) : Cut(under, all, shown)
        <5> HIDE DEF Cut
        <5> QED
          BY <3>1
      <4>2. PICK all \in Seq(Printed), shown \in Seq(Printed) : Cut(under, all, shown)
        <5> HIDE DEF Cut, Printed
        <5> QED
          BY <4>1
      <4> HIDE DEF max, Printed
      <4>3. PICK part \in Seq(Printed) : answer' = Lines(under, all, Truncate(part, max))
        BY <4>2, ReadUntilFull
      <4>4. Truncate(part, max).lines \in Seq(Printed)
        BY <3>2, <3>4, TruncateHonest
      <4>5. answer'.lines = Truncate(part, max).lines
        BY <4>3 DEF Lines
      <4> QED
        BY <4>4, <4>5
    <3>6. line \in Printed
      <4> HIDE DEF Printed
      <4>1. PICK i \in DOMAIN answer'.lines : line = answer'.lines[i]
        BY DEF ToSet
      <4> QED
        BY <3>5, <4>1
    <3> DEFINE n == line.node
    <3>7. /\ n \in Nodes /\ loaded[n] # None
          /\ line.at \in 1..Len(VirtualLines(n)) /\ line.line = VirtualLines(n)[line.at]
      BY <3>6, PrintedTrue
    <3>8. SameOffset(n)' <=> SameOffset(n)
      BY <3>3 DEF SameOffset
    <3>9. PICK t \in past :
            LET lines == Render(n, t[n], t[n].body)
            IN IF SameOffset(n) THEN line.at \in 1..Len(lines) /\ lines[line.at] = VirtualLines(n)[line.at]
               ELSE VirtualLines(n)[line.at] \in ToSet(lines)
      BY <3>1, <3>7, LineIsCommitted
    <3> QED
      BY <3>3, <3>7, <3>8, <3>9
  <2> QED
    BY <2>1, <2>2
<1> QED
  BY <1>1, <1>2, Inductive, PTL DEF Spec
=============================================================================
