----------------------------- MODULE VirtualFile -----------------------------
(***************************************************************************)
(* The text an agent sees of a node, and its line numbers (kb.okf), and    *)
(* the chunks that are numbered in it (kb.semantic_index.chunking).        *)
(***************************************************************************)

EXTENDS NodeTable, Naturals, Sequences

CONSTANTS
  Titles,     \* the titles nodes can have
  Texts,      \* the lines a body is made of
  Bodies,     \* the bodies a file can have, sequences of texts
  Level,      \* text -> how deep a heading it is: 1 for "#", 0 for no heading
  PieceOf,    \* pairs of texts, of which the first occurs in the line of the second
  ChunkLines  \* the lines the splitter puts in one chunk

ASSUME BodiesAreLines == Bodies \subseteq Seq(Texts)
ASSUME LevelAssumption == Level \in [Texts -> Nat]
ASSUME PieceOfAssumption == PieceOf \subseteq Texts \X Texts
ASSUME ChunkLinesAssumption == ChunkLines \in Nat \ {0}

\* The optional field whose line comes and goes; `tags` is also what a search
\* can filter by.
Optional == {"tags"}

NodeRow ==
  [parent : Folders \union {Top}, active : BOOLEAN, title : Titles,
   fields : SUBSET Optional, body : Bodies \union {<<>>}]

Line(key, of) == [key |-> key, of |-> of]

\* render_frontmatter: one line per field that is set, between two rules.
RenderFrontmatter(n, row) ==
  <<Line("---", None), Line("id", n), Line("type", None), Line("kind", None), Line("title", row.title)>>
  \o (IF n \in Docs THEN <<Line("status", None)>> ELSE <<>>)
  \o (IF "tags" \in row.fields THEN <<Line("tags", None)>> ELSE <<>>)
  \o <<Line("---", None)>>

\* A folder has no body, and an empty body is one empty line: the front ends
\* with a newline.
RenderBody(body) ==
  IF body = <<>> THEN <<Line("text", None)>> ELSE [i \in 1..Len(body) |-> Line("text", body[i])]

\* render_virtual_file, the front of one row before the body of another.
Render(n, row, body) == RenderFrontmatter(n, row) \o RenderBody(body)

\* body_line_offset: the newlines of the front.
BodyLineOffset(n, row) == Len(RenderFrontmatter(n, row))

Slice(lines, first, last) == SubSeq(lines, first, IF last <= Len(lines) THEN last ELSE Len(lines))

\* heading_paths: the headings in effect at line i.  A heading ends those that
\* are as deep or deeper, so the set of them has one order only.  Fenced code
\* is left out.
Heading(body, i) ==
  {body[j] : j \in {k \in 1..i : /\ Level[body[k]] > 0
                                 /\ \A h \in (k + 1)..i :
                                      Level[body[h]] > 0 => Level[body[h]] > Level[body[k]]}}

\* file_to_document, split_documents, annotate_chunk: each piece of the body
\* with its line numbers in the virtual file.  Its title and heading are part
\* of its key and stand before the text that is embedded (_prefix_with_title).
\* The splitter is external; here it cuts between lines.
ChunksOf(n, row) ==
  LET Piece(i) == Slice(row.body, i, i + ChunkLines - 1)
      Chunk(i) == [file |-> n, title |-> row.title, heading |-> Heading(row.body, i),
                   first |-> BodyLineOffset(n, row) + i,
                   last |-> BodyLineOffset(n, row) + i + Len(Piece(i)) - 1,
                   text |-> RenderBody(Piece(i))]
  IN {Chunk(i) : i \in {j \in 1..Len(row.body) : j % ChunkLines = 1 % ChunkLines}}

\* `piece in line`.  No text of a body is taken to occur in a line of the front.
Occurs(piece, line) ==
  piece = line \/ (line.key = "text" /\ <<piece.of, line.of>> \in PieceOf)

\* `text in "\n".join(lines)`, where `lines` are as many as those of `text` or
\* fewer: what is between two newlines is a whole line of both.
OccursAt(text, lines) ==
  /\ Len(lines) = Len(text)
  /\ \A i \in 1..Len(text) :
       IF i \in {1, Len(text)} THEN Occurs(text[i], lines[i]) ELSE text[i] = lines[i]
=============================================================================
