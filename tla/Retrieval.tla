----------------------------- MODULE Retrieval ------------------------------
(***************************************************************************)
(* An agent's tool calls (kb.retrieval): list_paths, search_lines,         *)
(* read_lines and semantic_search over the nodes of a manifest.  A call    *)
(* runs several statements; the rows it has loaded stay as they were,      *)
(* while a writer stages chunks, commits and settles the index.            *)
(***************************************************************************)

EXTENDS VirtualFile, Output

CONSTANTS
  SegmentOf,   \* title -> the path segment it makes: [name, of]
  Manifests,   \* what a manifest can have for members: sets of nodes
  Calls,       \* the calls the agent makes, records with their arguments
  Distance(_, _, _),  \* how far from the query a title, a heading and a text are
  PathWidth,   \* the characters of one path segment
  TextWidth,   \* text -> its characters
  Starts,      \* the trees the KB has before, with every body indexed
  MaxFields,   \* bound: the columns a transaction changes
  MaxOps       \* bound: the transactions the writer begins

ASSUME NoneIsNothing == None \notin Nodes \union NodeRow
ASSUME NodesAreFinite == IsFiniteSet(Nodes)
ASSUME ManifestsHoldNodes == Manifests \subseteq SUBSET Nodes
ASSUME WidthsAssumption == PathWidth \in Nat /\ TextWidth \in [Texts -> Nat]
ASSUME CallsAssumption ==
  \A c \in Calls :
    /\ c.tool = "semantic" => c.k \in Nat
    /\ c.tool # "semantic" => c.maxChars \in Nat \ {0}
    /\ c.tool = "search" => c.context \in Nat /\ c.pattern \in [DOMAIN c.pattern -> Nat]
    /\ c.tool = "read" => c.offset \in Nat \ {0} /\ c.limit \in Nat \ {0}
ASSUME MaxOpsAssumption == MaxOps \in Nat
ASSUME StartsAssumption ==
  \A table \in Starts :
    /\ table \in [Nodes -> NodeRow \union {None}]
    /\ \A n \in Docs : table[n] # None => table[n].parent # Top
    /\ \A n \in Folders : table[n] # None => table[n].body = <<>>
    /\ \A n \in Nodes : Active(table, n) =>
         table[n].parent = Top \/ Active(table, table[n].parent)

\* Mutant: nothing is fetched in reserve.
NoOverfetch == 1

OverfetchFactor == 2  \* OVERFETCH_FACTOR

VARIABLES
  rows,    \* the committed folders and files
  draft,   \* the tables as the writer's open transaction has them, None if none
  index,   \* the chunks in kb_chunks
  call,    \* the call the agent is making, None if none
  scope,   \* the nodes its manifest resolved to
  loaded,  \* the rows the call has loaded, without their bodies
  path,    \* _Scope._paths
  allowed, \* the files a semantic search may return, None before they are selected
  found,   \* the chunks the vector search returned, None before it ran
  body,    \* the bodies the call has loaded
  answer,  \* what the last call returned, None if nothing yet
  past,    \* history: the committed tables since the call began
  ops      \* the transactions so far

calling == <<call, scope, loaded, path, allowed, found, body>>
vars == <<rows, draft, index, calling, answer, past, ops>>

NoNode == [n \in Nodes |-> None]

-----------------------------------------------------------------------------
\* The writer: kb.service's seam in short (WriteSeam and ChunkIndex have its
\* steps).  Any change of one node may be the work of a transaction.

\* Mutant: a file needs no folder.
MayWriteAnywhere(n, row) ==
  /\ rows[n] # None => Cardinality({c \in DOMAIN row : row[c] # rows[n][c]}) \in 1..MaxFields
  /\ n \in Folders => row.fields = {} /\ row.body = <<>>
  /\ row.parent # Top /\ row.active => Active(rows, row.parent) /\ row.parent \notin Below(rows, n) \union {n}

MayWrite(n, row) ==
  /\ rows[n] # None => Cardinality({c \in DOMAIN row : row[c] # rows[n][c]}) \in 1..MaxFields
  /\ n \in Folders => row.fields = {} /\ row.body = <<>>
  /\ IF row.parent = Top THEN n \in Folders
     ELSE row.active => Active(rows, row.parent) /\ row.parent \notin Below(rows, n) \union {n}

\* Deleting a folder takes what is below it.
Written(n, row) ==
  LET gone == IF row.active \/ rows[n] = None THEN {} ELSE ActiveDescendants(rows, n) IN
  [m \in Nodes |-> IF m = n THEN row
                   ELSE IF m \in gone THEN [rows[m] EXCEPT !.active = FALSE] ELSE rows[m]]

StagedChunks(table, n) == IF Active(table, n) /\ n \in Docs THEN ChunksOf(n, table[n]) ELSE {}

\* The new chunks are in the index before the rows are committed.
Stage(n, row) ==
  /\ draft = None /\ ops < MaxOps
  /\ MayWrite(n, row)
  /\ ops' = ops + 1
  /\ draft' = Written(n, row)
  /\ index' = index \union UNION {StagedChunks(draft', m) : m \in {k \in Docs : draft'[k] # rows[k]}}
  /\ UNCHANGED <<rows, calling, answer, past>>

Commit ==
  /\ draft # None
  /\ rows' = draft
  /\ draft' = None
  /\ past' = IF call = None THEN past ELSE past \union {draft}
  /\ UNCHANGED <<index, calling, answer, ops>>

Abort ==
  /\ draft # None
  /\ draft' = None
  /\ UNCHANGED <<rows, index, calling, answer, past, ops>>

\* After the transaction, or at a later write or reindex if a crash came first.
Settle(n) ==
  /\ draft = None
  /\ index' = {c \in index : c.file # n} \union StagedChunks(rows, n)
  /\ index' # index
  /\ UNCHANGED <<rows, draft, calling, answer, past, ops>>

-----------------------------------------------------------------------------
\* _Scope.

\* resolve_manifest (Manifest has its statements): the active members, and what
\* is active below them.
Resolved(members) ==
  LET active == {n \in members : Active(rows, n)} IN
  active \union UNION {ActiveDescendants(rows, n) : n \in active \intersect Folders}

Begin(c, members) ==
  /\ call = None
  /\ call' = c
  /\ scope' = Resolved(members)
  /\ loaded' = [n \in Nodes |-> IF n \in scope' THEN rows[n] ELSE None]
  /\ path' = NoNode
  /\ allowed' = IF c.tool = "semantic" /\ c.tagged THEN None ELSE scope' \intersect Docs
  /\ found' = None
  /\ body' = NoNode
  /\ answer' = None
  /\ past' = {rows}
  /\ UNCHANGED <<rows, draft, index, ops>>

\* A row that was loaded before is not refreshed.
Load(n) == IF loaded[n] # None THEN loaded[n] ELSE rows[n]

\* Mutant: the sub-folders of a folder are looked at apart from its files.
SiblingsOfOneType(n) ==
  {n} \union {m \in Nodes : /\ Active(rows, m) /\ rows[m].parent = Load(n).parent
                            /\ (m \in Folders) = (n \in Folders)}

\* list_children, and the node itself if it is not among them any more.
Siblings(n) ==
  {n} \union {m \in Nodes : Active(rows, m) /\ rows[m].parent = Load(n).parent}

Base(n) == SegmentOf[Load(n).title]
Suffixed(base, n) == [name |-> base.name, of |-> n]

\* _segment: titles that make the same segment get the id's first digits.
Segment(n) ==
  IF \E m \in Siblings(n) \ {n} : Base(m) = Base(n) THEN Suffixed(Base(n), n) ELSE Base(n)

\* A node in scope, or a folder on the way up from one.
Wanted(n) ==
  /\ call # None
  /\ path[n] = None /\ loaded[n] # None
  /\ n \in scope \/ \E m \in Nodes : path[m] = None /\ loaded[m] # None /\ loaded[m].parent = n

\* The folder of a node whose path is wanted, if no statement has loaded it yet.
LoadFolder(n) ==
  /\ Wanted(n)
  /\ LET p == loaded[n].parent IN
     /\ p # Top /\ loaded[p] = None
     /\ loaded' = [loaded EXCEPT ![p] = rows[p]]
  /\ UNCHANGED <<rows, draft, index, call, scope, path, allowed, found, body, answer, past, ops>>

\* _path_of, for the nodes of folder p that are wanted: the folder's path first,
\* then its children are listed.  All of them get their segments by this list.
NameIn(p) ==
  /\ p # Top => path[p] # None
  /\ LET listed == UNION {Siblings(n) : n \in {m \in Nodes : Wanted(m) /\ loaded[m].parent = p}} IN
     /\ listed # {}
     /\ path' = [n \in Nodes |-> IF n \in listed /\ path[n] = None /\ Load(n).parent = p
                   THEN (IF p = Top THEN <<>> ELSE path[p]) \o <<Segment(n)>> ELSE path[n]]
     /\ loaded' = [n \in Nodes |-> IF n \in listed THEN Load(n) ELSE loaded[n]]
  /\ UNCHANGED <<rows, draft, index, call, scope, allowed, found, body, answer, past, ops>>

Named == call # None /\ \A n \in scope : path[n] # None

\* resolve_path, given a path or an id.
ResolvePath(n) == IF n \notin scope THEN {} ELSE {m \in scope : path[m] = path[n]}

-----------------------------------------------------------------------------
\* The four tools.

Returns(a) ==
  /\ answer' = a
  /\ call' = None
  /\ UNCHANGED <<rows, draft, index, scope, loaded, path, allowed, found, body, past, ops>>

\* Of all its lines a tool returns those that were not cut off.
Lines(under, all, cut) ==
  [tool |-> call.tool, call |-> call, under |-> under, all |-> all,
   lines |-> cut.lines, width |-> cut.width, truncated |-> cut.truncated]

\* ValueError, "error: ..." to an agent.
Refuse ==
  /\ Named /\ call.tool # "semantic"
  /\ call.at # None /\ ResolvePath(call.at) = {}
  /\ Returns([tool |-> "error"])

\* Mutant: the top level is what has no folder at all.
TopLevelRoots == {n \in scope : loaded[n].parent = Top}

\* What has its folder out of scope.
TopLevel == {n \in scope : loaded[n].parent \notin scope}

\* The frontier, and with `recursive` every level below it that is in scope.
Listed(frontier, recursive) ==
  IF ~recursive THEN frontier
  ELSE {n \in scope : \A C \in SUBSET scope :
          frontier \subseteq C /\ (\A m \in scope : loaded[m].parent \in C => m \in C) => n \in C}

PathLine(n) == [node |-> n, width |-> PathWidth * Len(path[n])]

\* list_paths; the order of the lines is left out.
ListPaths ==
  /\ Named /\ call.tool = "list"
  /\ \E under \in (IF call.at = None THEN {None} ELSE ResolvePath(call.at)) :
       LET frontier == IF under = None THEN TopLevel ELSE {n \in scope : loaded[n].parent = under}
           listed == Listed(frontier, call.recursive)
           lines == SetToSeq({PathLine(n) : n \in listed})
       IN Returns(Lines(under, lines, Truncate(lines, call.maxChars)))

\* `paths`: the node and what has its path for a prefix.
Targets(under) ==
  IF under = None THEN scope ELSE {n \in scope : n = under \/ IsStrictPrefix(path[under], path[n])}

\* files.content as it is now; a folder has none.
Content(n) == IF n \in Docs THEN rows[n].body ELSE <<>>

\* Mutant: the body is numbered by itself.
NumberedApart(n) ==
  LET fm == RenderFrontmatter(n, loaded[n])
      text == fm \o RenderBody(Content(n))
  IN [i \in 1..Len(text) |-> [at |-> IF i <= Len(fm) THEN i ELSE i - Len(fm), line |-> text[i]]]

\* `fm || content`, split WITH ORDINALITY: the front that was loaded before
\* and the content that the statement finds.
SearchRows(n) ==
  LET text == RenderFrontmatter(n, loaded[n]) \o RenderBody(Content(n)) IN
  [i \in 1..Len(text) |-> [at |-> i, line |-> text[i]]]

LineWidth(line) ==
  IF line.key # "text" THEN 1 ELSE IF line.of = None THEN 0 ELSE TextWidth[line.of]

\* What a pattern finds in a line, by its name or what it is about.  Postgres
\* has cut the line to max_chars, left(x.line, :cap), before it matches: then a
\* match that ends further on is none.
Matches(line, cut) ==
  \E what \in {line.key, line.of} \intersect DOMAIN call.pattern :
    cut => call.pattern[what] <= call.maxChars

Near(numbered, i, cut) ==
  \E j \in (i - call.context)..(i + call.context) :
    j \in 1..Len(numbered) /\ Matches(numbered[j].line, cut)

\* "<path>:<line>:<text>", the text cut as well.
HitLine(n, row) ==
  [node |-> n, at |-> row.at, line |-> row.line,
   width |-> PathWidth * Len(path[n]) + Min({LineWidth(row.line), call.maxChars})]

\* The lines one file contributes: hits, and the context of hits.
HitLines(n, cut) ==
  LET numbered == SearchRows(n)
      hits == [i \in 1..Len(numbered) |->
                 IF Near(numbered, i, cut) THEN <<HitLine(n, numbered[i])>> ELSE <<>>]
  IN IF ~call.filesOnly THEN FlattenSeq(hits)
     ELSE IF \E i \in 1..Len(numbered) : Near(numbered, i, cut) THEN <<PathLine(n)>> ELSE <<>>

\* A separator between two groups, which are apart or of two files.
Separated(lines) ==
  IF call.filesOnly \/ call.context = 0 THEN lines
  ELSE FlattenSeq([i \in 1..Len(lines) |->
         IF i = 1 \/ (lines[i].node = lines[i - 1].node /\ lines[i].at = lines[i - 1].at + 1)
           THEN <<lines[i]>> ELSE <<Separator, lines[i]>>])

Hits(under, cut) ==
  LET targets == SetToSeq(Targets(under)) IN
  Separated(FlattenSeq([i \in 1..Len(targets) |-> HitLines(targets[i], cut)]))

\* search_lines: one statement, which reads the bodies.  All its lines are
\* those that match as they are in the files, the ones it misses included.
SearchLines ==
  /\ Named /\ call.tool = "search"
  /\ \E under \in (IF call.at = None THEN {None} ELSE ResolvePath(call.at)) :
       Returns(Lines(under, Hits(under, FALSE),
                     Truncate(ReadUntil(Hits(under, TRUE), call.maxChars), call.maxChars)))

\* render_virtual_file(node).split("\n"), a list: it counts from zero.
FileLines(n) ==
  LET text == Render(n, loaded[n], Content(n)) IN [i \in 0..(Len(text) - 1) |-> text[i + 1]]

\* "<line>\t<text>", for the numbers from `offset` to `end`.
ReadRows(n, offset, end) ==
  [j \in 1..(end + 1 - offset) |->
     LET at == offset + j - 1
         line == FileLines(n)[at - 1]
     IN [node |-> n, at |-> at, line |-> line, width |-> 1 + LineWidth(line)]]

\* read_lines: a header, then the lines with their numbers; a header alone if
\* `offset` is past the end.
ReadLines ==
  /\ Named /\ call.tool = "read"
  /\ \E n \in ResolvePath(call.at) :
       LET count == Cardinality(DOMAIN FileLines(n))
           end == Min({call.offset + call.limit - 1, count})
           lines == <<PathLine(n)>> \o
             (IF call.offset > count THEN <<>> ELSE ReadRows(n, call.offset, end))
       IN Returns(Lines(n, lines, Truncate(lines, call.maxChars)))

-----------------------------------------------------------------------------
\* semantic_search, one statement at a time.

\* Only a search for tagged files comes here: the ids are selected again, by the fields as they are now.
FilterByTags ==
  /\ Named /\ allowed = None
  /\ allowed' = {n \in scope \intersect Docs : "tags" \in rows[n].fields}
  /\ UNCHANGED <<rows, draft, index, call, scope, loaded, path, found, body, answer, past, ops>>

Far(c) == Distance(c.title, c.heading, c.text)

\* The n of them that are closest; which of two as close is anybody's guess.
Closest(chunks, n) ==
  {S \in SUBSET chunks :
     /\ Cardinality(S) = Min({n, Cardinality(chunks)})
     /\ \A c \in S, d \in chunks \ S : Far(c) <= Far(d)}

\* similarity_search_with_score over everything staged or left behind.  The
\* iterative scan goes on until it has as many as were asked for; that they are
\* the closest, HNSW does not promise.
VectorSearch ==
  /\ Named /\ call.tool = "semantic" /\ allowed # None
  /\ found = None
  /\ LET near == {c \in index : c.file \in allowed} IN
     found' \in {S \in SUBSET near :
                   Cardinality(S) = Min({call.k * OverfetchFactor, Cardinality(near)})}
  /\ UNCHANGED <<rows, draft, index, call, scope, loaded, path, allowed, body, answer, past, ops>>

\* The body of a file that was found: its column is deferred until it is used.
LoadBody(n) ==
  /\ call # None /\ found # None
  /\ body[n] = None /\ \E c \in found : c.file = n
  /\ body' = [body EXCEPT ![n] = rows[n].body]
  /\ UNCHANGED <<rows, draft, index, call, scope, loaded, path, allowed, found, answer, past, ops>>

\* Mutant: it is enough that the file is in scope.
CurrentInScope(c) == c.file \in allowed

\* current: the chunk's text, without its prefix, occurs in its lines.
Current(c) ==
  OccursAt(c.text, Slice(Render(c.file, loaded[c.file], body[c.file]), c.first, c.last))

\* The hits are sorted again and cut to k; a hit's heading is the chunk's.
SemanticSearch ==
  /\ call # None /\ found # None
  /\ \A c \in found : body[c.file] # None
  /\ \E hits \in Closest({c \in found : Current(c)}, call.k) :
       Returns([tool |-> "semantic", call |-> call, hits |-> hits])

-----------------------------------------------------------------------------
Init ==
  /\ rows \in Starts
  /\ draft = None
  /\ index = UNION {StagedChunks(rows, n) : n \in Docs}
  /\ call = None
  /\ scope = {}
  /\ loaded = NoNode
  /\ path = NoNode
  /\ allowed = {}
  /\ found = None
  /\ body = NoNode
  /\ answer = None
  /\ past = {}
  /\ ops = 0

\* The session of the call is closed; the next one starts with nothing.
Close ==
  /\ answer # None
  /\ scope' = {} /\ allowed' = {} /\ past' = {}
  /\ loaded' = NoNode /\ path' = NoNode /\ body' = NoNode
  /\ found' = None /\ answer' = None
  /\ UNCHANGED <<rows, draft, index, call, ops>>

WriterStep ==
  \/ \E n \in Nodes, row \in NodeRow : Stage(n, row)
  \/ Commit \/ Abort
  \/ \E n \in Docs : Settle(n)

ToolStep ==
  \/ Refuse \/ ListPaths \/ SearchLines \/ ReadLines
  \/ FilterByTags \/ VectorSearch \/ SemanticSearch
  \/ \E n \in Docs : LoadBody(n)

CallStep ==
  \/ \E c \in Calls, members \in Manifests : Begin(c, members)
  \/ \E n \in Nodes : LoadFolder(n)
  \/ \E p \in Folders \union {Top} : NameIn(p)
  \/ ToolStep

\* An answer is looked at before anything else happens: calls share no state.
Next == IF answer # None THEN Close ELSE WriterStep \/ CallStep

Spec == Init /\ [][Next]_vars

-----------------------------------------------------------------------------
\* Properties.

\* The states are well formed, however the writer's transactions and the call's
\* statements are mixed: a file has a folder, and what has a path has been loaded.
TypeOK ==
  /\ \A n \in Nodes : rows[n] # None => rows[n] \in NodeRow
  /\ \A n \in Docs : rows[n] # None => rows[n].parent # Top
  /\ scope \subseteq Nodes
  /\ allowed = None \/ allowed \subseteq Docs
  /\ call \in Calls \union {None}
  /\ \A n \in Nodes : path[n] # None => loaded[n] # None
  /\ \A c \in index : c.file \in Docs
  /\ ops \in 0..MaxOps

\* The call has returned, and nothing was committed while it ran.
Quiet == answer # None /\ past = {rows}

\* No title is spelled like the segment of another node, digits of its id
\* included.
NoMimic == \A n \in Nodes : rows[n] # None => SegmentOf[rows[n].title].of = None

\* Of the nodes in scope each has a path of its own, so that a path which a tool
\* printed leads back to its node.
PathsApart ==
  Quiet /\ NoMimic => \A n \in scope : ResolvePath(n) = {n}

\* The two ways of going down a tree agree: what list_paths(recursive) finds
\* along the parent ids is what search_lines takes by the paths' prefixes.
SubtreesAgree ==
  Quiet /\ NoMimic /\ answer.tool = "list" /\ answer.call.recursive =>
    {line.node : line \in ToSet(answer.all)} = Targets(answer.under) \ {answer.under}

\* A match of the pattern may end beyond the characters of a line that
\* search_lines looks at.
MatchesBeyond(c) == c.tool = "search" /\ \E what \in DOMAIN c.pattern : c.pattern[what] > c.maxChars

\* No answer is longer than max_chars.  It is the first lines of the full one,
\* and it is the full one unless it says that it is truncated, with two
\* exceptions, both of search_lines: a line whose match ends beyond its first
\* max_chars characters is missed and nothing is said of it, nor need the rest
\* be the first lines then; and an answer of exactly max_chars characters may
\* be all that was read before the loop stopped, and is not called truncated.
AnswerHonest ==
  answer # None /\ answer.tool \in {"list", "search", "read"} =>
    /\ answer.width <= answer.call.maxChars
    /\ \/ MatchesBeyond(answer.call)
       \/ /\ IsPrefix(answer.lines, answer.all)
          /\ \/ answer.truncated \/ answer.lines = answer.all
             \/ answer.tool = "search" /\ answer.width = answer.call.maxChars

\* The number of lines in front of n's body did not change during the call.
SameOffset(n) == \A t, u \in past : BodyLineOffset(n, t[n]) = BodyLineOffset(n, u[n])

\* search_lines, which numbers by Postgres, and read_lines, which numbers by
\* Python, print a line with the number it has in a version of the file that
\* was committed while the call ran.  Both put a front that was loaded first
\* before a body that is read later: if the front got longer or shorter in
\* between, the line was in a committed version, but its number is uncertain.
LinesWereCommitted ==
  answer # None /\ answer.tool \in {"search", "read"} =>
    \A line \in {z \in ToSet(answer.lines) : "at" \in DOMAIN z} : \E t \in past :
      LET n == line.node
          lines == Render(n, t[n], t[n].body)
      IN IF SameOffset(n) THEN line.at \in 1..Len(lines) /\ lines[line.at] = line.line
         ELSE line.line \in ToSet(lines)

\* Whatever is staged, replaced or left behind in the index: the text of a hit
\* occurs at its lines in a version of the file that was committed while the
\* call ran.  The front and the body it is held against are loaded at two
\* moments, so if the front got longer or shorter in between the text is
\* certain and its lines are not.
HitsWereCommitted ==
  answer # None /\ answer.tool = "semantic" =>
    \A h \in answer.hits : \E t \in past :
      LET n == h.file
          lines == Render(n, t[n], t[n].body)
      IN IF SameOffset(n) THEN OccursAt(h.text, Slice(lines, h.first, h.last))
         ELSE \E i \in 1..Len(lines) : OccursAt(h.text, Slice(lines, i, i + h.last - h.first))

\* OVERFETCH_FACTOR does what it is for: as long as no more than k of the
\* chunks that were fetched are not owed to anybody (staged, replaced, or under
\* a title or heading that is not the file's), a search returns k hits or every
\* chunk there is, and passes over no chunk that it fetched for one further
\* off.  Of the hits themselves some may be such chunks, if their lines are
\* still there: fewer than k are owed then.
EnoughHits ==
  Quiet /\ answer.tool = "semantic" =>
    LET k == answer.call.k
        owed == UNION {StagedChunks(rows, n) : n \in allowed}
        strays == {c \in found \ owed : Current(c)}
    IN Cardinality(found \ owed) <= k =>
         /\ \/ owed \subseteq answer.hits
            \/ Cardinality(answer.hits \intersect owed) >= k - Cardinality(strays)
         /\ \A h \in answer.hits, c \in (found \intersect owed) \ answer.hits : Far(h) <= Far(c)
=============================================================================
