------------------------------ MODULE MCIngest ------------------------------
\* An instance of Ingest for TLC.
EXTENDS Ingest, TLC

CONSTANTS r1, r2

MCHandler ==
  [k \in {"docs", "sub", "text", "pdf", "image", ".dot", ".."} |->
     CASE k = "text" -> "text" [] k = "pdf" -> "loader" [] OTHER -> "none"]
MCHidden == {".dot"}
MCNames == [key : DOMAIN MCHandler, form : 0..1]

N(key) == [key |-> key, form |-> 0]
TEXT == [key |-> "text", form |-> 1]  \* the same name, in capitals

\* One folder, its files and what does not belong into it.
UploadPaths ==
  { <<N("docs"), N("text")>>, <<N("docs"), TEXT>>, <<N("docs"), N("sub"), N("pdf")>>,
    <<N("docs"), N("image")>>, <<N("docs"), N(".dot")>>, <<N(".dot"), N("text")>>,
    <<N("docs"), N("text"), N("pdf")>>, <<N("docs"), N("..")>>, <<N("text")>>, <<N("pdf")>> }

FileAt(path, size, link) == [path |-> path, size |-> size, link |-> link]

Upload(files, under, dry) == [kind |-> "upload", parent |-> under, dry |-> dry, files |-> files]

Uploads ==
  {Upload(<<>>, TRUE, FALSE)}
  \union {Upload(<<FileAt(p, size, FALSE)>>, under, FALSE) : p \in UploadPaths, size \in 1..2, under \in BOOLEAN}
  \union {Upload(<<FileAt(p, 1, FALSE), FileAt(q, size, FALSE)>>, TRUE, FALSE) :
            p \in UploadPaths, q \in UploadPaths, size \in 1..2}
  \union {Upload(<<FileAt(<<N("docs"), N("text")>>, 1, FALSE), FileAt(p, 1, FALSE), FileAt(q, 1, FALSE)>>, FALSE, FALSE) :
            p \in {<<N("docs"), N(".dot")>>, <<N("docs"), N("image")>>},
            q \in {<<N("docs"), N("sub"), N("pdf")>>, <<N("docs"), N("pdf")>>}}

\* A tree with a file at every depth, a hidden file, a symlink and a file without a
\* processor; and a directory with two PDFs.
Tree ==
  << FileAt(<<N("sub"), N("sub"), N("pdf")>>, 1, FALSE), FileAt(<<N("sub"), N("text")>>, 1, FALSE),
     FileAt(<<N("sub"), N(".dot"), N("text")>>, 1, FALSE), FileAt(<<N("text")>>, 1, TRUE),
     FileAt(<<N("image")>>, 1, FALSE) >>
TwoPDFs == <<FileAt(<<N("pdf")>>, 1, FALSE), FileAt(<<N("sub"), N("pdf")>>, 1, FALSE)>>

OnePDF == SubSeq(TwoPDFs, 1, 1)

Directory1(kind, files, dry) == [kind |-> kind, parent |-> TRUE, dry |-> dry, files |-> files]

\* Papers: every way to list headings twice or under parents that are not listed, and
\* images with and without numbers.
Heading == {<<"a">>, <<"b">>, <<"a", "b">>, <<"b", "a">>}
Section == [heading : Heading, text : BOOLEAN]
Float == [folder : {"figures"}, number : {0, 2}] \union {[folder |-> "tables", number |-> 2]}
Paper(sections, floats) ==
  [kind |-> "paper", parent |-> TRUE, dry |-> FALSE, files |-> <<>>, sections |-> sections, floats |-> floats]
Papers ==
  {Paper(sections, <<>>) : sections \in [1..3 -> Section]}
  \union {Paper(<<>>, floats) : floats \in UNION {[1..n -> Float] : n \in 1..3}}

\* Two requests share the pool, one with two conversions and one with a single one; the
\* other sources are asked for alone.
Shared ==
  r1 :> [Directory1("folder", TwoPDFs, FALSE) EXCEPT !.parent = FALSE]
  @@ r2 :> [Directory1("folder", OnePDF, TRUE) EXCEPT !.parent = FALSE]
MCInputs ==
  {r1 :> s : s \in Uploads \union Papers \union {Directory1("folder", Tree, FALSE), Directory1("git", TwoPDFs, FALSE)}}
  \union {Shared}
=============================================================================
