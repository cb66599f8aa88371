----------------------------- MODULE PaperPlan ------------------------------
(***************************************************************************)
(* The plan that the QASPER loader makes of a paper: its sections, which   *)
(* are listed by heading path and in any order, become numbered folders    *)
(* and files; its captions become files named for the image they belong    *)
(* to.  The order of the nodes among siblings is left out.                 *)
(***************************************************************************)

EXTENDS Naturals, Sequences, FiniteSets, SequencesExt, Functions, TreePlan

\* A paper: its sections [heading, text], a heading being the sequence of the
\* titles down to it; and its floats [folder, number], the number 0 where the image's
\* name has none, which happens to figures only.

\* _outline: every heading there is, the implied parents too, in order of first
\* appearance.
Headings(p) ==
  FoldLeft(LAMBDA seen, s : seen \o Without(Tail(Ancestry(s.heading)), Range(seen)),
           <<>>, p.sections)

HasText(p, h) == \E s \in Range(p.sections) : s.heading = h /\ s.text

\* prune: a heading without text, at it or below it, is dropped.
Leads(p, h) == \E s \in Range(p.sections) : s.text /\ IsPrefix(h, s.heading)
Kept(p) == Only(Headings(p), {h \in Range(Headings(p)) : Leads(p, h)})

Inside(p, h) == Only(Kept(p), {c \in Range(Kept(p)) : Front(c) = h})

\* `{i:02d}-{slug}`: the slug of a heading is not unique, its number among its
\* siblings is; a heading with others inside is a folder, one without a file.
Segment(p, h) ==
  <<"section", CHOOSE i \in 1..Len(Inside(p, Front(h))) : Inside(p, Front(h))[i] = h,
    IF Inside(p, h) = <<>> THEN "file" ELSE "folder">>

Place(p, h) == [i \in 1..Len(h) |-> Segment(p, SubSeq(h, 1, i))]

Overview == <<"overview">>

\* add: a folder holds no text, so it goes to a file inside.
SectionNodes(p, h) ==
  IF Inside(p, h) = <<>> THEN <<File(Place(p, h))>>
  ELSE <<Folder(Place(p, h))>> \o
       (IF HasText(p, h) THEN <<File(Append(Place(p, h), Overview))>> ELSE <<>>)

\* _float_name: figure, figure-3, and with a suffix figure-2, figure-3-2: the second
\* image without a number would be named as the one with number 2 is.
FloatFile(f, i) ==
  <<<<f.folder>>, <<"image", (IF f.number = 0 THEN <<>> ELSE <<f.number>>) \o (IF i = 1 THEN <<>> ELSE <<i>>)>>>>

FloatName(used, f) ==
  LET free == {i \in 1..(Len(used) + 1) : FloatFile(f, i) \notin Range(used)}
  IN  Append(used, FloatFile(f, CHOOSE i \in free : \A j \in free : i <= j))

Floats(p) == FoldLeft(FloatName, <<>>, p.floats)

FloatFolders(p) == Only(<<"figures", "tables">>, {f.folder : f \in Range(p.floats)})

\* paper_nodes.
PaperNodes(p) ==
  <<Folder(Root), File(<<Overview>>), File(<<<<"metadata">>>>)>>
  \o FlattenSeq([i \in 1..Len(Kept(p)) |-> SectionNodes(p, Kept(p)[i])])
  \o [i \in 1..Len(FloatFolders(p)) |-> Folder(<<<<FloatFolders(p)[i]>>>>)]
  \o [i \in 1..Len(Floats(p)) |-> File(Floats(p)[i])]
=============================================================================
