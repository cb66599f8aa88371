---------------------------- MODULE MCRetrieval ----------------------------
\* Instances of Retrieval for TLC.
EXTENDS Retrieval

CONSTANTS a, b, x, y, s, t, l, m

\* t makes a segment of its own; s is spelled like the path of x beside another t.
MCSegmentOf == [title \in {s, t} |-> [name |-> t, of |-> IF title = s THEN x ELSE None]]

MCBodies == {<<l, m>>, <<m, m>>}
MCManifests == {{a}, {b, x}}
MCTextWidth == [text \in {l, m} |-> IF text = l THEN 1 ELSE 7]

\* l is a heading, and occurs in m.
MCLevel == [text \in {l, m} |-> IF text = l THEN 1 ELSE 0]
MCPieceOf == {<<l, m>>}

\* Title, heading and text all count.
MCDistance(title, heading, text) ==
  (IF title = s THEN 1 ELSE 0) + (IF heading = {} THEN 1 ELSE 0) + (IF text[1].of = l THEN 0 ELSE 1)

\* a at the top with x in it, b and y in a or beside it; y may be missing, or
\* have the other title.
MCStarts ==
  {[n \in {a, b, x, y} |->
      IF n = y /\ py = None THEN None
      ELSE [parent |-> CASE n = a -> Top [] n = b -> pb [] n = x -> a [] n = y -> py,
            active |-> TRUE, title |-> IF n = y THEN ty ELSE t, fields |-> {},
            body |-> IF n \in Docs THEN <<l, m>> ELSE <<>>]] :
     pb \in {Top, a}, py \in {None, a, b}, ty \in {s, t}}

MCCalls ==
  [tool : {"list"}, at : {None, a, y}, recursive : BOOLEAN, maxChars : {30}]
  \union [tool : {"list"}, at : {None}, recursive : {TRUE}, maxChars : {3}]
  \union [tool : {"search"}, at : {None}, pattern : {"title" :> 1}, context : {0, 1},
          filesOnly : {FALSE}, maxChars : {5, 8}]
  \union [tool : {"search"}, at : {None}, pattern : {(l :> 1) @@ (m :> 6)}, context : {0, 1},
          filesOnly : {FALSE}, maxChars : {5, 30}]
  \union [tool : {"search"}, at : {a, b}, pattern : {(l :> 1) @@ (m :> 6)}, context : {0},
          filesOnly : {TRUE}, maxChars : {30}]
  \union [tool : {"read"}, at : {x}, offset : {1, 8, 12}, limit : {2}, maxChars : {6, 30}]
  \union [tool : {"semantic"}, at : {None}, k : {1, 2}, tagged : BOOLEAN]
=============================================================================
