------------------------------- MODULE Output -------------------------------
(***************************************************************************)
(* Cutting a tool's answer to `max_chars` (kb.retrieval.dci).  An answer   *)
(* is a sequence of lines, records of which only the width matters here.   *)
(***************************************************************************)

EXTENDS Integers, Sequences, FiniteSetsExt, SequencesExt

CONSTANT NoticeWidth  \* the characters of "[truncated at ...]"

ASSUME NoticeWidthAssumption == NoticeWidth \in Nat

\* Lines with a newline each.
Cost(lines) == FoldSeq(LAMBDA line, sum : sum + line.width + 1, 0, lines)

\* "\n".join(lines): no newline after the last one.
JoinedWidth(lines) == Cost(lines) - 1

\* The longest prefix that, newlines included, fits the budget.
Fitting(lines, budget) ==
  SubSeq(lines, 1, Max({0} \union {i \in 1..Len(lines) : Cost(SubSeq(lines, 1, i)) <= budget}))

\* Mutant: no room is left for the notice.
TruncateWithoutRoom(lines, maxChars) ==
  IF JoinedWidth(lines) <= maxChars
    THEN [lines |-> lines, width |-> JoinedWidth(lines), truncated |-> FALSE]
    ELSE LET kept == Fitting(lines, maxChars) IN
         [lines |-> kept, width |-> Cost(kept) + NoticeWidth, truncated |-> TRUE]

\* _truncate_to_max_chars: whole lines and the notice; of a first line that is
\* too long a part is kept, which is no line of the answer; a notice that is
\* longer than max_chars is cut itself.
Truncate(lines, maxChars) ==
  IF JoinedWidth(lines) <= maxChars
    THEN [lines |-> lines, width |-> JoinedWidth(lines), truncated |-> FALSE]
    ELSE LET budget == maxChars - NoticeWidth - 1
             kept == Fitting(lines, budget)
             part == IF kept = <<>> /\ budget > 0 THEN Min({budget, lines[1].width}) + 1 ELSE 0
         IN
         [lines |-> kept, width |-> Min({maxChars, Cost(kept) + part + NoticeWidth}),
          truncated |-> TRUE]

\* "--" between two groups of lines.
Separator == [width |-> 2]

\* The rows search_lines reads before it stops: enough to exceed max_chars.  A
\* separator comes with the row it stands before.
ReadUntil(lines, maxChars) ==
  SubSeq(lines, 1, Min({Len(lines)} \union
                        {i \in 1..Len(lines) : /\ lines[i] # Separator
                                               /\ Cost(SubSeq(lines, 1, i)) > maxChars}))
=============================================================================
