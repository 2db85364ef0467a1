------------------------------- MODULE Loops -------------------------------
(***************************************************************************)
(* Texts as sequences of lines, and loops over them (for line in lines).   *)
(* A body is a function, not an operator, so that what a loop does to any  *)
(* text can be proved.                                                     *)
(***************************************************************************)
EXTENDS Naturals, Sequences

\* The body says what a line makes of the variables, which at the start are
\* start.
Loop(body, start, lines) ==
  LET after[i \in 0..Len(lines)] ==
        IF i = 0 THEN start ELSE body[lines[i]][after[i - 1]]
  IN  after[Len(lines)]

\* A loop whose turns are numbered, and alike.
Repeat(turn, start, n) == Loop([i \in Nat |-> turn], start, [i \in 1..n |-> i])

\* The lines that are in kept, in order; A has all lines there are.
Only(A, lines, kept) ==
  Loop([line \in A |-> [found \in Seq(A) |->
          IF line \in kept THEN Append(found, line) ELSE found]], <<>>, lines)

\* How often a line is there.
Count(A, lines, line) == Len(Only(A, lines, {line}))

\* rstrip
Stripped(lines, blank) ==
  LET used == {i \in DOMAIN lines : lines[i] # blank}
      end == IF used = {} THEN 0 ELSE CHOOSE i \in used : \A j \in used : j <= i
  IN  SubSeq(lines, 1, end)
=============================================================================
