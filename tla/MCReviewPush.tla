---------------------------- MODULE MCReviewPush ----------------------------
(* Instances of ReviewPush: a day of three or four ticks with windows.       *)
EXTENDS ReviewPush, TLC

\* Windows that overlap at an end: the later one wins.
Neighbours == {[from |-> i, to |-> i + 1] : i \in 0 .. 2}
Overlapping == {[from |-> 0, to |-> 1], [from |-> 1, to |-> 2]}
Symmetry == Permutations(Cards) \cup Permutations(Polls)
=============================================================================
