--------------------------- MODULE MCReviewSession ---------------------------
(* Instances of ReviewSession for TLC.  The cfg chooses which operations the   *)
(* environment invokes; every run keeps the crash of a request.               *)
EXTENDS ReviewSessionRefinement, TLC

AllIndexed == Turns
Legacy == {NoTurn}
EveryClient == Turns \cup {NoTurn}

Symmetry == Permutations(Requests) \cup Permutations(Texts)
==============================================================================
