----------------------- MODULE ReviewSessionRefinement -----------------------
(* ReviewSession, with all its requests, locks, crashes and retries, implements *)
(* ReviewLog: the requests of many clients look like one learner answering one  *)
(* turn after the other.                                                       *)
EXTENDS ReviewSession

PhaseOf(s) == IF status[s] \in Live THEN "live" ELSE status[s]
LogOf(s) == [i \in 1 .. Cardinality(AnsweredTurns(s)) |-> answer[s][i - 1]]

Log == INSTANCE ReviewLog WITH
         phase <- [s \in Sessions |-> PhaseOf(s)],
         practice <- [s \in Sessions |-> setup[s].practice],
         log <- [s \in Sessions |-> LogOf(s)]

\* Every step of every handler is a step of the log or leaves it alone: no retry,
\* race or crash loses an acknowledged turn, adds one, or moves the schedule.
ImplementsReviewLog == Log!Spec
==============================================================================
