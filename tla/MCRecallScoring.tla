--------------------------- MODULE MCRecallScoring ---------------------------
(***************************************************************************)
(* The sessions of a card and the paid calls of its account.  They have no *)
(* variable in common - ReviewSession takes a scorer's verdict as given -  *)
(* so a scene exercises one of them.                                       *)
(***************************************************************************)
EXTENDS MCReviewSession, ProviderBudget

\* A usable mark in the band, one outside it, and an unusable output.
MCOutputs ==
    {[shaped |-> shaped, recall |-> mark, tradeOffs |-> 3, failureModes |-> 3,
      needs |-> FALSE, probe |-> TRUE, texts |-> TRUE]
        : shaped \in BOOLEAN, mark \in {2, 4}} \
    {[shaped |-> FALSE, recall |-> 4, tradeOffs |-> 3, failureModes |-> 3,
      needs |-> FALSE, probe |-> TRUE, texts |-> TRUE]}

MCScoringInit == Init /\ BudgetInit

Reviewing ==
    \/ \E r \in Requests : pc[r] # "idle" \/ reply[r] # Reply("none")
    \/ \E s \in Sessions : status[s] # "none"

Paying == sent # [j \in Jobs |-> << >>] \/ job # [j \in Jobs |-> Idle] \/ ~qualified \/ crashes > 0

MCScoringNext ==
    \/ ~Paying /\ review.contract = 1 /\ Next /\ UNCHANGED budgetVars
    \/ ~Reviewing /\ question = None /\ BudgetNext /\ UNCHANGED vars
       /\ Cardinality({j \in Jobs : job'[j].kind = "question"}) <= 1
       /\ Cardinality({j \in Jobs : job'[j].kind = "score"}) <= 2

MCScoringSpec == MCScoringInit /\ [][MCScoringNext]_<<vars, budgetVars>>

ScoringSymmetry == Symmetry \cup Permutations(Jobs)
==============================================================================
