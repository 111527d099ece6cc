---------------------------- MODULE CardProposals ----------------------------
(***************************************************************************)
(* Cards out of one completed Practice item of a study plan                *)
(* (src/api/app/routers/study_plan.py): its debrief, the proposals         *)
(* generated from it, the user's answer to an overlap, and the acceptance  *)
(* that creates cards in the library.                                      *)
(***************************************************************************)
EXTENDS CardLibrary, SequencesExt

CONSTANTS
    Keys,          \* idempotency keys of acceptances
    Texts,         \* debrief texts
    MaxSuggested   \* MAX_SUGGESTED_CARDS

ASSUME ProposalsAssumption == MaxSuggested \in Nat

VARIABLES
    debrief,      \* the item's StudyPlanPracticeDebrief row, Missing before
    promised,     \* texts whose submission was confirmed
    proposals,    \* the item's StudyPlanCardProposal rows
    acceptances,  \* committed StudyPlanCardProposalAcceptance rows by key
    outcomes      \* by key, how its last acceptance ended

proposalVars == <<debrief, promised, proposals, acceptances, outcomes>>

(***************************************************************************)
(* The practice debrief                                                    *)
(***************************************************************************)
Attempts == 3

\* Selected proposals with the topics they shall have.
Selected == UNION {[S -> Topics] : S \in SUBSET (1..MaxSuggested)}

Debriefs == [text : Texts, submitted : BOOLEAN]

ASSUME ItemAssumption == Missing \notin Selected \cup Debriefs

Debrief(text, submitted) == [text |-> text, submitted |-> submitted]

Submitted == debrief # Missing /\ debrief.submitted

Retries(r) == IF txn[r].left = 1 THEN Finish(r) ELSE Keep(r, [txn[r] EXCEPT !.step = "update", !.left = @ - 1])

Promise(r) == promised' = IF txn[r].op = "submit" THEN promised \cup {txn[r].text} ELSE promised

OpenDebrief(r, op, text) ==
    /\ txn[r] = Missing
    /\ Keep(r, [op |-> op, text |-> text, step |-> "update", left |-> Attempts])
    /\ UNCHANGED <<cards, answering, captures, proposalVars>>

Writing(r, step) == (Doing(r, "save") \/ Doing(r, "submit")) /\ txn[r].step = step

\* The conditional update finds a row that is not submitted.
Updates == debrief # Missing /\ ~debrief.submitted

UpdateDebrief(r) ==
    /\ Writing(r, "update")
    /\ IF Updates
       THEN debrief' = Debrief(txn[r].text, txn[r].op = "submit") /\ Promise(r) /\ Finish(r)
       ELSE Keep(r, [txn[r] EXCEPT !.step = "look"]) /\ UNCHANGED <<debrief, promised>>
    /\ UNCHANGED <<cards, answering, captures, proposals, acceptances, outcomes>>

\* Why it found none: submitted already, which only the same text may repeat; a draft
\* saved in between; or no row.
LookAtDebrief(r) ==
    /\ Writing(r, "look")
    /\ IF debrief = Missing THEN Keep(r, [txn[r] EXCEPT !.step = "insert"]) /\ UNCHANGED promised
       ELSE IF ~debrief.submitted THEN Retries(r) /\ UNCHANGED promised
       ELSE /\ IF debrief.text = txn[r].text THEN Promise(r) ELSE UNCHANGED promised
            /\ Finish(r)
    /\ UNCHANGED <<cards, answering, captures, debrief, proposals, acceptances, outcomes>>

\* The item's unique index lets one insert through.
InsertDebrief(r) ==
    /\ Writing(r, "insert")
    /\ IF debrief = Missing
       THEN debrief' = Debrief(txn[r].text, txn[r].op = "submit") /\ Promise(r) /\ Finish(r)
       ELSE Retries(r) /\ UNCHANGED <<debrief, promised>>
    /\ UNCHANGED <<cards, answering, captures, proposals, acceptances, outcomes>>

(***************************************************************************)
(* POST .../card-proposals                                                 *)
(***************************************************************************)
WantsProposals(r) ==
    /\ txn[r] = Missing /\ Submitted /\ proposals = << >>
    /\ Keep(r, [op |-> "wanting"])
    /\ UNCHANGED <<cards, answering, captures, proposalVars>>

\* Another request may have generated them while this one waited.
StillMissing == proposals = << >>

LockAccount(r) ==
    /\ Doing(r, "wanting") /\ AccountUnlocked
    /\ IF StillMissing THEN Keep(r, [op |-> "proposing"]) ELSE Finish(r)
    /\ UNCHANGED <<cards, answering, captures, proposalVars>>

\* disposition_for
Disposition(passed, exact) == IF exact THEN "existing" ELSE IF passed THEN "suggested" ELSE "not_suggested"

Candidates == {[topic |-> t, passed |-> p] : t \in Topics, p \in BOOLEAN}

Proposal(candidate, batch) ==
    [topic |-> candidate.topic, passed |-> candidate.passed, batch |-> batch,
     disposition |-> Disposition(candidate.passed, Taken(candidate.topic))]

\* The library is read after the call, and one more time by the acceptance.
CommitProposals(r) ==
    /\ Doing(r, "proposing")
    /\ \E batch \in SeqOf(Candidates, MaxSuggested) :
          proposals' = proposals \o [i \in DOMAIN batch |-> Proposal(batch[i], Len(proposals))]
    /\ Finish(r)
    /\ UNCHANGED <<cards, answering, captures, debrief, promised, acceptances, outcomes>>

\* POST .../resolve-duplicate records the choice, whatever the proposal has become.
Resolve(p, choice) ==
    /\ proposals' = [proposals EXCEPT ![p].disposition =
           CASE choice = "keep_new" -> Disposition(proposals[p].passed, FALSE)
             [] choice = "use_existing" -> "existing"
             [] choice = "skip" -> "skipped"]
    /\ UNCHANGED <<cards, answering, captures, txn, debrief, promised, acceptances, outcomes>>

(***************************************************************************)
(* POST .../card-proposals/accept                                          *)
(***************************************************************************)
Selectable(p) == p.disposition = "suggested"

Ended(key, how) == outcomes' = [outcomes EXCEPT ![key] = how]

\* request_hash of the selected proposals and the topics they are edited to.
Replays(key, topics) == acceptances[key] # Missing /\ acceptances[key] = topics

\* One key with another request is refused.
Reused(key, topics) == acceptances[key] # Missing /\ acceptances[key] # topics

\* "topics": by selected proposal, the topic it shall have.  All of this is read
\* before the topic lock.
ReadAcceptance(r, key, topics) ==
    /\ txn[r] = Missing
    /\ IF Replays(key, topics)
       THEN Ended(key, "committed") /\ UNCHANGED txn
       ELSE /\ ~Reused(key, topics)
            /\ \A p \in DOMAIN topics : Selectable(proposals[p])
            /\ Keep(r, [op |-> "accepting", key |-> key, topics |-> topics])
            /\ UNCHANGED outcomes
    /\ UNCHANGED <<cards, answering, captures, debrief, promised, proposals, acceptances>>

NoReplay(key, topics) == FALSE   \* mutant

\* replay_or_clear_prior once more, under the lock.
ReplaysUnderLock(key, topics) == Replays(key, topics)

\* Two selected proposals would have one topic, or its card exists.
Repeats(topics, p) == \E q \in DOMAIN topics : q < p /\ topics[q] = topics[p]

Stops(topics) == {p \in DOMAIN topics : Taken(topics[p]) \/ Repeats(topics, p)}

\* The selection is checked as a whole before a card is created.
CheckAcceptance(r) ==
    LET key == txn[r].key
        topics == txn[r].topics
    IN  /\ Doing(r, "accepting") /\ TopicsUnlocked(r)
        /\ IF ReplaysUnderLock(key, topics)
           THEN Ended(key, "committed") /\ Finish(r) /\ UNCHANGED proposals
           ELSE IF Reused(key, topics)
           THEN Finish(r) /\ UNCHANGED <<proposals, outcomes>>
           ELSE IF Stops(topics) = {}
           THEN Keep(r, [txn[r] EXCEPT !.op = "accept"]) /\ UNCHANGED <<proposals, outcomes>>
           ELSE IF Taken(topics[Min(Stops(topics))])
           THEN /\ proposals' = [proposals EXCEPT ![Min(Stops(topics))].disposition = "existing"]
                /\ Ended(key, "clash")
                /\ Finish(r)
           ELSE Finish(r) /\ UNCHANGED <<proposals, outcomes>>
        /\ UNCHANGED <<cards, answering, captures, debrief, promised, acceptances>>

\* A set of positions in their order.
InOrder(S) == {f \in [1..Cardinality(S) -> S] : \A i, j \in DOMAIN f : i < j => f[i] < f[j]}

\* Cards, links, dispositions and the acceptance commit together.
CommitAcceptance(r) ==
    LET key == txn[r].key
        topics == txn[r].topics
    IN  /\ Doing(r, "accept") /\ Len(cards) + Cardinality(DOMAIN topics) <= MaxCards
        /\ \E selected \in InOrder(DOMAIN topics) :
              cards' = cards \o [i \in DOMAIN selected |->
                          NewCard(topics[selected[i]], 0, <<"proposal", key, selected[i]>>)]
        /\ proposals' = [p \in DOMAIN proposals |->
               IF p \in DOMAIN topics THEN [proposals[p] EXCEPT !.disposition = "accepted"] ELSE proposals[p]]
        /\ acceptances' = [acceptances EXCEPT ![key] = topics]
        /\ Ended(key, "committed")
        /\ Finish(r)
        /\ UNCHANGED <<answering, captures, debrief, promised>>

(***************************************************************************)
(* Specification                                                           *)
(***************************************************************************)
ProposalsInit ==
    /\ LibraryInit
    /\ debrief = Missing
    /\ promised = {}
    /\ proposals = << >>
    /\ acceptances = [key \in Keys |-> Missing]
    /\ outcomes = [key \in Keys |-> Missing]

DebriefStep(r) ==
    \/ \E op \in {"save", "submit"}, text \in Texts : OpenDebrief(r, op, text)
    \/ UpdateDebrief(r)
    \/ LookAtDebrief(r)
    \/ InsertDebrief(r)

Selections == UNION {[S -> Topics] : S \in SUBSET (DOMAIN proposals) \ {{}}}

ProposalStep(r) ==
    \/ WantsProposals(r)
    \/ LockAccount(r)
    \/ CommitProposals(r)
    \/ \E key \in Keys, topics \in Selections : ReadAcceptance(r, key, topics)
    \/ CheckAcceptance(r)
    \/ CommitAcceptance(r)

Resolving ==
    \E p \in DOMAIN proposals, choice \in {"keep_new", "use_existing", "skip"} : Resolve(p, choice)

ProposalsNext ==
    \/ LibraryNext /\ UNCHANGED proposalVars
    \/ \E r \in Transactions : DebriefStep(r) \/ ProposalStep(r)
    \/ Resolving

ProposalsSpec == ProposalsInit /\ [][ProposalsNext]_<<libraryVars, proposalVars>>

(***************************************************************************)
(* Properties                                                              *)
(***************************************************************************)
\* Nothing is created twice by a retry: a capture becomes one card at most, a key one
\* batch of cards, the item is proposed for once, and a key that created its cards is
\* never told that they were in the way.
CreatedOnce ==
    /\ \A c, d \in DOMAIN cards : cards[c].origin = cards[d].origin => c = d
    /\ \A p \in DOMAIN proposals : proposals[p].batch = 0
    /\ \A key \in Keys : acceptances[key] # Missing => outcomes[key] = "committed"

\* A confirmed debrief is the stored one, whoever else saves or submits it
\* (submit_practice_debrief).
DebriefStands == \A text \in promised : Submitted /\ debrief.text = text

\* Neither a retry nor a late writer undoes what an earlier request was told.
ProposalsAreSound == CreatedOnce /\ DebriefStands
=============================================================================
