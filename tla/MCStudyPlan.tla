----------------------------- MODULE MCStudyPlan -----------------------------
(***************************************************************************)
(* Instances of StudyPlan and PlanDraft for TLC: the plans of an account,  *)
(* or, as long as nothing has happened to them, the drafts beside them.    *)
(***************************************************************************)
EXTENDS StudyPlan, PlanDraft

CONSTANTS c1, r1, r2, p1, p2, p3, d1

Item(phase, week, order, est, core, source, hard) ==
    [phase |-> phase, week |-> week, order |-> order, est |-> est, core |-> core,
     source |-> source, hard |-> hard]

\* Two weeks of one phase: "read" is Core, "drill" waits for it, "recall"
\* retrieves it.  The second release adds new work to "drill" and drops
\* "recall", which the third has again.
MCGuide ==
    [weeks |-> << [phase |-> 1, override |-> None], [phase |-> 1, override |-> None] >>,
     items |-> [read |-> Item(1, 1, 1, 2, TRUE, None, {}),
                drill |-> Item(1, 1, 2, 2, FALSE, None, {"read"}),
                recall |-> Item(1, 2, 3, 2, FALSE, "read", {})],
     default |-> 6, deadline |-> None]

MCReleases ==
    << [items |-> {"read", "drill", "recall"}, fresh |-> {}],
       [items |-> {"read", "drill"}, fresh |-> {"drill"}],
       [items |-> {"read", "drill", "recall"}, fresh |-> {}] >>

MCInputs ==
    {Plain, [Plain EXCEPT !.over = (1 :> 3), !.default = 9],
     [Plain EXCEPT !.over = (2 :> 1)], [Plain EXCEPT !.deferred = {"drill"}]}

Alike == Permutations({r1, r2}) \cup Permutations({p2, p3})

\* The bound on the product of three scenes: upgrades of the curriculum against
\* completions, the schedule of one plan, and switches between plans whose
\* schedules stand still.
Kinds(p) == {plans[p].ledger[n].kind : n \in DOMAIN plans[p].ledger}

Upgrading == Existing = {SeedPlan} /\ Kinds(SeedPlan) \subseteq {"created", "curriculum", "reopen"}

Replanning ==
    /\ Existing = {SeedPlan}
    /\ upgrade = None
    /\ Kinds(SeedPlan) \subseteq {"created", "replan", "capacity", "edit", "reopen"}
    /\ Len(plans[SeedPlan].ledger) <= 3

Switching ==
    /\ \A p \in Existing :
           /\ Kinds(p) \subseteq {"created", "resume", "activate", "paused", "completed", "archived"}
           /\ Pinned(plans[p].items, DOMAIN plans[p].items) = {}
    /\ \A c \in Clients : view[c] = None
    /\ upgrade = None
    /\ Len(plans[SeedPlan].ledger) <= 3

\* A draft that has an answer is out of reach of every import, so its review
\* begins when none is at work; it ends with the first plan, or the first two
\* edits that overlapped.
Editing == \E c \in Editors : editing[c] # None
Finished == \E d \in Drafts : created[d] # None

ReviewIsBounded ==
    /\ Editing \/ Finished => \A r \in Workers : At(r, "none")
    /\ Editing => ~Finished /\ \A d \in Drafts : lineage[d].ordered

Scope == (Upgrading \/ Replanning \/ Switching) /\ ReviewIsBounded

\* Two weeks of one phase in thirds of an hour.  The first answer leaves something
\* to decide in every check but three, the second cannot be read and the third
\* is sure of everything, of a link against the order of its weeks too.
MCAsked == [weeks |-> 2, capacity |-> 6, deadline |-> 2]

Work(week, order, minutes, sure, generated, source) ==
    [week |-> week, order |-> order, minutes |-> minutes, sure |-> sure,
     generated |-> generated, core |-> ~generated, source |-> source, quote |-> "moved"]

Doubts ==
    [phases |-> 1, weeks |-> <<1, 1>>, titles |-> <<"queues", "queues">>, omissions |-> TRUE,
     items |-> [read |-> Work(1, 1, 2, TRUE, FALSE, None),
                drill |-> Work(1, 2, 4, FALSE, FALSE, "exam"),
                recall |-> Work(2, 3, 3, TRUE, TRUE, "read")],
     links |-> {[pre |-> "read", post |-> "drill", hard |-> TRUE, imported |-> FALSE, sure |-> TRUE],
                [pre |-> "read", post |-> "read", hard |-> TRUE, imported |-> TRUE, sure |-> TRUE]}]

Backwards ==
    [phases |-> 1, weeks |-> <<1, 1>>, titles |-> <<"queues", "heaps">>, omissions |-> FALSE,
     items |-> [read |-> Work(1, 1, 3, TRUE, FALSE, None), drill |-> Work(2, 2, 3, TRUE, FALSE, None)],
     links |-> {[pre |-> "drill", post |-> "read", hard |-> TRUE, imported |-> TRUE, sure |-> TRUE]}]

MCAnswers == {Doubts, [Doubts EXCEPT !.weeks = <<1, 2>>], Backwards}

NoEdit == [estimates |-> << >>, titles |-> << >>, reviewed |-> {}, approved |-> {},
           rejected |-> {}, confirmed |-> {}, omissions |-> None]

MCEdits ==
    {[NoEdit EXCEPT !.reviewed = {"read", "drill"}, !.confirmed = {<<"read", "drill">>},
                    !.titles = (2 :> "heaps")],
     [NoEdit EXCEPT !.estimates = [drill |-> 3]],
     [NoEdit EXCEPT !.titles = (1 :> "stacks")],
     [NoEdit EXCEPT !.approved = {"recall"}, !.omissions = TRUE],
     [NoEdit EXCEPT !.rejected = {"recall"}, !.omissions = TRUE]}

MCInit == Init /\ DraftInit

\* The plans are those of Init: the drafts can move.
MCNext ==
    \/ DraftInit /\ Next /\ UNCHANGED draftVars
    \/ Init /\ DraftNext /\ UNCHANGED vars

MCSpec == MCInit /\ [][MCNext]_<<vars, draftVars>>

MCMaxLedger == [p \in Plans |-> IF p = SeedPlan THEN 4 ELSE 2]
=============================================================================
