------------------------------ MODULE GuideGate ------------------------------
(***************************************************************************)
(* The gate between the guide importer and the database                    *)
(* (src/api/app/services/study_plan_import.py): pure functions from what   *)
(* the model answered, and what the user decided about it, to a preview,   *)
(* the checks still open and the rows of a plan.  PlanDraft composes it    *)
(* with the handlers that keep a draft.                                    *)
(*                                                                         *)
(* An answer is a record [phases, weeks, titles, items, links, omissions]: *)
(* weeks is the sequence of the phases the weeks point at, an item         *)
(*   [week, order, minutes, sure, generated, core, source, quote]          *)
(* is generated when it is retrieval that the guide did not ask for, and a *)
(* link is [pre, post, hard, imported, sure].  Minutes are blocks of ten;  *)
(* titles and quotes are kinds of text.                                    *)
(***************************************************************************)
EXTENDS PlanScheduler

CONSTANTS
    Asked,       \* [weeks, capacity, deadline] of the request, deadline None or a week
    Increment    \* ESTIMATE_INCREMENT

\* validate_request: what reaches a paid call.
ASSUME AskedAssumption ==
    /\ Increment \in Nat \ {0}
    /\ Asked.weeks \in 2..52
    /\ Asked.capacity \in Nat \ {0} /\ Asked.capacity % Increment = 0
    /\ Asked.deadline = None \/ Asked.deadline \in Nat \ {0}

Keys(answer) == DOMAIN answer.items

(***************************************************************************)
(* The readers                                                             *)
(***************************************************************************)
\* An answer that no preview can be made of raises ImportError_: the phases must
\* own contiguous spans of weeks, in order, and every item lie in a week.
Readable(answer) ==
    /\ answer.phases > 0 /\ answer.weeks # << >> /\ Keys(answer) # {}
    /\ \A w \in DOMAIN answer.weeks :
           /\ answer.weeks[w] \in 1..answer.phases
           /\ w > 1 => answer.weeks[w - 1] <= answer.weeks[w]
    /\ \A i \in Keys(answer) : answer.items[i].week \in DOMAIN answer.weeks

RoundToIncrement(minutes) ==
    IF minutes <= 0 THEN Increment
    ELSE ((minutes + Increment - 1) \div Increment) * Increment

\* A quote found elsewhere in the guide gets its real offsets; one found nowhere
\* keeps none.
ReadQuote(quote) == IF quote = "moved" THEN "framed" ELSE quote

ReadItem(answer, i) ==
    LET item == answer.items[i]
    IN  [item EXCEPT !.quote = ReadQuote(@),
                     !.source = IF @ \in Keys(answer) THEN @ ELSE None]
        @@ [est |-> RoundToIncrement(item.minutes), phase |-> answer.weeks[item.week]]

\* Links to unknown items and to oneself are dropped.
ReadLinks(answer) ==
    {link \in answer.links : {link.pre, link.post} \subseteq Keys(answer) /\ link.pre # link.post}

(***************************************************************************)
(* What the user decided                                                   *)
(***************************************************************************)
Undecided == [reviewed |-> {}, approved |-> {}, rejected |-> {}, confirmed |-> {},
              omissions |-> FALSE]

Edge(link) == <<link.pre, link.post>>

(***************************************************************************)
(* The checks: what each row of the review still asks for, nothing when it *)
(* is "ok".                                                                *)
(***************************************************************************)
WeekMinutes(items, w) == Minutes(items, Residents(items, DOMAIN items, w))

OverfullAsAnswered(preview) ==                                      \* mutant
    {w \in DOMAIN preview.weeks :
        FoldSet(LAMBDA i, sum : sum + preview.items[i].minutes, 0,
                Residents(preview.items, DOMAIN preview.items, w)) > Asked.capacity}

\* Recomputed from the estimates, of all items, that a plan would be created with.
Overfull(preview) ==
    {w \in DOMAIN preview.weeks : WeekMinutes(preview.items, w) > Asked.capacity}

Late(preview) ==
    IF Asked.deadline = None THEN {} ELSE {w \in DOMAIN preview.weeks : w > Asked.deadline}

Flagged(preview) ==
    {i \in DOMAIN preview.items :
        ~preview.items[i].sure \/ preview.items[i].est # preview.items[i].minutes}

\* An item whose quote is nowhere in the guide was invented.
Uncovered(preview) ==
    LET invented == {i \in DOMAIN preview.items : preview.items[i].quote = "invented"}
    IN  IF invented # {} THEN invented
        ELSE IF preview.omissions /\ ~preview.decided.omissions THEN {"omissions"} ELSE {}

Generated(preview) == {i \in DOMAIN preview.items : preview.items[i].generated}

Trusted(link) == link.imported /\ link.sure

Doubtful(preview) == {Edge(link) : link \in {l \in preview.links : ~Trusted(l)}}

\* overview_title_problem
Unusable == {"blank", "cut", "long", "vague"}

\* Weeks whose short title is unusable, or shared by a week of the same phase.
BadTitles(preview) ==
    {w \in DOMAIN preview.titles :
        \/ preview.titles[w] \in Unusable
        \/ \E v \in DOMAIN preview.titles \ {w} :
               preview.weeks[v] = preview.weeks[w] /\ preview.titles[v] = preview.titles[w]}

Core(preview) == {i \in DOMAIN preview.items : preview.items[i].core}

Checks(preview) ==
    LET decided == preview.decided
    IN  [duration     |-> {Len(preview.weeks)} \ {Asked.weeks},
         capacity     |-> Overfull(preview),
         deadline     |-> Late(preview),
         estimates    |-> Flagged(preview) \ decided.reviewed,
         coverage     |-> Uncovered(preview),
         retrieval    |-> Generated(preview) \ (decided.approved \cup decided.rejected),
         dependencies |-> Doubtful(preview) \ decided.confirmed,
         titles       |-> BadTitles(preview),
         core         |-> IF Core(preview) = {} THEN DOMAIN preview.items ELSE {}]

Open(checks) == {k \in DOMAIN checks : checks[k] # {}}

\* validate_import
PreviewOf(answer, decided) ==
    [weeks |-> answer.weeks, titles |-> answer.titles, omissions |-> answer.omissions,
     items |-> [i \in Keys(answer) |-> ReadItem(answer, i)],
     links |-> ReadLinks(answer), decided |-> decided]

(***************************************************************************)
(* build_plan_rows: generated retrieval without approval has no row to be  *)
(* created from, and a link keeps its confirmation.                        *)
(***************************************************************************)
Included(preview) ==
    {i \in DOMAIN preview.items :
        preview.items[i].generated => i \in preview.decided.approved}

Links(preview) ==
    {link \in preview.links : {link.pre, link.post} \subseteq Included(preview)}

PlanItem(preview, i) ==
    LET item == preview.items[i]
    IN  [phase |-> item.phase, week |-> item.week, order |-> item.order, est |-> item.est,
         core |-> item.core, status |-> "pending",
         source |-> IF item.source \in Included(preview) THEN item.source ELSE None,
         hard |-> {link.pre : link \in {l \in Links(preview) : l.post = i /\ l.hard}}]

PlanRows(preview) ==
    [weeks |-> [w \in DOMAIN preview.weeks |->
                    [phase |-> preview.weeks[w], override |-> None]],
     items |-> [i \in Included(preview) |-> PlanItem(preview, i)],
     links |-> {[edge |-> Edge(link),
                 confirmed |-> Trusted(link) \/ Edge(link) \in preview.decided.confirmed] :
                   link \in Links(preview)}]
=============================================================================
