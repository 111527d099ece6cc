------------------------------ MODULE PlanDraft ------------------------------
(***************************************************************************)
(* From a pasted guide to a study plan (src/api/app/routers/study_plan.py, *)
(* services/guide_import.py): a draft keeps the guide, the importer's      *)
(* answer and what the user decided about it, until a plan is created.     *)
(*                                                                         *)
(* The paid call takes minutes and holds no lock.  It is a lease on the    *)
(* draft, kept by a heartbeat: a request that reads the draft expires a    *)
(* lease that went stale, and a retry takes it over while the first        *)
(* request may still be at the provider.  Edits and creations read the     *)
(* draft without a lock.                                                   *)
(***************************************************************************)
EXTENDS GuideGate

CONSTANTS
    Drafts,      \* rows there may be
    Workers,     \* requests that preview or retry
    Editors,     \* requests that edit
    Answers,     \* of the importer
    Edits,       \* that a client sends: PreviewEdit
    MaxDrafts    \* MAX_STUDY_PLAN_DRAFTS_PER_USER

\* The importer answers in the fields of its response schema; an edit sends a title
\* for weeks and an estimate for items.
AnswerFields == {"phases", "weeks", "titles", "items", "links", "omissions"}
WorkFields == {"week", "order", "minutes", "sure", "generated", "core", "source", "quote"}

IsAnswer(answer) ==
    /\ DOMAIN answer = AnswerFields
    /\ \A i \in DOMAIN answer.items : DOMAIN answer.items[i] = WorkFields

ASSUME DraftAssumption ==
    /\ MaxDrafts \in Nat
    /\ None \notin Drafts \cup Workers \cup Answers
    /\ \A answer \in Answers : IsAnswer(answer)

VARIABLES
    draft,       \* the rows
    import,      \* an import: the draft, where the request is, what it got
    editing,     \* an edit: the row it read and the row it will write
    created,     \* the last plan created from a draft, as shown and as stored
    lineage      \* of a draft: who claimed it last, and whether its edits came
                 \* one after the other

draftVars == <<draft, import, editing, created, lineage>>

(***************************************************************************)
(* Rows                                                                    *)
(***************************************************************************)
NoDraft == [status |-> "none", holder |-> None, fresh |-> FALSE,
            answer |-> None, preview |-> None, checks |-> << >>]

Fresh == [status |-> "pending", holder |-> None, fresh |-> TRUE,
          answer |-> None, preview |-> None, checks |-> << >>]

Stored == {d \in Drafts : draft[d].status # "none"}

\* _get_draft: a read expires a pending draft whose lease, or whose wait for a
\* first claim, went stale.
Read(row) == IF row.status = "pending" /\ ~row.fresh
             THEN [row EXCEPT !.status = "failed", !.holder = None] ELSE row

\* The decisions kept in the preview.
DecidedOn(row) == IF row.preview = None THEN Undecided ELSE row.preview.decided

\* run_plan_draft, revalidate_plan_draft: an answer no preview can be made of
\* fails the draft and is not kept.
Validated(row, answer, decided) ==
    IF ~Readable(answer) THEN [row EXCEPT !.status = "failed"]
    ELSE [row EXCEPT !.status = "ready", !.answer = answer,
                     !.preview = PreviewOf(answer, decided),
                     !.checks = Checks(PreviewOf(answer, decided))]

(***************************************************************************)
(* Importing                                                               *)
(***************************************************************************)
NoImport == [draft |-> None, at |-> "none", expects |-> "none", got |-> None,
             decided |-> Undecided]

At(r, step) == import[r].at = step

GoTo(r, step) == import' = [import EXCEPT ![r].at = step]

Done(r) == import' = [import EXCEPT ![r] = NoImport]

\* reserve_study_guide_draft
DraftsLeft == Cardinality(Stored) < MaxDrafts

\* preview_guide: the row is committed before the call, under the account row
\* that the quota was counted under.
PreviewGuide(r, d) ==
    /\ At(r, "none") /\ d \in Drafts \ Stored
    /\ DraftsLeft
    /\ draft' = [draft EXCEPT ![d] = Fresh]
    /\ import' = [import EXCEPT ![r] =
           [draft |-> d, at |-> "claim", expects |-> "pending", got |-> None,
            decided |-> Undecided]]
    /\ UNCHANGED <<editing, created, lineage>>

RetryPreview(r, d) ==
    /\ At(r, "none") /\ d \in Stored
    /\ Read(draft[d]).status = "failed"
    /\ draft' = [draft EXCEPT ![d] = Read(@)]
    /\ import' = [import EXCEPT ![r] =
           [draft |-> d, at |-> "claim", expects |-> "failed", got |-> None,
            decided |-> Undecided]]
    /\ UNCHANGED <<editing, created, lineage>>

\* _claim_preview_import: one conditional UPDATE, which a new draft admits once.
Claimable(row, expects) ==
    row.status = expects /\ (expects = "pending" => row.holder = None)

Claim(r) ==
    LET d == import[r].draft
    IN  /\ At(r, "claim")
        /\ IF Claimable(draft[d], import[r].expects)
           THEN /\ draft' = [draft EXCEPT ![d] = [@ EXCEPT
                        !.status = "pending", !.holder = r, !.fresh = TRUE]]
                /\ import' = [import EXCEPT ![r] = [@ EXCEPT
                        !.at = "call", !.decided = DecidedOn(draft[d])]]
                /\ lineage' = [lineage EXCEPT ![d].latest = r]
           ELSE Done(r) /\ UNCHANGED <<draft, lineage>>
        /\ UNCHANGED <<editing, created>>

\* The lease as the authorizer and _lock_preview_result check it.
Mine(r) == LET row == draft[import[r].draft]
           IN  row.status = "pending" /\ row.holder = r /\ row.fresh

\* The authorizer, at the boundary of the paid call.
Authorize(r) ==
    /\ At(r, "call")
    /\ GoTo(r, IF Mine(r) THEN "called" ELSE "fail")
    /\ UNCHANGED <<draft, editing, created, lineage>>

\* The provider answers; None when it did not (LLMError).
Answer(r, answer) ==
    /\ At(r, "called")
    /\ import' = [import EXCEPT ![r] = [@ EXCEPT !.at = "store", !.got = answer]]
    /\ UNCHANGED <<draft, editing, created, lineage>>

\* copy_plan_draft_result onto the locked row, which is still ours.
ResultOn(row, r) ==
    LET copied == IF import[r].got = None THEN [row EXCEPT !.status = "failed"]
                  ELSE Validated(row, import[r].got, import[r].decided)
    IN  [copied EXCEPT !.holder = None]

StoreResult(r) ==
    LET d == import[r].draft
    IN  /\ At(r, "store")
        /\ IF Mine(r)
           THEN draft' = [draft EXCEPT ![d] = ResultOn(@, r)] /\ Done(r)
           ELSE GoTo(r, "fail") /\ UNCHANGED draft
        /\ UNCHANGED <<editing, created, lineage>>

\* _store_preview_failure, under the same check: a heartbeat may have renewed the
\* lease since the authorizer saw it stale.
StoreFailure(r) ==
    /\ At(r, "fail")
    /\ draft' = [draft EXCEPT ![import[r].draft] =
           IF Mine(r) THEN [@ EXCEPT !.status = "failed", !.holder = None] ELSE @]
    /\ Done(r)
    /\ UNCHANGED <<editing, created, lineage>>

\* The heartbeat renews the lease it still holds; having lost it, or failed three
\* times to reach the database, it cancels the call.
Working(r) == At(r, "call") \/ At(r, "called")

Beat(r) ==
    LET row == draft[import[r].draft]
    IN  /\ Working(r) \/ At(r, "store")
        /\ row.status = "pending" /\ row.holder = r
        /\ draft' = [draft EXCEPT ![import[r].draft].fresh = TRUE]
        /\ UNCHANGED <<import, editing, created, lineage>>

CancelCall(r) ==
    /\ Working(r)
    /\ GoTo(r, "fail")
    /\ UNCHANGED <<draft, editing, created, lineage>>

\* The process dies at any step of the import.
Die(r) ==
    /\ ~At(r, "none")
    /\ Done(r)
    /\ UNCHANGED <<draft, editing, created, lineage>>

\* Two minutes pass without a heartbeat.
GoStale(d) ==
    /\ d \in Stored
    /\ draft[d].status = "pending"
    /\ draft' = [draft EXCEPT ![d].fresh = FALSE]
    /\ UNCHANGED <<import, editing, created, lineage>>

GetPreview(d) ==
    /\ d \in Stored
    /\ draft' = [draft EXCEPT ![d] = Read(@)]
    /\ UNCHANGED <<import, editing, created, lineage>>

(***************************************************************************)
(* Reviewing                                                               *)
(***************************************************************************)
\* require_known_keys: decisions about the answer only.
IsKnown(answer, edit) ==
    /\ DOMAIN edit.estimates \cup edit.reviewed \subseteq Keys(answer)
    /\ edit.approved \cup edit.rejected \subseteq
           {i \in Keys(answer) : answer.items[i].generated}
    /\ edit.confirmed \subseteq {Edge(link) : link \in answer.links}
    /\ DOMAIN edit.titles \subseteq DOMAIN answer.titles

\* Edits go to the stored answer, so that a later validation sees them too.
Edited(answer, edit) ==
    [answer EXCEPT
        !.items = [i \in DOMAIN @ |->
            IF i \in DOMAIN edit.estimates
            THEN [@[i] EXCEPT !.minutes = edit.estimates[i], !.sure = TRUE] ELSE @[i]],
        !.titles = edit.titles @@ @]

\* Decisions accumulate.
Decide(decided, edit) ==
    [reviewed  |-> decided.reviewed \cup edit.reviewed,
     approved  |-> decided.approved \cup edit.approved,
     rejected  |-> decided.rejected \cup edit.rejected,
     confirmed |-> decided.confirmed \cup edit.confirmed,
     omissions |-> IF edit.omissions = None THEN decided.omissions ELSE edit.omissions]

BeginEdit(c, d, edit) ==
    LET row == draft[d]
        decided == Decide(DecidedOn(row), edit)
    IN  /\ editing[c] = None /\ d \in Stored
        /\ row.answer # None
        /\ IsKnown(row.answer, edit)
        /\ decided.approved \cap decided.rejected = {}
        /\ editing' = [editing EXCEPT ![c] =
               [draft |-> d, read |-> row,
                write |-> Validated(row, Edited(row.answer, edit), decided)]]
        /\ UNCHANGED <<draft, import, created, lineage>>

\* The flush writes the columns that differ from what the edit read.
Flushed(row, read, write) ==
    [column \in DOMAIN row |->
        IF write[column] = read[column] THEN row[column] ELSE write[column]]

CommitEdit(c) ==
    LET d == editing[c].draft
    IN  /\ editing[c] # None
        /\ draft' = [draft EXCEPT ![d] = Flushed(@, editing[c].read, editing[c].write)]
        /\ lineage' = [lineage EXCEPT ![d].ordered = @ /\ draft[d] = editing[c].read]
        /\ editing' = [editing EXCEPT ![c] = None]
        /\ UNCHANGED <<import, created>>

\* create_plan: the plan is built from the draft as it was read, and the draft
\* stays.  StudyPlan has what follows under the account row.
CreatePlan(d) ==
    /\ d \in Stored
    /\ draft[d].status = "ready"
    /\ Open(draft[d].checks) = {}
    /\ created' = [created EXCEPT ![d] =
           [shown |-> draft[d].preview, rows |-> PlanRows(draft[d].preview),
            ordered |-> lineage[d].ordered]]
    /\ UNCHANGED <<draft, import, editing, lineage>>

-----------------------------------------------------------------------------
DraftInit ==
    /\ draft = [d \in Drafts |-> NoDraft]
    /\ import = [r \in Workers |-> NoImport]
    /\ editing = [c \in Editors |-> None]
    /\ created = [d \in Drafts |-> None]
    /\ lineage = [d \in Drafts |-> [latest |-> None, ordered |-> TRUE]]

DraftNext ==
    \/ \E r \in Workers, d \in Drafts : PreviewGuide(r, d) \/ RetryPreview(r, d)
    \/ \E r \in Workers :
           \/ Claim(r) \/ Authorize(r) \/ StoreResult(r) \/ StoreFailure(r)
           \/ Beat(r) \/ CancelCall(r) \/ Die(r)
           \/ \E answer \in Answers \cup {None} : Answer(r, answer)
    \/ \E d \in Drafts : GoStale(d) \/ GetPreview(d) \/ CreatePlan(d)
    \/ \E c \in Editors :
           CommitEdit(c) \/ \E d \in Drafts, edit \in Edits : BeginEdit(c, d, edit)

DraftSpec == DraftInit /\ [][DraftNext]_draftVars

-----------------------------------------------------------------------------
(***************************************************************************)
(* Properties                                                              *)
(***************************************************************************)
\* A draft is ended by the request that claimed it last, whatever a request that
\* lost its lease brings back (_run_import, _lock_preview_result).
PhaseOf(row) ==
    CASE row.status = "none" -> "none"
      [] row.status = "ready" -> "done"
      [] row.status = "pending" /\ row.holder # None -> "held"
      [] OTHER -> "open"

LeasePhase == [d \in Drafts |-> PhaseOf(draft[d])]
LeaseHolder ==
    [d \in Drafts |-> IF PhaseOf(draft[d]) = "held" THEN lineage[d].latest ELSE None]
LeaseAt ==
    [r \in Workers |-> IF At(r, "none") \/ At(r, "claim") THEN None ELSE import[r].draft]

Lease == INSTANCE LeasedImport WITH
             Imports <- Drafts, Nobody <- None,
             phase <- LeasePhase, holder <- LeaseHolder, at <- LeaseAt

ImplementsLease == Lease!Spec

\* No hard link of the answer points against the order of its weeks: the gate
\* does not look for one.
RunsForward(rows) ==
    \A i \in DOMAIN rows.items : \A j \in rows.items[i].hard :
        rows.items[j].week <= rows.items[i].week

Replanned(rows) ==
    BuildProposal([default |-> Asked.capacity, current |-> 1, deadline |-> Asked.deadline],
                  rows.weeks, rows.items, Plain)

\* A plan is what was reviewed, and can be worked with: every week holds its
\* work, no estimate, link or generated item is in it that the model was unsure
\* of and nobody decided on, and the scheduler has nothing to move or refuse -
\* provided that the edits of the draft did not overlap.
AsReviewed(made) ==
    LET rows == made.rows
        shown == made.shown
    IN  /\ \A w \in DOMAIN rows.weeks : WeekMinutes(rows.items, w) <= Asked.capacity
        /\ \A i \in DOMAIN rows.items :
               /\ \/ shown.items[i].sure /\ rows.items[i].est = shown.items[i].minutes
                  \/ i \in shown.decided.reviewed
               /\ shown.items[i].generated =>
                      i \in shown.decided.approved \ shown.decided.rejected
        /\ \A link \in rows.links : link.confirmed
        /\ RunsForward(rows) => Replanned(rows).valid /\ Replanned(rows).moves = {}

CreatedAsReviewed ==
    [][\A d \in Drafts : \A made \in {created'[d]} \ {created[d]} :
           made.ordered => AsReviewed(made)]_draftVars

\* A draft is answered by its latest claim, and the plan it becomes is what the
\* learner reviewed (_run_import, _validate_preview, create_plan).
PreviewIsSound == ImplementsLease /\ CreatedAsReviewed
=============================================================================
