------------------------------ MODULE LessonPilot ------------------------------
(***************************************************************************)
(* The learner's side of the study pilot (routers/materials.py): one bound  *)
(* lesson whose learner first answers (attempt_first) or reads (restudy) -  *)
(* the formation check -, decides whether to keep the concept as a card,    *)
(* recalls it after a hold, and a week later answers a transfer check.      *)
(*                                                                         *)
(* A handler is one transaction, but the submission of a formation answer   *)
(* commits its draft, crosses an authorization before each paid call, waits *)
(* for the evaluation with no lock but one of its process, records the call *)
(* and commits the result.  A cycle of row locks - a submission locks the   *)
(* check first, a confirmation the source - ends one of its requests.       *)
(*                                                                         *)
(* Time is counted in ticks from 1; 0 stands for never.                     *)
(***************************************************************************)
EXTENDS PilotProtocol, Sequences

CONSTANTS
  Studied,        \* the lesson
  Submits,        \* requests that submit a formation answer
  Processes, NoProcess,   \* server processes: two while a release replaces another
  Answers, NoAnswer,
  Holds,          \* how long a disclosure holds recall back, by time zone
  TransferDelay,  \* seven days
  MaxTime, MaxEvaluations, MaxDeaths

ASSUME StudiedAssumption == Studied \in Lessons /\ NoAnswer \notin Answers
                              /\ NoProcess \notin Processes
ASSUME TimesAssumption == Holds \subseteq Nat \ {0} /\ {TransferDelay, MaxTime} \subseteq Nat

VARIABLES
  clock, hold,    \* the time, and the hold in the present time zone
  opened,         \* MaterialSource.review_opened_at is set
  gates,          \* the exposure boundary of the target proposal
  kept,           \* its card with the sessions of that card
  formation, transfer,  \* LessonCheck rows
  ledger,         \* LLMUsage rows of the evaluations, by operation
  submit,         \* submissions under way
  deaths,
  disclosed,      \* history: when the authority last reached the learner
  zones           \* history: the holds there have been

pilotVars == <<clock, hold, opened, gates, kept, formation, transfer, ledger, submit,
               deaths, disclosed, zones>>

------------------------------------------------------------------------------

NotKept == [made |-> FALSE, exposed |-> 0, gate |-> 0, session |-> 0, recalled |-> 0]
NoCheck == [status |-> "none", draft |-> NoAnswer, answer |-> NoAnswer, exposed |-> 0]
NoTransfer == [status |-> "none", draft |-> NoAnswer, answer |-> NoAnswer, available |-> 0,
               opened |-> FALSE, debriefed |-> 0, boundary |-> 0, qualified |-> 0]
NotSubmitting == [stage |-> "idle", process |-> NoProcess, answer |-> NoAnswer, operation |-> 0]

PilotInit ==
  /\ clock = 1 /\ deaths = 0 /\ disclosed = 0
  /\ hold \in Holds /\ zones = {hold}
  /\ opened = FALSE
  /\ gates = [exposed |-> 0, gate |-> 0]
  /\ kept = NotKept
  /\ formation = NoCheck /\ transfer = NoTransfer
  /\ ledger = << >>
  /\ submit = [r \in Submits |-> NotSubmitting]

Later(a, b) == IF a > b THEN a ELSE b

Condition == manifest[Studied].condition
Target == topic[Studied][manifest[Studied].target]

\* _assigned_pilot_target.  Grounding gate and client build are in order, and a
\* later version of the lesson cannot be confirmed while it is assigned.
TargetReady ==
  /\ Enrolled
  /\ manifest[Studied].kept /\ manifest[Studied].target # 0
  /\ lesson[Studied] \in LessonReviewable \cup {"confirmed"}
  /\ Target.status \in {"clean", "confirmed"}
  /\ audit[Studied][manifest[Studied].target] \in {"approved", "corrected"}

------------------------------------------------------------------------------
(* Disclosure.                                                               *)

\* learning_exposure_boundary.
Boundary(existing) == Later(existing, clock + hold)

\* _advance_proposal_exposure: refused while a session is live, and the card
\* takes over the proposal's boundary.
Advanced == [exposed |-> clock, gate |-> Boundary(gates.gate)]

AdvanceExposure ==
  /\ kept.session = 0
  /\ gates' = Advanced
  /\ kept' = IF kept.made THEN [kept EXCEPT !.exposed = clock, !.gate = Advanced.gate]
             ELSE kept

\* The answer that carries the authority.
Disclose == disclosed' = clock

\* restudy_topic.
Restudy ==
  /\ TargetReady /\ Condition = "restudy"
  /\ AdvanceExposure /\ Disclose
  /\ formation' = IF formation.status = "exposed" THEN formation
                  ELSE [formation EXCEPT !.status = "exposed", !.exposed = clock]
  /\ UNCHANGED <<clock, hold, opened, transfer, ledger, submit, deaths, zones>>

\* replay_lesson_check_authority.
ReplayAuthority ==
  /\ TargetReady /\ formation.status = "exposed"
  /\ AdvanceExposure /\ Disclose
  /\ UNCHANGED <<clock, hold, opened, formation, transfer, ledger, submit, deaths, zones>>

------------------------------------------------------------------------------
(* The formation check of an attempt-first lesson.                           *)

\* start_formation_check.
StartFormation ==
  /\ TargetReady /\ Condition = "attempt_first"
  /\ formation.status = "none" /\ Target.status # "confirmed"
  /\ formation' = [NoCheck EXCEPT !.status = "open"]
  /\ UNCHANGED <<clock, hold, opened, gates, kept, transfer, ledger, submit, deaths,
                 disclosed, zones>>

\* save_lesson_check_draft.
SaveFormationDraft(text) ==
  /\ Enrolled /\ formation.status = "open"
  /\ formation' = [formation EXCEPT !.draft = text]
  /\ UNCHANGED <<clock, hold, opened, gates, kept, transfer, ledger, submit, deaths,
                 disclosed, zones>>

Idle(r) == submit[r] = NotSubmitting
At(r, stage) == submit[r].stage = stage
Stage(r, stage) == submit' = [submit EXCEPT ![r].stage = stage]
End(r) == submit' = [submit EXCEPT ![r] = NotSubmitting]

\* _lesson_check_submit_lock belongs to a process.
SubmitLockFree(p) == \A r \in Submits : submit[r].process # p

\* The draft is committed before the paid call; an answer that was given already
\* is answered again, another one is refused.
Submit(r, p, text) ==
  /\ Idle(r) /\ SubmitLockFree(p)
  /\ TargetReady /\ Condition = "attempt_first"
  /\ \/ /\ formation.status = "open" /\ Len(ledger) < MaxEvaluations
        /\ formation' = [formation EXCEPT !.draft = text]
        /\ ledger' = Append(ledger, [calls |-> 0, outcome |-> "none"])
        /\ submit' = [submit EXCEPT ![r] = [stage |-> "authorize", process |-> p,
                        answer |-> text, operation |-> Len(ledger) + 1]]
        /\ UNCHANGED <<gates, kept, disclosed>>
     \/ /\ formation.status = "exposed" /\ formation.answer = text
        /\ AdvanceExposure /\ Disclose
        /\ UNCHANGED <<formation, ledger, submit>>
  /\ UNCHANGED <<clock, hold, opened, transfer, deaths, zones>>

\* An evaluation that was paid for and of which nobody knows the outcome, or whose
\* result may still be committed, bars every other one for good.
UnsettledIfMissing(op) == op.calls > 0 /\ op.outcome = "none"        \* mutant
Unsettled(op) == op.calls > 0 /\ op.outcome \in {"none", "pending"}

\* _lesson_check_authorizer, before each physical call.  Consent and the daily
\* limits may refuse it too; a refusal leaves no terminal rows, though an earlier
\* call of the operation was paid for.
AuthorizeEvaluation(r) ==
  /\ At(r, "authorize")
  /\ \/ End(r) /\ UNCHANGED ledger
     \/ /\ Enrolled /\ formation.status = "open"
        /\ manifest[Studied].kept /\ manifest[Studied].target # 0 /\ Target.status = "clean"
        /\ lesson[Studied] \in LessonReviewable
        /\ \A i \in DOMAIN ledger : i # submit[r].operation => ~Unsettled(ledger[i])
        /\ ledger' = [ledger EXCEPT ![submit[r].operation].calls = @ + 1]
        /\ Stage(r, "evaluate")
  /\ UNCHANGED <<clock, hold, opened, gates, kept, formation, transfer, deaths,
                 disclosed, zones>>

\* A usable evaluation, an error, or output that is asked for once more.
EvaluationReturns(r) ==
  /\ At(r, "evaluate")
  /\ \E stage \in {"result", "error"}
                    \cup (IF ledger[submit[r].operation].calls = 1 THEN {"authorize"} ELSE {}) :
       Stage(r, stage)
  /\ UNCHANGED <<clock, hold, opened, gates, kept, formation, transfer, ledger, deaths,
                 disclosed, zones>>

\* record_physical_calls: one terminal row per call, in a transaction of its own.
RecordTerminal(r) ==
  /\ At(r, "result") \/ At(r, "error")
  /\ ledger' = [ledger EXCEPT ![submit[r].operation].outcome =
                  IF At(r, "result") THEN "pending" ELSE "failed"]
  /\ IF At(r, "result") THEN Stage(r, "commit") ELSE End(r)
  /\ UNCHANGED <<clock, hold, opened, gates, kept, formation, transfer, deaths,
                 disclosed, zones>>

\* The result lands with its exposure and the mark that its call is settled - or
\* not at all, if the lesson has gone or changed meanwhile.
CommitFormation(r) ==
  /\ At(r, "commit")
  /\ IF TargetReady
     THEN /\ AdvanceExposure /\ Disclose
          /\ IF formation.status = "exposed"
             THEN UNCHANGED <<formation, ledger>>
             ELSE /\ formation' = [formation EXCEPT !.status = "exposed", !.exposed = clock,
                                                    !.answer = submit[r].answer]
                  /\ ledger' = [ledger EXCEPT ![submit[r].operation].outcome = "committed"]
     ELSE UNCHANGED <<gates, kept, formation, ledger, disclosed>>
  /\ End(r)
  /\ UNCHANGED <<clock, hold, opened, transfer, deaths, zones>>

ProcessDies(p) ==
  /\ deaths < MaxDeaths /\ ~SubmitLockFree(p)
  /\ deaths' = deaths + 1
  /\ submit' = [r \in Submits |-> IF submit[r].process = p THEN NotSubmitting ELSE submit[r]]
  /\ UNCHANGED <<clock, hold, opened, gates, kept, formation, transfer, ledger, disclosed, zones>>

------------------------------------------------------------------------------
(* The decision, and the card's sessions.                                    *)

OpenReview ==
  /\ Enrolled /\ manifest[Studied].target # 0 /\ lesson[Studied] \in LessonReviewable
  /\ ~opened /\ opened' = TRUE
  /\ UNCHANGED <<clock, hold, gates, kept, formation, transfer, ledger, submit, deaths,
                 disclosed, zones>>

\* confirm_topics for an assigned lesson: the target becomes a card that takes
\* over its hold, or nothing is kept.
ConfirmLesson(keep) ==
  /\ Enrolled /\ manifest[Studied].target # 0
  /\ lesson[Studied] \in LessonReviewable /\ opened
  /\ formation.status = "exposed"
  /\ keep => Target.status = "clean"
  /\ ~keep => Target.status # "needs_attention"
  /\ \A q \in Concepts \ {manifest[Studied].target} :
       topic[Studied][q].status \notin {"clean", "needs_attention"}
  /\ lesson' = [lesson EXCEPT ![Studied] = "confirmed"]
  /\ topic' = [topic EXCEPT ![Studied][manifest[Studied].target].status =
                 IF keep THEN "confirmed" ELSE "excluded"]
  /\ kept' = IF keep THEN [NotKept EXCEPT !.made = TRUE, !.exposed = gates.exposed,
                                          !.gate = gates.gate]
             ELSE kept
  /\ UNCHANGED <<enrollment, manifest, audit, clock, hold, opened, gates, formation,
                 transfer, ledger, submit, deaths, disclosed, zones>>

\* start_session and its end, completed or abandoned (module ReviewSession).
StartRecall ==
  /\ kept.made /\ kept.session = 0 /\ kept.gate <= clock
  /\ kept' = [kept EXCEPT !.session = clock]
  /\ UNCHANGED <<clock, hold, opened, gates, formation, transfer, ledger, submit, deaths,
                 disclosed, zones>>

EndRecall(completed) ==
  /\ kept.session # 0
  /\ kept' = [kept EXCEPT !.session = 0,
                          !.recalled = IF completed THEN kept.session ELSE @]
  /\ UNCHANGED <<clock, hold, opened, gates, formation, transfer, ledger, submit, deaths,
                 disclosed, zones>>

\* open_learning: the card's own boundary, and the proposal knows nothing of it.
OpenLearn ==
  /\ kept.made /\ kept.session = 0
  /\ kept' = [kept EXCEPT !.exposed = clock, !.gate = Boundary(@)]
  /\ Disclose
  /\ UNCHANGED <<clock, hold, opened, gates, formation, transfer, ledger, submit, deaths, zones>>

------------------------------------------------------------------------------
(* The transfer check.                                                       *)

\* approve_transfer_prompt: frozen before the first recall.
ApproveTransfer ==
  /\ Enrolled /\ manifest[Studied].target # 0
  /\ audit[Studied][manifest[Studied].target] \in {"approved", "corrected"}
  /\ kept.recalled = 0 /\ transfer.status = "none"
  /\ transfer' = [NoTransfer EXCEPT !.status = "open",
                    !.available = IF formation.exposed # 0
                                  THEN formation.exposed + TransferDelay ELSE 0]
  /\ UNCHANGED <<clock, hold, opened, gates, kept, formation, ledger, submit, deaths,
                 disclosed, zones>>

\* After its own debrief a transfer is still owed to the recall that earned it,
\* until the authority is disclosed again in another way.
OwnDebrief == transfer.boundary = kept.gate /\ transfer.debriefed = kept.exposed
EarningBoundary ==
  IF OwnDebrief /\ transfer.qualified # 0 THEN transfer.qualified ELSE kept.gate

\* _require_transfer_eligibility.
TransferEligible ==
  /\ TargetReady /\ transfer.status # "none"
  /\ formation.status = "exposed" /\ kept.made
  /\ transfer.available \in {0, formation.exposed + TransferDelay}
  /\ kept.recalled # 0 /\ kept.recalled >= EarningBoundary
  /\ clock >= formation.exposed + TransferDelay

OpenedTransfer == TransferEligible /\ transfer.opened /\ transfer.available # 0

\* start_transfer_check.
StartTransfer ==
  /\ TransferEligible
  /\ transfer' = [transfer EXCEPT !.opened = TRUE,
                                  !.available = formation.exposed + TransferDelay]
  /\ UNCHANGED <<clock, hold, opened, gates, kept, formation, ledger, submit, deaths,
                 disclosed, zones>>

SaveTransferDraft(text) ==
  /\ OpenedTransfer /\ transfer.status = "open"
  /\ transfer' = [transfer EXCEPT !.draft = text]
  /\ UNCHANGED <<clock, hold, opened, gates, kept, formation, ledger, submit, deaths,
                 disclosed, zones>>

\* Blind: the answer is stored and nothing else.
SubmitTransfer(text) ==
  /\ OpenedTransfer /\ transfer.status = "open"
  /\ transfer' = [transfer EXCEPT !.status = "submitted", !.draft = text, !.answer = text]
  /\ UNCHANGED <<clock, hold, opened, gates, kept, formation, ledger, submit, deaths,
                 disclosed, zones>>

\* transfer_debrief.
TransferDebrief ==
  /\ OpenedTransfer /\ transfer.status \in {"submitted", "exposed"}
  /\ AdvanceExposure /\ Disclose
  /\ transfer' = [transfer EXCEPT !.status = "exposed", !.debriefed = gates'.exposed,
                    !.boundary = gates'.gate, !.qualified = EarningBoundary]
  /\ UNCHANGED <<clock, hold, opened, formation, ledger, submit, deaths, zones>>

------------------------------------------------------------------------------
(* Surroundings.                                                             *)

Tick ==
  /\ clock < MaxTime /\ clock' = clock + 1
  /\ UNCHANGED <<hold, opened, gates, kept, formation, transfer, ledger, submit, deaths,
                 disclosed, zones>>

ChangeZone(length) ==
  /\ length # hold /\ hold' = length /\ zones' = zones \cup {length}
  /\ UNCHANGED <<clock, opened, gates, kept, formation, transfer, ledger, submit, deaths,
                 disclosed>>

\* edit_topic: an edit that changes the meaning of a bound target waits for its
\* formation check, and edited text is clean no more.
EditLessonTopic(l, p, change) ==
  /\ lesson[l] \in LessonReviewable /\ topic[l][p].status # "none"
  /\ (Enrolled /\ l = Studied /\ manifest[l].target = p) => formation.status = "exposed"
  /\ topic' = [topic EXCEPT ![l][p] =
       IF change = "exclude" THEN [@ EXCEPT !.status = "excluded"]
       ELSE [status |-> "needs_attention", text |-> "edited", verified |-> FALSE]]
  /\ UNCHANGED <<enrollment, manifest, lesson, audit>>

\* Its checks go with a deleted source; the card stays.
DeleteStudied ==
  /\ DeleteLesson(Studied)
  /\ formation' = NoCheck /\ transfer' = NoTransfer /\ gates' = [exposed |-> 0, gate |-> 0]
  /\ UNCHANGED <<clock, hold, opened, kept, ledger, submit, deaths, disclosed, zones>>

Learning ==
  \/ Restudy \/ ReplayAuthority \/ StartFormation \/ OpenReview
  \/ \E text \in Answers :
       \/ SaveFormationDraft(text) \/ SaveTransferDraft(text) \/ SubmitTransfer(text)
       \/ \E r \in Submits, p \in Processes : Submit(r, p, text)
  \/ \E r \in Submits :
       AuthorizeEvaluation(r) \/ EvaluationReturns(r) \/ RecordTerminal(r) \/ CommitFormation(r)
  \/ \E p \in Processes : ProcessDies(p)
  \/ StartRecall \/ \E completed \in BOOLEAN : EndRecall(completed)
  \/ OpenLearn \/ ApproveTransfer \/ StartTransfer \/ TransferDebrief
  \/ Tick \/ \E length \in Holds : ChangeZone(length)

LearnerNext ==
  \/ Learning /\ UNCHANGED protocolVars
  \/ \E keep \in BOOLEAN : ConfirmLesson(keep)
  \/ DeleteStudied

\* Edits and deletions of the learner, next to the operators' commands.
OperatorNext ==
  /\ \/ ProtocolNext
     \/ \E l \in Lessons :
          \/ \E p \in Concepts, change \in {"exclude", "rewrite"} : EditLessonTopic(l, p, change)
          \/ l # Studied /\ DeleteLesson(l)
  /\ UNCHANGED pilotVars

StudyInit == ProtocolInit /\ PilotInit
StudyNext == LearnerNext \/ OperatorNext
StudySpec == StudyInit /\ [][StudyNext]_<<protocolVars, pilotVars>>

------------------------------------------------------------------------------
(* Properties.                                                               *)

\* The evaluation of a check is paid for once: another one is started only after
\* all its calls have failed on record - whichever process died between the
\* authorization, the answer, the terminal rows and the result - and an answer
\* that is on record is the one its evaluation was paid for.
EvaluatedOnce ==
  /\ Cardinality({i \in DOMAIN ledger : ledger[i].calls > 0 /\ ledger[i].outcome # "failed"}) <= 1
  /\ (formation.status = "exposed" /\ Condition = "attempt_first") =>
       \E i \in DOMAIN ledger : ledger[i].outcome = "committed"

\* Nobody sees the authority of an attempt-first lesson before the answer is on
\* record, a restudied one is never sent for evaluation, and a card that exists
\* stands behind a hold of its last disclosure.
ConditionIsKept ==
  /\ disclosed # 0 /\ formation.status # "none" => formation.status = "exposed"
  /\ (Condition = "attempt_first" /\ formation.status = "exposed") => formation.answer # NoAnswer
  /\ Condition = "restudy" => ledger = << >>
  /\ kept.made /\ disclosed # 0 => kept.gate > disclosed /\ (kept.session # 0 => kept.session > disclosed)

\* The answers of a check stand, and a transfer is answered blind: the learner
\* has recalled the concept since the authority was last in view - whichever
\* screen showed it - and a week has passed since the first time.
TransferIsEarned ==
  [][ /\ formation.status = "exposed" /\ formation'.status # "none" =>
           formation' = formation
      /\ transfer'.answer # transfer.answer /\ transfer'.status # "none" =>
           /\ transfer.answer = NoAnswer
           /\ disclosed < kept.recalled
           /\ clock >= formation.exposed + TransferDelay ]_<<formation, transfer>>

\* No disclosure makes a hold end earlier: never for the proposal, and for the
\* card not unless the account has changed its time zone.
HoldsOnlyGrow ==
  [][ /\ gates'.exposed # 0 => gates'.gate >= gates.gate
      /\ Cardinality(zones) = 1 => kept'.gate >= kept.gate ]_<<gates, kept>>

PilotIsSound ==
  /\ [](AssignmentsFollowSeed /\ TargetWasReviewed /\ CleanIsVerified)
  /\ [](EvaluatedOnce /\ ConditionIsKept)
  /\ TransferIsEarned /\ HoldsOnlyGrow
==============================================================================
