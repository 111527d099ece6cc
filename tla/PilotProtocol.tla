----------------------------- MODULE PilotProtocol -----------------------------
(***************************************************************************)
(* The operators' side of the study pilot (services/lesson_pilot_ops.py):   *)
(* one participant is enrolled with a randomization seed, lessons are       *)
(* provisioned with their assignments, released to the import worker        *)
(* together, reviewed concept by concept, and bound to the target that was  *)
(* declared before.  Each command is one transaction.                       *)
(*                                                                         *)
(* A lesson is its source, which has a lineage of its own.  The frozen      *)
(* contract - prompt versions, provider routes, client build - is one value *)
(* that every assignment has.                                               *)
(***************************************************************************)
EXTENDS LessonGrounding

CONSTANTS
  Lessons,     \* ASSIGNMENT_COUNT of them
  PairOf,      \* the pair of a lesson
  Seeds,       \* randomization seeds
  PlanOf,      \* what the HMAC makes of a seed
  Packs,       \* packs of concepts the extraction may write
  Reviews,     \* reviews the verifier may write
  Issued       \* the evidence spans of a concept

VARIABLES
  enrollment,  \* StudyPilotEnrollment
  manifest,    \* StudyPilotAssignment
  lesson,      \* the status of a lesson's MaterialSource
  topic,       \* its MaterialTopicProposals
  audit        \* their LessonProposalAudits

protocolVars == <<enrollment, manifest, lesson, topic, audit>>

------------------------------------------------------------------------------

Conditions == {"attempt_first", "restudy"}

\* derive_assignment_plan: every lesson has its turn, and each pair one lesson
\* of either condition.
AssignmentPlans ==
  {plan \in [Lessons -> [sequence : 1 .. Cardinality(Lessons), condition : Conditions]] :
     /\ \A l, m \in Lessons : l # m => plan[l].sequence # plan[m].sequence
     /\ \A l, m \in Lessons : l # m /\ PairOf[l] = PairOf[m]
                                => plan[l].condition # plan[m].condition}

ASSUME PlansAssumption == PlanOf \in [Seeds -> AssignmentPlans]
ASSUME PairsAssumption ==
  \A l \in Lessons : Cardinality({m \in Lessons : PairOf[m] = PairOf[l]}) = 2

LessonReviewable == {"ready", "needs_attention"}
Absent == {"none", "deleted"}

Unassigned == [kept |-> FALSE, sequence |-> 0, condition |-> "none", intended |-> 0, target |-> 0]
NoTopic == [status |-> "none", text |-> "none", verified |-> FALSE]
NoTopics == [p \in Concepts |-> NoTopic]
NoAudits == [p \in Concepts |-> "none"]

ProtocolInit ==
  /\ enrollment = [status |-> "none", seed |-> CHOOSE s \in Seeds : TRUE]
  /\ manifest = [l \in Lessons |-> Unassigned]
  /\ lesson = [l \in Lessons |-> "none"]
  /\ topic = [l \in Lessons |-> NoTopics]
  /\ audit = [l \in Lessons |-> NoAudits]

Enrolled == enrollment.status = "active"

\* enroll_participant.  A repeated command changes nothing, a different one is
\* refused.
Enroll(seed) ==
  /\ enrollment.status = "none"
  /\ enrollment' = [status |-> "active", seed |-> seed]
  /\ UNCHANGED <<manifest, lesson, topic, audit>>

Assignments(plan, intended) ==
  [l \in Lessons |-> [kept |-> TRUE, sequence |-> plan[l].sequence,
                      condition |-> plan[l].condition, intended |-> intended[l], target |-> 0]]

\* provision_manifest: six drafts and their assignments, or what is there
\* already.
Provision(intended) ==
  /\ Enrolled
  /\ \A l \in Lessons : manifest[l] = Unassigned /\ lesson[l] = "none"
  /\ lesson' = [l \in Lessons |-> "draft"]
  /\ manifest' = Assignments(PlanOf[enrollment.seed], intended)
  /\ UNCHANGED <<enrollment, topic, audit>>

\* assign_manifest: the operator's plan for lessons that were uploaded before.
PlanAccepted(plan) == plan = PlanOf[enrollment.seed]

AssignManifest(plan, intended) ==
  /\ Enrolled
  /\ \A l \in Lessons : manifest[l] = Unassigned /\ lesson[l] \in {"draft", "pending"}
  /\ PlanAccepted(plan)
  /\ manifest' = Assignments(plan, intended)
  /\ UNCHANGED <<enrollment, lesson, topic, audit>>

\* start_manifest_processing: all drafts or none.
StartProcessing ==
  /\ Enrolled
  /\ \A l \in Lessons : manifest[l].kept /\ lesson[l] = "draft"
  /\ lesson' = [l \in Lessons |-> "pending"]
  /\ UNCHANGED <<enrollment, manifest, topic, audit>>

------------------------------------------------------------------------------
(* The import of a lesson, its leases and calls left to MaterialImport.      *)

UploadLesson(l) ==
  /\ lesson[l] = "none"
  /\ lesson' = [lesson EXCEPT ![l] = "pending"]
  /\ UNCHANGED <<enrollment, manifest, topic, audit>>

ClaimLesson(l) ==
  /\ lesson[l] = "pending"
  /\ lesson' = [lesson EXCEPT ![l] = "processing"]
  /\ UNCHANGED <<enrollment, manifest, topic, audit>>

PossibleGroundings == Groundings(Reviews, Issued)

\* _store_lesson_proposals: a concept with an issue, or with a name the library
\* has, needs attention.
Proposed(grounding, taken) ==
  [p \in Concepts |->
     [status |-> IF p \in grounding.issues \cup taken THEN "needs_attention" ELSE "clean",
      text |-> IF \E field \in Fields : grounding.texts[p][field] = "repaired"
               THEN "repaired" ELSE "original",
      verified |-> p \in grounding.verified]]

\* _pilot_audit_is_authorized.
AuditAuthorized(l) == Enrolled /\ manifest[l].kept

ExtractLesson(l) ==
  /\ lesson[l] = "processing"
  /\ \/ /\ \E pack \in Packs : PackSound(pack)
        /\ \E grounding \in PossibleGroundings, taken \in SUBSET Concepts :
             /\ topic' = [topic EXCEPT ![l] = Proposed(grounding, taken)]
             /\ lesson' = [lesson EXCEPT ![l] = IF grounding.issues \cup taken = {}
                                                THEN "ready" ELSE "needs_attention"]
        /\ audit' = [audit EXCEPT ![l] = [p \in Concepts |->
                       IF AuditAuthorized(l) THEN "pending" ELSE "none"]]
     \/ lesson' = [lesson EXCEPT ![l] = "failed"] /\ UNCHANGED <<topic, audit>>
  /\ UNCHANGED <<enrollment, manifest>>

RetryLesson(l) ==
  /\ lesson[l] = "failed"
  /\ lesson' = [lesson EXCEPT ![l] = "pending"]
  /\ UNCHANGED <<enrollment, manifest, topic, audit>>

\* The assignment outlives its source.
DeleteLesson(l) ==
  /\ lesson[l] \notin Absent
  /\ lesson' = [lesson EXCEPT ![l] = "deleted"]
  /\ topic' = [topic EXCEPT ![l] = NoTopics]
  /\ audit' = [audit EXCEPT ![l] = NoAudits]
  /\ manifest' = [manifest EXCEPT ![l].kept = FALSE, ![l].target = 0]
  /\ UNCHANGED enrollment

------------------------------------------------------------------------------
(* Review and binding.                                                       *)

\* review_proposal: once, and without looking at the condition.  A correction
\* is validated like an extracted concept.
ReviewProposal(l, p, decision) ==
  /\ audit[l][p] = "pending" /\ lesson[l] \in LessonReviewable
  /\ decision = "approved" => topic[l][p].status = "clean"
  /\ audit' = [audit EXCEPT ![l][p] = decision]
  /\ topic' = CASE decision = "approved" -> topic
                [] decision = "blocked" -> [topic EXCEPT ![l][p].status = "needs_attention"]
                [] decision = "corrected" ->
                     [topic EXCEPT ![l][p] = [status |-> "clean", text |-> "corrected",
                                              verified |-> TRUE]]
  /\ UNCHANGED <<enrollment, manifest, lesson>>

Decided(l) == \A p \in Concepts : audit[l][p] \in {"approved", "corrected", "blocked"}

\* bind_assignment: the target declared before, and every other proposal of the
\* lesson is excluded.
BindAssignment(l) ==
  LET p == manifest[l].intended IN
  /\ Enrolled /\ manifest[l].kept /\ manifest[l].target = 0
  /\ lesson[l] \in LessonReviewable
  /\ Decided(l)
  /\ p \in Concepts /\ audit[l][p] \in {"approved", "corrected"} /\ topic[l][p].status = "clean"
  /\ topic' = [topic EXCEPT ![l] = [q \in Concepts |->
                 IF q = p THEN @[q] ELSE [@[q] EXCEPT !.status = "excluded"]]]
  /\ manifest' = [manifest EXCEPT ![l].target = p]
  /\ UNCHANGED <<enrollment, lesson, audit>>

\* withdraw_participant.
Withdraw ==
  /\ Enrolled
  /\ enrollment' = [enrollment EXCEPT !.status = "withdrawn"]
  /\ UNCHANGED <<manifest, lesson, topic, audit>>

ProtocolNext ==
  \/ \E seed \in Seeds : Enroll(seed)
  \/ \E intended \in [Lessons -> Concepts] :
       \/ Provision(intended)
       \/ \E plan \in AssignmentPlans : AssignManifest(plan, intended)
  \/ StartProcessing \/ Withdraw
  \/ \E l \in Lessons :
       \/ UploadLesson(l) \/ ClaimLesson(l) \/ ExtractLesson(l) \/ RetryLesson(l) \/ BindAssignment(l)
       \/ \E p \in Concepts, decision \in {"approved", "corrected", "blocked"} :
            ReviewProposal(l, p, decision)

------------------------------------------------------------------------------
(* What the protocol promises.                                               *)

\* All lessons are assigned or none, as the seed says that was fixed at the
\* enrolment, and the drafts are released together.
AssignmentsFollowSeed ==
  LET assigned == {l \in Lessons : manifest[l].sequence # 0} IN
  /\ assigned \in {{}, Lessons}
  /\ \A l \in assigned :
       PlanOf[enrollment.seed][l] = [sequence |-> manifest[l].sequence,
                                     condition |-> manifest[l].condition]
  /\ \A l, m \in Lessons : lesson[l] = "draft" => lesson[m] \in {"draft", "deleted"}

\* Once a lesson is bound every concept of it has been decided upon, and only the
\* approved target can still become a card.
TargetWasReviewed ==
  \A l \in Lessons : manifest[l].target # 0 =>
    /\ Decided(l) /\ audit[l][manifest[l].target] # "blocked"
    /\ \A q \in Concepts \ {manifest[l].target} :
         topic[l][q].status \notin {"clean", "confirmed"}

\* What may become a card is text the verifier or the reviewer has passed as it
\* stands, whatever was repaired, restored or edited on the way.
CleanIsVerified ==
  \A l \in Lessons, p \in Concepts :
    topic[l][p].status \in {"clean", "confirmed"} => topic[l][p].verified
==============================================================================
