---------------------------- MODULE LessonGrounding ----------------------------
(***************************************************************************)
(* How an extracted lesson becomes proposals (services/materials.py): the   *)
(* pack of concepts is validated as a whole, an independent verifier judges *)
(* every field, what it can repair is repaired once and the whole pack is   *)
(* verified again.  A text is the version it has: the one extracted, or the *)
(* verifier's repair.                                                       *)
(***************************************************************************)
EXTENDS Naturals, FiniteSets

CONSTANTS
  Concepts,        \* positions of the concepts of a pack
  Fields,          \* what a learner will read of a concept
  OptionalFields,  \* LESSON_BOUNDED_ABSENCE_FIELDS
  Spans            \* pieces of evidence the verifier may name

ASSUME FieldsAssumption == OptionalFields \subseteq Fields /\ IsFiniteSet(Concepts)

------------------------------------------------------------------------------

\* A concept as far as the validation tells it apart.
ConceptSound(concept) ==
  /\ concept.named /\ concept.bounded     \* topic, section; lengths
  /\ concept.verbatim                     \* the excerpt is in the source
  /\ concept.open /\ concept.prompts      \* open questions on the five levels
  /\ concept.grounded                     \* basis and rubric are complete

\* _validated_lesson_concepts: one unsound concept refuses the whole pack.
PackSound(pack) ==
  /\ Cardinality(DOMAIN pack) \in 1 .. 3
  /\ \A c \in DOMAIN pack : ConceptSound(pack[c])
  /\ \A c, d \in DOMAIN pack : c # d => pack[c].topic # pack[d].topic

Verdicts == {"supported", "safely_derivable", "bounded_absence", "unsupported"}

\* One finding of the verifier: evidence for what passes, a repair for what does
\* not, and spans that were issued for the concept it is about.
FindingSound(finding, issued) ==
  /\ finding.verdict \in Verdicts
  /\ finding.verdict = "bounded_absence" => finding.field \in OptionalFields
  /\ finding.verdict # "unsupported" => ~finding.repair /\ finding.spans # {}
  /\ finding.spans \subseteq issued[finding.concept]

\* _validated_lesson_grounding: each field of each concept has one verdict.
ReviewSound(findings, issued) ==
  /\ \A f \in findings : FindingSound(f, issued)
  /\ \A c \in Concepts, field \in Fields :
       Cardinality({f \in findings : f.concept = c /\ f.field = field}) = 1
  /\ \A f \in findings : f.concept \in Concepts /\ f.field \in Fields

Unsupported(findings) ==
  {f.concept : f \in {g \in findings : g.verdict = "unsupported"}}

\* A concept is repaired if all that is wrong with it can be.
Repairable(findings) ==
  {c \in Unsupported(findings) :
     \A f \in findings : f.concept = c /\ f.verdict = "unsupported" => f.repair}

Original == [c \in Concepts |-> [field \in Fields |-> "original"]]

Repaired(findings) ==
  [c \in Concepts |-> [field \in Fields |->
     IF c \in Repairable(findings)
          /\ \E f \in findings : /\ f.concept = c /\ f.field = field
                                 /\ f.verdict = "unsupported"
     THEN "repaired" ELSE "original"]]

\* _ground_lesson_concepts: the texts that are kept and the concepts with an
\* issue.  A repair that breaks the pack is dropped; text that the verifier
\* rejected in its second review gives way to what was extracted.
GroundedOnce(first) == [texts |-> Original, issues |-> Unsupported(first)]
GroundedTwice(first, second) ==
  LET issues == Unsupported(second) \cup (Unsupported(first) \ Repairable(first))
  IN [issues |-> issues,
      texts |-> [c \in Concepts |-> IF c \in issues THEN Original[c]
                                    ELSE Repaired(first)[c]]]

\* What a review has passed: the texts it saw, of the concepts it found no fault
\* with.
Verified(texts, findings, result) ==
  {c \in Concepts : result[c] = texts[c] /\ c \notin Unsupported(findings)}

Outcome(grounded, texts, findings) ==
  [texts |-> grounded.texts, issues |-> grounded.issues,
   verified |-> Verified(texts, findings, grounded.texts)]

\* What may come of the reviews the verifier can write; one that is not sound
\* fails the import.
Groundings(reviews, issued) ==
  LET usable == {r \in reviews : ReviewSound(r, issued)}
  IN {Outcome(GroundedOnce(r), Original, r) : r \in usable}
     \cup {Outcome(GroundedTwice(r, s), Repaired(r), s)
             : r \in {q \in usable : Repairable(q) # {}}, s \in usable}
==============================================================================
