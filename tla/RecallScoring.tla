---------------------------- MODULE RecallScoring ----------------------------
(***************************************************************************)
(* The rules by which a scorer's output becomes a follow-up or a score,    *)
(* and a score becomes a schedule: the parsers of both scoring contracts   *)
(* (services/llm.py), SM-2 (services/scheduler.py), the reading of an      *)
(* OpenAI response (services/openai_responses.py), the product decisions   *)
(* by which a shadow candidate is compared (services/scoring_provider.py)  *)
(* and the coverage tier of a card (services/cards.py).  They keep no      *)
(* state.  The ease factor is counted in hundredths.                       *)
(***************************************************************************)
EXTENDS Integers, Sequences, FiniteSets

CONSTANT MaxProbes   \* llm.MAX_SCORED_FOLLOW_UPS

ASSUME ProbesAssumption == MaxProbes \in Nat \ {0}

Marks == 0 .. 5

------------------------------------------------------------------------------
(* What the model wrote, as far as the parsers tell it apart.              *)

\* derive_composite.
Composite(mechanism, tradeOffs, failureModes) ==
    IF mechanism <= 2 THEN mechanism
    ELSE IF tradeOffs <= 2 /\ failureModes <= 2 THEN 3
    ELSE IF failureModes <= 2 THEN 4 ELSE 5

\* The band decides the first follow-up, the model's claim the later ones.
ShouldProbe(score, used, needs) ==
    IF used = 0 THEN score \in 1 .. 3 ELSE used < MaxProbes /\ needs

Unusable == [status |-> "invalid", recall |-> -1, score |-> -1]
FollowUp == [status |-> "follow_up", recall |-> -1, score |-> -1]
Completed(recall, score) == [status |-> "complete", recall |-> recall, score |-> score]

\* V1 tolerates everything but missing axes.
ParseV1(data, used) ==
    LET score == Composite(data.recall, data.tradeOffs, data.failureModes)
    IN  IF ~data.shaped THEN Unusable
        ELSE IF ShouldProbe(score, used, data.needs) /\ data.probe THEN FollowUp
        ELSE Completed(data.recall, score)

\* V2 is strict: the exact fields, a mark in range, a probe where the policy
\* asks for one, and the texts of a completed review.
ParseV2(data, used) ==
    LET asks == ShouldProbe(data.recall, used, data.needs)
    IN  IF ~data.shaped \/ data.recall \notin Marks THEN Unusable
        ELSE IF asks THEN IF data.probe THEN FollowUp ELSE Unusable
        ELSE IF data.texts THEN Completed(data.recall, data.recall) ELSE Unusable

------------------------------------------------------------------------------
(* An OpenAI response: its status, the text of its output, its token usage,*)
(* its identifier and its model.                                           *)

OutputText(response) ==
    IF response.text \in {"none", "refused"} THEN response.text ELSE "text"

\* The buckets: input, output, cached and cache-written tokens.
UsableUsage(usage) ==
    /\ \A bucket \in DOMAIN usage : usage[bucket] >= 0
    /\ usage.cached + usage.written <= usage.input

\* The error code of a response whose body arrived, or "".
ParseResponse(response) ==
    IF response.status # "completed" THEN response.status
    ELSE IF OutputText(response) = "refused" THEN "refusal"
    ELSE IF OutputText(response) = "none" THEN "missing_output"
    ELSE IF response.text # "object" THEN "invalid_structured_json"
    ELSE IF ~UsableUsage(response.usage) THEN "invalid_usage"
    ELSE IF response.usage.input = 0 \/ response.usage.output = 0 THEN "invalid_usage"
    ELSE IF ~response.identified \/ response.model = "none" THEN "missing_metadata" ELSE ""

\* The one call, which must come from the qualified snapshot.
ResponseError(response) ==
    IF response.status = "unreachable" THEN "transport_error"
    ELSE IF ParseResponse(response) # "" THEN ParseResponse(response)
    ELSE IF response.model # "qualified" THEN "model_mismatch" ELSE ""

------------------------------------------------------------------------------
(* SM-2.                                                                   *)

Passes(mark) == mark >= 3
QualityFor(mark) == IF Passes(mark) THEN 4 ELSE 2

\* Python's round: to the nearest, a tie to the even one.
Rounded(n, d) ==
    LET down == n \div d
        rest == 2 * (n % d)
    IN  IF rest > d \/ (rest = d /\ down % 2 = 1) THEN down + 1 ELSE down

Clamp(n) == IF n > 300 THEN 300 ELSE IF n < 130 THEN 130 ELSE n

NewCard == [ease |-> 250, interval |-> 1, repetitions |-> 0]

ApplySM2(card, quality) ==
    [ease |-> Clamp(card.ease + 10 - (5 - quality) * (8 + (5 - quality) * 2)),
     interval |-> IF quality < 3 THEN 1
                  ELSE IF card.repetitions = 0 THEN 1
                  ELSE IF card.repetitions = 1 THEN 6
                  ELSE Rounded(card.interval * card.ease, 100),
     repetitions |-> IF quality < 3 THEN 0 ELSE card.repetitions + 1]

------------------------------------------------------------------------------
(* What a score decides in the product.                                    *)

\* classify_tier; `lapsed` says that the card is overdue by more than twice
\* its interval.
Tier(card, score, lapsed) ==
    LET solid == card.repetitions >= 3 /\ card.ease >= 250 /\ score >= 4
    IN  IF solid /\ lapsed THEN "cold"
        ELSE IF score <= 2 \/ card.ease < 200 THEN "shaky"
        ELSE IF card.repetitions = 0 THEN "untested"
        ELSE IF card.repetitions \in {1, 2} /\ score \in 3 .. 4 THEN "developing"
        ELSE IF solid THEN "solid" ELSE "developing"

TodayBand(recall) == IF recall <= 1 THEN "cold" ELSE IF recall <= 3 THEN "shaky" ELSE "solid"

CoverageTier(recall) ==
    IF recall <= 1 THEN "cold" ELSE IF recall = 2 THEN "shaky"
    ELSE IF recall = 3 THEN "developing" ELSE "solid"

BandDecisions(result) ==                                          \* mutant
    IF result.status # "complete" THEN <<result.status>>
    ELSE <<result.status, TodayBand(result.recall)>>
ProductDecisions(result) ==
    IF result.status # "complete" THEN <<result.status>>
    ELSE <<result.status, Passes(result.recall), TodayBand(result.recall),
           CoverageTier(result.recall)>>

BehavioralMatch(authoritative, candidate) ==
    ProductDecisions(authoritative) = ProductDecisions(candidate)

------------------------------------------------------------------------------
(* What the rules promise, over every input.                               *)

Outputs ==
    [shaped : BOOLEAN, recall : Marks, tradeOffs : {2, 3}, failureModes : {2, 3},
     needs : BOOLEAN, probe : BOOLEAN, texts : BOOLEAN]

\* A schedule after a history of marks, latest last: every lapse has cost the ease
\* the same and a pass none, down to the floor; the repetitions are the passes since
\* the last lapse, and the first two of them set the interval.
Lapses(history) == Cardinality({i \in DOMAIN history : ~Passes(history[i])})

Streak(history) ==
    Cardinality({i \in DOMAIN history : \A k \in i .. Len(history) : Passes(history[k])})

FollowsHistory(card, history) ==
    /\ card.ease = Clamp(250 - 32 * Lapses(history))
    /\ card.repetitions = Streak(history)
    /\ IF card.repetitions <= 1 THEN card.interval = 1 ELSE card.interval >= 6

\* Whatever the model writes, a session ends at the cap, a first answer
\* outside the band is never probed, and V1 loses no answer with usable axes;
\* V1's displayed composite never contradicts what the scheduler does.
TurnsAreBounded ==
    \A data \in Outputs :
        /\ \A used \in 0 .. MaxProbes : ParseV1(data, used).status = "invalid" => ~data.shaped
        /\ ParseV1(data, MaxProbes).status # "follow_up"
        /\ ParseV2(data, MaxProbes).status # "follow_up"
        /\ data.recall \in {0, 4, 5} => ParseV2(data, 0).status # "follow_up"
        /\ LET done == ParseV1(data, MaxProbes)
           IN  done.status = "complete" => (Passes(done.score) <=> Passes(done.recall))

\* The review after any history leaves a schedule that follows the longer one, and
\* a pass never shrinks the interval.
ScheduleFollowsHistory ==
    \A history \in UNION {[1 .. n -> Marks] : n \in 0 .. 3}, mark \in Marks, interval \in {1, 6, 15} :
        LET card == [ease |-> Clamp(250 - 32 * Lapses(history)), interval |-> interval,
                     repetitions |-> Streak(history)]
            next == ApplySM2(card, QualityFor(mark))
        IN  FollowsHistory(card, history) =>
                /\ FollowsHistory(next, Append(history, mark))
                /\ Passes(mark) => next.interval >= card.interval

\* A shadow candidate judged a match leads to the same schedule and the same
\* tier, now and when the card lapses, whatever the card was.
MatchesAreHarmless ==
    \A a, b \in Marks, ease \in {130, 186, 218, 250}, n \in 0 .. 3, lapsed \in BOOLEAN :
        LET card == [ease |-> ease, interval |-> 6, repetitions |-> n]
            after(mark) == ApplySM2(card, QualityFor(mark))
        IN  BehavioralMatch(Completed(a, a), Completed(b, b)) =>
                /\ after(a) = after(b)
                /\ Tier(after(a), a, lapsed) = Tier(after(b), b, lapsed)

\* Only a response whose every part is usable is scored.
Usages == [input : {0, 5}, output : {0, 2}, cached : {0, 3}, written : {-1, 0, 3}]
Responses ==
    [status : {"completed", "incomplete", "unreachable"}, text : {"none", "refused", "object", "other"},
     usage : Usages, identified : BOOLEAN, model : {"none", "other", "qualified"}]

ScoredResponsesAreWhole ==
    \A response \in Responses :
        ResponseError(response) = "" <=>
            /\ response.status = "completed" /\ response.text = "object"
            /\ response.usage.input > 0 /\ response.usage.output > 0
            /\ response.usage.written >= 0
            /\ response.usage.input >= response.usage.cached + response.usage.written
            /\ response.identified /\ response.model = "qualified"
=============================================================================
