---------------------------- MODULE ProviderBudget ----------------------------
(***************************************************************************)
(* The paid calls of one account within one day: services/usage.py, the    *)
(* orchestration of score_answer in services/llm.py, and the callers that  *)
(* charge for what they send: the scoring part of _submit and the question *)
(* generation of start_session (routers/sessions.py), and an operation     *)
(* that is authorized call by call, such as a guide import.                *)
(*                                                                         *)
(* A V2 answer leaves a manifest in a transaction of its own before the    *)
(* first call and its terminal rows in another one after the last; the     *)
(* account's advisory lock is held from the guard to the end.  An          *)
(* authorized operation leaves its row and gives the lock back before the  *)
(* call.  A question's row is only staged on the caller's transaction.     *)
(*                                                                         *)
(* Left out: the ageing of rows out of the day's window, SDK retries of    *)
(* unguarded calls, and everything the answer does to a session beyond the *)
(* turns used and the schedule (module ReviewSession has it).              *)
(***************************************************************************)
EXTENDS RecallScoring, FiniteSetsExt

CONSTANTS
    Jobs,          \* requests that pay for calls
    NoJob,
    JobKinds,      \* of {"score", "import", "question"}
    Modes,         \* what openai_v2_scoring_mode may select for the account
    DailyLimit,    \* llm_calls_per_day
    ImportLimit,   \* guide_imports_per_day
    Outputs2,      \* what a scorer may write
    MaxReviews,    \* bound on the completed reviews
    MaxCrashes     \* bound on the deaths of the process

ASSUME BudgetAssumption ==
    /\ NoJob \notin Jobs /\ IsFiniteSet(Jobs)
    /\ {DailyLimit, ImportLimit, MaxReviews, MaxCrashes} \subseteq Nat
    /\ Modes \subseteq {"anthropic", "shadow", "primary"}
    /\ JobKinds \subseteq {"score", "import", "question"}

\* Both parsers read the marks as integers.
ASSUME OutputAssumption ==
    Outputs2 \subseteq [shaped : BOOLEAN, recall : Int, tradeOffs : Int, failureModes : Int,
                       needs : BOOLEAN, probe : BOOLEAN, texts : BOOLEAN]

VARIABLES
    boundary,   \* the holder of the account's advisory lock
    qualified,  \* the OpenAI qualification is current
    job,        \* the handlers
    sent,       \* the calls the providers have received
    trace,      \* the outcomes the handler knows of
    rows,       \* the committed LLMUsage rows that count as calls
    intent,     \* the committed manifests
    review,     \* the open session and the card's history
    crashes

budgetVars == <<boundary, qualified, job, sent, trace, rows, intent, review, crashes>>

------------------------------------------------------------------------------
NoIntent == [status |-> "none", reserved |-> 0, terminal |-> 0,
             required |-> {}, conditional |-> {}, ordinal |-> 0]

\* "skipped": the gate had closed by the physical call to OpenAI.
Idle == [kind |-> "none", step |-> "idle", openai |-> FALSE, plan |-> "none", used |-> 0,
         skipped |-> FALSE]

\* route_for_session, frozen when a session starts.
RouteForSession(contract, mode) ==
    IF contract = 2 /\ qualified THEN mode ELSE "anthropic"

BudgetInit ==
    /\ boundary = NoJob /\ qualified = TRUE /\ crashes = 0
    /\ job = [j \in Jobs |-> Idle]
    /\ sent = [j \in Jobs |-> << >>]
    /\ trace = [j \in Jobs |-> << >>]
    /\ rows = [j \in Jobs |-> << >>]
    /\ intent = [j \in Jobs |-> NoIntent]
    /\ \E contract \in {1, 2}, mode \in Modes :
           review = [contract |-> contract, mode |-> RouteForSession(contract, mode),
                     used |-> 0, done |-> << >>, card |-> NewCard]

In(j, kind, step) == job[j].kind = kind /\ job[j].step = step
GoOn(j, step) == job' = [job EXCEPT ![j].step = step]

GiveBack(j) == boundary' = IF boundary = j THEN NoJob ELSE boundary

\* A handler ends; its memory and the locks of its transaction go with it.
Leave(j, outcome) ==
    /\ job' = [job EXCEPT ![j] = [Idle EXCEPT !.kind = job[j].kind, !.step = outcome]]
    /\ trace' = [trace EXCEPT ![j] = << >>]
    /\ GiveBack(j)

------------------------------------------------------------------------------
(* The guard.                                                              *)

\* What an unreconciled manifest still holds back.
ReservedByIncomplete(j) ==                                        \* mutant
    IF intent[j].status = "incomplete" THEN intent[j].reserved - intent[j].terminal ELSE 0
ReservedBy(j) ==
    IF intent[j].status \in {"pending", "incomplete"} /\ intent[j].reserved > intent[j].terminal
    THEN intent[j].reserved - intent[j].terminal ELSE 0

ChargesOf(j) == {j} \X (1 .. Len(rows[j]) + ReservedBy(j))

Charged == Cardinality(UNION {ChargesOf(j) : j \in Jobs})

EnsureAvailable(requested) == Charged + requested <= DailyLimit

Imports == {j \in Jobs : job[j].kind = "import" /\ rows[j] # << >>}

\* openai_route_eligibility: the mutable gate of a frozen route.
Eligible == review.mode # "anthropic" /\ qualified

Expire ==
    /\ qualified /\ qualified' = FALSE
    /\ UNCHANGED <<boundary, job, sent, trace, rows, intent, review, crashes>>

StartJob(j, kind) ==
    /\ job[j] = Idle /\ kind \in JobKinds
    /\ kind = "score" => Len(review.done) < MaxReviews
    /\ job' = [job EXCEPT ![j].kind = kind, ![j].step = "started"]
    /\ UNCHANGED <<boundary, qualified, sent, trace, rows, intent, review, crashes>>

\* require_ai_processing waits for the advisory lock.
BoundaryFree == boundary = NoJob

TakeBoundary(j) ==
    /\ job[j].step \in {"started", "retrying"} /\ BoundaryFree
    /\ boundary' = j
    /\ job' = [job EXCEPT ![j].step = "locked", ![j].openai = Eligible,
                          ![j].used = review.used]
    /\ UNCHANGED <<qualified, sent, trace, rows, intent, review, crashes>>

\* The worst case of the route is checked before anything is sent.
RequestedCalls(j) == IF job[j].kind = "score" /\ job[j].openai THEN 2 ELSE 1

Guard(j) ==
    /\ job[j].step = "locked"
    /\ \/ /\ EnsureAvailable(RequestedCalls(j))
          /\ (job[j].kind = "import" /\ rows[j] = << >>) => Cardinality(Imports) < ImportLimit
          /\ GoOn(j, IF job[j].kind = "question" THEN "calling" ELSE "allowed")
          /\ UNCHANGED <<boundary, trace>>
       \/ ~EnsureAvailable(RequestedCalls(j)) /\ Leave(j, "refused")
       \/ /\ job[j].kind = "import" /\ rows[j] = << >> /\ Cardinality(Imports) >= ImportLimit
          /\ Leave(j, "refused")
    /\ UNCHANGED <<qualified, sent, rows, intent, review, crashes>>

\* authorize_provider_call: the row and the release of the lock are one commit,
\* unless the import's lease is lost meanwhile.
Authorize(j) ==
    /\ In(j, "import", "allowed")
    /\ \/ /\ rows' = [rows EXCEPT ![j] = Append(@, [provider |-> "anthropic",
                                                    outcome |-> "authorized"])]
          /\ GoOn(j, "calling") /\ GiveBack(j) /\ UNCHANGED trace
       \/ UNCHANGED rows /\ Leave(j, "refused")
    /\ UNCHANGED <<qualified, sent, intent, review, crashes>>

------------------------------------------------------------------------------
(* Scoring.                                                                *)

Manifest(j) ==
    [NoIntent EXCEPT
        !.status = "pending", !.reserved = RequestedCalls(j),
        !.required = IF ~job[j].openai THEN {"anthropic"}
                     ELSE IF review.mode = "shadow" THEN {"anthropic", "openai"} ELSE {"openai"},
        !.conditional = IF job[j].openai /\ review.mode = "primary" THEN {"anthropic"} ELSE {}]

NextOrdinal == 1 + Cardinality({j \in Jobs : intent[j].ordinal > 0})

\* The first-N order of the shadow stage.
StageOrdinal(j) == IF job[j].openai /\ review.mode = "shadow" THEN NextOrdinal ELSE 0

\* record_scoring_intent, V2 only.  Its own connection may not be had.
RecordIntent(j) ==
    /\ In(j, "score", "allowed")
    /\ \/ /\ review.contract = 2
          /\ intent' = [intent EXCEPT ![j] = [Manifest(j) EXCEPT !.ordinal = StageOrdinal(j)]]
          /\ GoOn(j, "routing") /\ UNCHANGED <<boundary, trace>>
       \/ review.contract = 2 /\ UNCHANGED intent /\ Leave(j, "failed")
       \/ review.contract = 1 /\ GoOn(j, "routing") /\ UNCHANGED <<intent, boundary, trace>>
    /\ UNCHANGED <<qualified, sent, rows, review, crashes>>

\* score_answer looks at the gate once more.
ScoreAnswer(j) ==
    /\ In(j, "score", "routing")
    /\ job' = [job EXCEPT ![j].step = "calling",
                          ![j].plan = IF Eligible THEN review.mode ELSE "anthropic"]
    /\ UNCHANGED <<boundary, qualified, sent, trace, rows, intent, review, crashes>>

Counted(calls, provider) == Cardinality({i \in DOMAIN calls : calls[i].provider = provider})
InFlight(j) == {p \in {"anthropic", "openai"} : Counted(sent[j], p) > Counted(trace[j], p)}
LastOf(j, provider) ==
    CHOOSE i \in DOMAIN trace[j] :
        /\ trace[j][i].provider = provider
        /\ \A k \in i + 1 .. Len(trace[j]) : trace[j][k].provider # provider
OutcomeOf(j, provider) ==
    IF provider = "openai" /\ job[j].skipped THEN "unavailable"
    ELSE IF Counted(trace[j], provider) = 0 THEN "none"
    ELSE trace[j][LastOf(j, provider)].outcome

\* A call whose JSON does not parse is repeated once, except for a V2 answer.
Retried(j) ==
    /\ job[j].kind # "score" \/ review.contract = 1
    /\ OutcomeOf(j, "anthropic") = "invalid_json" /\ Len(trace[j]) < 2

\* Which calls the handler may still make.
OwesAnthropic(j) ==
    \/ OutcomeOf(j, "anthropic") = "none" /\ (job[j].plan = "primary" =>
           OutcomeOf(j, "openai") \notin {"none", "success"})
    \/ Retried(j)

OwesOpenAI(j) == job[j].plan \in {"shadow", "primary"} /\ OutcomeOf(j, "openai") = "none"

Owed(j) ==
    {p \in {"anthropic", "openai"} : IF p = "openai" THEN OwesOpenAI(j) ELSE OwesAnthropic(j)}

Transmit(j, provider) ==
    /\ job[j].step = "calling" /\ provider \in Owed(j) \ InFlight(j)
    /\ job[j].kind = "import" => Len(sent[j]) < Len(rows[j])
    /\ \/ /\ provider = "openai" => qualified
          /\ sent' = [sent EXCEPT ![j] = Append(@, [provider |-> provider])]
          /\ UNCHANGED job
       \/ /\ provider = "openai" /\ ~qualified
          /\ job' = [job EXCEPT ![j].skipped = TRUE]
          /\ UNCHANGED sent
    /\ UNCHANGED <<boundary, qualified, trace, rows, intent, review, crashes>>

Parse(data, used) == IF review.contract = 2 THEN ParseV2(data, used) ELSE ParseV1(data, used)

\* The answer of a provider: transport fails, the JSON does not parse, or the
\* contract's parser decides.
Answers(j, provider) ==
    {[provider |-> provider, outcome |-> "transport_error", result |-> Unusable],
     [provider |-> provider, outcome |-> "invalid_json", result |-> Unusable]} \cup
    {LET result == Parse(data, job[j].used)
     IN  [provider |-> provider, result |-> result,
          outcome |-> IF result.status = "invalid" THEN "invalid_contract" ELSE "success"]
         : data \in Outputs2}

Return(j, provider) ==
    /\ job[j].step = "calling" /\ provider \in InFlight(j)
    /\ \E back \in Answers(j, provider) : trace' = [trace EXCEPT ![j] = Append(@, back)]
    /\ UNCHANGED <<boundary, qualified, job, sent, rows, intent, review, crashes>>

Settled(j) == job[j].step = "calling" /\ Owed(j) = {} /\ InFlight(j) = {}

\* The provider whose result counts.
Authority(j) ==
    IF job[j].plan = "primary" /\ OutcomeOf(j, "openai") = "success" THEN "openai" ELSE "anthropic"

\* A row for each physical call.
TerminalRows(j) ==
    [i \in DOMAIN trace[j] |->
        [provider |-> trace[j][i].provider, outcome |-> trace[j][i].outcome]]
Providers(calls) == {calls[i].provider : i \in DOMAIN calls}

------------------------------------------------------------------------------
(* Reconciliation.                                                         *)

CompleteEvidence(manifest, j) ==
    LET terminal == Providers(trace[j])
    IN  IF manifest.conditional = {} THEN terminal = manifest.required
        ELSE IF OutcomeOf(j, "openai") = "success"
        THEN terminal = {"openai"} /\ Authority(j) = "openai"
        ELSE terminal = {"openai", "anthropic"} /\ Authority(j) = "anthropic"

\* _finalize_scoring_intent.
Reconciled(j) ==
    [intent[j] EXCEPT
        !.status = IF CompleteEvidence(intent[j], j) THEN "finalized" ELSE "incomplete",
        !.terminal = Len(trace[j])]

Scored(j) == OutcomeOf(j, Authority(j)) = "success"

\* record_physical_calls: the rows and the manifest are one transaction of its
\* own; incomplete evidence fails the request after that commit.
RecordCalls(j) ==
    /\ job[j].kind = "score" /\ Settled(j)
    /\ \/ /\ rows' = [rows EXCEPT ![j] = TerminalRows(j)]
          /\ intent' = IF review.contract = 2 THEN [intent EXCEPT ![j] = Reconciled(j)] ELSE intent
          /\ IF Scored(j) /\ (review.contract = 1 \/ CompleteEvidence(intent[j], j))
             THEN GoOn(j, "recorded") /\ UNCHANGED <<boundary, trace>>
             ELSE Leave(j, "failed")
       \/ UNCHANGED <<rows, intent>> /\ Leave(j, "failed")
    /\ UNCHANGED <<qualified, sent, review, crashes>>

\* The turn is written; a completed review moves the schedule, and the next
\* session freezes a route again.
TurnWritten(result) ==
    IF result.status = "follow_up" THEN review' = [review EXCEPT !.used = @ + 1]
    ELSE \E contract \in {1, 2}, mode \in Modes :
            review' = [review EXCEPT
                !.used = 0, !.contract = contract, !.mode = RouteForSession(contract, mode),
                !.done = Append(@, result.recall),
                !.card = ApplySM2(@, QualityFor(result.recall))]

CommitTurn(j) ==
    /\ In(j, "score", "recorded")
    /\ \/ TurnWritten(trace[j][LastOf(j, Authority(j))].result) /\ Leave(j, "applied")
       \/ UNCHANGED review /\ Leave(j, "failed")
    /\ UNCHANGED <<qualified, sent, rows, intent, crashes>>

------------------------------------------------------------------------------
(* Imports and questions.                                                  *)

EndImport(j) ==
    /\ In(j, "import", "calling") /\ Settled(j)
    /\ Leave(j, IF Scored(j) THEN "applied" ELSE "failed")
    /\ UNCHANGED <<qualified, sent, rows, intent, review, crashes>>

\* Every parse retry crosses the boundary again.
AuthorizeRetry(j) ==
    /\ In(j, "import", "calling") /\ Retried(j) /\ InFlight(j) = {}
    /\ Len(rows[j]) = Len(sent[j])
    /\ GoOn(j, "retrying")
    /\ UNCHANGED <<boundary, qualified, sent, trace, rows, intent, review, crashes>>

\* One logical row, committed with the session or, when the generation is
\* stale, alone; lost when the start is refused or resumes a winner.
EndQuestion(j) ==
    /\ job[j].kind = "question" /\ Settled(j)
    /\ \/ /\ Scored(j)
          /\ rows' = [rows EXCEPT ![j] = <<[provider |-> "anthropic", outcome |-> "logical"]>>]
          /\ Leave(j, "applied")
       \/ UNCHANGED rows /\ Leave(j, "failed")
    /\ UNCHANGED <<qualified, sent, intent, review, crashes>>

\* The process dies: whatever was not committed is gone, and so are the locks.
Ended == {"idle", "applied", "failed", "refused"}

ProcessDies ==
    /\ crashes < MaxCrashes /\ crashes' = crashes + 1
    /\ boundary' = NoJob
    /\ job' = [j \in Jobs |-> IF job[j].step \in Ended THEN job[j]
                              ELSE [Idle EXCEPT !.kind = job[j].kind, !.step = "failed"]]
    /\ trace' = [j \in Jobs |-> << >>]
    /\ UNCHANGED <<qualified, sent, rows, intent, review>>

BudgetNext ==
    \/ Expire \/ ProcessDies
    \/ \E j \in Jobs :
         \/ \E kind \in JobKinds : StartJob(j, kind)
         \/ TakeBoundary(j) \/ Guard(j) \/ Authorize(j)
         \/ RecordIntent(j) \/ ScoreAnswer(j)
         \/ \E p \in {"anthropic", "openai"} : Transmit(j, p) \/ Return(j, p)
         \/ RecordCalls(j) \/ CommitTurn(j)
         \/ EndImport(j) \/ AuthorizeRetry(j) \/ EndQuestion(j)

BudgetSpec == BudgetInit /\ [][BudgetNext]_budgetVars

------------------------------------------------------------------------------
(* Properties.                                                             *)

\* The calls that promise to leave evidence.
Audited(j) == job[j].kind = "import" \/ intent[j] # NoIntent

\* Wherever the process dies, every audited call is a row or held back.
CallsAreAccounted ==
    \A j \in Jobs : Audited(j) => Len(sent[j]) <= Len(rows[j]) + ReservedBy(j)

\* The audited calls stay within the day's limit, the imports within theirs.
CallsStayInBudget ==
    /\ Cardinality(UNION {{j} \X DOMAIN sent[j] : j \in {k \in Jobs : Audited(k)}}) <= DailyLimit
    /\ Cardinality(Imports) <= ImportLimit

\* A finalized manifest has a row for each call that was made, and nothing that
\* was owed is missing; only such a V2 turn reaches the session.
EvidenceIsComplete ==
    \A j \in Jobs :
        /\ intent[j].status = "finalized" =>
               /\ Len(rows[j]) = Len(sent[j])
               /\ Providers(rows[j]) = Providers(sent[j])
               /\ intent[j].required \subseteq Providers(rows[j])
               /\ intent[j].conditional # {} =>
                      (Len(rows[j]) = 2 <=> rows[j][1].outcome # "success")
        /\ job[j].step \in {"recorded", "applied"} /\ intent[j] # NoIntent =>
               /\ intent[j].status = "finalized"
               /\ \E i \in DOMAIN rows[j] : rows[j][i].outcome = "success"

\* The stage's events are numbered without a gap or a repetition.
OrdinalsAreDense ==
    LET numbered == {j \in Jobs : intent[j].ordinal > 0}
    IN  {intent[j].ordinal : j \in numbered} = 1 .. Cardinality(numbered)

\* The scoring rules bound a session, compare providers by everything a score
\* decides and read only whole responses, and the card's schedule is that of its
\* completed reviews (parse_score_result, parse_score_v2_result, apply_sm2,
\* compare_shadow_results, parse_response).
RulesHold ==
    /\ TurnsAreBounded /\ ScheduleFollowsHistory
    /\ MatchesAreHarmless /\ ScoredResponsesAreWhole
    /\ review.used <= MaxProbes /\ FollowsHistory(review.card, review.done)

\* Paid calls leave true evidence, whatever fails or dies in between: they are
\* counted or reserved, they stay within the daily limits, and no answer is
\* scored on incomplete evidence (usage.py, _submit).
AuditIsTrue ==
    /\ CallsAreAccounted /\ CallsStayInBudget
    /\ EvidenceIsComplete /\ OrdinalsAreDense
=============================================================================
