------------------------ MODULE ProviderBudgetProofs ------------------------
(***************************************************************************)
(* ProviderBudget, for every number of requests and every limit: paid      *)
(* calls leave true evidence and stay within the day's limits.             *)
(*                                                                         *)
(* Between the guard and the commit a handler holds the account's lock, so *)
(* what the guard counted stands (Guarded).  An audited call is covered    *)
(* from before it is sent: by its row, or by what its manifest still       *)
(* holds back; and what a V2 answer has sent is within its manifest,       *)
(* because a provider is called once (CallsAreSound).                      *)
(*                                                                         *)
(* The turns of a session and its schedule go by the same lock: a scorer   *)
(* that is at work knows the turns as they are (TurnIsSound), so that what *)
(* the parser admits for it never leaves the cap, and a completed review   *)
(* extends the history that the schedule follows (NextFollows).            *)
(***************************************************************************)
EXTENDS ProviderBudget, FiniteSetTheorems, SequenceTheorems, WellFoundedInduction, TLAPS

Vendors == {"anthropic", "openai"}

Steps == {"idle", "started", "locked", "allowed", "retrying", "routing", "calling", "recorded",
          "applied", "failed", "refused"}

JobFields == {"kind", "step", "openai", "plan", "used", "skipped"}
IntentFields == {"status", "reserved", "terminal", "required", "conditional", "ordinal"}

JobIsTyped(j) ==
    /\ DOMAIN job[j] = JobFields
    /\ job[j].kind \in {"none", "score", "import", "question"} /\ job[j].step \in Steps
    /\ job[j].openai \in BOOLEAN /\ job[j].skipped \in BOOLEAN
    /\ job[j].plan \in {"none", "anthropic", "shadow", "primary"}

IsSeq(calls) == calls \in Seq({calls[i] : i \in DOMAIN calls})

RowsAreTyped(j) ==
    /\ IsSeq(sent[j]) /\ Providers(sent[j]) \subseteq Vendors
    /\ IsSeq(trace[j]) /\ Providers(trace[j]) \subseteq Vendors
    /\ \A i \in DOMAIN trace[j] : trace[j][i].outcome # "none"
    /\ IsSeq(rows[j])
    /\ DOMAIN intent[j] = IntentFields
    /\ intent[j].reserved \in 0..2 /\ intent[j].terminal \in Nat /\ intent[j].ordinal \in Nat

Domains ==
    /\ DOMAIN job = Jobs /\ DOMAIN sent = Jobs /\ DOMAIN trace = Jobs
    /\ DOMAIN rows = Jobs /\ DOMAIN intent = Jobs

ReviewIsTyped ==
    /\ DOMAIN review = {"contract", "mode", "used", "done", "card"}
    /\ review.contract \in {1, 2} /\ review.mode \in {"anthropic", "shadow", "primary"}

Typed ==
    /\ Domains /\ ReviewIsTyped
    /\ boundary \in Jobs \cup {NoJob} /\ qualified \in BOOLEAN

\* A handler that is past the lock holds it, except an import at its provider.
Holds(j) ==
    \/ job[j].step \in {"locked", "allowed", "routing", "recorded"}
    \/ job[j].step = "calling" /\ job[j].kind # "import"

LockIsHeld == \A j \in Jobs : Holds(j) => boundary = j

\* What a kind of handler has left before it makes its first call.
Untouched(j) == sent[j] = << >> /\ rows[j] = << >> /\ trace[j] = << >> /\ intent[j] = NoIntent

StagesAreSound(j) ==
    /\ job[j].kind = "none" <=> job[j].step = "idle"
    /\ job[j].step \in {"routing", "recorded"} => job[j].kind = "score"
    /\ job[j].step = "retrying" => job[j].kind = "import"
    /\ job[j].step \in {"idle", "started", "locked", "allowed"} /\ job[j].kind # "import" =>
           Untouched(j)
    /\ job[j].step \in {"idle", "started"} => Untouched(j)
    /\ job[j].step = "routing" => sent[j] = << >> /\ rows[j] = << >> /\ trace[j] = << >>
    /\ job[j].kind # "score" => intent[j] = NoIntent
    /\ job[j].kind = "import" => Len(sent[j]) <= Len(rows[j])
    /\ job[j].step \in {"started", "locked", "allowed", "routing"} /\ job[j].kind = "score" =>
           ~job[j].skipped

\* Distinct providers: each was called once.
Once(calls) == \A m, n \in DOMAIN calls : calls[m].provider = calls[n].provider => m = n

\* The calls of a V2 answer, while it is being scored.
CallsAreSound(j) ==
    /\ job[j].plan # "none"
    /\ job[j].plan # "anthropic" => job[j].openai /\ job[j].plan = review.mode
    /\ Once(sent[j]) /\ Once(trace[j])
    /\ Providers(trace[j]) \subseteq Providers(sent[j])
    /\ job[j].plan = "anthropic" => "openai" \notin Providers(sent[j])
    /\ job[j].skipped => "openai" \notin Providers(sent[j])
    /\ rows[j] = << >>
    /\ job[j].plan = "primary" /\ "anthropic" \in Providers(sent[j]) /\ ~job[j].skipped =>
           /\ trace[j] # << >> /\ trace[j][1].provider = "openai"
           /\ trace[j][1].outcome # "success"

\* The manifest of an answer that is being scored is the one its route asks for.
Scoring(j) == job[j].kind = "score" /\ job[j].step \in {"routing", "calling"}

ScoringIsSound(j) ==
    Scoring(j) =>
        IF review.contract = 1 THEN intent[j] = NoIntent
        ELSE /\ intent[j] = [Manifest(j) EXCEPT !.ordinal = intent[j].ordinal]
             /\ job[j].step = "calling" => CallsAreSound(j)

\* A manifest, whether somebody is still at work on it or not.
ManifestIsSound(j) ==
    /\ intent[j].status \in {"none", "pending", "incomplete", "finalized"}
    /\ intent[j].status = "none" => intent[j] = NoIntent
    /\ intent[j] # NoIntent =>
           /\ Len(sent[j]) <= intent[j].reserved
           /\ intent[j].status = "pending" => rows[j] = << >> /\ intent[j].terminal = 0
           /\ intent[j].status # "pending" =>
                  Len(rows[j]) = Len(sent[j]) /\ intent[j].terminal = Len(sent[j])

\* What the guard found stands until the commit.
Guarded(j) ==
    job[j].step = "allowed" =>
        /\ EnsureAvailable(RequestedCalls(j))
        /\ job[j].kind = "import" /\ rows[j] = << >> => Cardinality(Imports) < ImportLimit

\* A qualification that has expired stays expired, so that no route opens on the
\* way from the guard to the scorer.
RouteStands(j) ==
    job[j].step \in {"locked", "allowed", "routing"} /\ ~job[j].openai => ~Eligible

\* EvidenceIsComplete, of one request.
EvidenceOf(j) ==
    /\ intent[j].status = "finalized" =>
           /\ Len(rows[j]) = Len(sent[j])
           /\ Providers(rows[j]) = Providers(sent[j])
           /\ intent[j].required \subseteq Providers(rows[j])
           /\ intent[j].conditional # {} =>
                  (Len(rows[j]) = 2 <=> rows[j][1].outcome # "success")
    /\ job[j].step \in {"recorded", "applied"} /\ intent[j] # NoIntent =>
           /\ intent[j].status = "finalized"
           /\ \E i \in DOMAIN rows[j] : rows[j][i].outcome = "success"

\* What is true of a request whatever the others do.
IsSound(j) ==
    JobIsTyped(j) /\ RowsAreTyped(j) /\ StagesAreSound(j) /\ ManifestIsSound(j) /\ EvidenceOf(j)

\* What the audited calls are charged with.
AuditedCharges == UNION {ChargesOf(j) : j \in {k \in Jobs : Audited(k)}}

BInv ==
    /\ Typed /\ LockIsHeld /\ OrdinalsAreDense
    /\ \A j \in Jobs : IsSound(j) /\ ScoringIsSound(j) /\ RouteStands(j) /\ Guarded(j)
    /\ Cardinality(AuditedCharges) <= DailyLimit
    /\ Cardinality(Imports) <= ImportLimit

-----------------------------------------------------------------------------
(***************************************************************************)
(* Sequences of calls                                                      *)
(***************************************************************************)
LEMMA SeqIsSeq ==
  ASSUME NEW S, NEW calls \in Seq(S)
  PROVE  IsSeq(calls)
  BY DEF IsSeq

LEMMA SeqFacts ==
  ASSUME NEW calls, IsSeq(calls)
  PROVE  Len(calls) \in Nat /\ DOMAIN calls = 1..Len(calls) /\ IsFiniteSet(DOMAIN calls)
  <1>1. Len(calls) \in Nat /\ DOMAIN calls = 1..Len(calls)
    BY DEF IsSeq
  <1> QED
    BY <1>1, FS_Interval

LEMMA EmptyIs ==
  /\ IsSeq(<< >>) /\ Len(<< >>) = 0 /\ DOMAIN << >> = {}
  /\ Providers(<< >>) = {} /\ Once(<< >>)
  BY DEF IsSeq, Providers, Once

\* One more call.
LEMMA AppendIs ==
  ASSUME NEW calls, IsSeq(calls), NEW call
  PROVE  LET more == Append(calls, call)
         IN  /\ IsSeq(more) /\ Len(more) = Len(calls) + 1 /\ DOMAIN more = 1..Len(calls) + 1
             /\ \A i \in 1..Len(calls) : more[i] = calls[i]
             /\ more[Len(calls) + 1] = call
             /\ Providers(more) = Providers(calls) \cup {call.provider}
             /\ Once(calls) /\ call.provider \notin Providers(calls) => Once(more)
  <1> DEFINE S == {calls[i] : i \in DOMAIN calls} \cup {call}
             more == Append(calls, call)
  <1>1. calls \in Seq(S) /\ call \in S
    BY DEF IsSeq
  <1> HIDE DEF S
  <1>2. more \in Seq(S) /\ Len(more) = Len(calls) + 1 /\ Len(calls) \in Nat
    BY <1>1
  <1>3. /\ DOMAIN more = 1..Len(calls) + 1 /\ DOMAIN calls = 1..Len(calls)
        /\ \A i \in 1..Len(calls) : more[i] = calls[i]
        /\ more[Len(calls) + 1] = call
    BY <1>1
  <1> HIDE DEF more
  <1>4. IsSeq(more)
    BY <1>2, SeqIsSeq
  <1>5. Providers(more) = Providers(calls) \cup {call.provider}
    BY <1>2, <1>3 DEF Providers
  <1>6. ASSUME Once(calls), call.provider \notin Providers(calls) PROVE Once(more)
    BY <1>2, <1>3, <1>6 DEF Once, Providers
  <1> QED
    BY <1>2, <1>3, <1>4, <1>5, <1>6 DEF more

\* Counting calls of a provider: none, or one if each was called once.
LEMMA CountedIs ==
  ASSUME NEW calls, IsSeq(calls), NEW p
  PROVE  /\ Counted(calls, p) \in Nat
         /\ Counted(calls, p) = 0 <=> p \notin Providers(calls)
         /\ Once(calls) => Counted(calls, p) <= 1
  <1> DEFINE S == {i \in DOMAIN calls : calls[i].provider = p}
  <1>1. IsFiniteSet(S) /\ Counted(calls, p) = Cardinality(S)
    BY SeqFacts, FS_Subset DEF Counted
  <1>2. S = {} <=> p \notin Providers(calls)
    BY DEF Providers
  <1>3. ASSUME Once(calls) PROVE Cardinality(S) <= 1
    <2>1. CASE S = {}
      BY <2>1, FS_EmptySet
    <2>2. CASE S # {}
      <3>1. PICK i \in S : S = {i}
        BY <1>3, <2>2 DEF Once
      <3> QED
        BY <3>1, FS_Singleton
    <2> QED
      BY <2>1, <2>2
  <1> HIDE DEF S
  <1> QED
    BY <1>1, <1>2, <1>3, FS_CardinalityType, FS_EmptySet

\* There are as many calls as providers that were called, if each was called once.
LEMMA OnceHasLength ==
  ASSUME NEW calls, IsSeq(calls), Once(calls)
  PROVE  Len(calls) = Cardinality(Providers(calls)) /\ IsFiniteSet(Providers(calls))
  <1> DEFINE f == [i \in DOMAIN calls |-> calls[i].provider]
  <1>1. f \in Bijection(DOMAIN calls, Providers(calls))
    <2>1. f \in [DOMAIN calls -> Providers(calls)]
      BY DEF Providers
    <2>2. \A m, n \in DOMAIN calls : f[m] = f[n] => m = n
      BY DEF Once
    <2>3. \A p \in Providers(calls) : \E m \in DOMAIN calls : f[m] = p
      BY DEF Providers
    <2> HIDE DEF f
    <2> QED
      BY <2>1, <2>2, <2>3 DEF Bijection, Injection, Surjection, IsInjective
  <1>2. ExistsBijection(DOMAIN calls, Providers(calls))
    BY <1>1 DEF ExistsBijection
  <1>3. /\ IsFiniteSet(DOMAIN calls) /\ Len(calls) \in Nat
        /\ Cardinality(DOMAIN calls) = Len(calls)
    <2>1. DOMAIN calls = 1..Len(calls) /\ Len(calls) \in Nat
      BY SeqFacts
    <2>2. Cardinality(1..Len(calls)) = IF 1 > Len(calls) THEN 0 ELSE Len(calls) - 1 + 1
      BY <2>1, FS_Interval
    <2> QED
      BY <2>1, <2>2, FS_Interval
  <1> QED
    BY <1>2, <1>3, FS_Bijection

-----------------------------------------------------------------------------
(***************************************************************************)
(* What a step of one request leaves alone                                 *)
(***************************************************************************)
\* The rest of the table stands.
OthersRest(j) ==
    /\ Domains'
    /\ \A k \in Jobs \ {j} :
           /\ job'[k] = job[k] /\ sent'[k] = sent[k] /\ trace'[k] = trace[k]
           /\ rows'[k] = rows[k] /\ intent'[k] = intent[k]

\* A request other than the one that moved is as sound as it was.
LEMMA OthersAreSound ==
  ASSUME NEW j, OthersRest(j), NEW k \in Jobs \ {j}, IsSound(k)
  PROVE  IsSound(k)'
  <1>1. /\ job'[k] = job[k] /\ sent'[k] = sent[k] /\ trace'[k] = trace[k]
        /\ rows'[k] = rows[k] /\ intent'[k] = intent[k]
    BY DEF OthersRest
  <1> QED
    BY <1>1 DEF IsSound, JobIsTyped, RowsAreTyped, StagesAreSound, ManifestIsSound, EvidenceOf,
       Untouched

\* Its answer too is scored as before, if the session is the same.
LEMMA OthersScore ==
  ASSUME NEW j, OthersRest(j), NEW k \in Jobs \ {j}, ScoringIsSound(k), review' = review
  PROVE  ScoringIsSound(k)'
  <1>1. /\ job'[k] = job[k] /\ sent'[k] = sent[k] /\ trace'[k] = trace[k]
        /\ rows'[k] = rows[k] /\ intent'[k] = intent[k]
    BY DEF OthersRest
  <1>2. Manifest(k)' = Manifest(k)
    BY <1>1 DEF Manifest, RequestedCalls
  <1>3. CallsAreSound(k) => CallsAreSound(k)'
    BY <1>1 DEF CallsAreSound
  <1> QED
    BY <1>1, <1>2, <1>3 DEF ScoringIsSound, Scoring

\* Only the holder scores or commits.
LEMMA OneHolder ==
  ASSUME BInv, NEW j \in Jobs, boundary = j, NEW k \in Jobs \ {j}
  PROVE  ~Holds(k) /\ ~Scoring(k) /\ job[k].step # "allowed"
  BY DEF BInv, LockIsHeld, Holds, Scoring

\* The charges where no row and no manifest changes.
LEMMA ChargesRest ==
  ASSUME \A k \in Jobs : rows'[k] = rows[k] /\ intent'[k] = intent[k]
  PROVE  Charged' = Charged /\ \A k \in Jobs : ChargesOf(k)' = ChargesOf(k)
  <1>1. \A k \in Jobs : ChargesOf(k)' = ChargesOf(k)
    BY DEF ChargesOf, ReservedBy
  <1> QED
    BY <1>1 DEF Charged

\* What a step of one request has to show.
LEMMA StepKeeps ==
  ASSUME BInv, NEW j \in Jobs, OthersRest(j),
         qualified' = qualified, ReviewIsTyped',
         boundary' = boundary \/ {boundary, boundary'} \subseteq {j, NoJob},
         Holds(j)' => boundary' = j,
         boundary = j \/ UNCHANGED <<review, rows, intent>>,
         Imports' = Imports \/ boundary = j,
         IsSound(j)', ScoringIsSound(j)', RouteStands(j)', Guarded(j)',
         OrdinalsAreDense', Cardinality(AuditedCharges') <= DailyLimit,
         Cardinality(Imports') <= ImportLimit
  PROVE  BInv'
  <1>1. Typed'
    BY DEF Typed, BInv, OthersRest
  <1>2. LockIsHeld'
    <2>1. ASSUME NEW k \in Jobs \ {j}, Holds(k)' PROVE boundary' = k
      <3>1. Holds(k)
        BY <2>1 DEF Holds, OthersRest
      <3>2. boundary = k /\ k # NoJob
        BY <3>1, BudgetAssumption DEF BInv, LockIsHeld
      <3> QED
        BY <3>2
    <2> QED
      BY <2>1 DEF LockIsHeld
  <1>3. \A k \in Jobs : IsSound(k)'
    BY OthersAreSound DEF BInv
  <1>4. \A k \in Jobs : ScoringIsSound(k)'
    <2>1. CASE review' = review
      BY <2>1, OthersScore DEF BInv
    <2>2. CASE boundary = j
      <3>1. ASSUME NEW k \in Jobs \ {j} PROVE ScoringIsSound(k)'
        <4>1. ~Scoring(k)
          BY <2>2, OneHolder
        <4>2. ~Scoring(k)'
          BY <4>1 DEF Scoring, OthersRest
        <4> QED
          BY <4>2 DEF ScoringIsSound
      <3> QED
        BY <3>1
    <2> QED
      BY <2>1, <2>2
  <1>5. \A k \in Jobs : Guarded(k)'
    <2>1. ASSUME NEW k \in Jobs \ {j}, job'[k].step = "allowed"
          PROVE  Guarded(k)'
      <3>1. job[k].step = "allowed" /\ job'[k] = job[k]
        BY <2>1 DEF OthersRest
      <3>2. boundary # j
        BY <3>1, OneHolder
      <3>3. rows' = rows /\ intent' = intent /\ review' = review /\ Imports' = Imports
        BY <3>2
      <3>4. Charged' = Charged
        BY <3>3, ChargesRest
      <3>5. RequestedCalls(k)' = RequestedCalls(k)
        BY <3>1 DEF RequestedCalls
      <3>6. Guarded(k)
        BY DEF BInv
      <3> QED
        BY <3>1, <3>3, <3>4, <3>5, <3>6 DEF Guarded, EnsureAvailable
    <2> QED
      BY <2>1 DEF Guarded
  <1>6. \A k \in Jobs : RouteStands(k)'
    <2>1. ASSUME NEW k \in Jobs \ {j} PROVE RouteStands(k)'
      <3>1. job'[k] = job[k] /\ RouteStands(k)
        BY DEF OthersRest, BInv
      <3>2. CASE review' = review
        BY <3>1, <3>2 DEF RouteStands, Eligible
      <3>3. CASE boundary = j
        <4>1. ~Holds(k)
          BY <3>3, OneHolder
        <4> QED
          BY <3>1, <4>1 DEF RouteStands, Holds
      <3> QED
        BY <3>2, <3>3
    <2> QED
      BY <2>1
  <1> QED
    BY <1>1, <1>2, <1>3, <1>4, <1>5, <1>6 DEF BInv

\* Of one that leaves rows, manifests and kinds alone.
LEMMA QuietRests ==
  ASSUME BInv, UNCHANGED <<rows, intent>>,
         \A k \in Jobs : job'[k].kind = job[k].kind \/ Untouched(k)
  PROVE  /\ OrdinalsAreDense' /\ Imports' = Imports
         /\ Cardinality(AuditedCharges') <= DailyLimit
         /\ Cardinality(Imports') <= ImportLimit
  <1>1. OrdinalsAreDense'
    BY DEF BInv, OrdinalsAreDense
  <1>2. Imports' = Imports
    BY DEF Imports, Untouched
  <1>3. AuditedCharges' = AuditedCharges
    <2>1. \A k \in Jobs : ChargesOf(k)' = ChargesOf(k)
      BY ChargesRest
    <2>2. ASSUME NEW k \in Jobs, Untouched(k) PROVE ChargesOf(k) = {}
      <3>1. Len(rows[k]) = 0 /\ ReservedBy(k) = 0
        BY <2>2 DEF Untouched, ReservedBy, NoIntent
      <3> QED
        BY <3>1 DEF ChargesOf
    <2>3. \A k \in Jobs : Audited(k)' = Audited(k) \/ ChargesOf(k) = {}
      BY <2>2 DEF Audited
    <2>4. \A x : x \in AuditedCharges' <=> x \in AuditedCharges
      <3>1. ASSUME NEW x
            PROVE  (\E k \in Jobs : Audited(k)' /\ x \in ChargesOf(k)')
                       <=> (\E k \in Jobs : Audited(k) /\ x \in ChargesOf(k))
        BY <2>1, <2>3
      <3> QED
        BY <3>1 DEF AuditedCharges
    <2> QED
      BY <2>4
  <1> QED
    BY <1>1, <1>2, <1>3 DEF BInv

-----------------------------------------------------------------------------
(***************************************************************************)
(* The steps that change no row and no manifest                            *)
(***************************************************************************)
LEMMA Facts ==
  ASSUME BInv, NEW j \in Jobs
  PROVE  /\ Domains /\ ReviewIsTyped /\ boundary \in Jobs \cup {NoJob} /\ qualified \in BOOLEAN
         /\ IsSound(j) /\ ScoringIsSound(j) /\ RouteStands(j) /\ Guarded(j)
         /\ JobIsTyped(j) /\ RowsAreTyped(j) /\ StagesAreSound(j)
         /\ ManifestIsSound(j) /\ EvidenceOf(j)
         /\ Holds(j) => boundary = j
  BY DEF BInv, Typed, IsSound, LockIsHeld

\* A quiet step of one request, under the lock or not.
LEMMA QuietKeeps ==
  ASSUME BInv, NEW j \in Jobs, OthersRest(j), UNCHANGED <<qualified, rows, intent>>,
         review' = review \/ (boundary = j /\ ReviewIsTyped'),
         boundary' = boundary \/ {boundary, boundary'} \subseteq {j, NoJob},
         Holds(j)' => boundary' = j,
         job'[j].kind = job[j].kind \/ Untouched(j),
         IsSound(j)', ScoringIsSound(j)', RouteStands(j)', Guarded(j)'
  PROVE  BInv'
  <1>1. \A k \in Jobs : job'[k].kind = job[k].kind \/ Untouched(k)
    BY DEF OthersRest
  <1>2. /\ OrdinalsAreDense' /\ Imports' = Imports
        /\ Cardinality(AuditedCharges') <= DailyLimit
        /\ Cardinality(Imports') <= ImportLimit
    BY <1>1, QuietRests
  <1>3. ReviewIsTyped'
    BY DEF BInv, Typed, ReviewIsTyped
  <1> QED
    BY <1>2, <1>3, StepKeeps

LEMMA ExpireKeeps ==
  ASSUME BInv, Expire
  PROVE  BInv'
  <1>1. /\ qualified' = FALSE
        /\ UNCHANGED <<boundary, job, sent, trace, rows, intent, review, crashes>>
    BY DEF Expire
  <1>2. NoJob \notin Jobs /\ OthersRest(NoJob)
    BY <1>1, BudgetAssumption DEF OthersRest, BInv, Typed, Domains
  <1>3. \A k \in Jobs : IsSound(k)' /\ ScoringIsSound(k)'
    BY <1>1, <1>2, OthersAreSound, OthersScore DEF BInv
  <1>4. \A k \in Jobs : RouteStands(k)'
    BY <1>1 DEF BInv, RouteStands, Eligible
  <1>5. Typed' /\ LockIsHeld'
    BY <1>1 DEF BInv, Typed, Domains, ReviewIsTyped, LockIsHeld, Holds
  <1>6. /\ OrdinalsAreDense' /\ Imports' = Imports
        /\ Cardinality(AuditedCharges') <= DailyLimit
        /\ Cardinality(Imports') <= ImportLimit
    BY <1>1, QuietRests
  <1>7. Charged' = Charged
    BY <1>1, ChargesRest
  <1>8. \A k \in Jobs : Guarded(k)'
    BY <1>1, <1>6, <1>7 DEF BInv, Guarded, EnsureAvailable, RequestedCalls
  <1> QED
    BY <1>3, <1>4, <1>5, <1>6, <1>8 DEF BInv

LEMMA ProcessDiesKeeps ==
  ASSUME BInv, ProcessDies
  PROVE  BInv'
  <1>1. /\ boundary' = NoJob /\ UNCHANGED <<qualified, sent, rows, intent, review>>
        /\ job' = [j \in Jobs |-> IF job[j].step \in Ended THEN job[j]
                                  ELSE [Idle EXCEPT !.kind = job[j].kind, !.step = "failed"]]
        /\ trace' = [j \in Jobs |-> << >>]
    BY DEF ProcessDies
  <1>2. ASSUME NEW j \in Jobs
        PROVE  /\ IsSound(j)' /\ job'[j].kind = job[j].kind
               /\ job'[j].step \in Ended
    <2>1. /\ job'[j] = IF job[j].step \in Ended THEN job[j]
                       ELSE [Idle EXCEPT !.kind = job[j].kind, !.step = "failed"]
          /\ trace'[j] = << >>
      BY <1>1
    <2>2. /\ JobIsTyped(j) /\ RowsAreTyped(j) /\ StagesAreSound(j) /\ ManifestIsSound(j)
          /\ EvidenceOf(j)
      BY Facts
    <2>3. CASE job[j].step \in Ended
      <3>1. job'[j] = job[j]
        BY <2>1, <2>3
      <3>2. JobIsTyped(j)' /\ StagesAreSound(j)' /\ ManifestIsSound(j)' /\ EvidenceOf(j)'
        BY <1>1, <2>1, <2>2, <2>3, <3>1
        DEF JobIsTyped, StagesAreSound, ManifestIsSound, EvidenceOf, Untouched, Ended
      <3>3. RowsAreTyped(j)'
        BY <1>1, <2>1, <2>2, EmptyIs DEF RowsAreTyped
      <3> QED
        BY <2>3, <3>1, <3>2, <3>3 DEF IsSound
    <2>4. CASE job[j].step \notin Ended
      <3>1. /\ DOMAIN job'[j] = JobFields /\ job'[j].kind = job[j].kind
            /\ job'[j].step = "failed" /\ job'[j].openai = FALSE
            /\ job'[j].plan = "none" /\ job'[j].skipped = FALSE
        BY <2>1, <2>4 DEF Idle, JobFields
      <3>2. JobIsTyped(j)'
        BY <2>2, <3>1 DEF JobIsTyped, Steps
      <3>3. StagesAreSound(j)' /\ ManifestIsSound(j)' /\ EvidenceOf(j)'
        BY <1>1, <2>1, <2>2, <2>4, <3>1
        DEF StagesAreSound, ManifestIsSound, EvidenceOf, Untouched, Ended
      <3>4. RowsAreTyped(j)'
        BY <1>1, <2>1, <2>2, EmptyIs DEF RowsAreTyped
      <3> QED
        BY <3>1, <3>2, <3>3, <3>4 DEF IsSound, Ended
    <2> QED
      BY <2>3, <2>4
  <1>3. Typed'
    BY <1>1 DEF BInv, Typed, Domains, ReviewIsTyped
  <1>4. ASSUME NEW j \in Jobs
        PROVE  ~Holds(j)' /\ ScoringIsSound(j)' /\ RouteStands(j)' /\ Guarded(j)'
    BY <1>2 DEF Holds, ScoringIsSound, Scoring, RouteStands, Guarded, Ended
  <1>5. LockIsHeld'
    BY <1>4 DEF LockIsHeld
  <1>6. /\ OrdinalsAreDense' /\ Imports' = Imports
        /\ Cardinality(AuditedCharges') <= DailyLimit
        /\ Cardinality(Imports') <= ImportLimit
    BY <1>1, <1>2, QuietRests
  <1> QED
    BY <1>2, <1>3, <1>4, <1>5, <1>6 DEF BInv

LEMMA StartJobKeeps ==
  ASSUME BInv, NEW j \in Jobs, NEW kind \in JobKinds, StartJob(j, kind)
  PROVE  BInv'
  <1>1. /\ job[j] = Idle /\ job' = [job EXCEPT ![j].kind = kind, ![j].step = "started"]
        /\ UNCHANGED <<boundary, qualified, sent, trace, rows, intent, review>>
    BY DEF StartJob
  <1>2. /\ JobIsTyped(j) /\ RowsAreTyped(j) /\ StagesAreSound(j) /\ ManifestIsSound(j)
        /\ EvidenceOf(j) /\ Domains
    BY Facts
  <1>3. OthersRest(j) /\ job'[j] = [Idle EXCEPT !.kind = kind, !.step = "started"]
    BY <1>1, <1>2 DEF OthersRest, Domains
  <1>4. /\ DOMAIN job'[j] = JobFields /\ job'[j].kind = kind
        /\ job'[j].step = "started" /\ job'[j].openai = FALSE
        /\ job'[j].plan = "none" /\ job'[j].skipped = FALSE
    BY <1>3 DEF Idle, JobFields
  <1>5. kind \in {"score", "import", "question"}
    BY BudgetAssumption
  <1>6. Untouched(j)
    BY <1>1, <1>2 DEF StagesAreSound, Idle
  <1>7. IsSound(j)'
    <2>1. JobIsTyped(j)'
      BY <1>4, <1>5 DEF JobIsTyped, Steps
    <2>2. StagesAreSound(j)' /\ ManifestIsSound(j)' /\ EvidenceOf(j)' /\ RowsAreTyped(j)'
      BY <1>1, <1>2, <1>4, <1>5, <1>6
      DEF StagesAreSound, ManifestIsSound, EvidenceOf, Untouched, RowsAreTyped, NoIntent
    <2> QED
      BY <2>1, <2>2 DEF IsSound
  <1>8. ~Holds(j)' /\ ScoringIsSound(j)' /\ RouteStands(j)' /\ Guarded(j)'
    BY <1>4 DEF Holds, ScoringIsSound, Scoring, RouteStands, Guarded
  <1> QED
    BY <1>1, <1>3, <1>6, <1>7, <1>8, QuietKeeps

\* A handler that ends has nothing left to show but its record.
LEMMA LeaveIs ==
  ASSUME BInv, NEW j \in Jobs, NEW outcome \in {"applied", "failed", "refused"}, Leave(j, outcome)
  PROVE  /\ DOMAIN job' = Jobs /\ DOMAIN trace' = Jobs
         /\ \A k \in Jobs \ {j} : job'[k] = job[k] /\ trace'[k] = trace[k]
         /\ job'[j].kind = job[j].kind /\ job'[j].step = outcome /\ trace'[j] = << >>
         /\ boundary' = boundary \/ {boundary, boundary'} \subseteq {j, NoJob}
         /\ JobIsTyped(j)' /\ ~Holds(j)'
         /\ ScoringIsSound(j)' /\ RouteStands(j)' /\ Guarded(j)'
  <1>1. JobIsTyped(j) /\ Domains
    BY Facts
  <1>2. /\ job' = [job EXCEPT ![j] = [Idle EXCEPT !.kind = job[j].kind, !.step = outcome]]
        /\ trace' = [trace EXCEPT ![j] = << >>]
        /\ boundary' = IF boundary = j THEN NoJob ELSE boundary
    BY DEF Leave, GiveBack
  <1>3. job'[j] = [Idle EXCEPT !.kind = job[j].kind, !.step = outcome] /\ trace'[j] = << >>
    BY <1>1, <1>2 DEF Domains
  <1>4. /\ DOMAIN job'[j] = JobFields /\ job'[j].kind = job[j].kind
        /\ job'[j].step = outcome /\ job'[j].openai = FALSE
        /\ job'[j].plan = "none" /\ job'[j].skipped = FALSE
    BY <1>3 DEF Idle, JobFields
  <1>5. JobIsTyped(j)'
    BY <1>1, <1>4 DEF JobIsTyped, Steps
  <1>6. ~Holds(j)' /\ ScoringIsSound(j)' /\ RouteStands(j)' /\ Guarded(j)'
    BY <1>4 DEF Holds, ScoringIsSound, Scoring, RouteStands, Guarded
  <1> QED
    BY <1>1, <1>2, <1>3, <1>4, <1>5, <1>6 DEF Domains

\* It ends without a trace but the rows it had.
LEMMA LeaveKeeps ==
  ASSUME BInv, NEW j \in Jobs, NEW outcome \in {"applied", "failed", "refused"}, Leave(j, outcome),
         UNCHANGED <<qualified, sent, rows, intent>>,
         review' = review \/ (boundary = j /\ ReviewIsTyped'),
         job[j].step \notin {"idle", "started"},
         outcome = "applied" => job[j].step = "recorded" \/ intent[j] = NoIntent
  PROVE  BInv'
  <1>1. /\ RowsAreTyped(j) /\ StagesAreSound(j) /\ ManifestIsSound(j) /\ EvidenceOf(j) /\ Domains
    BY Facts
  <1>2. /\ DOMAIN job' = Jobs /\ DOMAIN trace' = Jobs
        /\ \A k \in Jobs \ {j} : job'[k] = job[k] /\ trace'[k] = trace[k]
        /\ job'[j].kind = job[j].kind /\ job'[j].step = outcome /\ trace'[j] = << >>
        /\ boundary' = boundary \/ {boundary, boundary'} \subseteq {j, NoJob}
        /\ JobIsTyped(j)' /\ ~Holds(j)'
        /\ ScoringIsSound(j)' /\ RouteStands(j)' /\ Guarded(j)'
    BY LeaveIs
  <1>3. OthersRest(j)
    BY <1>1, <1>2 DEF OthersRest, Domains
  <1>4. RowsAreTyped(j)'
    BY <1>1, <1>2, EmptyIs DEF RowsAreTyped
  <1>5. StagesAreSound(j)' /\ ManifestIsSound(j)'
    BY <1>1, <1>2 DEF StagesAreSound, ManifestIsSound
  <1>6. EvidenceOf(j)'
    BY <1>1, <1>2 DEF EvidenceOf
  <1>7. IsSound(j)'
    BY <1>2, <1>4, <1>5, <1>6 DEF IsSound
  <1> QED
    BY <1>2, <1>3, <1>7, QuietKeeps

LEMMA TakeBoundaryKeeps ==
  ASSUME BInv, NEW j \in Jobs, TakeBoundary(j)
  PROVE  BInv'
  <1>1. /\ job[j].step \in {"started", "retrying"} /\ boundary = NoJob /\ boundary' = j
        /\ job' = [job EXCEPT ![j].step = "locked", ![j].openai = Eligible,
                              ![j].used = review.used]
        /\ UNCHANGED <<qualified, sent, trace, rows, intent, review>>
    BY DEF TakeBoundary, BoundaryFree
  <1>2. /\ JobIsTyped(j) /\ RowsAreTyped(j) /\ StagesAreSound(j) /\ ManifestIsSound(j)
        /\ EvidenceOf(j) /\ Domains /\ qualified \in BOOLEAN
    BY Facts
  <1>3. /\ OthersRest(j)
        /\ job'[j] = [job[j] EXCEPT !.step = "locked", !.openai = Eligible, !.used = review.used]
    BY <1>1, <1>2 DEF OthersRest, Domains
  <1>4. /\ DOMAIN job'[j] = JobFields /\ job'[j].kind = job[j].kind
        /\ job'[j].step = "locked" /\ job'[j].openai = Eligible
        /\ job'[j].plan = job[j].plan /\ job'[j].skipped = job[j].skipped
    BY <1>2, <1>3 DEF JobIsTyped, JobFields
  <1>5. Eligible \in BOOLEAN /\ Eligible' = Eligible
    BY <1>1 DEF Eligible
  <1>6. IsSound(j)'
    <2>1. JobIsTyped(j)'
      BY <1>2, <1>4, <1>5 DEF JobIsTyped, Steps
    <2>2. StagesAreSound(j)'
      BY <1>1, <1>2, <1>4 DEF StagesAreSound, Untouched
    <2>3. ManifestIsSound(j)' /\ EvidenceOf(j)' /\ RowsAreTyped(j)'
      BY <1>1, <1>2, <1>4 DEF ManifestIsSound, EvidenceOf, RowsAreTyped
    <2> QED
      BY <2>1, <2>2, <2>3 DEF IsSound
  <1>7. ScoringIsSound(j)' /\ RouteStands(j)' /\ Guarded(j)'
    BY <1>4, <1>5 DEF ScoringIsSound, Scoring, RouteStands, Guarded
  <1> QED
    BY <1>1, <1>3, <1>4, <1>6, <1>7, QuietKeeps

\* A step that only moves a handler on, under the lock it holds or not.
LEMMA GoOnIs ==
  ASSUME BInv, NEW j \in Jobs, NEW step \in Steps, GoOn(j, step)
  PROVE  /\ DOMAIN job' = Jobs /\ \A k \in Jobs \ {j} : job'[k] = job[k]
         /\ JobIsTyped(j)' /\ job'[j].step = step
         /\ job'[j].kind = job[j].kind /\ job'[j].openai = job[j].openai
         /\ job'[j].plan = job[j].plan /\ job'[j].skipped = job[j].skipped
         /\ RequestedCalls(j)' = RequestedCalls(j)
  <1>1. JobIsTyped(j) /\ Domains
    BY Facts
  <1>2. /\ job' = [job EXCEPT ![j] = [job[j] EXCEPT !.step = step]]
        /\ job'[j] = [job[j] EXCEPT !.step = step]
    BY <1>1 DEF GoOn, Domains
  <1>3. /\ DOMAIN job'[j] = JobFields /\ job'[j].step = step
        /\ job'[j].kind = job[j].kind /\ job'[j].openai = job[j].openai
        /\ job'[j].plan = job[j].plan /\ job'[j].skipped = job[j].skipped
    BY <1>1, <1>2 DEF JobIsTyped, JobFields
  <1> QED
    BY <1>1, <1>2, <1>3 DEF JobIsTyped, Domains, RequestedCalls

LEMMA GuardKeeps ==
  ASSUME BInv, NEW j \in Jobs, Guard(j)
  PROVE  BInv'
  <1>1. job[j].step = "locked" /\ UNCHANGED <<qualified, sent, rows, intent, review>>
    BY DEF Guard
  <1>2. /\ JobIsTyped(j) /\ RowsAreTyped(j) /\ StagesAreSound(j) /\ ManifestIsSound(j)
        /\ EvidenceOf(j) /\ Domains /\ RouteStands(j) /\ boundary = j
    BY <1>1, Facts DEF Holds
  <1>3. ASSUME Leave(j, "refused") PROVE BInv'
    BY <1>1, <1>3, LeaveKeeps
  <1>4. ASSUME EnsureAvailable(RequestedCalls(j)),
               job[j].kind = "import" /\ rows[j] = << >> => Cardinality(Imports) < ImportLimit,
               GoOn(j, IF job[j].kind = "question" THEN "calling" ELSE "allowed"),
               UNCHANGED <<boundary, trace>>
        PROVE  BInv'
    <2> DEFINE step == IF job[j].kind = "question" THEN "calling" ELSE "allowed"
    <2>1. step \in Steps /\ step \in {"calling", "allowed"}
          /\ (step = "calling" <=> job[j].kind = "question")
      BY DEF Steps
    <2> HIDE DEF step
    <2>2. /\ DOMAIN job' = Jobs /\ \A k \in Jobs \ {j} : job'[k] = job[k]
          /\ JobIsTyped(j)' /\ job'[j].step = step
          /\ job'[j].kind = job[j].kind /\ job'[j].openai = job[j].openai
          /\ job'[j].plan = job[j].plan /\ job'[j].skipped = job[j].skipped
          /\ RequestedCalls(j)' = RequestedCalls(j)
      BY <1>4, <2>1, GoOnIs DEF step
    <2>3. OthersRest(j)
      BY <1>1, <1>2, <1>4, <2>2 DEF OthersRest, Domains
    <2>4. StagesAreSound(j)'
      BY <1>1, <1>2, <1>4, <2>1, <2>2 DEF StagesAreSound, Untouched
    <2>5. ManifestIsSound(j)' /\ RowsAreTyped(j)'
      BY <1>1, <1>2, <1>4, <2>2 DEF ManifestIsSound, RowsAreTyped
    <2>6. EvidenceOf(j)'
      BY <1>1, <1>2, <1>4, <2>1, <2>2 DEF EvidenceOf
    <2>7. IsSound(j)'
      BY <2>2, <2>4, <2>5, <2>6 DEF IsSound
    <2>8. ScoringIsSound(j)'
      BY <2>1, <2>2 DEF ScoringIsSound, Scoring
    <2>9. RouteStands(j)'
      BY <1>1, <1>2, <2>1, <2>2 DEF RouteStands, Eligible
    <2>10. Guarded(j)'
      <3>1. Charged' = Charged
        BY <1>1, ChargesRest
      <3>2. Imports' = Imports
        BY <1>1, <2>2 DEF Imports
      <3> QED
        BY <1>1, <1>4, <2>2, <3>1, <3>2 DEF Guarded, EnsureAvailable
    <2> QED
      BY <1>1, <1>2, <1>4, <2>2, <2>3, <2>7, <2>8, <2>9, <2>10, QuietKeeps
  <1> QED
    BY <1>3, <1>4 DEF Guard

-----------------------------------------------------------------------------
(***************************************************************************)
(* Charges                                                                 *)
(***************************************************************************)
LEMMA ReservedIs ==
  ASSUME NEW j, RowsAreTyped(j)
  PROVE  ReservedBy(j) \in Nat /\ Len(rows[j]) \in Nat
  <1>1. Len(rows[j]) \in Nat
    BY SeqFacts DEF RowsAreTyped
  <1> QED
    BY <1>1 DEF RowsAreTyped, ReservedBy

LEMMA ChargesAreFinite ==
  ASSUME \A k \in Jobs : RowsAreTyped(k)
  PROVE  IsFiniteSet(UNION {ChargesOf(k) : k \in Jobs})
  <1> DEFINE f == [k \in Jobs |-> ChargesOf(k)]
             T == {ChargesOf(k) : k \in Jobs}
  <1>1. f \in Surjection(Jobs, T)
    BY DEF Surjection
  <1>2. \A k \in Jobs : IsFiniteSet(ChargesOf(k))
    <2>1. ASSUME NEW k \in Jobs PROVE IsFiniteSet(ChargesOf(k))
      <3> DEFINE n == Len(rows[k]) + ReservedBy(k)
      <3>1. n \in Nat
        BY ReservedIs
      <3> HIDE DEF n
      <3>2. IsFiniteSet(1 .. n)
        BY <3>1, FS_Interval
      <3>3. IsFiniteSet({k})
        BY FS_Singleton
      <3>4. IsFiniteSet({k} \X (1 .. n))
        BY <3>2, <3>3, FS_Product
      <3> QED
        BY <3>4 DEF n, ChargesOf
    <2> QED
      BY <2>1
  <1>3. \A c \in T : IsFiniteSet(c)
    BY <1>2
  <1> HIDE DEF f, T
  <1>4. IsFiniteSet(Jobs)
    BY BudgetAssumption
  <1>5. IsFiniteSet(T)
    BY <1>1, <1>4, FS_Surjection
  <1>6. IsFiniteSet(UNION T)
    BY <1>3, <1>5, FS_UNION
  <1> QED
    BY <1>6 DEF T

\* What the guard let through fits.
LEMMA ChargesFit ==
  ASSUME BInv, NEW j \in Jobs, OthersRest(j), NEW n \in Nat, EnsureAvailable(n),
         ChargesOf(j)' \subseteq {j} \X (1 .. Len(rows[j]) + ReservedBy(j) + n)
  PROVE  Cardinality(AuditedCharges') <= DailyLimit
  <1> DEFINE A == UNION {ChargesOf(k) : k \in Jobs}
             a == Len(rows[j]) + ReservedBy(j)
             B == {j} \X (a + 1 .. a + n)
  <1>1. \A k \in Jobs : RowsAreTyped(k)
    BY DEF BInv, IsSound
  <1>2. IsFiniteSet(A)
    BY <1>1, ChargesAreFinite
  <1>3. a \in Nat
    BY <1>1, ReservedIs
  <1>4. IsFiniteSet(B) /\ Cardinality(B) = n
    <2> DEFINE S == a + 1 .. a + n
    <2> HIDE DEF a
    <2>1. IsFiniteSet(S) /\ Cardinality(S) = IF a + 1 > a + n THEN 0 ELSE (a + n) - (a + 1) + 1
      BY <1>3, FS_Interval
    <2>2. Cardinality(S) = n
      BY <1>3, <2>1
    <2>3. IsFiniteSet({j}) /\ Cardinality({j}) = 1
      BY FS_Singleton
    <2> HIDE DEF S
    <2>4. IsFiniteSet({j} \X S) /\ Cardinality({j} \X S) = 1 * n
      BY <2>1, <2>2, <2>3, FS_Product
    <2> QED
      BY <2>4 DEF S
  <1>5. AuditedCharges' \subseteq A \cup B
    <2>1. ASSUME NEW k \in Jobs \ {j} PROVE ChargesOf(k)' \subseteq A
      <3>1. rows'[k] = rows[k] /\ intent'[k] = intent[k]
        BY DEF OthersRest
      <3>2. ChargesOf(k)' = ChargesOf(k)
        BY <3>1 DEF ChargesOf, ReservedBy
      <3> QED
        BY <3>2
    <2>2. ChargesOf(j)' \subseteq A \cup B
      <3>1. ChargesOf(j) = {j} \X (1 .. a)
        BY DEF ChargesOf
      <3>2. {j} \X (1 .. a + n) \subseteq ({j} \X (1 .. a)) \cup B
        <4> HIDE DEF a
        <4> QED
          BY <1>3
      <3> QED
        BY <3>1, <3>2
    <2> HIDE DEF A, B
    <2> QED
      BY <2>1, <2>2 DEF AuditedCharges
  <1>6. Cardinality(A) + n <= DailyLimit
    BY DEF EnsureAvailable, Charged
  <1> HIDE DEF A, B
  <1>7. /\ IsFiniteSet(A \cup B)
        /\ Cardinality(A \cup B) = Cardinality(A) + Cardinality(B) - Cardinality(A \cap B)
    BY <1>2, <1>4, FS_Union
  <1>8. IsFiniteSet(A \cap B)
    BY <1>2, FS_Subset
  <1>9. Cardinality(A) \in Nat /\ Cardinality(A \cap B) \in Nat /\ DailyLimit \in Nat
    BY <1>2, <1>8, FS_CardinalityType, BudgetAssumption
  <1>10. /\ IsFiniteSet(AuditedCharges')
         /\ Cardinality(AuditedCharges') <= Cardinality(A \cup B)
    BY <1>5, <1>7, FS_Subset
  <1>11. Cardinality(AuditedCharges') \in Nat
    BY <1>10, FS_CardinalityType
  <1> QED
    BY <1>4, <1>6, <1>7, <1>9, <1>10, <1>11

\* What was charged for one request is not charged twice when its rows arrive.
LEMMA ChargesStay ==
  ASSUME BInv, NEW j \in Jobs, OthersRest(j), job'[j].kind = job[j].kind,
         Audited(j)' => Audited(j) /\ ChargesOf(j)' \subseteq ChargesOf(j)
  PROVE  Cardinality(AuditedCharges') <= DailyLimit
  <1> DEFINE A == UNION {ChargesOf(k) : k \in Jobs}
  <1>1. \A k \in Jobs : RowsAreTyped(k)
    BY DEF BInv, IsSound
  <1>2. IsFiniteSet(A)
    BY <1>1, ChargesAreFinite
  <1>3. AuditedCharges \subseteq A
    BY DEF AuditedCharges
  <1>4. AuditedCharges' \subseteq AuditedCharges
    <2>1. ASSUME NEW k \in Jobs, Audited(k)'
          PROVE  Audited(k) /\ ChargesOf(k)' \subseteq ChargesOf(k)
      <3>1. CASE k = j
        BY <2>1, <3>1
      <3>2. CASE k # j
        <4>1. job'[k] = job[k] /\ rows'[k] = rows[k] /\ intent'[k] = intent[k]
          BY <3>2 DEF OthersRest
        <4>2. ChargesOf(k)' = ChargesOf(k)
          BY <4>1 DEF ChargesOf, ReservedBy
        <4> QED
          BY <2>1, <4>1, <4>2 DEF Audited
      <3> QED
        BY <3>1, <3>2
    <2> QED
      BY <2>1 DEF AuditedCharges
  <1> HIDE DEF A
  <1>5. IsFiniteSet(AuditedCharges)
    BY <1>2, <1>3, FS_Subset
  <1>6. /\ IsFiniteSet(AuditedCharges')
        /\ Cardinality(AuditedCharges') <= Cardinality(AuditedCharges)
    BY <1>4, <1>5, FS_Subset
  <1>7. /\ Cardinality(AuditedCharges) \in Nat /\ Cardinality(AuditedCharges') \in Nat
        /\ DailyLimit \in Nat
    BY <1>5, <1>6, FS_CardinalityType, BudgetAssumption
  <1> QED
    BY <1>6, <1>7 DEF BInv

LEMMA AuthorizeKeeps ==
  ASSUME BInv, NEW j \in Jobs, Authorize(j)
  PROVE  BInv'
  <1> DEFINE row == [provider |-> "anthropic", outcome |-> "authorized"]
  <1>1. /\ job[j].kind = "import" /\ job[j].step = "allowed"
        /\ UNCHANGED <<qualified, sent, intent, review>>
    BY DEF Authorize, In
  <1>2. /\ JobIsTyped(j) /\ RowsAreTyped(j) /\ StagesAreSound(j) /\ ManifestIsSound(j)
        /\ EvidenceOf(j) /\ Domains /\ Guarded(j) /\ ReviewIsTyped /\ boundary = j
    BY <1>1, Facts DEF Holds
  <1>3. ASSUME UNCHANGED rows, Leave(j, "refused") PROVE BInv'
    BY <1>1, <1>3, LeaveKeeps
  <1>4. ASSUME rows' = [rows EXCEPT ![j] = Append(@, row)], GoOn(j, "calling"), GiveBack(j),
               UNCHANGED trace
        PROVE  BInv'
    <2>1. /\ rows'[j] = Append(rows[j], row)
          /\ \A k \in Jobs \ {j} : rows'[k] = rows[k]
          /\ DOMAIN rows' = Jobs
      BY <1>2, <1>4 DEF Domains
    <2> HIDE DEF row
    <2>2. /\ DOMAIN job' = Jobs /\ \A k \in Jobs \ {j} : job'[k] = job[k]
          /\ JobIsTyped(j)' /\ job'[j].step = "calling" /\ job'[j].kind = "import"
      BY <1>1, <1>4, GoOnIs DEF Steps
    <2>3. OthersRest(j)
      BY <1>1, <1>2, <1>4, <2>1, <2>2 DEF OthersRest, Domains
    <2>4. IsSeq(rows[j])
      BY <1>2 DEF RowsAreTyped
    <2>5. IsSeq(rows'[j]) /\ Len(rows'[j]) = Len(rows[j]) + 1
      BY <2>1, <2>4, AppendIs
    <2>6. Len(rows[j]) \in Nat /\ Len(sent[j]) \in Nat
      BY <1>2, SeqFacts DEF RowsAreTyped
    <2>7. rows'[j] # << >>
      BY <2>5, <2>6, EmptyIs
    <2>8. intent[j] = NoIntent /\ intent'[j] = NoIntent
      BY <1>1, <1>2 DEF StagesAreSound
    <2>9. IsSound(j)'
      <3>1. RowsAreTyped(j)'
        BY <1>1, <1>2, <1>4, <2>5 DEF RowsAreTyped
      <3>2. StagesAreSound(j)'
        <4>1. Len(sent[j]) <= Len(rows[j])
          BY <1>1, <1>2 DEF StagesAreSound
        <4>2. Len(sent'[j]) <= Len(rows'[j])
          BY <1>1, <2>5, <2>6, <4>1
        <4> QED
          BY <2>2, <2>8, <4>2 DEF StagesAreSound
      <3>3. ManifestIsSound(j)' /\ EvidenceOf(j)'
        BY <2>2, <2>8 DEF ManifestIsSound, EvidenceOf, NoIntent
      <3> QED
        BY <2>2, <3>1, <3>2, <3>3 DEF IsSound
    <2>10. /\ ~Holds(j)' /\ ScoringIsSound(j)' /\ RouteStands(j)' /\ Guarded(j)'
      BY <2>2 DEF Holds, ScoringIsSound, Scoring, RouteStands, Guarded
    <2>11. OrdinalsAreDense'
      BY <1>1 DEF BInv, OrdinalsAreDense
    <2>12. Cardinality(AuditedCharges') <= DailyLimit
      <3>1. EnsureAvailable(1)
        BY <1>1, <1>2 DEF Guarded, RequestedCalls
      <3>2. ChargesOf(j)' = {j} \X (1 .. Len(rows[j]) + 1)
        <4>1. ReservedBy(j)' = 0
          BY <2>8 DEF ReservedBy, NoIntent
        <4>2. Len(rows'[j]) + 0 = Len(rows[j]) + 1
          BY <2>5, <2>6
        <4> QED
          BY <4>1, <4>2 DEF ChargesOf
      <3>3. ReservedBy(j) = 0
        BY <2>8 DEF ReservedBy, NoIntent
      <3>4. Len(rows[j]) + ReservedBy(j) + 1 = Len(rows[j]) + 1
        BY <2>6, <3>3
      <3> QED
        BY <2>3, <3>1, <3>2, <3>4, ChargesFit
    <2>13. Cardinality(Imports') <= ImportLimit
      <3>1. Imports' = Imports \cup {j}
        BY <2>1, <2>2, <2>7 DEF Imports, OthersRest
      <3>2. IsFiniteSet(Imports)
        BY BudgetAssumption, FS_Subset DEF Imports
      <3>3. Cardinality(Imports') = IF j \in Imports THEN Cardinality(Imports)
                                    ELSE Cardinality(Imports) + 1
        BY <3>1, <3>2, FS_AddElement
      <3>4. Cardinality(Imports) \in Nat /\ ImportLimit \in Nat
        BY <3>2, FS_CardinalityType, BudgetAssumption
      <3>5. CASE j \in Imports
        BY <3>3, <3>5 DEF BInv
      <3>6. CASE j \notin Imports
        <4>1. rows[j] = << >>
          BY <1>1, <3>6 DEF Imports
        <4>2. Cardinality(Imports) < ImportLimit
          BY <1>1, <1>2, <4>1 DEF Guarded
        <4> QED
          BY <3>3, <3>4, <3>6, <4>2
      <3> QED
        BY <3>5, <3>6
    <2>14. boundary' = NoJob /\ ReviewIsTyped'
      BY <1>1, <1>2, <1>4 DEF GiveBack, ReviewIsTyped
    <2> QED
      BY <1>1, <1>2, <2>3, <2>9, <2>10, <2>11, <2>12, <2>13, <2>14, StepKeeps
  <1> QED
    BY <1>3, <1>4 DEF Authorize

\* The next number is the one that is missing.
LEMMA OrdinalsStayDense ==
  ASSUME BInv, NEW j \in Jobs, intent[j].ordinal = 0,
         \A k \in Jobs \ {j} : intent'[k] = intent[k],
         intent'[j].ordinal \in {0, NextOrdinal}
  PROVE  OrdinalsAreDense' /\ NextOrdinal \in Nat \ {0}
  <1> DEFINE numbered == {k \in Jobs : intent[k].ordinal > 0}
             n == Cardinality(numbered)
  <1>1. IsFiniteSet(numbered) /\ n \in Nat
    BY BudgetAssumption, FS_Subset, FS_CardinalityType
  <1>2. {intent[k].ordinal : k \in numbered} = 1 .. n
    BY DEF BInv, OrdinalsAreDense
  <1>3. NextOrdinal = n + 1
    BY <1>1 DEF NextOrdinal
  <1>4. j \notin numbered
    OBVIOUS
  <1> HIDE DEF n
  <1>5. CASE intent'[j].ordinal = 0
    <2>1. numbered' = numbered
      BY <1>5
    <2>2. {intent'[k].ordinal : k \in numbered'} = {intent[k].ordinal : k \in numbered}
      BY <1>4, <2>1
    <2>3. Cardinality(numbered') = n
      BY <2>1 DEF n
    <2>4. {intent'[k].ordinal : k \in numbered'} = 1 .. Cardinality(numbered')
      BY <1>2, <2>2, <2>3
    <2> QED
      BY <1>1, <1>3, <2>4 DEF OrdinalsAreDense
  <1>6. CASE intent'[j].ordinal = n + 1
    <2>1. numbered' = numbered \cup {j}
      BY <1>1, <1>6
    <2>2. Cardinality(numbered') = n + 1
      BY <1>1, <1>4, <2>1, FS_AddElement DEF n
    <2>3. {intent'[k].ordinal : k \in numbered'} = {intent[k].ordinal : k \in numbered} \cup {n + 1}
      BY <1>4, <1>6, <2>1
    <2>4. 1 .. n + 1 = (1 .. n) \cup {n + 1}
      BY <1>1
    <2>5. {intent'[k].ordinal : k \in numbered'} = 1 .. Cardinality(numbered')
      BY <1>2, <2>2, <2>3, <2>4
    <2> QED
      BY <1>1, <1>3, <2>5 DEF OrdinalsAreDense
  <1> QED
    BY <1>3, <1>5, <1>6

LEMMA RecordIntentKeeps ==
  ASSUME BInv, NEW j \in Jobs, RecordIntent(j)
  PROVE  BInv'
  <1>1. /\ job[j].kind = "score" /\ job[j].step = "allowed"
        /\ UNCHANGED <<qualified, sent, rows, review>>
    BY DEF RecordIntent, In
  <1>2. /\ JobIsTyped(j) /\ RowsAreTyped(j) /\ StagesAreSound(j) /\ ManifestIsSound(j)
        /\ EvidenceOf(j) /\ Domains /\ Guarded(j) /\ ReviewIsTyped /\ boundary = j
        /\ RouteStands(j)
    BY <1>1, Facts DEF Holds
  <1>3. sent[j] = << >> /\ rows[j] = << >> /\ trace[j] = << >> /\ intent[j] = NoIntent
    BY <1>1, <1>2 DEF StagesAreSound, Untouched
  <1>4. ASSUME UNCHANGED intent, Leave(j, "failed") PROVE BInv'
    BY <1>1, <1>4, LeaveKeeps
  <1>5. ASSUME GoOn(j, "routing"), UNCHANGED <<boundary, trace>>,
               DOMAIN intent' = Jobs, \A k \in Jobs \ {j} : intent'[k] = intent[k]
        PROVE  /\ OthersRest(j) /\ JobIsTyped(j)' /\ job'[j].step = "routing"
               /\ job'[j].kind = "score" /\ job'[j].openai = job[j].openai /\ ~job'[j].skipped
               /\ Holds(j)' /\ RouteStands(j)' /\ Guarded(j)'
               /\ RequestedCalls(j)' = RequestedCalls(j)
    <2>1. /\ DOMAIN job' = Jobs /\ \A k \in Jobs \ {j} : job'[k] = job[k]
          /\ JobIsTyped(j)' /\ job'[j].step = "routing"
          /\ job'[j].kind = job[j].kind /\ job'[j].openai = job[j].openai
          /\ job'[j].skipped = job[j].skipped
          /\ RequestedCalls(j)' = RequestedCalls(j)
      BY <1>5, GoOnIs DEF Steps
    <2>2. OthersRest(j)
      BY <1>1, <1>2, <1>5, <2>1 DEF OthersRest, Domains
    <2>3. Holds(j)' /\ RouteStands(j)' /\ Guarded(j)'
      BY <1>1, <1>2, <2>1 DEF Holds, RouteStands, Guarded, Eligible
    <2>4. ~job[j].skipped
      BY <1>1, <1>2 DEF StagesAreSound
    <2> QED
      BY <1>1, <2>1, <2>2, <2>3, <2>4
  <1>6. ASSUME review.contract = 1, GoOn(j, "routing"), UNCHANGED <<intent, boundary, trace>>
        PROVE  BInv'
    <2>1. /\ OthersRest(j) /\ JobIsTyped(j)' /\ job'[j].step = "routing"
          /\ job'[j].kind = "score" /\ ~job'[j].skipped
          /\ Holds(j)' /\ RouteStands(j)' /\ Guarded(j)'
      BY <1>2, <1>5, <1>6 DEF Domains
    <2>2. IsSound(j)'
      BY <1>1, <1>2, <1>3, <1>6, <2>1
      DEF IsSound, RowsAreTyped, StagesAreSound, ManifestIsSound, EvidenceOf, Untouched
    <2>3. ScoringIsSound(j)'
      BY <1>1, <1>3, <1>6 DEF ScoringIsSound
    <2> QED
      BY <1>1, <1>2, <1>6, <2>1, <2>2, <2>3, QuietKeeps
  <1>7. ASSUME review.contract = 2, GoOn(j, "routing"), UNCHANGED <<boundary, trace>>,
               intent' = [intent EXCEPT ![j] = [Manifest(j) EXCEPT !.ordinal = StageOrdinal(j)]]
        PROVE  BInv'
    <2>1. /\ intent'[j] = [Manifest(j) EXCEPT !.ordinal = StageOrdinal(j)]
          /\ DOMAIN intent' = Jobs /\ \A k \in Jobs \ {j} : intent'[k] = intent[k]
      BY <1>2, <1>7 DEF Domains
    <2>2. /\ OthersRest(j) /\ JobIsTyped(j)' /\ job'[j].step = "routing"
          /\ job'[j].kind = "score" /\ job'[j].openai = job[j].openai /\ ~job'[j].skipped
          /\ Holds(j)' /\ RouteStands(j)' /\ Guarded(j)'
          /\ RequestedCalls(j)' = RequestedCalls(j)
      BY <1>5, <1>7, <2>1
    <2>3. RequestedCalls(j) \in {1, 2}
      BY DEF RequestedCalls
    <2>4. /\ DOMAIN intent'[j] = IntentFields /\ intent'[j].status = "pending"
          /\ intent'[j].reserved = RequestedCalls(j) /\ intent'[j].terminal = 0
          /\ intent'[j].ordinal = StageOrdinal(j)
      BY <2>1 DEF Manifest, NoIntent, IntentFields
    <2>5. OrdinalsAreDense' /\ StageOrdinal(j) \in Nat
      <3>1. intent[j].ordinal = 0
        BY <1>3 DEF NoIntent
      <3>2. intent'[j].ordinal \in {0, NextOrdinal}
        BY <2>4 DEF StageOrdinal
      <3>3. OrdinalsAreDense' /\ NextOrdinal \in Nat \ {0}
        BY <2>1, <3>1, <3>2, OrdinalsStayDense
      <3> QED
        BY <3>3 DEF StageOrdinal
    <2>6. intent'[j] # NoIntent
      BY <2>4 DEF NoIntent
    <2>7. IsSound(j)'
      <3>1. RowsAreTyped(j)'
        BY <1>1, <1>2, <1>7, <2>3, <2>4, <2>5 DEF RowsAreTyped
      <3>2. StagesAreSound(j)'
        BY <1>1, <1>3, <1>7, <2>2 DEF StagesAreSound
      <3>3. ManifestIsSound(j)' /\ EvidenceOf(j)'
        BY <1>1, <1>3, <2>2, <2>3, <2>4, <2>6, EmptyIs DEF ManifestIsSound, EvidenceOf
      <3> QED
        BY <2>2, <3>1, <3>2, <3>3 DEF IsSound
    <2>8. ScoringIsSound(j)'
      <3>1. Manifest(j)' = Manifest(j)
        BY <1>1, <2>2 DEF Manifest
      <3>2. intent'[j] = [Manifest(j)' EXCEPT !.ordinal = intent'[j].ordinal]
        BY <2>1, <2>4, <3>1
      <3> QED
        BY <1>1, <1>7, <2>2, <3>2 DEF ScoringIsSound
    <2>9. Cardinality(AuditedCharges') <= DailyLimit
      <3>1. EnsureAvailable(RequestedCalls(j))
        BY <1>1, <1>2 DEF Guarded
      <3>2. Len(rows[j]) + ReservedBy(j) + RequestedCalls(j) = RequestedCalls(j)
        BY <1>3, <2>3, EmptyIs DEF ReservedBy, NoIntent
      <3>3. Len(rows'[j]) + ReservedBy(j)' = RequestedCalls(j)
        BY <1>1, <1>3, <2>3, <2>4, EmptyIs DEF ReservedBy
      <3>4. ChargesOf(j)' = {j} \X (1 .. RequestedCalls(j))
        BY <3>3 DEF ChargesOf
      <3> QED
        BY <2>2, <2>3, <3>1, <3>2, <3>4, ChargesFit
    <2>10. Imports' = Imports /\ Cardinality(Imports') <= ImportLimit
      <3>1. Imports' = Imports
        BY <1>1, <2>2 DEF Imports, OthersRest
      <3> QED
        BY <3>1 DEF BInv
    <2>11. ReviewIsTyped' /\ boundary' = j
      BY <1>1, <1>2, <1>7 DEF ReviewIsTyped
    <2> QED
      BY <1>1, <1>2, <1>7, <2>2, <2>5, <2>7, <2>8, <2>9, <2>10, <2>11, StepKeeps
  <1> QED
    BY <1>4, <1>6, <1>7 DEF RecordIntent

LEMMA ScoreAnswerKeeps ==
  ASSUME BInv, NEW j \in Jobs, ScoreAnswer(j)
  PROVE  BInv'
  <1> DEFINE plan == IF Eligible THEN review.mode ELSE "anthropic"
  <1>1. /\ job[j].kind = "score" /\ job[j].step = "routing"
        /\ job' = [job EXCEPT ![j].step = "calling", ![j].plan = plan]
        /\ UNCHANGED <<boundary, qualified, sent, trace, rows, intent, review>>
    BY DEF ScoreAnswer, In
  <1>2. /\ JobIsTyped(j) /\ RowsAreTyped(j) /\ StagesAreSound(j) /\ ManifestIsSound(j)
        /\ EvidenceOf(j) /\ Domains /\ ReviewIsTyped /\ boundary = j
        /\ RouteStands(j) /\ ScoringIsSound(j)
    BY <1>1, Facts DEF Holds
  <1>3. /\ plan \in {"anthropic", "shadow", "primary"}
        /\ plan # "anthropic" => job[j].openai /\ plan = review.mode
    BY <1>1, <1>2 DEF RouteStands, Eligible, ReviewIsTyped, JobIsTyped
  <1> HIDE DEF plan
  <1>4. OthersRest(j) /\ job'[j] = [job[j] EXCEPT !.step = "calling", !.plan = plan]
    BY <1>1, <1>2 DEF OthersRest, Domains
  <1>5. /\ DOMAIN job'[j] = JobFields /\ job'[j].kind = "score" /\ job'[j].step = "calling"
        /\ job'[j].openai = job[j].openai /\ job'[j].plan = plan
        /\ job'[j].skipped = job[j].skipped
    <2>1. DOMAIN job[j] = JobFields /\ job[j].kind = "score"
      BY <1>1, <1>2 DEF JobIsTyped
    <2> QED
      BY ONLY <1>4, <2>1 DEF JobFields
  <1>6. sent[j] = << >> /\ rows[j] = << >> /\ trace[j] = << >>
    BY <1>1, <1>2 DEF StagesAreSound
  <1>7. IsSound(j)'
    <2>1. JobIsTyped(j)'
      BY <1>2, <1>3, <1>5 DEF JobIsTyped, Steps
    <2>2. StagesAreSound(j)' /\ ManifestIsSound(j)' /\ EvidenceOf(j)' /\ RowsAreTyped(j)'
      BY <1>1, <1>2, <1>5 DEF StagesAreSound, ManifestIsSound, EvidenceOf, RowsAreTyped
    <2> QED
      BY <2>1, <2>2 DEF IsSound
  <1>8. ScoringIsSound(j)'
    <2>1. Manifest(j)' = Manifest(j)
      BY <1>1, <1>5 DEF Manifest, RequestedCalls
    <2>2. CallsAreSound(j)'
      BY <1>1, <1>3, <1>5, <1>6, EmptyIs DEF CallsAreSound
    <2> QED
      BY <1>1, <1>2, <2>1, <2>2 DEF ScoringIsSound, Scoring
  <1>9. RouteStands(j)' /\ Guarded(j)'
    BY <1>5 DEF RouteStands, Guarded
  <1> QED
    BY <1>1, <1>2, <1>4, <1>5, <1>7, <1>8, <1>9, QuietKeeps

-----------------------------------------------------------------------------
(***************************************************************************)
(* Calls and answers                                                       *)
(***************************************************************************)
\* What the handler has seen of a provider it calls once.
LEMMA OutcomeIs ==
  ASSUME NEW j, RowsAreTyped(j), Once(trace[j]), NEW p, ~(p = "openai" /\ job[j].skipped)
  PROVE  /\ OutcomeOf(j, p) = "none" <=> p \notin Providers(trace[j])
         /\ \A i \in DOMAIN trace[j] :
                trace[j][i].provider = p => OutcomeOf(j, p) = trace[j][i].outcome
  <1>1. IsSeq(trace[j]) /\ \A i \in DOMAIN trace[j] : trace[j][i].outcome # "none"
    BY DEF RowsAreTyped
  <1>2. OutcomeOf(j, p) = IF Counted(trace[j], p) = 0 THEN "none"
                          ELSE trace[j][LastOf(j, p)].outcome
    BY DEF OutcomeOf
  <1>3. Counted(trace[j], p) = 0 <=> p \notin Providers(trace[j])
    BY <1>1, CountedIs
  <1>4. ASSUME NEW i \in DOMAIN trace[j], trace[j][i].provider = p
        PROVE  LastOf(j, p) = i /\ p \in Providers(trace[j])
    <2>1. DOMAIN trace[j] = 1 .. Len(trace[j]) /\ Len(trace[j]) \in Nat
      BY <1>1, SeqFacts
    <2>2. \A k \in DOMAIN trace[j] : trace[j][k].provider = p => k = i
      BY <1>4 DEF Once
    <2>3. \A k \in i + 1 .. Len(trace[j]) : trace[j][k].provider # p
      BY <2>1, <2>2
    <2>4. p \in Providers(trace[j])
      BY <1>4 DEF Providers
    <2> QED
      BY <1>4, <2>2, <2>3, <2>4 DEF LastOf
  <1>5. \A i \in DOMAIN trace[j] :
            trace[j][i].provider = p => OutcomeOf(j, p) = trace[j][i].outcome
    BY <1>2, <1>3, <1>4
  <1>6. ASSUME p \in Providers(trace[j]) PROVE OutcomeOf(j, p) # "none"
    <2>1. PICK i \in DOMAIN trace[j] : trace[j][i].provider = p
      BY <1>6 DEF Providers
    <2> QED
      BY <1>1, <1>5, <2>1
  <1> QED
    BY <1>2, <1>3, <1>5, <1>6

\* What is at a provider that is called once.
LEMMA InFlightIs ==
  ASSUME NEW j, RowsAreTyped(j), Once(sent[j]), Once(trace[j]),
         Providers(trace[j]) \subseteq Providers(sent[j])
  PROVE  InFlight(j) = Providers(sent[j]) \ Providers(trace[j])
  <1>1. IsSeq(sent[j]) /\ IsSeq(trace[j]) /\ Providers(sent[j]) \subseteq Vendors
    BY DEF RowsAreTyped
  <1>2. ASSUME NEW p \in Vendors
        PROVE  Counted(sent[j], p) > Counted(trace[j], p)
                   <=> p \in Providers(sent[j]) \ Providers(trace[j])
    <2>1. /\ Counted(sent[j], p) \in Nat
          /\ Counted(sent[j], p) = 0 <=> p \notin Providers(sent[j])
          /\ Counted(sent[j], p) <= 1
      BY <1>1, CountedIs
    <2>2. /\ Counted(trace[j], p) \in Nat
          /\ Counted(trace[j], p) = 0 <=> p \notin Providers(trace[j])
          /\ Counted(trace[j], p) <= 1
      BY <1>1, CountedIs
    <2> QED
      BY <2>1, <2>2
  <1> QED
    BY <1>1, <1>2 DEF InFlight, Vendors

\* A V2 answer that is at its providers, and any other handler there.
LEMMA CallingIs ==
  ASSUME BInv, NEW j \in Jobs, job[j].step = "calling"
  PROVE  /\ job[j].kind \in {"score", "import", "question"} /\ review.contract \in {1, 2}
         /\ job[j].kind # "import" => boundary = j
         /\ ~(job[j].kind = "score" /\ review.contract = 2) => intent[j] = NoIntent
         /\ job[j].kind = "score" /\ review.contract = 2 =>
                /\ CallsAreSound(j)
                /\ intent[j] = [Manifest(j) EXCEPT !.ordinal = intent[j].ordinal]
  <1>1. JobIsTyped(j) /\ StagesAreSound(j) /\ ScoringIsSound(j) /\ ReviewIsTyped
        /\ (Holds(j) => boundary = j)
    BY Facts
  <1> QED
    BY <1>1 DEF JobIsTyped, StagesAreSound, ScoringIsSound, Scoring, ReviewIsTyped, Holds

LEMMA ManifestIs ==
  ASSUME NEW j, intent[j] = [Manifest(j) EXCEPT !.ordinal = intent[j].ordinal]
  PROVE  /\ intent[j].status = "pending" /\ intent[j].reserved = RequestedCalls(j)
         /\ intent[j].terminal = 0
         /\ intent[j].required = IF ~job[j].openai THEN {"anthropic"}
                                 ELSE IF review.mode = "shadow" THEN {"anthropic", "openai"}
                                 ELSE {"openai"}
         /\ intent[j].conditional = IF job[j].openai /\ review.mode = "primary"
                                    THEN {"anthropic"} ELSE {}
  <1> DEFINE required == IF ~job[j].openai THEN {"anthropic"}
                         ELSE IF review.mode = "shadow" THEN {"anthropic", "openai"}
                         ELSE {"openai"}
             conditional == IF job[j].openai /\ review.mode = "primary" THEN {"anthropic"} ELSE {}
             calls == RequestedCalls(j)
  <1>1. Manifest(j) = [NoIntent EXCEPT !.status = "pending", !.reserved = calls,
                                       !.required = required, !.conditional = conditional]
    BY DEF Manifest
  <1> HIDE DEF required, conditional, calls
  <1>2. Manifest(j) = [status |-> "pending", reserved |-> calls, terminal |-> 0,
                       required |-> required, conditional |-> conditional, ordinal |-> 0]
    BY <1>1 DEF NoIntent
  <1>3. /\ intent[j].status = "pending" /\ intent[j].reserved = calls /\ intent[j].terminal = 0
        /\ intent[j].required = required /\ intent[j].conditional = conditional
    BY <1>2
  <1> QED
    BY <1>3 DEF required, conditional, calls

\* The answers of a provider.
LEMMA AnswersAre ==
  ASSUME NEW j, NEW p, NEW back \in Answers(j, p)
  PROVE  back.provider = p /\ back.outcome # "none"
  BY DEF Answers

\* The calls of a V2 answer are within its manifest.
LEMMA WithinManifest ==
  ASSUME NEW j, NEW calls, IsSeq(calls), Once(calls), Providers(calls) \subseteq Vendors,
         ~job[j].openai => "openai" \notin Providers(calls), job[j].kind = "score"
  PROVE  Len(calls) <= RequestedCalls(j)
  <1>1. Len(calls) = Cardinality(Providers(calls)) /\ Len(calls) \in Nat
    BY OnceHasLength, SeqFacts
  <1>2. IsFiniteSet({"anthropic"}) /\ Cardinality({"anthropic"}) = 1
    BY FS_Singleton
  <1>3. IsFiniteSet(Vendors) /\ Cardinality(Vendors) = 2
    <2>1. Vendors = {"anthropic"} \cup {"openai"} /\ "openai" \notin {"anthropic"}
      BY DEF Vendors
    <2>2. /\ IsFiniteSet({"anthropic"} \cup {"openai"})
          /\ Cardinality({"anthropic"} \cup {"openai"}) = Cardinality({"anthropic"}) + 1
      BY <1>2, <2>1, FS_AddElement
    <2> QED
      BY <1>2, <2>1, <2>2
  <1>4. CASE job[j].openai
    <2>1. Cardinality(Providers(calls)) <= Cardinality(Vendors)
      BY <1>3, FS_Subset
    <2> QED
      BY <1>1, <1>3, <1>4, <2>1 DEF RequestedCalls
  <1>5. CASE ~job[j].openai
    <2>1. Providers(calls) \subseteq {"anthropic"}
      BY <1>5 DEF Vendors
    <2>2. Cardinality(Providers(calls)) <= Cardinality({"anthropic"})
      BY <1>2, <2>1, FS_Subset
    <2> QED
      BY <1>1, <1>2, <1>5, <2>2 DEF RequestedCalls
  <1> QED
    BY <1>4, <1>5

\* Who may be called: not twice, for a V2 answer, and Anthropic after OpenAI has
\* failed, on the primary route.
LEMMA OwedIs ==
  ASSUME NEW j, RowsAreTyped(j), CallsAreSound(j), job[j].kind = "score", review.contract = 2,
         NEW p \in Owed(j) \ InFlight(j)
  PROVE  /\ p \in Vendors /\ p \notin Providers(sent[j])
         /\ p = "openai" => job[j].plan # "anthropic" /\ ~job[j].skipped
         /\ p = "anthropic" /\ job[j].plan = "primary" /\ ~job[j].skipped =>
                /\ trace[j] # << >> /\ trace[j][1].provider = "openai"
                /\ trace[j][1].outcome # "success"
  <1>1. /\ Once(sent[j]) /\ Once(trace[j]) /\ Providers(trace[j]) \subseteq Providers(sent[j])
        /\ IsSeq(trace[j]) /\ Providers(trace[j]) \subseteq Vendors
    BY DEF CallsAreSound, RowsAreTyped
  <1>2. InFlight(j) = Providers(sent[j]) \ Providers(trace[j])
    BY <1>1, InFlightIs
  <1>3. p \in Vendors
    BY DEF Owed, Vendors
  <1>4. OutcomeOf(j, p) = "none"
    BY DEF Owed, OwesAnthropic, OwesOpenAI, Retried
  <1>5. ~(p = "openai" /\ job[j].skipped)
    BY <1>4 DEF OutcomeOf
  <1>6. p \notin Providers(trace[j])
    BY <1>1, <1>4, <1>5, OutcomeIs
  <1>7. p = "openai" => job[j].plan # "anthropic"
    BY DEF Owed, OwesOpenAI
  <1>8. ASSUME p = "anthropic", job[j].plan = "primary", ~job[j].skipped
        PROVE  /\ trace[j] # << >> /\ trace[j][1].provider = "openai"
               /\ trace[j][1].outcome # "success"
    <2>1. OutcomeOf(j, "openai") \notin {"none", "success"}
      BY <1>8 DEF Owed, OwesAnthropic, Retried
    <2>2. "openai" \in Providers(trace[j])
      BY <1>1, <1>8, <2>1, OutcomeIs
    <2>3. PICK i \in DOMAIN trace[j] : trace[j][i].provider = "openai"
      BY <2>2 DEF Providers
    <2>4. trace[j][i].outcome # "success"
      BY <1>1, <1>8, <2>1, <2>3, OutcomeIs
    <2>5. DOMAIN trace[j] = 1 .. Len(trace[j]) /\ Len(trace[j]) \in Nat
      BY <1>1, SeqFacts
    <2>6. 1 \in DOMAIN trace[j]
      BY <2>3, <2>5
    <2>7. trace[j][1].provider = "openai"
      BY <1>1, <1>6, <1>8, <2>6 DEF Providers, Vendors
    <2>8. 1 = i
      BY <1>1, <2>3, <2>6, <2>7 DEF Once
    <2> QED
      BY <2>4, <2>6, <2>7, <2>8, EmptyIs
  <1> QED
    BY <1>2, <1>3, <1>5, <1>6, <1>7, <1>8

LEMMA TransmitKeeps ==
  ASSUME BInv, NEW j \in Jobs, NEW p \in Vendors, Transmit(j, p)
  PROVE  BInv'
  <1>1. /\ job[j].step = "calling" /\ p \in Owed(j) \ InFlight(j)
        /\ job[j].kind = "import" => Len(sent[j]) < Len(rows[j])
        /\ UNCHANGED <<boundary, qualified, trace, rows, intent, review>>
    BY DEF Transmit
  <1>2. /\ JobIsTyped(j) /\ RowsAreTyped(j) /\ StagesAreSound(j) /\ ManifestIsSound(j)
        /\ EvidenceOf(j) /\ Domains
    BY Facts
  <1>3. /\ job[j].kind \in {"score", "import", "question"} /\ review.contract \in {1, 2}
        /\ job[j].kind # "import" => boundary = j
        /\ ~(job[j].kind = "score" /\ review.contract = 2) => intent[j] = NoIntent
        /\ job[j].kind = "score" /\ review.contract = 2 =>
               /\ CallsAreSound(j)
               /\ intent[j] = [Manifest(j) EXCEPT !.ordinal = intent[j].ordinal]
    BY <1>1, CallingIs
  <1>4. intent[j].status \in {"none", "pending"}
    BY <1>3, ManifestIs DEF NoIntent
  <1>5. ASSUME sent' = [sent EXCEPT ![j] = Append(@, [provider |-> p])], job' = job
        PROVE  BInv'
    <2> DEFINE call == [provider |-> p]
    <2>1. /\ sent'[j] = Append(sent[j], call) /\ call.provider = p
          /\ OthersRest(j)
      BY <1>1, <1>2, <1>5 DEF OthersRest, Domains
    <2> HIDE DEF call
    <2>2. IsSeq(sent[j]) /\ Len(sent[j]) \in Nat /\ Len(rows[j]) \in Nat
      BY <1>2, SeqFacts DEF RowsAreTyped
    <2>3. /\ IsSeq(sent'[j]) /\ Len(sent'[j]) = Len(sent[j]) + 1
          /\ Providers(sent'[j]) = Providers(sent[j]) \cup {p}
          /\ Once(sent[j]) /\ p \notin Providers(sent[j]) => Once(sent'[j])
      BY <2>1, <2>2, AppendIs
    <2>4. RowsAreTyped(j)'
      BY <1>1, <1>2, <2>3 DEF RowsAreTyped
    <2>5. StagesAreSound(j)'
      <3>1. job[j].kind = "import" => Len(sent'[j]) <= Len(rows[j])
        BY <1>1, <2>2, <2>3
      <3> QED
        BY <1>1, <1>2, <1>5, <3>1 DEF StagesAreSound
    <2>6. EvidenceOf(j)'
      BY <1>1, <1>4, <1>5 DEF EvidenceOf
    <2>7. ASSUME job[j].kind = "score", review.contract = 2
          PROVE  CallsAreSound(j)' /\ ManifestIsSound(j)'
      <3>1. CallsAreSound(j) /\ intent[j] = [Manifest(j) EXCEPT !.ordinal = intent[j].ordinal]
        BY <1>3, <2>7
      <3>2. /\ p \notin Providers(sent[j])
            /\ p = "openai" => job[j].plan # "anthropic" /\ ~job[j].skipped
            /\ p = "anthropic" /\ job[j].plan = "primary" /\ ~job[j].skipped =>
                   /\ trace[j] # << >> /\ trace[j][1].provider = "openai"
                   /\ trace[j][1].outcome # "success"
        BY <1>1, <1>2, <2>7, <3>1, OwedIs
      <3>3. CallsAreSound(j)'
        BY <1>1, <1>5, <2>3, <3>1, <3>2 DEF CallsAreSound, Vendors
      <3>4. Len(sent'[j]) <= RequestedCalls(j)
        <4>1. Once(sent'[j]) /\ Providers(sent'[j]) \subseteq Vendors
          BY <2>3, <2>4, <3>1, <3>2 DEF CallsAreSound, RowsAreTyped
        <4>2. ~job[j].openai => "openai" \notin Providers(sent'[j])
          BY <2>3, <3>1, <3>2 DEF CallsAreSound
        <4> QED
          BY <2>3, <2>7, <4>1, <4>2, WithinManifest
      <3>5. /\ intent[j].status = "pending" /\ intent[j].reserved = RequestedCalls(j)
            /\ intent[j].terminal = 0
        BY <3>1, ManifestIs
      <3>6. rows[j] = << >>
        BY <3>1 DEF CallsAreSound
      <3>7. ManifestIsSound(j)'
        BY <1>1, <3>4, <3>5, <3>6 DEF ManifestIsSound
      <3> QED
        BY <3>3, <3>7
    <2>8. ManifestIsSound(j)'
      <3>1. CASE intent[j] = NoIntent
        BY <1>1, <3>1 DEF ManifestIsSound, NoIntent
      <3> QED
        BY <1>3, <2>7, <3>1
    <2>9. ScoringIsSound(j)'
      <3>1. Manifest(j)' = Manifest(j)
        BY <1>1, <1>5 DEF Manifest, RequestedCalls
      <3> QED
        BY <1>1, <1>3, <1>5, <2>7, <3>1 DEF ScoringIsSound, Scoring
    <2>10. IsSound(j)' /\ RouteStands(j)' /\ Guarded(j)' /\ (Holds(j)' => boundary' = j)
      <3>1. JobIsTyped(j)'
        BY <1>2, <1>5 DEF JobIsTyped
      <3> QED
        BY <1>1, <1>3, <1>5, <2>4, <2>5, <2>6, <2>8, <3>1
        DEF IsSound, RouteStands, Guarded, Holds
    <2> QED
      BY <1>1, <1>5, <2>1, <2>9, <2>10, QuietKeeps
  <1>6. ASSUME p = "openai", job' = [job EXCEPT ![j].skipped = TRUE], sent' = sent
        PROVE  BInv'
    <2>1. OthersRest(j) /\ job'[j] = [job[j] EXCEPT !.skipped = TRUE]
      BY <1>1, <1>2, <1>6 DEF OthersRest, Domains
    <2>2. /\ DOMAIN job'[j] = JobFields /\ job'[j].kind = job[j].kind
          /\ job'[j].step = "calling" /\ job'[j].skipped = TRUE
          /\ job'[j].openai = job[j].openai /\ job'[j].plan = job[j].plan
      <3>1. DOMAIN job[j] = JobFields /\ job[j].step = "calling"
        BY <1>1, <1>2 DEF JobIsTyped
      <3> QED
        BY ONLY <2>1, <3>1 DEF JobFields
    <2>3. JobIsTyped(j)'
      BY <1>2, <2>2 DEF JobIsTyped, Steps
    <2>4. StagesAreSound(j)' /\ EvidenceOf(j)'
      BY <1>1, <1>2, <1>4, <1>6, <2>2 DEF StagesAreSound, EvidenceOf
    <2>5. ManifestIsSound(j)' /\ RowsAreTyped(j)'
      BY <1>1, <1>2, <1>6 DEF ManifestIsSound, RowsAreTyped
    <2>6. ScoringIsSound(j)'
      <3>1. Manifest(j)' = Manifest(j)
        BY <1>1, <2>2 DEF Manifest, RequestedCalls
      <3>2. ASSUME job[j].kind = "score", review.contract = 2 PROVE CallsAreSound(j)'
        <4>1. CallsAreSound(j)
          BY <1>3, <3>2
        <4>2. p \notin Providers(sent[j])
          BY <1>1, <1>2, <3>2, <4>1, OwedIs
        <4> QED
          BY <1>1, <1>6, <2>2, <4>1, <4>2 DEF CallsAreSound
      <3> QED
        BY <1>1, <1>3, <2>2, <3>1, <3>2 DEF ScoringIsSound, Scoring
    <2>7. IsSound(j)' /\ RouteStands(j)' /\ Guarded(j)' /\ (Holds(j)' => boundary' = j)
      BY <1>1, <1>3, <2>2, <2>3, <2>4, <2>5 DEF IsSound, RouteStands, Guarded, Holds
    <2> QED
      BY <1>1, <2>1, <2>2, <2>6, <2>7, QuietKeeps
  <1> QED
    BY <1>5, <1>6 DEF Transmit

LEMMA ReturnKeeps ==
  ASSUME BInv, NEW j \in Jobs, NEW p \in Vendors, Return(j, p)
  PROVE  BInv'
  <1>1. /\ job[j].step = "calling" /\ p \in InFlight(j)
        /\ UNCHANGED <<boundary, qualified, job, sent, rows, intent, review>>
    BY DEF Return
  <1>2. PICK back \in Answers(j, p) : trace' = [trace EXCEPT ![j] = Append(@, back)]
    BY DEF Return
  <1>3. /\ JobIsTyped(j) /\ RowsAreTyped(j) /\ StagesAreSound(j) /\ ManifestIsSound(j)
        /\ EvidenceOf(j) /\ Domains
    BY Facts
  <1>4. /\ job[j].kind \in {"score", "import", "question"} /\ review.contract \in {1, 2}
        /\ job[j].kind # "import" => boundary = j
        /\ ~(job[j].kind = "score" /\ review.contract = 2) => intent[j] = NoIntent
        /\ job[j].kind = "score" /\ review.contract = 2 =>
               /\ CallsAreSound(j)
               /\ intent[j] = [Manifest(j) EXCEPT !.ordinal = intent[j].ordinal]
    BY <1>1, CallingIs
  <1>5. back.provider = p /\ back.outcome # "none"
    BY AnswersAre
  <1>6. trace'[j] = Append(trace[j], back) /\ OthersRest(j)
    BY <1>1, <1>2, <1>3 DEF OthersRest, Domains
  <1>7. IsSeq(trace[j])
    BY <1>3 DEF RowsAreTyped
  <1>8. /\ IsSeq(trace'[j]) /\ DOMAIN trace'[j] = 1 .. Len(trace[j]) + 1
        /\ Len(trace'[j]) = Len(trace[j]) + 1
        /\ \A i \in 1 .. Len(trace[j]) : trace'[j][i] = trace[j][i]
        /\ trace'[j][Len(trace[j]) + 1] = back
        /\ Providers(trace'[j]) = Providers(trace[j]) \cup {p}
        /\ Once(trace[j]) /\ p \notin Providers(trace[j]) => Once(trace'[j])
    BY <1>5, <1>6, <1>7, AppendIs
  <1>9. Len(trace[j]) \in Nat /\ DOMAIN trace[j] = 1 .. Len(trace[j])
    BY <1>7, SeqFacts
  <1>10. RowsAreTyped(j)'
    <2>1. \A i \in DOMAIN trace'[j] : trace'[j][i].outcome # "none"
      BY <1>3, <1>5, <1>8, <1>9 DEF RowsAreTyped
    <2> QED
      BY <1>1, <1>3, <1>8, <2>1 DEF RowsAreTyped
  <1>11. StagesAreSound(j)'
    BY <1>1, <1>3 DEF StagesAreSound
  <1>12. JobIsTyped(j)' /\ ManifestIsSound(j)' /\ EvidenceOf(j)'
    BY <1>1, <1>3 DEF JobIsTyped, ManifestIsSound, EvidenceOf
  <1>13. ScoringIsSound(j)'
    <2>1. Manifest(j)' = Manifest(j)
      BY <1>1 DEF Manifest, RequestedCalls
    <2>2. ASSUME job[j].kind = "score", review.contract = 2 PROVE CallsAreSound(j)'
      <3>1. CallsAreSound(j)
        BY <1>4, <2>2
      <3>2. InFlight(j) = Providers(sent[j]) \ Providers(trace[j])
        BY <1>3, <3>1, InFlightIs DEF CallsAreSound
      <3>3. Once(trace'[j]) /\ Providers(trace'[j]) \subseteq Providers(sent[j])
        BY <1>1, <1>8, <3>1, <3>2 DEF CallsAreSound
      <3>4. trace[j] # << >> => trace'[j] # << >> /\ trace'[j][1] = trace[j][1]
        <4>1. ASSUME trace[j] # << >> PROVE 1 \in 1 .. Len(trace[j])
          BY <1>7, <1>9, <4>1 DEF IsSeq
        <4> QED
          BY <1>8, <1>9, <4>1, EmptyIs
      <3> QED
        BY <1>1, <3>1, <3>3, <3>4 DEF CallsAreSound
    <2> QED
      BY <1>1, <1>4, <2>1, <2>2 DEF ScoringIsSound, Scoring
  <1>14. IsSound(j)' /\ RouteStands(j)' /\ Guarded(j)' /\ (Holds(j)' => boundary' = j)
    BY <1>1, <1>4, <1>10, <1>11, <1>12 DEF IsSound, RouteStands, Guarded, Holds
  <1> QED
    BY <1>1, <1>6, <1>13, <1>14, QuietKeeps

-----------------------------------------------------------------------------
(***************************************************************************)
(* Evidence                                                                *)
(***************************************************************************)
LEMMA TerminalRowsAre ==
  ASSUME NEW j, RowsAreTyped(j)
  PROVE  LET row == TerminalRows(j)
         IN  /\ IsSeq(row) /\ Len(row) = Len(trace[j]) /\ DOMAIN row = DOMAIN trace[j]
             /\ Providers(row) = Providers(trace[j])
             /\ \A i \in DOMAIN trace[j] : row[i].provider = trace[j][i].provider
                                        /\ row[i].outcome = trace[j][i].outcome
  <1> DEFINE row == TerminalRows(j)
             n == Len(trace[j])
  <1>1. DOMAIN trace[j] = 1 .. n /\ n \in Nat
    BY SeqFacts DEF RowsAreTyped
  <1> HIDE DEF n
  <1>2. /\ DOMAIN row = 1 .. n
        /\ \A i \in 1 .. n : row[i].provider = trace[j][i].provider
                             /\ row[i].outcome = trace[j][i].outcome
        /\ row = [i \in 1 .. n |-> row[i]]
    BY <1>1 DEF TerminalRows
  <1> HIDE DEF row
  <1>3. row \in Seq({row[i] : i \in 1 .. n}) /\ Len(row) = n
    BY <1>1, <1>2
  <1>4. IsSeq(row)
    BY <1>2, <1>3 DEF IsSeq
  <1>5. Providers(row) = Providers(trace[j])
    BY <1>1, <1>2 DEF Providers
  <1> QED
    BY <1>1, <1>2, <1>3, <1>4, <1>5 DEF row, n

\* What has come back when a V2 answer is settled: an answer for each call.
LEMMA SettledIs ==
  ASSUME NEW j, RowsAreTyped(j), CallsAreSound(j), Settled(j)
  PROVE  Providers(trace[j]) = Providers(sent[j]) /\ Len(trace[j]) = Len(sent[j])
  <1>1. /\ Once(sent[j]) /\ Once(trace[j]) /\ Providers(trace[j]) \subseteq Providers(sent[j])
        /\ IsSeq(trace[j]) /\ IsSeq(sent[j])
    BY DEF CallsAreSound, RowsAreTyped
  <1>2. InFlight(j) = Providers(sent[j]) \ Providers(trace[j]) /\ InFlight(j) = {}
    BY <1>1, InFlightIs DEF Settled
  <1>3. Providers(trace[j]) = Providers(sent[j])
    BY <1>1, <1>2
  <1>4. /\ Len(trace[j]) = Cardinality(Providers(trace[j]))
        /\ Len(sent[j]) = Cardinality(Providers(sent[j]))
    BY <1>1, OnceHasLength
  <1> QED
    BY <1>3, <1>4

\* A call that did not answer usably on the way to another provider.
LEMMA CompleteIs ==
  ASSUME NEW j, RowsAreTyped(j), CallsAreSound(j), Settled(j),
         intent[j] = [Manifest(j) EXCEPT !.ordinal = intent[j].ordinal],
         CompleteEvidence(intent[j], j)
  PROVE  /\ intent[j].required \subseteq Providers(trace[j])
         /\ intent[j].conditional # {} =>
                (Len(trace[j]) = 2 <=> trace[j][1].outcome # "success")
  <1>1. /\ Once(trace[j]) /\ IsSeq(trace[j])
        /\ Providers(trace[j]) = Providers(sent[j])
    BY SettledIs DEF CallsAreSound, RowsAreTyped
  <1>2. /\ intent[j].required = IF ~job[j].openai THEN {"anthropic"}
                                ELSE IF review.mode = "shadow" THEN {"anthropic", "openai"}
                                ELSE {"openai"}
        /\ intent[j].conditional = IF job[j].openai /\ review.mode = "primary"
                                   THEN {"anthropic"} ELSE {}
    BY ManifestIs
  <1>3. CASE intent[j].conditional = {}
    BY <1>3 DEF CompleteEvidence
  <1>4. CASE intent[j].conditional # {}
    <2>1. job[j].openai /\ review.mode = "primary" /\ intent[j].required = {"openai"}
      BY <1>2, <1>4
    <2>2. \/ OutcomeOf(j, "openai") = "success" /\ Providers(trace[j]) = {"openai"}
          \/ OutcomeOf(j, "openai") # "success" /\ Providers(trace[j]) = {"openai", "anthropic"}
      BY <1>4 DEF CompleteEvidence
    <2>3. "openai" \in Providers(trace[j]) /\ ~job[j].skipped
      BY <1>1, <2>2 DEF CallsAreSound
    <2>4. DOMAIN trace[j] = 1 .. Len(trace[j]) /\ Len(trace[j]) \in Nat
      BY <1>1, SeqFacts
    <2>5. Len(trace[j]) = Cardinality(Providers(trace[j]))
      BY <1>1, OnceHasLength
    <2>6. 1 \in DOMAIN trace[j]
      BY <2>3, <2>4 DEF Providers
    <2>7. trace[j][1].provider \in Providers(trace[j])
      BY <2>6 DEF Providers
    <2>8. CASE OutcomeOf(j, "openai") = "success" /\ Providers(trace[j]) = {"openai"}
      <3>1. Len(trace[j]) = 1
        BY <2>5, <2>8, FS_Singleton
      <3>2. trace[j][1].provider = "openai"
        BY <2>7, <2>8
      <3>3. trace[j][1].outcome = "success"
        BY <1>1, <2>3, <2>6, <2>8, <3>2, OutcomeIs
      <3> QED
        BY <2>1, <2>3, <3>1, <3>3
    <2>9. CASE /\ OutcomeOf(j, "openai") # "success"
               /\ Providers(trace[j]) = {"openai", "anthropic"}
      <3>1. Cardinality({"openai"}) = 1 /\ IsFiniteSet({"openai"})
        BY FS_Singleton
      <3>2. Providers(trace[j]) = {"openai"} \cup {"anthropic"} /\ "anthropic" \notin {"openai"}
        BY <2>9
      <3>3. Cardinality({"openai"} \cup {"anthropic"}) = Cardinality({"openai"}) + 1
        BY <3>1, <3>2, FS_AddElement
      <3>4. Len(trace[j]) = 2
        BY <2>5, <3>1, <3>2, <3>3
      <3>5. job[j].plan = "primary"
        BY <1>1, <2>1, <2>3, <2>9 DEF CallsAreSound
      <3>6. "anthropic" \in Providers(sent[j])
        BY <1>1, <2>9
      <3>7. trace[j][1].outcome # "success"
        BY <2>3, <3>5, <3>6 DEF CallsAreSound
      <3> QED
        BY <2>1, <2>3, <3>4, <3>7
    <2> QED
      BY <2>2, <2>8, <2>9
  <1> QED
    BY <1>3, <1>4

LEMMA ScoredIs ==
  ASSUME NEW j, RowsAreTyped(j), Once(trace[j]), Scored(j)
  PROVE  \E i \in DOMAIN trace[j] : trace[j][i].outcome = "success"
  <1> DEFINE p == Authority(j)
  <1>1. OutcomeOf(j, p) = "success"
    BY DEF Scored
  <1> HIDE DEF p
  <1>2. ~(p = "openai" /\ job[j].skipped)
    BY <1>1 DEF OutcomeOf
  <1>3. p \in Providers(trace[j])
    BY <1>1, <1>2, OutcomeIs
  <1>4. PICK i \in DOMAIN trace[j] : trace[j][i].provider = p
    BY <1>3 DEF Providers
  <1>5. trace[j][i].outcome = "success"
    BY <1>1, <1>2, <1>4, OutcomeIs
  <1> QED
    BY <1>5

\* What is recorded, whether the handler goes on with it or not.
LEMMA RecordedIs ==
  ASSUME BInv, NEW j \in Jobs, job[j].kind = "score", Settled(j), review.contract = 2,
         rows' = [rows EXCEPT ![j] = TerminalRows(j)],
         intent' = [intent EXCEPT ![j] = Reconciled(j)], sent' = sent
  PROVE  /\ intent'[j] # NoIntent /\ intent'[j].ordinal = intent[j].ordinal
         /\ DOMAIN intent'[j] = IntentFields
         /\ intent'[j].reserved \in 0 .. 2 /\ intent'[j].terminal \in Nat
         /\ intent'[j].status = "finalized" <=> CompleteEvidence(intent[j], j)
         /\ ManifestIsSound(j)'
         /\ intent'[j].status = "finalized" =>
                /\ Len(rows'[j]) = Len(sent'[j])
                /\ Providers(rows'[j]) = Providers(sent'[j])
                /\ intent'[j].required \subseteq Providers(rows'[j])
                /\ intent'[j].conditional # {} =>
                       (Len(rows'[j]) = 2 <=> rows'[j][1].outcome # "success")
         /\ Audited(j) /\ ChargesOf(j)' \subseteq ChargesOf(j)
  <1>1. /\ RowsAreTyped(j) /\ ManifestIsSound(j) /\ Domains /\ job[j].step = "calling"
    BY Facts DEF Settled
  <1>2. CallsAreSound(j) /\ intent[j] = [Manifest(j) EXCEPT !.ordinal = intent[j].ordinal]
    BY <1>1, CallingIs
  <1>3. /\ intent[j].status = "pending" /\ intent[j].reserved = RequestedCalls(j)
        /\ intent[j].terminal = 0
    BY <1>2, ManifestIs
  <1>4. rows'[j] = TerminalRows(j) /\ intent'[j] = Reconciled(j)
    BY <1>1 DEF Domains
  <1>5. /\ DOMAIN intent'[j] = IntentFields
        /\ intent'[j].status = IF CompleteEvidence(intent[j], j) THEN "finalized" ELSE "incomplete"
        /\ intent'[j].terminal = Len(trace[j]) /\ intent'[j].reserved = intent[j].reserved
        /\ intent'[j].required = intent[j].required
        /\ intent'[j].conditional = intent[j].conditional
        /\ intent'[j].ordinal = intent[j].ordinal
    <2> DEFINE status == IF CompleteEvidence(intent[j], j) THEN "finalized" ELSE "incomplete"
    <2>1. DOMAIN intent[j] = IntentFields
      BY <1>1 DEF RowsAreTyped
    <2>2. intent'[j] = [intent[j] EXCEPT !.status = status, !.terminal = Len(trace[j])]
      BY <1>4 DEF Reconciled
    <2> HIDE DEF status
    <2>3. /\ DOMAIN intent'[j] = IntentFields
          /\ intent'[j].status = status
          /\ intent'[j].terminal = Len(trace[j]) /\ intent'[j].reserved = intent[j].reserved
          /\ intent'[j].required = intent[j].required
          /\ intent'[j].conditional = intent[j].conditional
          /\ intent'[j].ordinal = intent[j].ordinal
      BY ONLY <2>1, <2>2 DEF IntentFields
    <2> QED
      BY <2>3 DEF status
  <1>6. /\ Len(rows'[j]) = Len(trace[j]) /\ Providers(rows'[j]) = Providers(trace[j])
        /\ \A i \in DOMAIN trace[j] : rows'[j][i].outcome = trace[j][i].outcome
    BY <1>1, <1>4, TerminalRowsAre
  <1>7. Providers(trace[j]) = Providers(sent[j]) /\ Len(trace[j]) = Len(sent[j])
    BY <1>1, <1>2, SettledIs
  <1>8. /\ Len(trace[j]) \in Nat /\ DOMAIN trace[j] = 1 .. Len(trace[j])
        /\ RequestedCalls(j) \in {1, 2}
    BY <1>1, SeqFacts DEF RowsAreTyped, RequestedCalls
  <1>9. Len(sent[j]) <= intent[j].reserved
    BY <1>1, <1>3 DEF ManifestIsSound, NoIntent
  <1>10. intent'[j] # NoIntent
    BY <1>5 DEF NoIntent
  <1>11. ManifestIsSound(j)'
    BY <1>5, <1>6, <1>7, <1>9, <1>10 DEF ManifestIsSound
  <1>12. ASSUME CompleteEvidence(intent[j], j)
         PROVE  /\ intent'[j].required \subseteq Providers(rows'[j])
                /\ intent'[j].conditional # {} =>
                       (Len(rows'[j]) = 2 <=> rows'[j][1].outcome # "success")
    <2>1. /\ intent[j].required \subseteq Providers(trace[j])
          /\ intent[j].conditional # {} =>
                 (Len(trace[j]) = 2 <=> trace[j][1].outcome # "success")
      BY <1>1, <1>2, <1>12, CompleteIs
    <2>2. ASSUME intent[j].conditional # {} PROVE 1 \in DOMAIN trace[j]
      <3>1. OutcomeOf(j, "openai") = "success" \/ Providers(trace[j]) = {"openai", "anthropic"}
        BY <1>12, <2>2 DEF CompleteEvidence
      <3>2. Providers(trace[j]) # {}
        BY <1>12, <2>2 DEF CompleteEvidence
      <3> QED
        BY <1>8, <3>2 DEF Providers
    <2> QED
      BY <1>5, <1>6, <2>1, <2>2
  <1>13. Audited(j)
    BY <1>3 DEF Audited, NoIntent
  <1>14. ChargesOf(j)' \subseteq ChargesOf(j)
    <2>1. Len(rows[j]) = 0
      BY <1>2, EmptyIs DEF CallsAreSound
    <2>2. Len(rows[j]) + ReservedBy(j) = RequestedCalls(j)
      BY <1>3, <1>8, <2>1 DEF ReservedBy
    <2>3. Len(rows'[j]) + ReservedBy(j)' <= RequestedCalls(j)
      BY <1>3, <1>5, <1>6, <1>7, <1>8, <1>9 DEF ReservedBy
    <2>4. Len(rows'[j]) + ReservedBy(j)' \in Nat
      BY <1>3, <1>5, <1>6, <1>8 DEF ReservedBy
    <2>5. 1 .. Len(rows'[j]) + ReservedBy(j)' \subseteq 1 .. Len(rows[j]) + ReservedBy(j)
      BY <1>8, <2>2, <2>3, <2>4
    <2> QED
      BY <2>5 DEF ChargesOf
  <1> QED
    BY <1>3, <1>5, <1>6, <1>7, <1>8, <1>10, <1>11, <1>12, <1>13, <1>14

LEMMA RecordCallsKeeps ==
  ASSUME BInv, NEW j \in Jobs, RecordCalls(j)
  PROVE  BInv'
  <1>1. /\ job[j].kind = "score" /\ Settled(j) /\ job[j].step = "calling"
        /\ UNCHANGED <<qualified, sent, review>>
    BY DEF RecordCalls, Settled
  <1>2. /\ JobIsTyped(j) /\ RowsAreTyped(j) /\ StagesAreSound(j) /\ ManifestIsSound(j)
        /\ EvidenceOf(j) /\ Domains /\ ReviewIsTyped
    BY Facts
  <1>3. /\ boundary = j /\ review.contract \in {1, 2}
        /\ review.contract = 1 => intent[j] = NoIntent
        /\ review.contract = 2 => CallsAreSound(j)
    <2>1. /\ job[j].kind # "import" => boundary = j
          /\ review.contract \in {1, 2}
          /\ ~(job[j].kind = "score" /\ review.contract = 2) => intent[j] = NoIntent
          /\ job[j].kind = "score" /\ review.contract = 2 => CallsAreSound(j)
      BY <1>1, CallingIs
    <2> QED
      BY <1>1, <2>1
  <1>4. ASSUME UNCHANGED <<rows, intent>>, Leave(j, "failed") PROVE BInv'
    BY <1>1, <1>4, LeaveKeeps
  <1>5. ASSUME rows' = [rows EXCEPT ![j] = TerminalRows(j)],
               intent' = IF review.contract = 2 THEN [intent EXCEPT ![j] = Reconciled(j)]
                         ELSE intent,
               IF Scored(j) /\ (review.contract = 1 \/ CompleteEvidence(intent[j], j))
               THEN GoOn(j, "recorded") /\ UNCHANGED <<boundary, trace>>
               ELSE Leave(j, "failed")
        PROVE  BInv'
    <2>1. /\ rows'[j] = TerminalRows(j) /\ DOMAIN rows' = Jobs
          /\ \A k \in Jobs \ {j} : rows'[k] = rows[k] /\ intent'[k] = intent[k]
          /\ DOMAIN intent' = Jobs
      BY <1>2, <1>5 DEF Domains
    <2>2. /\ IsSeq(rows'[j])
          /\ \A i \in DOMAIN trace[j] : rows'[j][i].outcome = trace[j][i].outcome
          /\ DOMAIN rows'[j] = DOMAIN trace[j]
      BY <1>2, <2>1, TerminalRowsAre
    <2>3. /\ OthersRest(j) /\ job'[j].kind = "score" /\ JobIsTyped(j)'
          /\ boundary' = boundary \/ {boundary, boundary'} \subseteq {j, NoJob}
          /\ Holds(j)' => boundary' = j
          /\ ScoringIsSound(j)' /\ RouteStands(j)' /\ Guarded(j)'
          /\ trace'[j] \in {<< >>, trace[j]}
          /\ \/ job'[j].step = "failed"
             \/ /\ job'[j].step = "recorded" /\ Scored(j)
                /\ review.contract = 1 \/ CompleteEvidence(intent[j], j)
      <3>1. ASSUME Leave(j, "failed")
            PROVE  /\ OthersRest(j) /\ job'[j].kind = "score" /\ JobIsTyped(j)'
                   /\ boundary' = boundary \/ {boundary, boundary'} \subseteq {j, NoJob}
                   /\ ~Holds(j)' /\ ScoringIsSound(j)' /\ RouteStands(j)' /\ Guarded(j)'
                   /\ trace'[j] = << >> /\ job'[j].step = "failed"
        <4>1. /\ DOMAIN job' = Jobs /\ DOMAIN trace' = Jobs
              /\ \A k \in Jobs \ {j} : job'[k] = job[k] /\ trace'[k] = trace[k]
              /\ job'[j].kind = job[j].kind /\ job'[j].step = "failed" /\ trace'[j] = << >>
              /\ boundary' = boundary \/ {boundary, boundary'} \subseteq {j, NoJob}
              /\ JobIsTyped(j)' /\ ~Holds(j)'
              /\ ScoringIsSound(j)' /\ RouteStands(j)' /\ Guarded(j)'
          BY <3>1, LeaveIs
        <4>2. OthersRest(j)
          BY <1>1, <1>2, <2>1, <4>1 DEF OthersRest, Domains
        <4> QED
          BY <1>1, <4>1, <4>2
      <3>2. ASSUME GoOn(j, "recorded"), UNCHANGED <<boundary, trace>>
            PROVE  /\ OthersRest(j) /\ job'[j].kind = "score" /\ JobIsTyped(j)'
                   /\ ScoringIsSound(j)' /\ RouteStands(j)' /\ Guarded(j)'
                   /\ job'[j].step = "recorded"
        <4>1. /\ DOMAIN job' = Jobs /\ \A k \in Jobs \ {j} : job'[k] = job[k]
              /\ JobIsTyped(j)' /\ job'[j].step = "recorded" /\ job'[j].kind = job[j].kind
          BY <3>2, GoOnIs DEF Steps
        <4>2. OthersRest(j)
          BY <1>1, <1>2, <2>1, <3>2, <4>1 DEF OthersRest, Domains
        <4>3. ScoringIsSound(j)' /\ RouteStands(j)' /\ Guarded(j)'
          BY <4>1 DEF ScoringIsSound, Scoring, RouteStands, Guarded
        <4> QED
          BY <1>1, <4>1, <4>2, <4>3
      <3> QED
        BY <1>3, <1>5, <3>1, <3>2
    <2>4. StagesAreSound(j)'
      BY <2>3 DEF StagesAreSound
    <2>5. /\ RowsAreTyped(j)' /\ ManifestIsSound(j)' /\ EvidenceOf(j)'
          /\ intent'[j].ordinal = intent[j].ordinal
          /\ (Audited(j)' => Audited(j) /\ ChargesOf(j)' \subseteq ChargesOf(j))
      <3>1. ASSUME DOMAIN intent'[j] = IntentFields, intent'[j].reserved \in 0 .. 2,
                   intent'[j].terminal \in Nat, intent'[j].ordinal = intent[j].ordinal
            PROVE  RowsAreTyped(j)'
        BY <1>1, <1>2, <2>2, <2>3, <3>1, EmptyIs DEF RowsAreTyped
      <3>2. CASE review.contract = 1
        <4>1. intent'[j] = NoIntent /\ intent[j] = NoIntent
          BY <1>3, <1>5, <3>2
        <4>2. RowsAreTyped(j)'
          BY <1>2, <3>1, <4>1 DEF RowsAreTyped
        <4>3. ManifestIsSound(j)' /\ EvidenceOf(j)'
          BY <4>1 DEF ManifestIsSound, EvidenceOf, NoIntent
        <4>4. ~Audited(j)'
          BY <2>3, <4>1 DEF Audited
        <4> QED
          BY <4>1, <4>2, <4>3, <4>4
      <3>3. CASE review.contract = 2
        <4>1. intent' = [intent EXCEPT ![j] = Reconciled(j)]
          BY <1>5, <3>3
        <4>2. /\ intent'[j].ordinal = intent[j].ordinal
              /\ DOMAIN intent'[j] = IntentFields
              /\ intent'[j].reserved \in 0 .. 2 /\ intent'[j].terminal \in Nat
              /\ intent'[j].status = "finalized" <=> CompleteEvidence(intent[j], j)
              /\ ManifestIsSound(j)'
              /\ intent'[j].status = "finalized" =>
                     /\ Len(rows'[j]) = Len(sent'[j])
                     /\ Providers(rows'[j]) = Providers(sent'[j])
                     /\ intent'[j].required \subseteq Providers(rows'[j])
                     /\ intent'[j].conditional # {} =>
                            (Len(rows'[j]) = 2 <=> rows'[j][1].outcome # "success")
              /\ Audited(j) /\ ChargesOf(j)' \subseteq ChargesOf(j)
          BY <1>1, <1>5, <3>3, <4>1, RecordedIs
        <4>3. job'[j].step = "recorded" =>
                  /\ intent'[j].status = "finalized"
                  /\ \E i \in DOMAIN rows'[j] : rows'[j][i].outcome = "success"
          <5>1. ASSUME Scored(j)
                PROVE  \E i \in DOMAIN trace[j] : trace[j][i].outcome = "success"
            BY <1>2, <1>3, <3>3, <5>1, ScoredIs DEF CallsAreSound
          <5> QED
            BY <2>2, <2>3, <3>3, <4>2, <5>1
        <4>4. EvidenceOf(j)'
          BY <2>3, <4>2, <4>3 DEF EvidenceOf
        <4> QED
          BY <3>1, <4>2, <4>4
      <3> QED
        BY <1>3, <3>2, <3>3
    <2>6. IsSound(j)'
      BY <2>3, <2>4, <2>5 DEF IsSound
    <2>7. OrdinalsAreDense'
      <3>1. \A k \in Jobs : intent'[k].ordinal = intent[k].ordinal
        BY <2>1, <2>5
      <3>2. {k \in Jobs : intent'[k].ordinal > 0} = {k \in Jobs : intent[k].ordinal > 0}
        BY <3>1
      <3>3. {intent'[k].ordinal : k \in {i \in Jobs : intent[i].ordinal > 0}}
                = {intent[k].ordinal : k \in {i \in Jobs : intent[i].ordinal > 0}}
        BY <3>1
      <3> QED
        BY <3>2, <3>3 DEF BInv, OrdinalsAreDense
    <2>8. Cardinality(AuditedCharges') <= DailyLimit
      BY <1>1, <2>3, <2>5, ChargesStay
    <2>9. Imports' = Imports /\ Cardinality(Imports') <= ImportLimit
      <3>1. Imports' = Imports
        BY <1>1, <2>1, <2>3 DEF Imports, OthersRest
      <3> QED
        BY <3>1 DEF BInv
    <2>10. ReviewIsTyped'
      BY <1>1, <1>2 DEF ReviewIsTyped
    <2> QED
      BY <1>1, <1>3, <2>3, <2>6, <2>7, <2>8, <2>9, <2>10, StepKeeps
  <1> QED
    BY <1>4, <1>5 DEF RecordCalls

-----------------------------------------------------------------------------
(***************************************************************************)
(* The ends                                                                *)
(***************************************************************************)
\* Every frozen route is one of the routes.
LEMMA RouteIs ==
  ASSUME NEW contract \in {1, 2}, NEW mode \in Modes
  PROVE  RouteForSession(contract, mode) \in {"anthropic", "shadow", "primary"}
  BY BudgetAssumption DEF RouteForSession

LEMMA CommitTurnKeeps ==
  ASSUME BInv, NEW j \in Jobs, CommitTurn(j)
  PROVE  BInv'
  <1>1. /\ job[j].kind = "score" /\ job[j].step = "recorded"
        /\ UNCHANGED <<qualified, sent, rows, intent>>
    BY DEF CommitTurn, In
  <1>2. ReviewIsTyped /\ boundary = j
    BY <1>1, Facts DEF Holds
  <1>3. ASSUME review' = review, Leave(j, "failed") PROVE BInv'
    BY <1>1, <1>3, LeaveKeeps
  <1>4. ASSUME NEW result, TurnWritten(result), Leave(j, "applied") PROVE BInv'
    <2>1. ReviewIsTyped'
      <3>1. CASE result.status = "follow_up"
        <4>1. review' = [review EXCEPT !.used = @ + 1]
          BY <1>4, <3>1 DEF TurnWritten
        <4> QED
          BY <1>2, <4>1 DEF ReviewIsTyped
      <3>2. CASE result.status # "follow_up"
        <4>1. PICK contract \in {1, 2}, mode \in Modes :
                review' = [review EXCEPT
                    !.used = 0, !.contract = contract, !.mode = RouteForSession(contract, mode),
                    !.done = Append(@, result.recall),
                    !.card = ApplySM2(@, QualityFor(result.recall))]
          BY <1>4, <3>2 DEF TurnWritten
        <4> DEFINE route == RouteForSession(contract, mode)
                   done == Append(review.done, result.recall)
                   card == ApplySM2(review.card, QualityFor(result.recall))
        <4>2. route \in {"anthropic", "shadow", "primary"}
          BY RouteIs
        <4>3. review' = [review EXCEPT !.used = 0, !.contract = contract, !.mode = route,
                                       !.done = done, !.card = card]
          BY <4>1
        <4> HIDE DEF route, done, card
        <4> QED
          BY <1>2, <4>2, <4>3 DEF ReviewIsTyped
      <3> QED
        BY <3>1, <3>2
    <2> QED
      BY <1>1, <1>2, <1>4, <2>1, LeaveKeeps
  <1> QED
    BY <1>3, <1>4 DEF CommitTurn

LEMMA EndImportKeeps ==
  ASSUME BInv, NEW j \in Jobs, EndImport(j)
  PROVE  BInv'
  <1> DEFINE outcome == IF Scored(j) THEN "applied" ELSE "failed"
  <1>1. /\ job[j].kind = "import" /\ job[j].step = "calling" /\ Leave(j, outcome)
        /\ UNCHANGED <<qualified, sent, rows, intent, review>>
    BY DEF EndImport, In
  <1>2. intent[j] = NoIntent
    BY <1>1, Facts DEF StagesAreSound
  <1>3. outcome \in {"applied", "failed", "refused"}
    OBVIOUS
  <1> HIDE DEF outcome
  <1> QED
    BY <1>1, <1>2, <1>3, LeaveKeeps

LEMMA AuthorizeRetryKeeps ==
  ASSUME BInv, NEW j \in Jobs, AuthorizeRetry(j)
  PROVE  BInv'
  <1>1. /\ job[j].kind = "import" /\ job[j].step = "calling" /\ GoOn(j, "retrying")
        /\ UNCHANGED <<boundary, qualified, sent, trace, rows, intent, review>>
    BY DEF AuthorizeRetry, In
  <1>2. /\ RowsAreTyped(j) /\ StagesAreSound(j) /\ ManifestIsSound(j)
        /\ EvidenceOf(j) /\ Domains
    BY Facts
  <1>3. /\ DOMAIN job' = Jobs /\ \A k \in Jobs \ {j} : job'[k] = job[k]
        /\ JobIsTyped(j)' /\ job'[j].step = "retrying" /\ job'[j].kind = "import"
    BY <1>1, GoOnIs DEF Steps
  <1>4. OthersRest(j)
    BY <1>1, <1>2, <1>3 DEF OthersRest, Domains
  <1>5. IsSound(j)'
    <2>1. StagesAreSound(j)' /\ ManifestIsSound(j)' /\ EvidenceOf(j)' /\ RowsAreTyped(j)'
      BY <1>1, <1>2, <1>3 DEF StagesAreSound, ManifestIsSound, EvidenceOf, RowsAreTyped
    <2> QED
      BY <1>3, <2>1 DEF IsSound
  <1>6. ~Holds(j)' /\ ScoringIsSound(j)' /\ RouteStands(j)' /\ Guarded(j)'
    BY <1>3 DEF Holds, ScoringIsSound, Scoring, RouteStands, Guarded
  <1> QED
    BY <1>1, <1>3, <1>4, <1>5, <1>6, QuietKeeps

LEMMA EndQuestionKeeps ==
  ASSUME BInv, NEW j \in Jobs, EndQuestion(j)
  PROVE  BInv'
  <1> DEFINE row == [provider |-> "anthropic", outcome |-> "logical"]
  <1>1. /\ job[j].kind = "question" /\ job[j].step = "calling"
        /\ UNCHANGED <<qualified, sent, intent, review>>
    BY DEF EndQuestion, Settled
  <1>2. /\ JobIsTyped(j) /\ RowsAreTyped(j) /\ StagesAreSound(j) /\ ManifestIsSound(j)
        /\ EvidenceOf(j) /\ Domains /\ ReviewIsTyped /\ boundary = j
    BY <1>1, Facts DEF Holds
  <1>3. intent[j] = NoIntent /\ intent'[j] = NoIntent
    BY <1>1, <1>2 DEF StagesAreSound
  <1>4. ASSUME UNCHANGED rows, Leave(j, "failed") PROVE BInv'
    BY <1>1, <1>4, LeaveKeeps
  <1>5. ASSUME rows' = [rows EXCEPT ![j] = <<row>>], Leave(j, "applied") PROVE BInv'
    <2> HIDE DEF row
    <2>1. /\ rows'[j] = <<row>> /\ DOMAIN rows' = Jobs
          /\ \A k \in Jobs \ {j} : rows'[k] = rows[k]
      BY <1>2, <1>5 DEF Domains
    <2>2. <<row>> \in Seq({row})
      OBVIOUS
    <2>3. IsSeq(rows'[j])
      BY <2>1, <2>2, SeqIsSeq
    <2>4. /\ DOMAIN job' = Jobs /\ DOMAIN trace' = Jobs
          /\ \A k \in Jobs \ {j} : job'[k] = job[k] /\ trace'[k] = trace[k]
          /\ job'[j].kind = job[j].kind /\ job'[j].step = "applied" /\ trace'[j] = << >>
          /\ boundary' = boundary \/ {boundary, boundary'} \subseteq {j, NoJob}
          /\ JobIsTyped(j)' /\ ~Holds(j)'
          /\ ScoringIsSound(j)' /\ RouteStands(j)' /\ Guarded(j)'
      BY <1>5, LeaveIs
    <2>5. OthersRest(j)
      BY <1>1, <1>2, <2>1, <2>4 DEF OthersRest, Domains
    <2>6. RowsAreTyped(j)'
      BY <1>1, <1>2, <2>3, <2>4, EmptyIs DEF RowsAreTyped
    <2>7. StagesAreSound(j)' /\ ManifestIsSound(j)' /\ EvidenceOf(j)'
      BY <1>1, <1>3, <2>4 DEF StagesAreSound, ManifestIsSound, EvidenceOf, NoIntent
    <2>8. IsSound(j)'
      BY <2>4, <2>6, <2>7 DEF IsSound
    <2>9. OrdinalsAreDense'
      BY <1>1 DEF BInv, OrdinalsAreDense
    <2>10. Cardinality(AuditedCharges') <= DailyLimit
      <3>1. ~Audited(j)'
        BY <1>1, <1>3, <2>4 DEF Audited
      <3> QED
        BY <1>1, <2>4, <2>5, <3>1, ChargesStay
    <2>11. Imports' = Imports /\ Cardinality(Imports') <= ImportLimit
      <3>1. Imports' = Imports
        BY <1>1, <2>1, <2>4 DEF Imports
      <3> QED
        BY <3>1 DEF BInv
    <2>12. ReviewIsTyped'
      BY <1>1, <1>2 DEF ReviewIsTyped
    <2> QED
      BY <1>1, <1>2, <2>4, <2>5, <2>8, <2>9, <2>10, <2>11, <2>12, StepKeeps
  <1> QED
    BY <1>4, <1>5 DEF EndQuestion

-----------------------------------------------------------------------------
(***************************************************************************)
(* The theorems                                                            *)
(***************************************************************************)
LEMMA BudgetStarts ==
  ASSUME BudgetInit
  PROVE  BInv
  <1>1. /\ boundary = NoJob /\ qualified = TRUE
        /\ job = [j \in Jobs |-> Idle]
        /\ sent = [j \in Jobs |-> << >>] /\ trace = [j \in Jobs |-> << >>]
        /\ rows = [j \in Jobs |-> << >>] /\ intent = [j \in Jobs |-> NoIntent]
    BY DEF BudgetInit
  <1>2. ReviewIsTyped
    <2>1. PICK contract \in {1, 2}, mode \in Modes :
            review = [contract |-> contract, mode |-> RouteForSession(contract, mode),
                      used |-> 0, done |-> << >>, card |-> NewCard]
      BY DEF BudgetInit
    <2>2. RouteForSession(contract, mode) \in {"anthropic", "shadow", "primary"}
      BY RouteIs
    <2> QED
      BY <2>1, <2>2 DEF ReviewIsTyped
  <1>3. Typed
    BY <1>1, <1>2 DEF Typed, Domains
  <1>4. ASSUME NEW j \in Jobs
        PROVE  /\ IsSound(j) /\ ~Holds(j) /\ ScoringIsSound(j) /\ RouteStands(j) /\ Guarded(j)
               /\ ~Audited(j) /\ j \notin Imports
    <2>1. /\ job[j] = Idle /\ sent[j] = << >> /\ trace[j] = << >> /\ rows[j] = << >>
          /\ intent[j] = NoIntent
      BY <1>1
    <2>2. /\ DOMAIN job[j] = JobFields /\ job[j].kind = "none" /\ job[j].step = "idle"
          /\ job[j].openai = FALSE /\ job[j].plan = "none" /\ job[j].skipped = FALSE
      BY <2>1 DEF Idle, JobFields
    <2>3. JobIsTyped(j)
      BY <2>2 DEF JobIsTyped, Steps
    <2>4. RowsAreTyped(j)
      BY <2>1, EmptyIs DEF RowsAreTyped, NoIntent, IntentFields
    <2>5. StagesAreSound(j) /\ ManifestIsSound(j) /\ EvidenceOf(j)
      BY <2>1, <2>2 DEF StagesAreSound, ManifestIsSound, EvidenceOf, Untouched, NoIntent
    <2>6. ~Holds(j) /\ ScoringIsSound(j) /\ RouteStands(j) /\ Guarded(j)
      BY <2>2 DEF Holds, ScoringIsSound, Scoring, RouteStands, Guarded
    <2>7. ~Audited(j) /\ j \notin Imports
      BY <2>1, <2>2 DEF Audited, Imports
    <2> QED
      BY <2>3, <2>4, <2>5, <2>6, <2>7 DEF IsSound
  <1>5. AuditedCharges = {} /\ Imports = {}
    BY <1>4 DEF AuditedCharges, Imports
  <1>6. Cardinality(AuditedCharges) <= DailyLimit /\ Cardinality(Imports) <= ImportLimit
    BY <1>5, FS_EmptySet, BudgetAssumption
  <1>7. OrdinalsAreDense
    <2> DEFINE numbered == {j \in Jobs : intent[j].ordinal > 0}
    <2>1. numbered = {}
      BY <1>1 DEF NoIntent
    <2>2. {intent[j].ordinal : j \in numbered} = {} /\ Cardinality(numbered) = 0
      BY <2>1, FS_EmptySet
    <2>3. {} = 1 .. 0
      OBVIOUS
    <2> QED
      BY <2>2, <2>3 DEF OrdinalsAreDense
  <1>8. LockIsHeld
    BY <1>4 DEF LockIsHeld
  <1> QED
    BY <1>3, <1>4, <1>6, <1>7, <1>8 DEF BInv

LEMMA BudgetKeeps ==
  ASSUME BInv, [BudgetNext]_budgetVars
  PROVE  BInv'
  <1>1. CASE UNCHANGED budgetVars
    <2>1. UNCHANGED <<boundary, qualified, job, sent, trace, rows, intent, review, crashes>>
      BY <1>1 DEF budgetVars
    <2>2. NoJob \notin Jobs /\ OthersRest(NoJob)
      BY <2>1, BudgetAssumption DEF OthersRest, BInv, Typed, Domains
    <2>3. \A k \in Jobs : IsSound(k)' /\ ScoringIsSound(k)'
      BY <2>1, <2>2, OthersAreSound, OthersScore DEF BInv
    <2>4. Typed' /\ LockIsHeld'
      BY <2>1 DEF BInv, Typed, Domains, ReviewIsTyped, LockIsHeld, Holds
    <2>5. /\ OrdinalsAreDense' /\ Imports' = Imports
          /\ Cardinality(AuditedCharges') <= DailyLimit
          /\ Cardinality(Imports') <= ImportLimit
      BY <2>1, QuietRests
    <2>6. Charged' = Charged
      BY <2>1, ChargesRest
    <2>7. \A k \in Jobs : RouteStands(k)' /\ Guarded(k)'
      BY <2>1, <2>5, <2>6
      DEF BInv, RouteStands, Eligible, Guarded, EnsureAvailable, RequestedCalls
    <2> QED
      BY <2>3, <2>4, <2>5, <2>7 DEF BInv
  <1>2. CASE Expire
    BY <1>2, ExpireKeeps
  <1>3. CASE ProcessDies
    BY <1>3, ProcessDiesKeeps
  <1>4. ASSUME NEW j \in Jobs,
               \/ \E kind \in JobKinds : StartJob(j, kind)
               \/ TakeBoundary(j) \/ Guard(j) \/ Authorize(j)
               \/ RecordIntent(j) \/ ScoreAnswer(j)
               \/ \E p \in {"anthropic", "openai"} : Transmit(j, p) \/ Return(j, p)
               \/ RecordCalls(j) \/ CommitTurn(j)
               \/ EndImport(j) \/ AuthorizeRetry(j) \/ EndQuestion(j)
        PROVE  BInv'
    <2>1. CASE \E kind \in JobKinds : StartJob(j, kind)
      BY <2>1, StartJobKeeps
    <2>2. CASE TakeBoundary(j)
      BY <2>2, TakeBoundaryKeeps
    <2>3. CASE Guard(j)
      BY <2>3, GuardKeeps
    <2>4. CASE Authorize(j)
      BY <2>4, AuthorizeKeeps
    <2>5. CASE RecordIntent(j)
      BY <2>5, RecordIntentKeeps
    <2>6. CASE ScoreAnswer(j)
      BY <2>6, ScoreAnswerKeeps
    <2>7. CASE \E p \in {"anthropic", "openai"} : Transmit(j, p) \/ Return(j, p)
      BY <2>7, TransmitKeeps, ReturnKeeps DEF Vendors
    <2>8. CASE RecordCalls(j)
      BY <2>8, RecordCallsKeeps
    <2>9. CASE CommitTurn(j)
      BY <2>9, CommitTurnKeeps
    <2>10. CASE EndImport(j)
      BY <2>10, EndImportKeeps
    <2>11. CASE AuthorizeRetry(j)
      BY <2>11, AuthorizeRetryKeeps
    <2>12. CASE EndQuestion(j)
      BY <2>12, EndQuestionKeeps
    <2> QED
      BY <1>4, <2>1, <2>2, <2>3, <2>4, <2>5, <2>6, <2>7, <2>8, <2>9, <2>10, <2>11, <2>12
  <1> QED
    BY <1>1, <1>2, <1>3, <1>4 DEF BudgetNext

\* The inductive invariant of an account's day.
THEOREM BudgetStaysSound == BudgetSpec => []BInv
  <1>1. BudgetInit => BInv
    BY BudgetStarts
  <1>2. BInv /\ [BudgetNext]_budgetVars => BInv'
    BY BudgetKeeps
  <1> QED
    BY <1>1, <1>2, PTL DEF BudgetSpec

LEMMA CoveredIs ==
  ASSUME BInv, NEW j \in Jobs, Audited(j)
  PROVE  Len(sent[j]) <= Len(rows[j]) + ReservedBy(j) /\ Len(sent[j]) \in Nat
         /\ Len(rows[j]) + ReservedBy(j) \in Nat
  <1>1. RowsAreTyped(j) /\ StagesAreSound(j) /\ ManifestIsSound(j)
    BY Facts
  <1>2. Len(sent[j]) \in Nat /\ Len(rows[j]) \in Nat /\ ReservedBy(j) \in Nat
    BY <1>1, SeqFacts, ReservedIs DEF RowsAreTyped
  <1>3. CASE job[j].kind = "import"
    BY <1>1, <1>2, <1>3 DEF StagesAreSound
  <1>4. CASE intent[j] # NoIntent
    <2>1. /\ Len(sent[j]) <= intent[j].reserved
          /\ intent[j].status \in {"pending", "incomplete", "finalized"}
          /\ intent[j].status = "pending" => rows[j] = << >> /\ intent[j].terminal = 0
          /\ intent[j].status # "pending" => Len(rows[j]) = Len(sent[j])
      BY <1>1, <1>4 DEF ManifestIsSound
    <2>2. intent[j].reserved \in Nat
      BY <1>1 DEF RowsAreTyped
    <2>3. CASE intent[j].status = "pending"
      BY <1>2, <2>1, <2>2, <2>3, EmptyIs DEF ReservedBy
    <2>4. CASE intent[j].status # "pending"
      BY <1>2, <2>1, <2>4
    <2> QED
      BY <2>3, <2>4
  <1> QED
    BY <1>2, <1>3, <1>4 DEF Audited

LEMMA SoundIsTrue ==
  ASSUME BInv
  PROVE  AuditIsTrue
  <1>1. CallsAreAccounted
    BY CoveredIs DEF CallsAreAccounted
  <1>2. EvidenceIsComplete
    BY DEF BInv, IsSound, EvidenceOf, EvidenceIsComplete
  <1>3. CallsStayInBudget
    <2> DEFINE made == UNION {{j} \X DOMAIN sent[j] : j \in {k \in Jobs : Audited(k)}}
    <2>1. ASSUME NEW j \in Jobs, Audited(j)
          PROVE  {j} \X DOMAIN sent[j] \subseteq ChargesOf(j)
      <3>1. DOMAIN sent[j] = 1 .. Len(sent[j])
        BY Facts, SeqFacts DEF RowsAreTyped
      <3>2. DOMAIN sent[j] \subseteq 1 .. Len(rows[j]) + ReservedBy(j)
        BY <2>1, <3>1, CoveredIs
      <3> QED
        BY <3>2 DEF ChargesOf
    <2>2. made \subseteq AuditedCharges
      BY <2>1 DEF AuditedCharges
    <2>3. IsFiniteSet(AuditedCharges)
      <3>1. \A k \in Jobs : RowsAreTyped(k)
        BY DEF BInv, IsSound
      <3>2. IsFiniteSet(UNION {ChargesOf(k) : k \in Jobs})
        BY <3>1, ChargesAreFinite
      <3>3. AuditedCharges \subseteq UNION {ChargesOf(k) : k \in Jobs}
        BY DEF AuditedCharges
      <3> QED
        BY <3>2, <3>3, FS_Subset
    <2> HIDE DEF made
    <2>4. Cardinality(made) <= Cardinality(AuditedCharges) /\ IsFiniteSet(made)
      BY <2>2, <2>3, FS_Subset
    <2>5. /\ Cardinality(made) \in Nat /\ Cardinality(AuditedCharges) \in Nat
          /\ DailyLimit \in Nat
      BY <2>3, <2>4, FS_CardinalityType, BudgetAssumption
    <2>6. Cardinality(made) <= DailyLimit
      BY <2>4, <2>5 DEF BInv
    <2> QED
      BY <2>6 DEF made, CallsStayInBudget, BInv
  <1> QED
    BY <1>1, <1>2, <1>3 DEF AuditIsTrue, BInv

\* Paid calls leave true evidence, whatever fails or dies in between, within the
\* day's limits (usage.py, _submit).
THEOREM AuditStaysTrue == BudgetSpec => []AuditIsTrue
  BY BudgetStaysSound, SoundIsTrue, PTL

-----------------------------------------------------------------------------
(***************************************************************************)
(* The scoring rules                                                       *)
(***************************************************************************)
\* Whatever the model writes, the cap and the band bound the turns of a session.
LEMMA TurnsBounded == TurnsAreBounded
  <1>1. MaxProbes \in Nat \ {0}
    BY ProbesAssumption
  <1>2. ASSUME NEW data \in Outputs
        PROVE  /\ \A used \in 0 .. MaxProbes : ParseV1(data, used).status = "invalid" => ~data.shaped
               /\ ParseV1(data, MaxProbes).status # "follow_up"
    BY <1>1 DEF ParseV1, ShouldProbe, Completed, FollowUp, Unusable, Outputs
  <1>3. ASSUME NEW data \in Outputs
        PROVE  /\ ParseV2(data, MaxProbes).status # "follow_up"
               /\ data.recall \in {0, 4, 5} => ParseV2(data, 0).status # "follow_up"
    BY <1>1 DEF ParseV2, ShouldProbe, Completed, FollowUp, Unusable, Outputs
  <1>4. ASSUME NEW data \in Outputs, ParseV1(data, MaxProbes).status = "complete"
        PROVE  Passes(ParseV1(data, MaxProbes).score) <=> Passes(ParseV1(data, MaxProbes).recall)
    <2> DEFINE score == Composite(data.recall, data.tradeOffs, data.failureModes)
    <2>1. data.recall \in 0 .. 5
      BY DEF Outputs, Marks
    <2>2. Passes(score) <=> Passes(data.recall)
      BY <2>1 DEF Composite, Passes
    <2> HIDE DEF score
    <2>3. ParseV1(data, MaxProbes) = Completed(data.recall, score)
      BY <1>1, <1>4 DEF ParseV1, ShouldProbe, FollowUp, Unusable, score
    <2> QED
      BY <2>2, <2>3 DEF Completed
  <1> QED
    BY <1>2, <1>3, <1>4 DEF TurnsAreBounded

\* Two marks that decide the same differ only within the lowest or the highest pair.
LEMMA MatchIs ==
  ASSUME NEW a \in Marks, NEW b \in Marks,
         BehavioralMatch(Completed(a, a), Completed(b, b))
  PROVE  /\ QualityFor(a) = QualityFor(b)
         /\ a = b \/ {a, b} \subseteq {0, 1} \/ {a, b} \subseteq {4, 5}
  <1>1. /\ Completed(a, a).status = "complete" /\ Completed(a, a).recall = a
        /\ Completed(b, b).status = "complete" /\ Completed(b, b).recall = b
    BY DEF Completed
  <1>2. CoverageTier(a) = CoverageTier(b)
    BY <1>1 DEF BehavioralMatch, ProductDecisions
  <1>3. a \in 0 .. 5 /\ b \in 0 .. 5
    BY DEF Marks
  <1>4. a = b \/ {a, b} \subseteq {0, 1} \/ {a, b} \subseteq {4, 5}
    BY <1>2, <1>3 DEF CoverageTier
  <1> QED
    BY <1>3, <1>4 DEF QualityFor, Passes

\* A candidate that matches leads to the same schedule and the same tier.
LEMMA MatchesHarmless == MatchesAreHarmless
  <1>1. ASSUME NEW a \in Marks, NEW b \in Marks, NEW ease \in {130, 186, 218, 250},
               NEW n \in 0 .. 3, NEW lapsed \in BOOLEAN,
               BehavioralMatch(Completed(a, a), Completed(b, b))
        PROVE  LET card == [ease |-> ease, interval |-> 6, repetitions |-> n]
                   after(mark) == ApplySM2(card, QualityFor(mark))
               IN  /\ after(a) = after(b)
                   /\ Tier(after(a), a, lapsed) = Tier(after(b), b, lapsed)
    <2> DEFINE card == [ease |-> ease, interval |-> 6, repetitions |-> n]
               next == ApplySM2(card, QualityFor(a))
    <2>1. /\ QualityFor(a) = QualityFor(b)
          /\ a = b \/ {a, b} \subseteq {0, 1} \/ {a, b} \subseteq {4, 5}
      BY <1>1, MatchIs
    <2>2. next.repetitions \in Nat
      BY DEF ApplySM2
    <2> HIDE DEF next
    <2>3. Tier(next, a, lapsed) = Tier(next, b, lapsed)
      BY <2>1, <2>2 DEF Tier
    <2> QED
      BY <2>1, <2>3 DEF next
  <1> QED
    BY <1>1 DEF MatchesAreHarmless

\* A response without an error is usable in each of its parts.
LEMMA ResponsesWhole == ScoredResponsesAreWhole
  <1>1. ASSUME NEW response \in Responses
        PROVE  ResponseError(response) = "" <=>
            /\ response.status = "completed" /\ response.text = "object"
            /\ response.usage.input > 0 /\ response.usage.output > 0
            /\ response.usage.written >= 0
            /\ response.usage.input >= response.usage.cached + response.usage.written
            /\ response.identified /\ response.model = "qualified"
    <2>1. /\ response.status \in {"completed", "incomplete", "unreachable"}
          /\ response.text \in {"none", "refused", "object", "other"}
          /\ response.usage \in Usages
          /\ response.identified \in BOOLEAN /\ response.model \in {"none", "other", "qualified"}
      BY DEF Responses
    <2>2. /\ DOMAIN response.usage = {"input", "output", "cached", "written"}
          /\ response.usage.input \in {0, 5} /\ response.usage.output \in {0, 2}
          /\ response.usage.cached \in {0, 3} /\ response.usage.written \in {-1, 0, 3}
      BY <2>1 DEF Usages
    <2>3. UsableUsage(response.usage) <=>
              /\ response.usage.written >= 0
              /\ response.usage.input >= response.usage.cached + response.usage.written
      BY <2>2 DEF UsableUsage
    <2> DEFINE usage == response.usage
               usable == UsableUsage(usage)
               parsed == ParseResponse(response)
    <2>4. /\ OutputText(response) = "refused" <=> response.text = "refused"
          /\ OutputText(response) = "none" <=> response.text = "none"
      BY DEF OutputText
    <2> HIDE DEF usable
    <2>5. parsed = "" <=>
             /\ response.status = "completed" /\ response.text = "object" /\ usable
             /\ usage.input # 0 /\ usage.output # 0
             /\ response.identified /\ response.model # "none"
      BY <2>1, <2>2, <2>4 DEF ParseResponse, usable
    <2> HIDE DEF parsed
    <2>6. ResponseError(response) = "" <=>
             response.status # "unreachable" /\ parsed = "" /\ response.model = "qualified"
      BY DEF ResponseError, parsed
    <2> QED
      <3>1. /\ usage.input # 0 <=> usage.input > 0
            /\ usage.output # 0 <=> usage.output > 0
        BY <2>2
      <3>2. response.model = "qualified" => response.model # "none"
        OBVIOUS
      <3>3. response.status = "completed" => response.status # "unreachable"
        OBVIOUS
      <3>4. usable <=> /\ usage.written >= 0
                       /\ usage.input >= usage.cached + usage.written
        BY <2>3 DEF usable
      <3> HIDE DEF usage
      <3> QED
        BY <2>5, <2>6, <3>1, <3>2, <3>3, <3>4 DEF usage
  <1> QED
    BY <1>1 DEF ScoredResponsesAreWhole

\* One more mark in a history.
LEMMA LongerHistory ==
  ASSUME NEW history \in Seq(Int), NEW mark \in Int
  PROVE  /\ Lapses(history) \in Nat /\ Streak(history) \in Nat
         /\ Lapses(Append(history, mark)) = IF Passes(mark) THEN Lapses(history) ELSE Lapses(history) + 1
         /\ Streak(Append(history, mark)) = IF Passes(mark) THEN Streak(history) + 1 ELSE 0
  <1> DEFINE n == Len(history)
             longer == Append(history, mark)
             L == {i \in DOMAIN history : ~Passes(history[i])}
             S == {i \in DOMAIN history : \A k \in i .. n : Passes(history[k])}
             L2 == {i \in DOMAIN longer : ~Passes(longer[i])}
             S2 == {i \in DOMAIN longer : \A k \in i .. Len(longer) : Passes(longer[k])}
  <1>1. /\ n \in Nat /\ DOMAIN history = 1 .. n /\ DOMAIN longer = 1 .. n + 1
        /\ Len(longer) = n + 1 /\ longer[n + 1] = mark
        /\ \A i \in 1 .. n : longer[i] = history[i]
    OBVIOUS
  <1> HIDE DEF n, longer
  <1>2. IsFiniteSet(1 .. n)
    BY <1>1, FS_Interval
  <1>3. IsFiniteSet(L) /\ IsFiniteSet(S)
    BY <1>1, <1>2, FS_Subset
  <1>4. n + 1 \notin L /\ n + 1 \notin S
    BY <1>1
  <1>5. L2 = IF Passes(mark) THEN L ELSE L \cup {n + 1}
    <2>1. ASSUME NEW i \in 1 .. n + 1
          PROVE  i \in L2 <=> i \in L \/ (i = n + 1 /\ ~Passes(mark))
      BY <1>1
    <2> QED
      BY <1>1, <2>1
  <1>6. S2 = IF Passes(mark) THEN S \cup {n + 1} ELSE {}
    <2>1. CASE Passes(mark)
      <3>1. ASSUME NEW i \in 1 .. n + 1 PROVE i \in S2 <=> i \in S \/ i = n + 1
        BY <1>1, <2>1
      <3> QED
        BY <1>1, <2>1, <3>1
    <2>2. CASE ~Passes(mark)
      <3>1. ASSUME NEW i \in 1 .. n + 1 PROVE i \notin S2
        BY <1>1, <2>2
      <3> QED
        BY <1>1, <2>2, <3>1
    <2> QED
      BY <2>1, <2>2
  <1>7. /\ Lapses(history) = Cardinality(L) /\ Streak(history) = Cardinality(S)
        /\ Lapses(longer) = Cardinality(L2) /\ Streak(longer) = Cardinality(S2)
    BY DEF Lapses, Streak, n
  <1> HIDE DEF L, S, L2, S2
  <1>8. Cardinality(L) \in Nat /\ Cardinality(S) \in Nat
    BY <1>3, FS_CardinalityType
  <1>9. /\ Cardinality(L \cup {n + 1}) = Cardinality(L) + 1
        /\ Cardinality(S \cup {n + 1}) = Cardinality(S) + 1
        /\ Cardinality({}) = 0
    BY <1>3, <1>4, FS_AddElement, FS_EmptySet
  <1>10. /\ Lapses(longer) = IF Passes(mark) THEN Lapses(history) ELSE Lapses(history) + 1
         /\ Streak(longer) = IF Passes(mark) THEN Streak(history) + 1 ELSE 0
    BY <1>5, <1>6, <1>7, <1>9
  <1> QED
    BY <1>7, <1>8, <1>10 DEF longer

\* At the floor of the ease and above, rounding never undoes the growth of an interval.
LEMMA PassNeverShrinks ==
  ASSUME NEW interval \in Nat, interval >= 6, NEW ease \in 130 .. 300
  PROVE  Rounded(interval * ease, 100) >= interval /\ Rounded(interval * ease, 100) \in Int
  <1>1. interval * ease \in Nat /\ interval * ease >= interval * 100
    OBVIOUS
  <1>2. (interval * ease) \div 100 \in Int /\ (interval * ease) \div 100 >= interval
    BY <1>1
  <1> QED
    BY <1>2 DEF Rounded

\* What the two qualities do to the ease.
LEMMA EaseMoves ==
  ASSUME NEW ease \in 130 .. 300
  PROVE  /\ ease + 10 - (5 - 4) * (8 + (5 - 4) * 2) = ease
         /\ ease + 10 - (5 - 2) * (8 + (5 - 2) * 2) = ease - 32
         /\ Clamp(ease) = ease
  <1>1. ease \in Int /\ 130 <= ease /\ ease <= 300
    OBVIOUS
  <1>2. ease + 10 - (5 - 4) * (8 + (5 - 4) * 2) = ease
    <2>1. (5 - 4) * (8 + (5 - 4) * 2) = 10
      OBVIOUS
    <2> QED
      BY <1>1, <2>1
  <1>3. ease + 10 - (5 - 2) * (8 + (5 - 2) * 2) = ease - 32
    <2>1. (5 - 2) * (8 + (5 - 2) * 2) = 42
      OBVIOUS
    <2> QED
      BY <1>1, <2>1
  <1> QED
    BY <1>1, <1>2, <1>3 DEF Clamp

\* The schedule after one more review follows the longer history.
LEMMA NextFollows ==
  ASSUME NEW history \in Seq(Int), NEW mark \in Int, NEW card, FollowsHistory(card, history),
         card.interval \in Nat
  PROVE  LET next == ApplySM2(card, QualityFor(mark))
         IN  /\ FollowsHistory(next, Append(history, mark)) /\ next.interval \in Nat
             /\ Passes(mark) => next.interval >= card.interval
  <1> DEFINE next == ApplySM2(card, QualityFor(mark))
             lapses == Lapses(history)
             streak == Streak(history)
  <1>1. /\ lapses \in Nat /\ streak \in Nat
        /\ Lapses(Append(history, mark)) = IF Passes(mark) THEN lapses ELSE lapses + 1
        /\ Streak(Append(history, mark)) = IF Passes(mark) THEN streak + 1 ELSE 0
    BY LongerHistory
  <1>2. /\ card.ease = Clamp(250 - 32 * lapses) /\ card.repetitions = streak
        /\ IF streak <= 1 THEN card.interval = 1 ELSE card.interval >= 6
    BY DEF FollowsHistory
  <1> HIDE DEF lapses, streak
  <1>3. card.ease \in 130 .. 300
    BY <1>1, <1>2 DEF Clamp
  <1>a. /\ QualityFor(mark) = IF Passes(mark) THEN 4 ELSE 2
        /\ 250 - 32 * lapses \in Int
    BY <1>1 DEF QualityFor
  <1>b. /\ next.ease = Clamp(card.ease + 10 - (5 - QualityFor(mark)) * (8 + (5 - QualityFor(mark)) * 2))
        /\ next.repetitions = IF QualityFor(mark) < 3 THEN 0 ELSE card.repetitions + 1
        /\ next.interval = IF QualityFor(mark) < 3 THEN 1
                           ELSE IF card.repetitions = 0 THEN 1
                           ELSE IF card.repetitions = 1 THEN 6
                           ELSE Rounded(card.interval * card.ease, 100)
    BY ONLY DEF next, ApplySM2
  <1> HIDE DEF next
  <1>4. CASE Passes(mark)
    <2>1. /\ next.ease = Clamp(card.ease) /\ next.repetitions = streak + 1
          /\ next.interval = IF streak = 0 THEN 1 ELSE IF streak = 1 THEN 6
                             ELSE Rounded(card.interval * card.ease, 100)
      <3>1. QualityFor(mark) = 4
        BY <1>a, <1>4
      <3>2. card.ease + 10 - (5 - 4) * (8 + (5 - 4) * 2) = card.ease
        BY ONLY <1>3, EaseMoves
      <3> QED
        BY <1>b, <1>2, <3>1, <3>2
    <2>2. next.ease = card.ease
      BY ONLY <1>3, <2>1, EaseMoves
    <2>3. ASSUME streak >= 2
          PROVE  /\ Rounded(card.interval * card.ease, 100) >= card.interval
                 /\ Rounded(card.interval * card.ease, 100) \in Int
      <3>1. card.interval >= 6
        BY <1>1, <1>2, <2>3
      <3> QED
        BY ONLY <1>3, <3>1, card.interval \in Nat, PassNeverShrinks
    <2>4. /\ IF next.repetitions <= 1 THEN next.interval = 1 ELSE next.interval >= 6
          /\ next.interval >= card.interval /\ next.interval \in Nat
      BY <1>1, <1>2, <2>1, <2>3
    <2> QED
      BY <1>1, <1>2, <1>4, <2>1, <2>2, <2>4 DEF FollowsHistory, next
  <1>5. CASE ~Passes(mark)
    <2>1. /\ next.ease = Clamp(card.ease - 32) /\ next.repetitions = 0 /\ next.interval = 1
      <3>1. QualityFor(mark) = 2
        BY <1>a, <1>5
      <3>2. card.ease + 10 - (5 - 2) * (8 + (5 - 2) * 2) = card.ease - 32
        BY ONLY <1>3, EaseMoves
      <3> QED
        BY <1>b, <3>1, <3>2
    <2>2. Clamp(Clamp(250 - 32 * lapses) - 32) = Clamp(250 - 32 * (lapses + 1))
      BY <1>1 DEF Clamp
    <2> QED
      BY <1>1, <1>2, <1>5, <2>1, <2>2 DEF FollowsHistory, next
  <1> QED
    BY <1>4, <1>5

-----------------------------------------------------------------------------
(***************************************************************************)
(* Turns and schedules                                                     *)
(***************************************************************************)
\* What a turn may do to the session.
TurnFits(result, used) ==
    IF result.status = "follow_up" THEN used < MaxProbes ELSE result.recall \in Int

\* A scorer that is at work goes by the turns of the session as they are.
TurnIsSound(j) ==
    job[j].kind = "score" =>
        /\ Holds(j) => job[j].used = review.used
        /\ \A i \in DOMAIN trace[j] :
               trace[j][i].outcome = "success" => TurnFits(trace[j][i].result, job[j].used)
        /\ job[j].step = "recorded" => Scored(j)

SessionIsSound ==
    /\ review.used \in 0 .. MaxProbes /\ review.done \in Seq(Int)
    /\ FollowsHistory(review.card, review.done) /\ review.card.interval \in Nat

RInv == SessionIsSound /\ \A j \in Jobs : TurnIsSound(j)

\* The schedule rule that the run enumerates, over every mark and interval.
LEMMA ScheduleFollows == ScheduleFollowsHistory
  <1> DEFINE Rule(history, mark, interval) ==
               LET card == [ease |-> Clamp(250 - 32 * Lapses(history)), interval |-> interval,
                            repetitions |-> Streak(history)]
                   next == ApplySM2(card, QualityFor(mark))
               IN  FollowsHistory(card, history) =>
                       /\ FollowsHistory(next, Append(history, mark))
                       /\ Passes(mark) => next.interval >= card.interval
  <1>1. ASSUME NEW n \in 0 .. 3, NEW history \in [1 .. n -> Marks], NEW mark \in Marks,
               NEW interval \in {1, 6, 15}
        PROVE  Rule(history, mark, interval)
    <2>1. history \in Seq(Int) /\ mark \in Int
      BY DEF Marks
    <2> DEFINE card == [ease |-> Clamp(250 - 32 * Lapses(history)), interval |-> interval,
                        repetitions |-> Streak(history)]
    <2>2. card.interval \in Nat
      OBVIOUS
    <2> HIDE DEF card
    <2>3. FollowsHistory(card, history) =>
              LET next == ApplySM2(card, QualityFor(mark))
              IN  /\ FollowsHistory(next, Append(history, mark))
                  /\ Passes(mark) => next.interval >= card.interval
      BY ONLY <2>1, <2>2, NextFollows
    <2> QED
      BY <2>3 DEF card
  <1> HIDE DEF Rule
  <1>2. ASSUME NEW history \in UNION {[1 .. n -> Marks] : n \in 0 .. 3}, NEW mark \in Marks,
               NEW interval \in {1, 6, 15}
        PROVE  Rule(history, mark, interval)
    <2>1. PICK n \in 0 .. 3 : history \in [1 .. n -> Marks]
      OBVIOUS
    <2> QED
      BY <1>1, <2>1
  <1> QED
    BY <1>2, Zenon DEF ScheduleFollowsHistory, Rule

\* The latest call of a provider that was called.
LEMMA LatestExists ==
  ASSUME NEW calls, IsSeq(calls), NEW p, p \in Providers(calls)
  PROVE  \E i \in DOMAIN calls :
             /\ calls[i].provider = p
             /\ \A k \in i + 1 .. Len(calls) : calls[k].provider # p
  <1> DEFINE n == Len(calls)
             T == {m \in Nat : \E i \in DOMAIN calls : calls[i].provider = p /\ m = n - i}
             R == OpToRel(<, Nat)
  <1>1. n \in Nat /\ DOMAIN calls = 1 .. n
    BY SeqFacts
  <1>2. PICK i0 \in DOMAIN calls : calls[i0].provider = p
    BY DEF Providers
  <1>3. n - i0 \in T
    BY <1>1, <1>2
  <1>4. IsWellFoundedOn(R, Nat)
    BY NatLessThanWellFounded
  <1>5. PICK m \in T : \A y \in T : ~ (<<y, m>> \in R)
    <2> HIDE DEF R
    <2>1. T \subseteq Nat /\ T # {}
      BY <1>3
    <2> HIDE DEF T
    <2> QED
      BY <1>4, <2>1, WFMin
  <1>6. PICK i \in DOMAIN calls : calls[i].provider = p /\ m = n - i
    BY <1>5
  <1>7. ASSUME NEW k \in i + 1 .. n PROVE calls[k].provider # p
    <2>1. SUFFICES ASSUME calls[k].provider = p PROVE FALSE
      OBVIOUS
    <2>2. k \in DOMAIN calls /\ n - k \in Nat /\ n - k < m /\ m \in Nat
      BY <1>1, <1>6
    <2>3. n - k \in T
      BY <2>1, <2>2
    <2> HIDE DEF T
    <2>4. <<n - k, m>> \in R
      BY <2>2 DEF OpToRel
    <2> QED
      BY <1>5, <2>3, <2>4
  <1> QED
    BY <1>6, <1>7

\* A result that counts is one the handler has read.
LEMMA ScoredWas ==
  ASSUME NEW j, IsSeq(trace[j]), Scored(j)
  PROVE  LET i == LastOf(j, Authority(j))
         IN  i \in DOMAIN trace[j] /\ trace[j][i].outcome = "success"
  <1> DEFINE p == Authority(j)
  <1>1. OutcomeOf(j, p) = "success"
    BY DEF Scored
  <1> HIDE DEF p
  <1>2. Counted(trace[j], p) # 0 /\ trace[j][LastOf(j, p)].outcome = "success"
    BY <1>1 DEF OutcomeOf
  <1>3. p \in Providers(trace[j])
    BY <1>2, CountedIs
  <1>4. LastOf(j, p) \in DOMAIN trace[j]
    BY <1>3, LatestExists DEF LastOf
  <1> QED
    BY <1>2, <1>4 DEF p

\* The parsers of both contracts.
LEMMA ParsedIs ==
  ASSUME NEW data \in Outputs2, NEW used \in 0 .. MaxProbes,
         Parse(data, used).status # "invalid"
  PROVE  TurnFits(Parse(data, used), used)
  <1>1. /\ MaxProbes \in Nat \ {0} /\ data.recall \in Int
        /\ 0 < MaxProbes
    BY ProbesAssumption, OutputAssumption
  <1>2. ASSUME NEW score, ShouldProbe(score, used, data.needs) PROVE used < MaxProbes
    BY <1>1, <1>2 DEF ShouldProbe
  <1>3. ASSUME ParseV1(data, used).status # "invalid"
        PROVE  TurnFits(ParseV1(data, used), used)
    BY <1>1, <1>2, <1>3 DEF ParseV1, TurnFits, Completed, FollowUp, Unusable
  <1>4. ASSUME ParseV2(data, used).status # "invalid"
        PROVE  TurnFits(ParseV2(data, used), used)
    BY <1>1, <1>2, <1>4 DEF ParseV2, TurnFits, Completed, FollowUp, Unusable
  <1> QED
    BY <1>3, <1>4 DEF Parse

\* What counts in the end is in the handler's plan and in what it has read.
Latest(calls, p) ==
    CHOOSE i \in DOMAIN calls :
        calls[i].provider = p /\ \A k \in i + 1 .. Len(calls) : calls[k].provider # p

ScoredFrom(calls, plan, skipped) ==
    LET outcome(p) == IF p = "openai" /\ skipped THEN "unavailable"
                      ELSE IF Counted(calls, p) = 0 THEN "none"
                      ELSE calls[Latest(calls, p)].outcome
    IN  outcome(IF plan = "primary" /\ outcome("openai") = "success"
                THEN "openai" ELSE "anthropic") = "success"

\* (The state of the handler enters only here.)
LEMMA ScoredIsFrom ==
  ASSUME NEW j
  PROVE  /\ Scored(j) = ScoredFrom(trace[j], job[j].plan, job[j].skipped)
         /\ Scored(j)' = ScoredFrom(trace'[j], job'[j].plan, job'[j].skipped)
  BY DEF Scored, ScoredFrom, OutcomeOf, Authority, LastOf, Latest

\* A handler that rests, while nobody writes the turn it goes by.
LEMMA TurnRests ==
  ASSUME NEW k, TurnIsSound(k), job'[k] = job[k], trace'[k] = trace[k],
         Holds(k) => review'.used = review.used
  PROVE  TurnIsSound(k)'
  <1>1. Scored(k)' = Scored(k)
    BY ScoredIsFrom
  <1> QED
    BY <1>1 DEF TurnIsSound, Holds

\* A scorer that goes on as it was.
LEMMA TurnMoves ==
  ASSUME NEW j, TurnIsSound(j), review'.used = review.used, trace'[j] = trace[j],
         job'[j].kind = job[j].kind, job'[j].used = job[j].used, Holds(j)' => Holds(j),
         job'[j].kind = "score" => job'[j].step # "recorded"
  PROVE  TurnIsSound(j)'
  BY DEF TurnIsSound

\* The session is as it was, and one handler has moved.
LEMMA QuietTurns ==
  ASSUME RInv, NEW j, review' = review, TurnIsSound(j)' \/ j \notin Jobs,
         \A k \in Jobs \ {j} : job'[k] = job[k] /\ trace'[k] = trace[k]
  PROVE  RInv'
  <1>1. SessionIsSound'
    BY DEF RInv, SessionIsSound
  <1>2. \A k \in Jobs \ {j} : TurnIsSound(k)'
    BY TurnRests DEF RInv
  <1> QED
    BY <1>1, <1>2 DEF RInv

\* A handler that ends, or goes on under its lock, writes no turn.
LEMMA LeaveTurns ==
  ASSUME BInv, RInv, NEW j \in Jobs, NEW outcome \in {"applied", "failed", "refused"},
         Leave(j, outcome), review' = review
  PROVE  RInv'
  <1>1. /\ \A k \in Jobs \ {j} : job'[k] = job[k] /\ trace'[k] = trace[k]
        /\ job'[j].step = outcome /\ trace'[j] = << >> /\ ~Holds(j)'
    BY LeaveIs
  <1>2. TurnIsSound(j)'
    BY <1>1, EmptyIs DEF TurnIsSound
  <1> QED
    BY <1>1, <1>2, QuietTurns

LEMMA GoOnTurns ==
  ASSUME BInv, RInv, NEW j \in Jobs, NEW step \in Steps, GoOn(j, step),
         UNCHANGED <<trace, review>>, job[j].step # step,
         Holds(j) \/ job[j].kind # "score", step = "recorded" => Scored(j)
  PROVE  RInv'
  <1>1. JobIsTyped(j) /\ Domains /\ TurnIsSound(j)
    BY Facts DEF RInv
  <1>2. \A k \in Jobs \ {j} : job'[k] = job[k] /\ trace'[k] = trace[k]
    BY GoOnIs
  <1>3. job'[j] = [job[j] EXCEPT !.step = step]
    BY <1>1 DEF GoOn, Domains
  <1>4. /\ job'[j].step = step /\ job'[j].kind = job[j].kind /\ job'[j].used = job[j].used
        /\ job'[j].plan = job[j].plan /\ job'[j].skipped = job[j].skipped
    BY ONLY <1>1, <1>3 DEF JobIsTyped, JobFields
  <1>5. Scored(j)' = Scored(j)
    BY <1>4, ScoredIsFrom
  <1>6. TurnIsSound(j)'
    BY <1>1, <1>4, <1>5 DEF TurnIsSound
  <1> QED
    BY <1>2, <1>6, QuietTurns

\* A handler that is no scorer's.
LEMMA OtherTurns ==
  ASSUME BInv, RInv, NEW j \in Jobs, review' = review, job'[j].kind # "score",
         \A k \in Jobs \ {j} : job'[k] = job[k] /\ trace'[k] = trace[k]
  PROVE  RInv'
  BY QuietTurns DEF TurnIsSound

\* Before the calls.
LEMMA BudgetTurns ==
  ASSUME BInv, RInv, NEW j \in Jobs,
         \/ \E kind \in JobKinds : StartJob(j, kind)
         \/ TakeBoundary(j) \/ Guard(j) \/ Authorize(j) \/ RecordIntent(j) \/ ScoreAnswer(j)
  PROVE  RInv'
  <1>1. /\ JobIsTyped(j) /\ RowsAreTyped(j) /\ StagesAreSound(j) /\ Domains /\ TurnIsSound(j)
        /\ DOMAIN job[j] = JobFields
    BY Facts DEF RInv, JobIsTyped
  <1>2. ASSUME NEW kind \in JobKinds, StartJob(j, kind) PROVE RInv'
    <2>1. /\ job' = [job EXCEPT ![j].kind = kind, ![j].step = "started"]
          /\ job[j] = Idle /\ UNCHANGED <<trace, review>>
      BY <1>2 DEF StartJob
    <2>2. /\ \A k \in Jobs \ {j} : job'[k] = job[k] /\ trace'[k] = trace[k]
          /\ job'[j] = [job[j] EXCEPT !.kind = kind, !.step = "started"]
      BY <1>1, <2>1 DEF Domains
    <2>3. job'[j].step = "started" /\ trace'[j] = << >>
      <3>1. job'[j].step = "started"
        BY ONLY <1>1, <2>2 DEF JobFields
      <3>2. job[j].step = "idle"
        BY <2>1 DEF Idle
      <3>3. trace[j] = << >>
        BY <1>1, <3>2 DEF StagesAreSound, Untouched
      <3> QED
        BY <2>1, <3>1, <3>3
    <2>4. TurnIsSound(j)'
      BY <2>3, EmptyIs DEF TurnIsSound, Holds
    <2> QED
      BY <2>1, <2>2, <2>4, QuietTurns
  <1>3. CASE TakeBoundary(j)
    <2>1. /\ job[j].step \in {"started", "retrying"} /\ UNCHANGED <<trace, review>>
          /\ job' = [job EXCEPT ![j].step = "locked", ![j].openai = Eligible,
                                ![j].used = review.used]
      BY <1>3 DEF TakeBoundary
    <2>2. /\ \A k \in Jobs \ {j} : job'[k] = job[k] /\ trace'[k] = trace[k]
          /\ job'[j] = [job[j] EXCEPT !.step = "locked", !.openai = Eligible, !.used = review.used]
      BY <1>1, <2>1 DEF Domains
    <2>3. job'[j].step = "locked" /\ job'[j].kind = job[j].kind /\ job'[j].used = review.used
      BY ONLY <1>1, <2>2 DEF JobFields
    <2>4. job[j].kind = "score" => trace[j] = << >>
      BY <1>1, <2>1 DEF StagesAreSound, Untouched
    <2>5. TurnIsSound(j)'
      BY <2>1, <2>3, <2>4, EmptyIs DEF TurnIsSound
    <2> QED
      BY <2>1, <2>2, <2>5, QuietTurns
  <1>4. CASE Guard(j)
    <2>1. job[j].step = "locked" /\ review' = review
          /\ (\/ Leave(j, "refused")
              \/ /\ GoOn(j, IF job[j].kind = "question" THEN "calling" ELSE "allowed")
                 /\ UNCHANGED trace)
      BY <1>4 DEF Guard
    <2> DEFINE step == IF job[j].kind = "question" THEN "calling" ELSE "allowed"
    <2>2. step \in Steps /\ step # "recorded" /\ step # "locked"
      BY DEF Steps
    <2>3. Holds(j)
      BY <2>1 DEF Holds
    <2> HIDE DEF step
    <2>4. CASE Leave(j, "refused")
      BY <2>1, <2>4, LeaveTurns
    <2>5. CASE GoOn(j, step) /\ UNCHANGED trace
      BY <2>1, <2>2, <2>3, <2>5, GoOnTurns
    <2> QED
      BY <2>1, <2>4, <2>5 DEF step
  <1>5. CASE Authorize(j)
    <2>1. /\ job[j].kind = "import" /\ job[j].step = "allowed" /\ review' = review
          /\ (GoOn(j, "calling") /\ UNCHANGED trace) \/ Leave(j, "refused")
      BY <1>5 DEF Authorize, In
    <2>2. CASE GoOn(j, "calling") /\ UNCHANGED trace
      BY <2>1, <2>2, GoOnTurns DEF Steps
    <2> QED
      BY <2>1, <2>2, LeaveTurns
  <1>6. CASE RecordIntent(j)
    <2>1. /\ job[j].kind = "score" /\ job[j].step = "allowed" /\ review' = review
          /\ (GoOn(j, "routing") /\ UNCHANGED trace) \/ Leave(j, "failed")
      BY <1>6 DEF RecordIntent, In
    <2>2. CASE GoOn(j, "routing") /\ UNCHANGED trace
      BY <2>1, <2>2, GoOnTurns DEF Steps, Holds
    <2> QED
      BY <2>1, <2>2, LeaveTurns
  <1>7. CASE ScoreAnswer(j)
    <2> DEFINE plan == IF Eligible THEN review.mode ELSE "anthropic"
    <2>1. /\ job[j].step = "routing" /\ UNCHANGED <<trace, review>>
          /\ job' = [job EXCEPT ![j].step = "calling", ![j].plan = plan]
      BY <1>7 DEF ScoreAnswer, In
    <2> HIDE DEF plan
    <2>2. /\ \A k \in Jobs \ {j} : job'[k] = job[k] /\ trace'[k] = trace[k]
          /\ job'[j] = [job[j] EXCEPT !.step = "calling", !.plan = plan]
      BY <1>1, <2>1 DEF Domains
    <2>3. job'[j].step = "calling" /\ job'[j].kind = job[j].kind /\ job'[j].used = job[j].used
      BY ONLY <1>1, <2>2 DEF JobFields
    <2>4. TurnIsSound(j)'
      BY <1>1, <2>1, <2>3, TurnMoves DEF Holds
    <2> QED
      BY <2>1, <2>2, <2>4, QuietTurns
  <1> QED
    BY <1>2, <1>3, <1>4, <1>5, <1>6, <1>7

\* An answer that counts fits the turns the handler read under the lock.
LEMMA CallsTurn ==
  ASSUME BInv, RInv, NEW j \in Jobs, NEW p \in Vendors, Transmit(j, p) \/ Return(j, p)
  PROVE  RInv'
  <1>1. /\ JobIsTyped(j) /\ RowsAreTyped(j) /\ Domains /\ TurnIsSound(j)
        /\ DOMAIN job[j] = JobFields
    BY Facts DEF RInv, JobIsTyped
  <1>2. CASE Transmit(j, p)
    <2>1. /\ job[j].step = "calling" /\ UNCHANGED <<trace, review>>
          /\ job' = job \/ job' = [job EXCEPT ![j].skipped = TRUE]
      BY <1>2 DEF Transmit
    <2>2. /\ \A k \in Jobs \ {j} : job'[k] = job[k] /\ trace'[k] = trace[k]
          /\ job'[j] = job[j] \/ job'[j] = [job[j] EXCEPT !.skipped = TRUE]
      BY <1>1, <2>1 DEF Domains
    <2>3. /\ job'[j].step = job[j].step /\ job'[j].kind = job[j].kind
          /\ job'[j].used = job[j].used
      BY ONLY <1>1, <2>2 DEF JobFields
    <2>4. TurnIsSound(j)'
      BY <1>1, <2>1, <2>3, TurnMoves DEF Holds
    <2> QED
      BY <2>1, <2>2, <2>4, QuietTurns
  <1>3. CASE Return(j, p)
    <2>1. /\ job[j].step = "calling" /\ UNCHANGED <<job, review>>
      BY <1>3 DEF Return
    <2>2. PICK back \in Answers(j, p) : trace' = [trace EXCEPT ![j] = Append(@, back)]
      BY <1>3 DEF Return
    <2>3. /\ \A k \in Jobs \ {j} : job'[k] = job[k] /\ trace'[k] = trace[k]
          /\ trace'[j] = Append(trace[j], back)
      BY <1>1, <2>1, <2>2 DEF Domains
    <2>4. IsSeq(trace[j]) /\ DOMAIN trace[j] = 1 .. Len(trace[j]) /\ Len(trace[j]) \in Nat
      BY <1>1, SeqFacts DEF RowsAreTyped
    <2>5. /\ DOMAIN trace'[j] = 1 .. Len(trace[j]) + 1
          /\ \A i \in 1 .. Len(trace[j]) : trace'[j][i] = trace[j][i]
          /\ trace'[j][Len(trace[j]) + 1] = back
      BY <2>3, <2>4, AppendIs
    <2>6. ASSUME job[j].kind = "score", back.outcome = "success"
          PROVE  TurnFits(back.result, job[j].used)
      <3>1. job[j].used = review.used /\ review.used \in 0 .. MaxProbes
        BY <1>1, <2>1, <2>6 DEF TurnIsSound, Holds, RInv, SessionIsSound
      <3>2. PICK data \in Outputs2 :
              back = LET result == Parse(data, job[j].used)
                     IN  [provider |-> p, result |-> result,
                          outcome |-> IF result.status = "invalid"
                                      THEN "invalid_contract" ELSE "success"]
        BY <2>6 DEF Answers
      <3> DEFINE result == Parse(data, job[j].used)
      <3>3. back.result = result /\ result.status # "invalid"
        BY <2>6, <3>2
      <3> QED
        BY <3>1, <3>3, ParsedIs
    <2>7. TurnIsSound(j)'
      <3>1. SUFFICES ASSUME job[j].kind = "score" PROVE TurnIsSound(j)'
        BY <2>1 DEF TurnIsSound
      <3>2. ASSUME NEW i \in DOMAIN trace'[j], trace'[j][i].outcome = "success"
            PROVE  TurnFits(trace'[j][i].result, job[j].used)
        <4>1. CASE i \in 1 .. Len(trace[j])
          BY <1>1, <2>4, <2>5, <3>1, <3>2, <4>1 DEF TurnIsSound
        <4>2. CASE i = Len(trace[j]) + 1
          BY <2>5, <2>6, <3>1, <3>2, <4>2
        <4> QED
          BY <2>4, <2>5, <4>1, <4>2
      <3> QED
        BY <1>1, <2>1, <3>1, <3>2 DEF TurnIsSound, Holds
    <2> QED
      BY <2>1, <2>3, <2>7, QuietTurns
  <1> QED
    BY <1>2, <1>3

\* The one step that moves the session: it takes an answer the parser admitted.
LEMMA CommitTurns ==
  ASSUME BInv, RInv, NEW j \in Jobs, CommitTurn(j)
  PROVE  RInv'
  <1>1. job[j].kind = "score" /\ job[j].step = "recorded" /\ Holds(j)
    BY DEF CommitTurn, In, Holds
  <1>2. /\ JobIsTyped(j) /\ RowsAreTyped(j) /\ Domains /\ TurnIsSound(j) /\ ReviewIsTyped
        /\ SessionIsSound /\ boundary = j
    BY <1>1, Facts DEF RInv
  <1>3. CASE review' = review /\ Leave(j, "failed")
    BY <1>3, LeaveTurns
  <1> DEFINE result == trace[j][LastOf(j, Authority(j))].result
  <1>4. CASE TurnWritten(result) /\ Leave(j, "applied")
    <2>1. /\ LastOf(j, Authority(j)) \in DOMAIN trace[j]
          /\ trace[j][LastOf(j, Authority(j))].outcome = "success"
      BY <1>1, <1>2, ScoredWas DEF TurnIsSound, RowsAreTyped
    <2>2. TurnFits(result, review.used)
      BY <1>1, <1>2, <2>1 DEF TurnIsSound
    <2> HIDE DEF result
    <2>3. SessionIsSound'
      <3>1. CASE result.status = "follow_up"
        <4>1. review' = [review EXCEPT !.used = review.used + 1]
          BY <1>4, <3>1 DEF TurnWritten
        <4>2. /\ review'.used = review.used + 1 /\ review'.done = review.done
              /\ review'.card = review.card
          BY ONLY <1>2, <4>1 DEF ReviewIsTyped
        <4>3. review.used + 1 \in 0 .. MaxProbes
          BY <1>2, <2>2, <3>1, ProbesAssumption DEF TurnFits, SessionIsSound
        <4> QED
          BY <1>2, <4>2, <4>3 DEF SessionIsSound
      <3>2. CASE result.status # "follow_up"
        <4>1. PICK contract \in {1, 2}, mode \in Modes :
                review' = [review EXCEPT
                    !.used = 0, !.contract = contract, !.mode = RouteForSession(contract, mode),
                    !.done = Append(@, result.recall),
                    !.card = ApplySM2(@, QualityFor(result.recall))]
          BY <1>4, <3>2 DEF TurnWritten
        <4> DEFINE route == RouteForSession(contract, mode)
                   done == Append(review.done, result.recall)
                   card == ApplySM2(review.card, QualityFor(result.recall))
        <4>2. review' = [review EXCEPT !.used = 0, !.contract = contract, !.mode = route,
                                       !.done = done, !.card = card]
          BY <4>1
        <4>3. review.done \in Seq(Int) /\ result.recall \in Int
          BY <1>2, <2>2, <3>2 DEF TurnFits, SessionIsSound
        <4>4. FollowsHistory(card, done) /\ card.interval \in Nat
          BY <1>2, <4>3, NextFollows DEF SessionIsSound
        <4>5. done \in Seq(Int)
          BY <4>3
        <4> HIDE DEF route, done, card
        <4>6. review'.used = 0 /\ review'.done = done /\ review'.card = card
          BY ONLY <1>2, <4>2 DEF ReviewIsTyped
        <4> QED
          BY <4>4, <4>5, <4>6, ProbesAssumption DEF SessionIsSound
      <3> QED
        BY <3>1, <3>2
    <2>4. /\ \A k \in Jobs \ {j} : job'[k] = job[k] /\ trace'[k] = trace[k]
          /\ ~Holds(j)' /\ trace'[j] = << >> /\ job'[j].step = "applied"
      BY <1>4, LeaveIs
    <2>5. \A k \in Jobs \ {j} : ~Holds(k)
      BY <1>2, Facts
    <2>6. \A k \in Jobs \ {j} : TurnIsSound(k)'
      BY <2>4, <2>5, TurnRests DEF RInv
    <2>7. TurnIsSound(j)'
      BY <2>4, EmptyIs DEF TurnIsSound
    <2> QED
      BY <2>3, <2>6, <2>7 DEF RInv
  <1> QED
    BY <1>3, <1>4 DEF CommitTurn

LEMMA RulesKeep ==
  ASSUME BInv, RInv, [BudgetNext]_budgetVars
  PROVE  RInv'
  <1>1. CASE UNCHANGED <<job, trace, review>>
    BY <1>1, TurnRests DEF RInv, SessionIsSound
  <1>2. CASE ProcessDies
    <2>1. /\ review' = review /\ trace' = [j \in Jobs |-> << >>]
          /\ job' = [j \in Jobs |-> IF job[j].step \in Ended THEN job[j]
                                    ELSE [Idle EXCEPT !.kind = job[j].kind, !.step = "failed"]]
      BY <1>2 DEF ProcessDies
    <2>2. ASSUME NEW k \in Jobs PROVE TurnIsSound(k)'
      <3>1. trace'[k] = << >>
        BY <2>1
      <3>2. job'[k].step \in {"idle", "applied", "failed", "refused"}
        BY <2>1 DEF Ended, Idle
      <3> QED
        BY <3>1, <3>2, EmptyIs DEF TurnIsSound, Holds
    <2> QED
      BY <2>1, <2>2 DEF RInv, SessionIsSound
  <1>3. ASSUME NEW j \in Jobs, RecordCalls(j) PROVE RInv'
    <2>1. /\ job[j].kind = "score" /\ job[j].step = "calling" /\ review' = review
          /\ \/ Scored(j) /\ GoOn(j, "recorded") /\ UNCHANGED trace
             \/ Leave(j, "failed")
      BY <1>3 DEF RecordCalls, Settled
    <2>2. CASE Scored(j) /\ GoOn(j, "recorded") /\ UNCHANGED trace
      BY <2>1, <2>2, GoOnTurns DEF Steps, Holds
    <2> QED
      BY <2>1, <2>2, LeaveTurns
  <1>4. ASSUME NEW j \in Jobs, EndImport(j) PROVE RInv'
    <2> DEFINE outcome == IF Scored(j) THEN "applied" ELSE "failed"
    <2>1. Leave(j, outcome) /\ review' = review /\ outcome \in {"applied", "failed", "refused"}
      BY <1>4 DEF EndImport
    <2> HIDE DEF outcome
    <2> QED
      BY <2>1, LeaveTurns
  <1>5. ASSUME NEW j \in Jobs, AuthorizeRetry(j) PROVE RInv'
    <2>1. /\ job[j].kind = "import" /\ job[j].step = "calling" /\ GoOn(j, "retrying")
          /\ UNCHANGED <<trace, review>>
      BY <1>5 DEF AuthorizeRetry, In
    <2> QED
      BY <2>1, GoOnTurns DEF Steps
  <1>6. ASSUME NEW j \in Jobs, EndQuestion(j) PROVE RInv'
    BY <1>6, LeaveTurns DEF EndQuestion
  <1> QED
    BY <1>1, <1>2, <1>3, <1>4, <1>5, <1>6, BudgetTurns, CallsTurn, CommitTurns
    DEF BudgetNext, Expire, budgetVars, Vendors

LEMMA RulesStart ==
  ASSUME BudgetInit
  PROVE  RInv
  <1>1. /\ review.used = 0 /\ review.done = << >> /\ review.card = NewCard
        /\ job = [j \in Jobs |-> Idle]
    BY DEF BudgetInit
  <1>2. Lapses(<< >>) = 0 /\ Streak(<< >>) = 0
    <2>1. {i \in DOMAIN << >> : ~Passes(<< >>[i])} = {}
      OBVIOUS
    <2>2. {i \in DOMAIN << >> : \A k \in i .. Len(<< >>) : Passes(<< >>[k])} = {}
      OBVIOUS
    <2> QED
      BY ONLY <2>1, <2>2, FS_EmptySet DEF Lapses, Streak
  <1>3. FollowsHistory(NewCard, << >>) /\ NewCard.interval \in Nat
    BY <1>2 DEF FollowsHistory, NewCard, Clamp
  <1>4. SessionIsSound
    BY <1>1, <1>3, ProbesAssumption DEF SessionIsSound
  <1>5. \A j \in Jobs : job[j].kind # "score"
    BY <1>1 DEF Idle
  <1> QED
    BY <1>4, <1>5 DEF RInv, TurnIsSound

\* The inductive invariant of the turns and the schedule.
LEMMA RulesStand == BudgetSpec => []RInv
  <1>1. BudgetInit => RInv
    BY RulesStart
  <1>2. BInv /\ RInv /\ [BudgetNext]_budgetVars => RInv'
    BY RulesKeep
  <1> QED
    BY <1>1, <1>2, BudgetStaysSound, PTL DEF BudgetSpec

\* The scoring rules bound a session, compare providers by everything a score decides
\* and read only whole responses, and the schedule follows the completed reviews
\* (parse_score_result, parse_score_v2_result, apply_sm2, compare_shadow_results).
THEOREM RulesStayTrue == BudgetSpec => []RulesHold
  <1>1. RInv => RulesHold
    <2>1. ASSUME RInv PROVE review.used <= MaxProbes /\ FollowsHistory(review.card, review.done)
      BY <2>1, ProbesAssumption DEF RInv, SessionIsSound
    <2> QED
      BY <2>1, TurnsBounded, ScheduleFollows, MatchesHarmless, ResponsesWhole DEF RulesHold
  <1> QED
    BY <1>1, RulesStand, PTL

=============================================================================
