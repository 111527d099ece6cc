---------------------------- MODULE ReviewSession ----------------------------
(****************************************************************************)
(* The scored recall session of one card, as the HTTP handlers of            *)
(* src/api/app/routers/sessions.py run it against PostgreSQL (READ           *)
(* COMMITTED), together with the handlers of routers/cards.py that share     *)
(* the card row lock with it and the consent writes that share the account   *)
(* advisory lock.                                                            *)
(*                                                                           *)
(* A request slot r runs one handler at a time.  Its steps are the places    *)
(* where another request can run in between: two statements outside a lock,  *)
(* a wait for a lock, the provider call.  work[r] is what the handler has    *)
(* in its ORM session, so it can be older than the rows.                     *)
(****************************************************************************)
EXTENDS Naturals, Sequences, FiniteSets

CONSTANTS
  Requests,      \* slots for requests in flight
  Sessions,      \* ids a session row can get
  Texts,         \* what a learner can submit (never blank)
  None,          \* SQL NULL, the empty string, a free lock
  NoTurn,        \* a client that sends no turn_index
  MaxFollowUps,  \* llm.MAX_SCORED_FOLLOW_UPS
  MaxEdits,      \* bound on edits of the card's question inputs
  TurnIndices,   \* the turn_index values clients send
  Contracts,     \* scoring contract versions a deployment may activate
  Operations     \* the operations the environment may invoke

ASSUME BoundsAssumption == MaxFollowUps \in Nat /\ MaxEdits \in Nat
ASSUME FiniteAssumption == IsFiniteSet(Sessions)
ASSUME NullAssumption ==
  /\ None \notin Requests \cup Sessions \cup Texts \cup Nat \cup {NoTurn}
  /\ NoTurn \notin Nat
ASSUME InputAssumption ==
  /\ TurnIndices \subseteq (0 .. MaxFollowUps) \cup {NoTurn}
  /\ Contracts \subseteq {1, 2}

Turns == 0 .. MaxFollowUps
Live == {"open", "awaiting"}
Qualities == {"pass", "fail"}        \* accuracy >= 3, accuracy <= 2

VARIABLES
  \* the card row
  lifecycle, question, inputs, recallHeld, schedule, lastReviewed, mastery,
  clock,         \* the latest ended_at written: time, as far as it is compared
  \* the session rows and their probes
  status, setup, answer, probes, draft, accuracy, endedAt, focus,
  reattempt, coaching,
  \* locks and the consent column of the account
  accountLock, cardLock, rowLock, consent,
  \* the requests
  pc, req, work, reply

cardVars == <<lifecycle, question, inputs, recallHeld, schedule,
              lastReviewed, mastery, clock>>
rowVars == <<status, setup, answer, probes, draft, accuracy, endedAt, focus,
             reattempt, coaching>>
lockVars == <<accountLock, cardLock, rowLock>>
reqVars == <<pc, req, work, reply>>
vars == <<cardVars, rowVars, lockVars, consent, reqVars>>

------------------------------------------------------------------------------
(* Types.                                                                    *)

Ops == {"start", "draft", "abandon", "answer", "reattempt", "coaching"}
EnvironmentOps == {"learn", "ground", "archive", "consent"}
ASSUME OperationsAssumption == Operations \subseteq Ops \cup EnvironmentOps

Questions == (0 .. MaxEdits) \cup {None}
Drafts == Turns \cup {NoTurn, None}      \* the turn a draft was typed for
Setups == [practice : BOOLEAN, contract : {1, 2}, asked : Questions]

RequestRecords ==
  [op : Ops \cup {"none"}, session : Sessions \cup {None},
   turn : Turns \cup {NoTurn}, text : Texts \cup {None}, practice : BOOLEAN]
NoRequest == [op |-> "none", session |-> None, turn |-> NoTurn, text |-> None,
              practice |-> FALSE]

Works ==
  [status : Live \cup {"none", "complete", "abandoned"}, probes : Turns,
   answer : [Turns -> Texts \cup {None}], draft : Drafts,
   generated : Questions, stale : 0 .. 1,
   verdict : Qualities \cup {"none", "follow_up"}]
NoWork == [status |-> "none", probes |-> 0, answer |-> [t \in Turns |-> None],
           draft |-> None, generated |-> None, stale |-> 0, verdict |-> "none"]

ReplyKinds == {"none", "ok", "refused", "mismatch", "lost", "resumed",
               "follow_up", "completed"}
Replies == [kind : ReplyKinds, turn : Turns, isFollowUp : BOOLEAN,
            draft : Drafts, schedule : Seq(Qualities)]
Reply(kind) == [kind |-> kind, turn |-> 0, isFollowUp |-> FALSE,
                draft |-> None, schedule |-> << >>]

Stages == {"idle", "probes", "account", "card", "provider", "write", "replay",
           "draft", "abandon", "read", "resume", "generate", "insert"}

CardTypes ==
  /\ lifecycle \in {"active", "archived"}
  /\ question \in Questions
  /\ inputs \in 0 .. MaxEdits
  /\ recallHeld \in BOOLEAN
  /\ schedule \in Seq(Qualities)
  /\ lastReviewed \in Nat /\ clock \in Nat
  /\ mastery \in Sessions \cup {None}

RowTypes ==
  /\ status \in [Sessions -> Live \cup {"none", "complete", "abandoned"}]
  /\ setup \in [Sessions -> Setups]
  /\ answer \in [Sessions -> [Turns -> Texts \cup {None}]]
  /\ probes \in [Sessions -> Turns]
  /\ draft \in [Sessions -> Drafts]
  /\ accuracy \in [Sessions -> Qualities \cup {"none"}]
  /\ endedAt \in [Sessions -> Nat]
  /\ focus \in [Sessions -> Nat]
  /\ reattempt \in [Sessions -> Texts \cup {None}]
  /\ coaching \in [Sessions -> Texts \cup {None}]

LockTypes ==
  /\ accountLock \in Requests \cup {None}
  /\ cardLock \in Requests \cup {None}
  /\ rowLock \in [Sessions -> Requests \cup {None}]

RequestTypes ==
  /\ pc \in [Requests -> Stages]
  /\ req \in [Requests -> RequestRecords]
  /\ work \in [Requests -> Works]
  /\ reply \in [Requests -> Replies]

TypeOK == CardTypes /\ RowTypes /\ LockTypes /\ RequestTypes /\ consent \in BOOLEAN

Init ==
  /\ lifecycle = "active" /\ question \in {None, 0} /\ inputs = 0
  /\ recallHeld = FALSE /\ schedule = << >> /\ lastReviewed = 0
  /\ mastery = None /\ clock = 0
  /\ status = [s \in Sessions |-> "none"]
  /\ setup = [s \in Sessions |->
                [practice |-> FALSE, contract |-> 1, asked |-> None]]
  /\ answer = [s \in Sessions |-> [t \in Turns |-> None]]
  /\ probes = [s \in Sessions |-> 0]
  /\ draft = [s \in Sessions |-> None]
  /\ accuracy = [s \in Sessions |-> "none"]
  /\ endedAt = [s \in Sessions |-> 0]
  /\ focus = [s \in Sessions |-> 0]
  /\ reattempt = [s \in Sessions |-> None]
  /\ coaching = [s \in Sessions |-> None]
  /\ accountLock = None /\ cardLock = None
  /\ rowLock = [s \in Sessions |-> None]
  /\ consent = TRUE
  /\ pc = [r \in Requests |-> "idle"]
  /\ req = [r \in Requests |-> NoRequest]
  /\ work = [r \in Requests |-> NoWork]
  /\ reply = [r \in Requests |-> Reply("none")]

------------------------------------------------------------------------------
(* What the handlers read.                                                   *)

LiveSessions == {s \in Sessions : status[s] \in Live}
Held(lock) == lock # None

\* A handler's ORM session keeps an entity it has already loaded: selecting the
\* probe again does not overwrite its answer (no populate_existing), while a
\* probe row it has not seen and the refreshed session row arrive current.
ReloadedNever(w, s) == w                                          \* mutant
Reloaded(w, s) ==
  [w EXCEPT !.status = status[s],
            !.probes = probes[s],
            !.answer = [t \in Turns |->
                          IF t \in 1 .. w.probes THEN w.answer[t]
                                                 ELSE answer[s][t]]]

\* _pending_probe: the probe a session waits on, or its first turn.
HasPending(w) ==
  w.status = "awaiting" /\ w.probes > 0 /\ w.answer[w.probes] = None
ExpectedTurnZeroBased(w) == IF HasPending(w) THEN w.probes - 1 ELSE 0  \* mutant
ExpectedTurn(w) == IF HasPending(w) THEN w.probes ELSE 0

\* _replayed_answer: the request repeats a turn that already led to a probe.
AnsweredTurn(w, q) == q.turn # NoTurn /\ q.turn < w.probes
RepeatsTurn(w, q) ==
  \/ AnsweredTurn(w, q) /\ w.answer[q.turn] = q.text
  \/ q.turn = NoTurn /\ HasPending(w) /\ w.answer[w.probes - 1] = q.text
ContradictsTurn(w, q) == AnsweredTurn(w, q) /\ w.answer[q.turn] # q.text
ProbeAfter(w, q) == IF q.turn = NoTurn THEN w.probes ELSE q.turn + 1

\* _is_completed_answer_replay: the request repeats the turn that completed.
FinalTurn(w, q) == w.status = "complete" /\ q.turn = w.probes
RepeatsFinal(w, q) == FinalTurn(w, q) /\ w.answer[w.probes] = q.text
ContradictsFinal(w, q) == FinalTurn(w, q) /\ w.answer[w.probes] # q.text

ReviewedSinceIgnored(s) == FALSE                                  \* mutant
ReviewedSince(s) == lastReviewed > endedAt[s]
StillHasResultAlways(s) == TRUE                                   \* mutant
StillHasResult(s) == lastReviewed = endedAt[s]
Tried(s) == reattempt[s] # None
Coached(s) == coaching[s] # None

------------------------------------------------------------------------------
(* How a request moves.  End releases every lock the transaction holds.      *)

GoTo(r, stage) == pc' = [pc EXCEPT ![r] = stage]
Remember(r, w) == work' = [work EXCEPT ![r] = w]

Unlocked(r, lock) == IF lock = r THEN None ELSE lock
ReleaseKeepsAccount(r) ==                                         \* mutant
  /\ UNCHANGED accountLock
  /\ cardLock' = Unlocked(r, cardLock)
  /\ rowLock' = [s \in Sessions |-> Unlocked(r, rowLock[s])]
Release(r) ==
  /\ accountLock' = Unlocked(r, accountLock)
  /\ cardLock' = Unlocked(r, cardLock)
  /\ rowLock' = [s \in Sessions |-> Unlocked(r, rowLock[s])]

End(r, rep) ==
  /\ GoTo(r, "idle")
  /\ Remember(r, NoWork)
  /\ reply' = [reply EXCEPT ![r] = rep]
  /\ req' = [req EXCEPT ![r] =
               IF rep.kind \in {"refused", "lost", "ok"} THEN NoRequest ELSE @]
  /\ Release(r)

Refuse(r) == End(r, Reply("refused"))
Resume(r, turn, isFollowUp, d) ==
  End(r, [Reply("resumed") EXCEPT !.turn = turn, !.isFollowUp = isFollowUp,
                                  !.draft = d])
AskAgain(r, turn) == End(r, [Reply("follow_up") EXCEPT !.turn = turn])
Report(r) == End(r, [Reply("completed") EXCEPT !.schedule = schedule])

\* A handler is called: its arguments are fixed and its first stage is entered.
Call(r, q, stage) ==
  /\ pc[r] = "idle"
  /\ q.op \in Operations
  /\ req' = [req EXCEPT ![r] = q]
  /\ reply' = [reply EXCEPT ![r] = Reply("none")]
  /\ GoTo(r, stage)

At(r, op, stage) == pc[r] = stage /\ req[r].op = op

\* The account advisory lock, then the consent check under it.
EnterAccount(r) ==
  /\ ~Held(accountLock)
  /\ consent
  /\ accountLock' = r
  /\ UNCHANGED <<cardLock, rowLock>>
RefusedConsent(r) == ~Held(accountLock) /\ ~consent /\ Refuse(r)

------------------------------------------------------------------------------
(* start_session                                                             *)

StartCall(r) ==
  \E practice \in BOOLEAN :
    /\ Call(r, [NoRequest EXCEPT !.op = "start", !.practice = practice], "read")
    /\ UNCHANGED <<cardVars, rowVars, lockVars, consent, work>>

Startable == lifecycle = "active" /\ ~recallHeld

\* _resume_or_conflict: the row of the live session; an awaiting one still has
\* to read its probes, in a statement of its own.
ResumeLive(r, account) ==
  \E s \in LiveSessions :
    IF setup[s].practice # req[r].practice THEN Refuse(r)
    ELSE IF status[s] = "open" THEN Resume(r, 0, FALSE, draft[s])
    ELSE /\ GoTo(r, "resume")
         /\ Remember(r, [work[r] EXCEPT !.status = "awaiting",
                                        !.draft = draft[s]])
         /\ req' = [req EXCEPT ![r].session = s]
         /\ accountLock' = account
         /\ UNCHANGED <<cardLock, rowLock, reply>>

\* The second round of the generation loop still has the card of the first one in
\* its ORM session: active, open to recall and without a question.
CardIsCached(r) == work[r].stale = 1

StartRead(r) ==
  LET startable == CardIsCached(r) \/ Startable IN
  /\ At(r, "start", "read")
  /\ \/ ~startable /\ Refuse(r)
     \/ startable /\ ResumeLive(r, accountLock)
     \/ /\ startable /\ LiveSessions = {}
        /\ GoTo(r, IF CardIsCached(r) \/ question = None THEN "account"
                                                         ELSE "insert")
        /\ UNCHANGED <<lockVars, req, work, reply>>
  /\ UNCHANGED <<cardVars, rowVars, consent>>

\* _resumed: the probes are read and the last unanswered one is displayed.
ResumeRead(r) ==
  /\ At(r, "start", "resume")
  /\ LET w == Reloaded(work[r], req[r].session)
         seen == [w EXCEPT !.status = work[r].status]
     IN Resume(r, ExpectedTurn(seen), TRUE, work[r].draft)
  /\ UNCHANGED <<cardVars, rowVars, consent>>

\* usage.ensure_available takes the account lock; everything is read again.
StartTakeAccount(r) ==
  /\ At(r, "start", "account")
  /\ \/ RefusedConsent(r)
     \/ ~Held(accountLock) /\ consent /\ Refuse(r)       \* daily limit
     \/ ~Held(accountLock) /\ consent /\ ~Startable /\ Refuse(r)
     \/ /\ ~Held(accountLock) /\ consent /\ Startable
        /\ ResumeLive(r, r)
     \/ /\ Startable /\ LiveSessions = {}
        /\ EnterAccount(r)
        /\ GoTo(r, IF question = None THEN "generate" ELSE "insert")
        /\ Remember(r, [work[r] EXCEPT !.generated =
                          IF question = None THEN inputs ELSE None])
        /\ UNCHANGED <<req, reply>>
  /\ UNCHANGED <<cardVars, rowVars, consent>>

GenerateQuestion(r) ==
  /\ At(r, "start", "generate")
  /\ \/ Refuse(r)                                        \* LLMError
     \/ GoTo(r, "insert") /\ UNCHANGED <<lockVars, req, work, reply>>
  /\ UNCHANGED <<cardVars, rowVars, consent>>

\* A question generated from inputs that have changed since is thrown away.
StaleGenerationIgnored(r) == FALSE                                \* mutant
StaleGeneration(r) ==
  question = None /\ work[r].generated \notin {None, inputs}

InsertableUnchecked(r) ==                                         \* mutant
  ~StaleGeneration(r) /\ (question # None \/ work[r].generated # None)
Insertable(r) ==
  /\ LiveSessions = {} /\ ~StaleGeneration(r)
  /\ question # None \/ work[r].generated # None

\* The card row lock is taken, everything is checked again and the transaction
\* commits: one step, because nothing is waited for while the lock is held.
InsertSession(r) ==
  \E s \in Sessions, contract \in Contracts :
    /\ status[s] = "none"
    /\ question' = IF question = None THEN work[r].generated ELSE question
    /\ status' = [status EXCEPT ![s] = "open"]
    /\ setup' = [setup EXCEPT ![s] = [practice |-> req[r].practice,
                                      contract |-> contract,
                                      asked |-> question']]
    /\ End(r, Reply("ok"))
    /\ UNCHANGED <<lifecycle, inputs, recallHeld, schedule, lastReviewed,
                   mastery, clock, answer, probes, draft, accuracy, endedAt, focus,
                   reattempt, coaching>>

\* Bound: Sessions has no id left for another row.  The request is dropped, which
\* Crash(r) allows at any time.
NoIdLeft == \A s \in Sessions : status[s] # "none"

StartInsert(r) ==
  /\ At(r, "start", "insert")
  /\ ~Held(cardLock)
  /\ \/ /\ ~Startable /\ Refuse(r)
        /\ UNCHANGED <<cardVars, rowVars>>
     \/ /\ Startable
        /\ \E s \in LiveSessions :
             IF setup[s].practice # req[r].practice THEN Refuse(r)
             ELSE Resume(r, IF status[s] = "open" THEN 0 ELSE probes[s],
                         status[s] = "awaiting", draft[s])
        /\ UNCHANGED <<cardVars, rowVars>>
     \/ /\ Startable /\ LiveSessions = {} /\ StaleGeneration(r)
        /\ \/ work[r].stale = 1 /\ Refuse(r)
           \/ /\ work[r].stale = 0
              /\ GoTo(r, "read")
              /\ Remember(r, [NoWork EXCEPT !.stale = 1])
              /\ Release(r)
              /\ UNCHANGED <<req, reply>>
        /\ UNCHANGED <<cardVars, rowVars>>
     \/ /\ Startable /\ LiveSessions = {}
        /\ question = None /\ work[r].generated = None
        /\ Refuse(r)
        /\ UNCHANGED <<cardVars, rowVars>>
     \/ Startable /\ Insertable(r) /\ InsertSession(r)
     \/ /\ NoIdLeft /\ LiveSessions = {} /\ End(r, Reply("lost"))
        /\ UNCHANGED <<cardVars, rowVars>>
  /\ UNCHANGED consent

------------------------------------------------------------------------------
(* save_draft: only the session row is locked, never the card.               *)

DraftCall(r) ==
  \E s \in Sessions, t \in TurnIndices :
    /\ status[s] # "none" /\ ~Held(rowLock[s])
    /\ Call(r, [NoRequest EXCEPT !.op = "draft", !.session = s, !.turn = t],
            "draft")
    /\ rowLock' = [rowLock EXCEPT ![s] = r]
    /\ UNCHANGED <<cardVars, rowVars, accountLock, cardLock, consent, work>>

DraftTurnIsCurrent(s, t) ==
  CASE t = NoTurn -> status[s] \in Live
    [] t = 0      -> status[s] = "open"
    [] OTHER      -> /\ status[s] = "awaiting"
                     /\ t <= probes[s] /\ answer[s][t] = None

DraftWrite(r) ==
  /\ At(r, "draft", "draft")
  /\ LET s == req[r].session
         t == req[r].turn
     IN draft' = [draft EXCEPT ![s] = IF DraftTurnIsCurrent(s, t) THEN t ELSE @]
  /\ End(r, Reply("ok"))
  /\ UNCHANGED <<cardVars, status, setup, answer, probes, accuracy, endedAt,
                 focus, reattempt, coaching, consent>>

------------------------------------------------------------------------------
(* abandon_session                                                           *)

AbandonCall(r) ==
  \E s \in Sessions :
    /\ status[s] \notin {"none", "abandoned"}
    /\ Call(r, [NoRequest EXCEPT !.op = "abandon", !.session = s], "abandon")
    /\ UNCHANGED <<cardVars, rowVars, lockVars, consent, work>>

AbandonCommit(r) ==
  LET s == req[r].session IN
  /\ At(r, "abandon", "abandon")
  /\ ~Held(cardLock) /\ ~Held(rowLock[s])
  /\ \/ /\ status[s] = "abandoned" /\ End(r, Reply("ok"))
        /\ UNCHANGED <<status, endedAt, clock>>
     \/ /\ status[s] = "complete" /\ Refuse(r)
        /\ UNCHANGED <<status, endedAt, clock>>
     \/ /\ status[s] \in Live
        /\ status' = [status EXCEPT ![s] = "abandoned"]
        /\ endedAt' = [endedAt EXCEPT ![s] = clock + 1]
        /\ clock' = clock + 1
        /\ End(r, Reply("ok"))
  /\ UNCHANGED <<lifecycle, question, inputs, recallHeld, schedule,
                 lastReviewed, mastery, setup, answer, probes, draft,
                 accuracy, focus, reattempt, coaching, consent>>

------------------------------------------------------------------------------
(* submit_answer                                                             *)

\* The session row is read without a lock; its probes follow in a statement of
\* their own.
AnswerCall(r) ==
  \E s \in Sessions, t \in TurnIndices, x \in Texts :
    /\ status[s] # "none"
    /\ Call(r, [NoRequest EXCEPT !.op = "answer", !.session = s, !.turn = t,
                                 !.text = x], "probes")
    /\ Remember(r, [NoWork EXCEPT !.status = status[s],
                                  !.answer[0] = answer[s][0]])
    /\ UNCHANGED <<cardVars, rowVars, lockVars, consent>>

AnswerReadProbes(r) ==
  LET s == req[r].session
      w == [work[r] EXCEPT !.probes = probes[s],
                           !.answer = [answer[s] EXCEPT ![0] = work[r].answer[0]]]
  IN
  /\ At(r, "answer", "probes")
  /\ \/ /\ ContradictsTurn(w, req[r]) \/ ContradictsFinal(w, req[r])
        /\ End(r, Reply("mismatch"))
     \/ RepeatsTurn(w, req[r]) /\ AskAgain(r, ProbeAfter(w, req[r]))
     \/ /\ ~AnsweredTurn(w, req[r]) /\ ~RepeatsTurn(w, req[r])
        /\ \/ /\ RepeatsFinal(w, req[r])
              /\ GoTo(r, "replay") /\ Remember(r, w)
              /\ UNCHANGED <<lockVars, req, reply>>
           \/ /\ ~FinalTurn(w, req[r]) /\ w.status \notin Live
              /\ Refuse(r)
           \/ /\ w.status \in Live
              /\ GoTo(r, "account") /\ Remember(r, w)
              /\ UNCHANGED <<lockVars, req, reply>>
  /\ UNCHANGED <<cardVars, rowVars, consent>>

\* The completed result is rebuilt only while the card still carries it.
ReportOrRefuse(r) ==
  IF StillHasResult(req[r].session) THEN Report(r) ELSE Refuse(r)

AnswerReplay(r) ==
  /\ At(r, "answer", "replay")
  /\ ~Held(cardLock)
  /\ ReportOrRefuse(r)
  /\ UNCHANGED <<cardVars, rowVars, consent>>

\* require_ai_processing, for the three handlers that score or coach.
ScorerTakeAccount(r) ==
  /\ pc[r] = "account" /\ req[r].op \in {"answer", "reattempt", "coaching"}
  /\ \/ RefusedConsent(r)
     \/ EnterAccount(r) /\ GoTo(r, "card") /\ UNCHANGED <<req, work, reply>>
  /\ UNCHANGED <<cardVars, rowVars, consent>>

\* usage.ensure_available refuses, or the provider is called under both locks.
ScoreUnderCard(r, w) ==
  \/ Refuse(r)
  \/ /\ cardLock' = r
     /\ GoTo(r, "provider") /\ Remember(r, w)
     /\ UNCHANGED <<accountLock, rowLock, req, reply>>

\* The checks of submit_answer once it holds the card lock.
Scorable(w, q, observed) ==
  /\ w.status = observed
  /\ w.status \in Live
  /\ w.status = "awaiting" => HasPending(w)
  /\ q.turn \in {NoTurn, ExpectedTurn(w)}

AnswerTakeCard(r) ==
  LET w == Reloaded(work[r], req[r].session)
      q == req[r]
      active == lifecycle = "active"
  IN
  /\ At(r, "answer", "card")
  /\ ~Held(cardLock)
  /\ \/ ContradictsFinal(w, q) /\ End(r, Reply("mismatch"))
     \/ RepeatsFinal(w, q) /\ ReportOrRefuse(r)
     \/ ~FinalTurn(w, q) /\ ~active /\ Refuse(r)
     \/ active /\ ContradictsTurn(w, q) /\ End(r, Reply("mismatch"))
     \/ active /\ RepeatsTurn(w, q) /\ AskAgain(r, ProbeAfter(w, q))
     \/ /\ active /\ ~FinalTurn(w, q)
        /\ ~AnsweredTurn(w, q) /\ ~RepeatsTurn(w, q)
        /\ IF Scorable(w, q, work[r].status) THEN ScoreUnderCard(r, w)
                                             ELSE Refuse(r)
  /\ UNCHANGED <<cardVars, rowVars, consent>>

\* A probe past the cap is turned into an error.
PastNoCap(w) == FALSE                                             \* mutant
PastCap(w) == ExpectedTurn(w) >= MaxFollowUps

\* The scorer answers.
AnswerScored(r) ==
  /\ At(r, "answer", "provider")
  /\ \/ Refuse(r)                  \* LLMError, audit failure, wrong contract
     \/ \E verdict \in Qualities \cup {"follow_up"} :
          IF verdict = "follow_up" /\ PastCap(work[r])
          THEN Refuse(r)
          ELSE /\ GoTo(r, "write")
               /\ Remember(r, [work[r] EXCEPT !.verdict = verdict])
               /\ UNCHANGED <<lockVars, req, reply>>
  /\ UNCHANGED <<cardVars, rowVars, consent>>

\* The session row is locked, then everything is written and committed at once.
AnswerCommitFollowUp(r) ==
  LET s == req[r].session
      w == work[r]
      next == w.probes + 1
  IN
  /\ At(r, "answer", "write") /\ w.verdict = "follow_up"
  /\ ~Held(rowLock[s])
  /\ answer' = [answer EXCEPT ![s][ExpectedTurn(w)] = req[r].text]
  /\ probes' = [probes EXCEPT ![s] = next]
  /\ status' = [status EXCEPT ![s] = "awaiting"]
  /\ draft' = [draft EXCEPT ![s] = None]
  /\ AskAgain(r, next)
  /\ UNCHANGED <<cardVars, setup, accuracy, endedAt, focus, reattempt,
                 coaching, consent>>

\* apply_sm2, for a scheduled session only.
ScheduleAlways(s, quality) == Append(schedule, quality)           \* mutant
NextSchedule(s, quality) ==
  IF setup[s].practice THEN schedule ELSE Append(schedule, quality)

\* next_coaching_focus, frozen for a V2 pass.
NextFocus(s, quality) ==
  IF setup[s].contract = 2 /\ quality = "pass"
  THEN Cardinality({t \in Sessions : Coached(t)}) % 2 ELSE focus[s]

AnswerCommitComplete(r) ==
  LET s == req[r].session
      quality == work[r].verdict
      now == clock + 1
  IN
  /\ At(r, "answer", "write") /\ quality \in Qualities
  /\ ~Held(rowLock[s])
  /\ answer' = [answer EXCEPT ![s][ExpectedTurn(work[r])] = req[r].text]
  /\ status' = [status EXCEPT ![s] = "complete"]
  /\ draft' = [draft EXCEPT ![s] = None]
  /\ accuracy' = [accuracy EXCEPT ![s] = quality]
  /\ endedAt' = [endedAt EXCEPT ![s] = now]
  /\ lastReviewed' = now /\ clock' = now
  /\ mastery' \in {mastery, s}      \* the scorer may return no summary
  /\ schedule' = NextSchedule(s, quality)
  /\ focus' = [focus EXCEPT ![s] = NextFocus(s, quality)]
  /\ End(r, [Reply("completed") EXCEPT !.schedule = schedule'])
  /\ UNCHANGED <<lifecycle, question, inputs, recallHeld, setup, probes,
                 reattempt, coaching, consent>>

------------------------------------------------------------------------------
(* submit_reattempt and submit_coaching: one more turn, after the score.     *)

AfterScore(r, op, done) ==
  \E s \in Sessions, x \in Texts :
    /\ status[s] # "none"
    /\ \/ done[s] = None
       \/ done[s] = x /\ op = "reattempt"
    /\ Call(r, [NoRequest EXCEPT !.op = op, !.session = s, !.text = x],
            IF done[s] = None THEN "account" ELSE "replay")
    /\ UNCHANGED <<cardVars, rowVars, lockVars, consent, work>>

ReattemptCall(r) == AfterScore(r, "reattempt", reattempt)
CoachingCall(r) == AfterScore(r, "coaching", coaching)

OkUnlessReviewedSince(r) ==
  IF ReviewedSince(req[r].session) THEN Refuse(r) ELSE End(r, Reply("ok"))

ReattemptReplay(r) ==
  /\ At(r, "reattempt", "replay")
  /\ ~Held(cardLock)
  /\ OkUnlessReviewedSince(r)
  /\ UNCHANGED <<cardVars, rowVars, consent>>

ReattemptTakeCard(r) ==
  LET s == req[r].session IN
  /\ At(r, "reattempt", "card")
  /\ ~Held(cardLock)
  /\ \/ status[s] = "complete" /\ reattempt[s] = req[r].text
        /\ OkUnlessReviewedSince(r)
     \/ /\ status[s] # "complete" \/ Tried(s) \/ accuracy[s] # "fail"
           \/ ReviewedSince(s)
        /\ reattempt[s] # req[r].text
        /\ Refuse(r)
     \/ /\ status[s] = "complete" /\ ~Tried(s) /\ accuracy[s] = "fail"
        /\ ~ReviewedSince(s)
        /\ ScoreUnderCard(r, work[r])
  /\ UNCHANGED <<cardVars, rowVars, consent>>

CoachingTakeCard(r) ==
  LET s == req[r].session
      offered == setup[s].contract = 2 /\ accuracy[s] = "pass"
  IN
  /\ At(r, "coaching", "card")
  /\ ~Held(cardLock)
  /\ \/ coaching[s] = req[r].text /\ End(r, Reply("ok"))
     \/ /\ coaching[s] # req[r].text
        /\ status[s] # "complete" \/ ~offered \/ Coached(s) \/ ReviewedSince(s)
        /\ Refuse(r)
     \/ /\ status[s] = "complete" /\ offered /\ ~Coached(s) /\ ~ReviewedSince(s)
        /\ ScoreUnderCard(r, work[r])
  /\ UNCHANGED <<cardVars, rowVars, consent>>

CoachScored(r) ==
  /\ pc[r] = "provider" /\ req[r].op \in {"reattempt", "coaching"}
  /\ \/ Refuse(r)
     \/ GoTo(r, "write") /\ UNCHANGED <<lockVars, req, work, reply>>
  /\ UNCHANGED <<cardVars, rowVars, consent>>

ReattemptCommit(r) ==
  LET s == req[r].session IN
  /\ At(r, "reattempt", "write")
  /\ ~Held(rowLock[s])
  /\ reattempt' = [reattempt EXCEPT ![s] = req[r].text]
  /\ draft' = [draft EXCEPT ![s] = None]
  /\ mastery' \in {mastery, s}
  /\ End(r, Reply("ok"))
  /\ UNCHANGED <<lifecycle, question, inputs, recallHeld, schedule,
                 lastReviewed, clock, status, setup, answer, probes,
                 accuracy, endedAt, focus, coaching, consent>>

CoachingCommit(r) ==
  LET s == req[r].session IN
  /\ At(r, "coaching", "write")
  /\ ~Held(rowLock[s])
  /\ coaching' = [coaching EXCEPT ![s] = req[r].text]
  /\ End(r, Reply("ok"))
  /\ UNCHANGED <<cardVars, status, setup, answer, probes, draft, accuracy,
                 endedAt, focus, reattempt, consent>>

------------------------------------------------------------------------------
(* Handlers that run in one critical section of a lock.                      *)

UnderCardLock(op) == op \in Operations /\ ~Held(cardLock)
KeepRequests == UNCHANGED <<lockVars, reqVars>>

\* open_learning reveals the answer after it has committed the recall hold.
OpenLearningAnytime ==                                            \* mutant
  /\ UnderCardLock("learn")
  /\ lifecycle = "active" /\ recallHeld' = TRUE
  /\ UNCHANGED <<lifecycle, question, inputs, schedule, lastReviewed, mastery,
                 clock, rowVars, consent>>
  /\ KeepRequests

OpenLearning ==
  /\ UnderCardLock("learn")
  /\ lifecycle = "active" /\ LiveSessions = {}
  /\ recallHeld' = TRUE
  /\ UNCHANGED <<lifecycle, question, inputs, schedule, lastReviewed, mastery,
                 clock, rowVars, consent>>
  /\ KeepRequests

\* recall_is_available: the time of the hold passes.
RecallHoldEnds ==
  /\ recallHeld /\ recallHeld' = FALSE
  /\ UNCHANGED <<lifecycle, question, inputs, schedule, lastReviewed, mastery,
                 clock, rowVars, consent>>
  /\ KeepRequests

\* update_card_grounding: the question may be set or cleared only before the
\* first session.
NoHistory == \A s \in Sessions : status[s] = "none"

EditGrounding ==
  /\ UnderCardLock("ground")
  /\ LiveSessions = {}
  /\ inputs' \in {inputs, inputs + 1} /\ inputs' <= MaxEdits
  /\ \/ question' = question
     \/ /\ NoHistory
        /\ question' \in {None, inputs'}
  /\ UNCHANGED <<lifecycle, recallHeld, schedule, lastReviewed, mastery,
                 clock, rowVars, consent>>
  /\ KeepRequests

ArchiveCard ==
  /\ UnderCardLock("archive")
  /\ lifecycle = "active" /\ LiveSessions = {}
  /\ lifecycle' = "archived"
  /\ UNCHANGED <<question, inputs, recallHeld, schedule, lastReviewed, mastery,
                 clock, rowVars, consent>>
  /\ KeepRequests

RestoreCard ==
  /\ UnderCardLock("archive")
  /\ lifecycle = "archived" /\ lifecycle' = "active"
  /\ UNCHANGED <<question, inputs, recallHeld, schedule, lastReviewed, mastery,
                 clock, rowVars, consent>>
  /\ KeepRequests

\* ai_consent.record: grant, decline or withdraw under the account lock.
RecordConsentUnlocked ==                                          \* mutant
  /\ "consent" \in Operations
  /\ consent' = ~consent
  /\ UNCHANGED <<cardVars, rowVars>>
  /\ KeepRequests

RecordConsent ==
  /\ "consent" \in Operations /\ ~Held(accountLock)
  /\ consent' = ~consent
  /\ UNCHANGED <<cardVars, rowVars>>
  /\ KeepRequests

\* The process dies or the request is cancelled: the transaction rolls back.
Crash(r) ==
  /\ pc[r] # "idle"
  /\ End(r, Reply("lost"))
  /\ UNCHANGED <<cardVars, rowVars, consent>>

------------------------------------------------------------------------------
Calls(r) ==
  \/ StartCall(r) \/ DraftCall(r) \/ AbandonCall(r)
  \/ AnswerCall(r) \/ ReattemptCall(r) \/ CoachingCall(r)

Step(r) ==
  \/ StartRead(r) \/ ResumeRead(r) \/ StartTakeAccount(r)
  \/ GenerateQuestion(r) \/ StartInsert(r)
  \/ DraftWrite(r) \/ AbandonCommit(r)
  \/ AnswerReadProbes(r) \/ AnswerReplay(r) \/ AnswerTakeCard(r)
  \/ AnswerScored(r) \/ AnswerCommitFollowUp(r) \/ AnswerCommitComplete(r)
  \/ ScorerTakeAccount(r) \/ CoachScored(r)
  \/ ReattemptReplay(r) \/ ReattemptTakeCard(r) \/ ReattemptCommit(r)
  \/ CoachingTakeCard(r) \/ CoachingCommit(r)

Environment ==
  \/ OpenLearning \/ RecallHoldEnds \/ EditGrounding
  \/ ArchiveCard \/ RestoreCard \/ RecordConsent

Next ==
  \/ \E r \in Requests : Calls(r) \/ Step(r) \/ Crash(r)
  \/ Environment

Spec == Init /\ [][Next]_vars

\* PostgreSQL queues lock waiters first come first served, provider calls time
\* out, and the event loop runs every request: a step of r that is possible
\* again and again is taken.
FairSpec == Spec /\ \A r \in Requests : SF_vars(Step(r))

------------------------------------------------------------------------------
(* Safety.                                                                   *)

\* A card never has two sessions in progress, whoever starts, resumes, abandons
\* or answers at the same time (the card lock and uq_sessions_live_card).
OneLiveSession == \A s, t \in LiveSessions : s = t

\* The transcript has no gap: the answered turns are the first ones, exactly
\* the last probe of a waiting session is unanswered, and none follows the cap.
AnsweredTurns(s) == {t \in Turns : answer[s][t] # None}
TranscriptHasNoGap ==
  \A s \in Sessions :
    /\ AnsweredTurns(s) =
         IF status[s] = "complete" THEN 0 .. probes[s] ELSE 0 .. (probes[s] - 1)
    /\ status[s] \in {"none", "open"} => probes[s] = 0
    /\ status[s] = "awaiting" => probes[s] > 0

\* A 200 that names a next probe or a score means that the words of this very
\* request are the stored answer of that turn: first response, replay and retry.
AcknowledgedAnswerIsStored ==
  \A r \in Requests :
    LET s == req[r].session IN
    /\ reply[r].kind = "follow_up" =>
         answer[s][reply[r].turn - 1] = req[r].text
    /\ reply[r].kind = "completed" => answer[s][probes[s]] = req[r].text

\* A draft stored by a client that names its turn belongs to the turn the
\* session waits on, so a late upload never shows up under the next question.
DraftBelongsToTurn ==
  \A s \in LiveSessions :
    draft[s] \in Turns => draft[s] = IF status[s] = "open" THEN 0 ELSE probes[s]

\* What the learner sees of a session is what was said, in order: the three hold
\* together through starts, retries, late drafts, abandons and crashes.
TranscriptIsFaithful ==
  TranscriptHasNoGap /\ AcknowledgedAnswerIsStored /\ DraftBelongsToTurn

\* SM-2 was applied once for every completed scheduled session, in the order the
\* reviews ended, and for nothing else: no practice run, re-attempt or abandon.
Reviewed == {s \in Sessions : status[s] = "complete" /\ ~setup[s].practice}
ReviewNumber(s) == Cardinality({t \in Reviewed : endedAt[t] <= endedAt[s]})
ScheduleIsReviewHistory ==
  /\ Len(schedule) = Cardinality(Reviewed)
  /\ \A s \in Reviewed : schedule[ReviewNumber(s)] = accuracy[s]

\* A replayed completion carries the schedule the first response carried, not
\* the one a later review produced.
ReplayedResultIsOriginal ==
  \A r \in Requests :
    reply[r].kind = "completed" =>
      reply[r].schedule = SubSeq(schedule, 1, ReviewNumber(req[r].session))

\* From the moment the trusted answer may be revealed until the hold ends there
\* is no session it could contaminate, even one whose start was under way.
NoRecallWhileHeld == recallHeld => LiveSessions = {}

\* While a provider works on the learner's material the account's consent stands.
ProviderHasConsent ==
  \A r \in Requests : pc[r] \in {"provider", "generate"} => consent

\* Every session of a card asks the card's one question.
OneQuestionPerCard ==
  \A s \in Sessions :
    status[s] # "none" => question # None /\ setup[s].asked = question

------------------------------------------------------------------------------
(* What a step may never do.                                                 *)

\* The mastery summary, live input of the next score, is only ever written by
\* the latest review of the card or by its own re-attempt.
MasteryFromLatestReview ==
  [][\A s \in Sessions :
       mastery' = s /\ (mastery # s \/ reattempt'[s] # reattempt[s]) =>
         endedAt'[s] = lastReviewed']_vars

\* A generated question is stored only if the inputs it was generated from are
\* still the card's.
QuestionIsFresh == [][question' \in {question, None, inputs'}]_vars

\* The question of a card stands: it is never stored stale and never changes
\* under a session.
QuestionStands == []OneQuestionPerCard /\ QuestionIsFresh

------------------------------------------------------------------------------
(* Liveness under FairSpec: no request waits forever, for a lock or in the    *)
(* regeneration loop of start_session.                                       *)
RequestsFinish == \A r \in Requests : pc[r] # "idle" ~> pc[r] = "idle"

------------------------------------------------------------------------------
(* What comments of the code say of the program, and the code does not do.   *)

\* "Treating the duplicate request as the next answer would let one piece of
\* recall evidence occupy two scored turns": the text a handler is about to have
\* scored is not that of the turn its session was waiting on when it was called.
SubmissionFillsOneTurn ==
  \A r \in Requests :
    pc[r] = "provider" /\ req[r].op = "answer" /\ ExpectedTurn(work[r]) > 0 =>
      LET previous == ExpectedTurn(work[r]) - 1 IN
      work[r].answer[previous] = None =>
        answer[req[r].session][previous] # req[r].text
==============================================================================
